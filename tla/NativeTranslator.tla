-------------------------- MODULE NativeTranslator --------------------------
(***************************************************************************)
(* The owner of a native translation model (NativeTranslator.kt).  One     *)
(* worker translates request after request; other threads cancel a request *)
(* by its id, cancel whatever is active when the session is cancelled, and *)
(* close the translator.  Two locks are at work: contextOwner, held by a   *)
(* translation from end to end, and the monitor, held within one action    *)
(* except by a worker that reads the name of the backend.                  *)
(***************************************************************************)
EXTENDS Integers

CONSTANT MaxRequests        \* bound: requests the worker picks

ASSUME TranslatorAssumption == MaxRequests \in Nat

Requests == 1..MaxRequests

NoRequest == 0              \* NO_REQUEST

VARIABLES handle,           \* the native translator: "loaded" or "freed"
          frees,            \* calls of free()
          closing, activeRequestId, cancelledRequestId, contextOwner,
          cancelled,        \* the native flag
          worker,           \* where the worker is in translateInternal
          picked, last,     \* activeHyRequest; the request picked last
          closer,           \* where the thread in close() is
          canceller, seen,  \* where the thread in CaptionSession.cancel() is
          asked             \* history: requests somebody cancelled

translator == <<handle, frees, closing, activeRequestId, cancelledRequestId,
                contextOwner, cancelled>>
vars == <<translator, worker, picked, last, closer, canceller, seen, asked>>

-----------------------------------------------------------------------------
(* The worker.                                                             *)

(* The loop of CaptionSession finds lifecycle not cancelled ... *)
Loop ==
    /\ worker = "idle" /\ canceller = "idle"
    /\ worker' = "looping"
    /\ UNCHANGED <<translator, picked, last, closer, canceller, seen, asked>>

(* ... and takes the next request, if there is one. *)
Pick ==
    /\ worker = "looping"
    /\ \/ /\ last < MaxRequests
          /\ last' = last + 1 /\ picked' = last + 1
          /\ worker' = "picked"
       \/ /\ worker' = "idle"
          /\ UNCHANGED <<last, picked>>
    /\ UNCHANGED <<translator, closer, canceller, seen, asked>>

Acquire ==
    /\ worker = "picked" /\ contextOwner = "none"
    /\ contextOwner' = "worker"
    /\ worker' = "entering"
    /\ UNCHANGED <<handle, frees, closing, activeRequestId, cancelledRequestId, cancelled,
                   picked, last, closer, canceller, seen, asked>>

(* Mutant: the error of a closed translator leaves the lock taken. *)
Register_KeepsLock ==
    /\ worker = "entering"
    /\ IF closing \/ handle = "freed"
       THEN worker' = "left" /\ UNCHANGED <<contextOwner, activeRequestId>>
       ELSE /\ worker' = "resetting"
            /\ activeRequestId' = picked
            /\ UNCHANGED contextOwner
    /\ UNCHANGED <<handle, frees, closing, cancelledRequestId, cancelled, picked, last,
                   closer, canceller, seen, asked>>

Register ==
    /\ worker = "entering"
    /\ IF closing \/ handle = "freed"
       THEN /\ worker' = "left"
            /\ contextOwner' = "none"
            /\ UNCHANGED activeRequestId
       ELSE /\ worker' = "resetting"
            /\ activeRequestId' = picked
            /\ UNCHANGED contextOwner
    /\ UNCHANGED <<handle, frees, closing, cancelledRequestId, cancelled, picked, last,
                   closer, canceller, seen, asked>>

(* Mutant: the flag of an earlier request stays up. *)
ResetCancellation_Skipped ==
    /\ worker = "resetting"
    /\ worker' = "rechecking"
    /\ UNCHANGED <<translator, picked, last, closer, canceller, seen, asked>>

ResetCancellation ==
    /\ worker = "resetting"
    /\ cancelled' = FALSE
    /\ worker' = "rechecking"
    /\ UNCHANGED <<handle, frees, closing, activeRequestId, cancelledRequestId, contextOwner,
                   picked, last, closer, canceller, seen, asked>>

(* Mutant: a cancellation that the reset wiped is not put back. *)
Recheck_Never ==
    /\ worker = "rechecking"
    /\ worker' = "running"
    /\ UNCHANGED <<translator, picked, last, closer, canceller, seen, asked>>

Recheck ==
    /\ worker = "rechecking"
    /\ cancelled' = (cancelled \/ cancelledRequestId = picked)
    /\ worker' = "running"
    /\ UNCHANGED <<handle, frees, closing, activeRequestId, cancelledRequestId, contextOwner,
                   picked, last, closer, canceller, seen, asked>>

(* run() returns or throws, the request is found superseded or stats() is  *)
(* read: all of it inside the try.                                         *)
RunEnds ==
    /\ worker = "running"
    /\ worker' = "unregistering"
    /\ UNCHANGED <<translator, picked, last, closer, canceller, seen, asked>>

Unregister ==
    /\ worker = "unregistering"
    /\ activeRequestId' = IF activeRequestId = picked THEN NoRequest ELSE activeRequestId
    /\ worker' = "leaving"
    /\ UNCHANGED <<handle, frees, closing, cancelledRequestId, contextOwner, cancelled,
                   picked, last, closer, canceller, seen, asked>>

(* Mutant: whoever closes frees the model, in use or not. *)
FreeIfClosing_InUse(isClosing) ==
    IF isClosing /\ handle = "loaded"
    THEN handle' = "freed" /\ frees' = frees + 1
    ELSE UNCHANGED <<handle, frees>>

(* freeIfClosingLocked() *)
FreeIfClosing(isClosing) ==
    IF isClosing /\ handle = "loaded" /\ activeRequestId = NoRequest
    THEN handle' = "freed" /\ frees' = frees + 1
    ELSE UNCHANGED <<handle, frees>>

(* The end of finally, and of withLock. *)
Leave ==
    /\ worker = "leaving"
    /\ FreeIfClosing(closing)
    /\ contextOwner' = "none"
    /\ worker' = "left"
    /\ UNCHANGED <<closing, activeRequestId, cancelledRequestId, cancelled,
                   picked, last, closer, canceller, seen, asked>>

(* backend, which the worker asks for before its first request and with    *)
(* the metrics of a result: contextOwner is taken ...                      *)
AskBackend ==
    /\ worker \in {"starting", "left"} /\ contextOwner = "none"
    /\ contextOwner' = "worker"
    /\ worker' = "asking"
    /\ UNCHANGED <<handle, frees, closing, activeRequestId, cancelledRequestId, cancelled,
                   picked, last, closer, canceller, seen, asked>>

GiveBack ==
    /\ contextOwner' = "none"
    /\ worker' = IF picked = NoRequest THEN "idle" ELSE "told"

(* ... then the monitor; a freed translator is "Stopped" ... *)
EnterBackend ==
    /\ worker = "asking"
    /\ IF handle = "freed" THEN GiveBack
       ELSE worker' = "reading" /\ UNCHANGED contextOwner
    /\ UNCHANGED <<handle, frees, closing, activeRequestId, cancelledRequestId, cancelled,
                   picked, last, closer, canceller, seen, asked>>

(* ... and the native call returns, with both. *)
BackendReturns ==
    /\ worker = "reading"
    /\ GiveBack
    /\ UNCHANGED <<handle, frees, closing, activeRequestId, cancelledRequestId, cancelled,
                   picked, last, closer, canceller, seen, asked>>

MonitorIsFree == worker # "reading"

(* clearActiveHyRequest *)
ClearPicked ==
    /\ worker \in {"left", "told"}
    /\ picked' = NoRequest
    /\ worker' = "idle"
    /\ UNCHANGED <<translator, last, closer, canceller, seen, asked>>

-----------------------------------------------------------------------------
(* Cancellation.                                                           *)

(* cancel(requestId) *)
CancelId(r) ==
    /\ MonitorIsFree
    /\ cancelledRequestId' = r
    /\ cancelled' = (cancelled \/ (handle = "loaded" /\ activeRequestId = r))
    /\ asked' = asked \cup {r}
    /\ UNCHANGED <<handle, frees, closing, activeRequestId, contextOwner>>

(* A final or a revision supersedes the request the worker has picked, if  *)
(* it is provisional; hyScheduleLock is held.                              *)
CancelPicked ==
    /\ picked # NoRequest
    /\ CancelId(picked)
    /\ UNCHANGED <<worker, picked, last, closer, canceller, seen>>

(* CaptionSession.cancel(): lifecycle.cancel() ... *)
CancelSession ==
    /\ canceller = "idle"
    /\ canceller' = "flagged"
    /\ UNCHANGED <<translator, worker, picked, last, closer, seen, asked>>

(* ... then cancel() reads the active request ... *)
ReadActive ==
    /\ canceller = "flagged"
    /\ seen' = activeRequestId
    /\ canceller' = IF activeRequestId = NoRequest THEN "done" ELSE "read"
    /\ UNCHANGED <<translator, worker, picked, last, closer, asked>>

(* ... and cancels that one. *)
CancelActive ==
    /\ canceller = "read"
    /\ CancelId(seen)
    /\ canceller' = "done"
    /\ UNCHANGED <<worker, picked, last, closer, seen>>

-----------------------------------------------------------------------------
(* close(), by any thread.                                                 *)

CloseBegins ==
    /\ closer = "idle" /\ MonitorIsFree
    /\ closing' = TRUE
    /\ IF handle = "loaded" /\ activeRequestId # NoRequest
       THEN /\ cancelledRequestId' = activeRequestId
            /\ cancelled' = TRUE
            /\ asked' = asked \cup {activeRequestId}
       ELSE UNCHANGED <<cancelledRequestId, cancelled, asked>>
    /\ FreeIfClosing(TRUE)
    /\ closer' = "waiting"
    /\ UNCHANGED <<activeRequestId, contextOwner, worker, picked, last, canceller, seen>>

(* Behind contextOwner, which the thread takes and gives back. *)
CloseEnds ==
    /\ closer = "waiting" /\ contextOwner = "none"
    /\ FreeIfClosing(closing)
    /\ closer' = "done"
    /\ UNCHANGED <<closing, activeRequestId, cancelledRequestId, contextOwner, cancelled,
                   worker, picked, last, canceller, seen, asked>>

-----------------------------------------------------------------------------
Init ==
    /\ handle = "loaded" /\ frees = 0
    /\ closing = FALSE
    /\ activeRequestId = NoRequest /\ cancelledRequestId = NoRequest
    /\ contextOwner = "none"
    /\ cancelled = FALSE
    /\ worker = "starting" /\ picked = NoRequest /\ last = 0
    /\ closer = "idle"
    /\ canceller = "idle" /\ seen = NoRequest
    /\ asked = {}

Entering == Acquire \/ Register \/ ResetCancellation \/ Recheck

Leaving == RunEnds \/ Unregister \/ Leave \/ ClearPicked

Naming == AskBackend \/ EnterBackend \/ BackendReturns

Cancelling == CancelPicked \/ CancelSession \/ ReadActive \/ CancelActive

Next ==
    \/ Loop \/ Pick \/ Entering \/ Leaving \/ Naming
    \/ Cancelling \/ CloseBegins \/ CloseEnds

(* The worker and the closing thread run, and run() returns: it is bounded *)
(* by the output limit and checks the flag between tokens.                 *)
Fairness == WF_vars(Entering \/ Leaving \/ Naming) /\ WF_vars(CloseEnds)

Spec == Init /\ [][Next]_vars /\ Fairness

-----------------------------------------------------------------------------
Inside == {"resetting", "rechecking", "running", "unregistering"}

TypeOK ==
    /\ handle \in {"loaded", "freed"} /\ frees \in Nat
    /\ closing \in BOOLEAN /\ cancelled \in BOOLEAN
    /\ activeRequestId \in Requests \cup {NoRequest}
    /\ cancelledRequestId \in Requests \cup {NoRequest}
    /\ contextOwner \in {"none", "worker"}
    /\ worker \in {"starting", "asking", "reading", "told", "idle", "looping", "picked",
                   "entering", "leaving", "left"} \cup Inside
    /\ picked \in Requests \cup {NoRequest}
    /\ last \in 0..MaxRequests
    /\ closer \in {"idle", "waiting", "done"}
    /\ canceller \in {"idle", "flagged", "read", "done"}
    /\ seen \in Requests \cup {NoRequest}
    /\ asked \subseteq Requests

(***************************************************************************)
(* The native translator is neither run nor asked for its statistics or    *)
(* its backend after it was freed, whoever closes it and when (README:     *)
(* "cancellation does not free an in-use recognizer or translator").       *)
(***************************************************************************)
NeverUsedAfterFree == worker \in Inside \cup {"reading"} => handle = "loaded"

(***************************************************************************)
(* The closing thread and the worker it waits for do not both free.        *)
(***************************************************************************)
FreedAtMostOnce == frees <= 1

(***************************************************************************)
(* When close() returns the model is gone, also when a translation was     *)
(* running as it began.                                                    *)
(***************************************************************************)
ClosedIsFreed == closer = "done" => handle = "freed"

(***************************************************************************)
(* A request runs with the native flag up if and only if it was cancelled  *)
(* itself: a cancellation that came late for the request before does not   *)
(* abort it (LocalTranslator: "abort only obsolete work"), and neither the *)
(* reset on entry nor the cancellation of another request wipes one that   *)
(* came at any moment since it was picked.                                 *)
(***************************************************************************)
AbortedIffAsked == worker = "running" => (cancelled <=> picked \in asked)

(***************************************************************************)
(* What they rest on: a translation inside holds both the lock and the     *)
(* active id, nobody else does, and cancellations are for the request that *)
(* was picked last or for nothing that still matters.                      *)
(***************************************************************************)
ActiveIsInside ==
    /\ worker \in Inside => activeRequestId = picked
    /\ worker \notin Inside => activeRequestId = NoRequest
    /\ worker \in Inside \cup {"entering", "leaving", "asking", "reading"} <=>
         contextOwner = "worker"
    /\ worker \in {"starting", "idle", "looping"} => picked = NoRequest
    /\ picked = NoRequest => worker \in {"starting", "idle", "looping", "asking", "reading"}
    /\ picked # NoRequest => picked = last

AskedIsKnown ==
    /\ cancelledRequestId # NoRequest => cancelledRequestId \in asked
    /\ \A r \in asked : r <= last
    /\ last \in asked => cancelledRequestId = last

SeenIsLast ==
    canceller = "read" => seen = last /\ seen # NoRequest /\ worker # "looping"

OpenUntilClosing ==
    /\ handle = "loaded" <=> frees = 0
    /\ frees <= 1
    /\ handle = "freed" => closing
    /\ closing <=> closer # "idle"
    /\ worker \in Inside \cup {"reading"} => handle = "loaded"
    /\ closer = "done" => handle = "freed"

FlagIsForPicked ==
    /\ worker \in {"rechecking", "running"} /\ cancelled => picked \in asked
    /\ worker = "running" /\ picked \in asked => cancelled

(***************************************************************************)
(* The inductive invariant of the translator, its worker and the threads   *)
(* that cancel and close it.                                               *)
(***************************************************************************)
TranslatorInv ==
    /\ TypeOK
    /\ ActiveIsInside
    /\ AskedIsKnown
    /\ SeenIsLast
    /\ OpenUntilClosing
    /\ FlagIsForPicked

(***************************************************************************)
(* close() returns: the worker it waits for comes out, whichever error it  *)
(* meets on its way.                                                       *)
(***************************************************************************)
CloseReturns == closer = "waiting" ~> closer = "done"
=============================================================================
