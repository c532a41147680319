-------------------------- MODULE CorrectionDecode --------------------------
(***************************************************************************)
(* The native recognizer of the correction worker and the audio it decodes *)
(* (NativeResourceUseGate in SessionLifecycle.kt; correctLoop,             *)
(* decodeWithinDeadline and join in CaptionSession.kt).                    *)
(*                                                                         *)
(* The corrector hands each job to a thread of its own and waits for it    *)
(* until the deadline.  When the deadline passes, or the session is        *)
(* cancelled, the native decode cannot be stopped: the recognizer and the  *)
(* PCM must outlive it, be released exactly once by whichever of the two   *)
(* threads comes last, and the session must not count as joined before.    *)
(*                                                                         *)
(* Atomic steps are the synchronized methods of the gate, the state        *)
(* changes of the FutureTask, and single writes to the PCM array and the   *)
(* native object.                                                          *)
(***************************************************************************)
EXTENDS Integers, FiniteSets

CONSTANT MaxJobs         \* bound: jobs the corrector takes from its queue

ASSUME JobsAssumption == MaxJobs \in Nat

Jobs == 1..MaxJobs

VARIABLES corrector,     \* where the corrector thread is
          job,           \* the job it works on, or worked on last; 0 at first
          owned,         \* samplesOwnedByDecode
          retired,       \* engineRetiredByDecode
          closeNow,      \* what retire() returned
          callInUse,
          decoder,       \* job -> where its decode thread is
          task,          \* job -> state of its FutureTask
          gate,          \* job -> its NativeResourceUseGate
          pcm,           \* job -> whether its samples are still there
          decodeThreads, \* correctionDecodeThreads
          closes,        \* how often engine.close() was called
          stopping,      \* "no", or what ended the session: "stop", "cancel"
          interrupted,   \* the corrector's interrupt flag
          joined         \* CaptionSession.join() returned true

correctorVars == <<corrector, job, owned, retired, closeNow, callInUse>>
decoderVars == <<decoder, task, gate, pcm, decodeThreads, closes>>
sessionVars == <<stopping, interrupted, joined>>
vars == <<correctorVars, decoderVars, sessionVars>>

NewGate == [callStarted |-> FALSE, callFinished |-> FALSE,
            retirementRequested |-> FALSE, closed |-> FALSE]

-----------------------------------------------------------------------------
(* The corrector thread.                                                   *)

Poll ==
    /\ corrector = "loop"
    /\ job < MaxJobs
    /\ job' = job + 1
    /\ owned' = FALSE
    /\ corrector' = "polled"
    /\ UNCHANGED <<retired, closeNow, callInUse, decoderVars, sessionVars>>

(* The finally block around one job. *)
EndJob(next) ==
    /\ pcm' = IF owned THEN pcm ELSE [pcm EXCEPT ![job] = "wiped"]
    /\ corrector' = next

(* The caption moved on, or the decode thread could not be started. *)
DropJob ==
    /\ corrector = "polled"
    /\ EndJob("loop")
    /\ UNCHANGED <<job, owned, retired, closeNow, callInUse, decoder, task, gate,
                   decodeThreads, closes, sessionVars>>

(* The budget was used up in the queue: a timeout before any decode. *)
DeadlineElapsedInQueue ==
    /\ corrector = "polled"
    /\ EndJob("exit")
    /\ UNCHANGED <<job, owned, retired, closeNow, callInUse, decoder, task, gate,
                   decodeThreads, closes, sessionVars>>

StartDecoder ==
    /\ corrector = "polled"
    /\ decodeThreads' = decodeThreads \cup {job}
    /\ decoder' = [decoder EXCEPT ![job] = "spawned"]
    /\ owned' = TRUE
    /\ corrector' = "waiting"
    /\ UNCHANGED <<job, retired, closeNow, callInUse, task, gate, pcm, closes, sessionVars>>

(* task.get() returns or throws what the decode threw. *)
GetReturns ==
    /\ corrector = "waiting"
    /\ task[job] = "done"
    /\ EndJob("loop")
    /\ UNCHANGED <<job, owned, retired, closeNow, callInUse, decoder, task, gate,
                   decodeThreads, closes, sessionVars>>

(* Mutant: get() without a deadline. *)
Deadline_Missing ==
    FALSE /\ UNCHANGED vars

(* task.get() times out. *)
Deadline ==
    /\ corrector = "waiting"
    /\ task[job] # "done"
    /\ retired' = TRUE
    /\ corrector' = "retiring"
    /\ UNCHANGED <<job, owned, closeNow, callInUse, decoderVars, sessionVars>>

(* The same handler for InterruptedException. *)
GetInterrupted ==
    /\ corrector = "waiting"
    /\ interrupted
    /\ interrupted' = FALSE
    /\ retired' = TRUE
    /\ corrector' = "retiring"
    /\ UNCHANGED <<job, owned, closeNow, callInUse, decoderVars, stopping, joined>>

(* Mutant: retirement ignores a running call. *)
InUse_Never(g) == FALSE

InUse(g) == g.callStarted /\ ~g.callFinished

(* NativeResourceUseGate.retire() *)
Retire ==
    LET g == gate[job]
        now == ~InUse(g) /\ ~g.closed
    IN  /\ corrector = "retiring"
        /\ callInUse' = InUse(g)
        /\ closeNow' = now
        /\ gate' = [gate EXCEPT ![job] =
                      [g EXCEPT !.retirementRequested = TRUE, !.closed = g.closed \/ now]]
        /\ corrector' = "cancelling"
        /\ UNCHANGED <<job, owned, retired, decoder, task, pcm, decodeThreads, closes,
                       sessionVars>>

(* task.cancel(): without effect on a task that is done.  It cannot stop   *)
(* native code.                                                            *)
CancelTask ==
    /\ corrector = "cancelling"
    /\ task' = [task EXCEPT ![job] = IF @ = "done" THEN @ ELSE "cancelled"]
    /\ corrector' = "wiping"
    /\ UNCHANGED <<job, owned, retired, closeNow, callInUse, decoder, gate, pcm,
                   decodeThreads, closes, sessionVars>>

WipeUnused ==
    /\ corrector = "wiping"
    /\ pcm' = IF callInUse THEN pcm ELSE [pcm EXCEPT ![job] = "wiped"]
    /\ corrector' = "closing"
    /\ UNCHANGED <<job, owned, retired, closeNow, callInUse, decoder, task, gate,
                   decodeThreads, closes, sessionVars>>

(* The timeout breaks the loop, the interrupt is thrown out of it. *)
CloseUnused ==
    /\ corrector = "closing"
    /\ closes' = IF closeNow THEN closes + 1 ELSE closes
    /\ corrector' = "exit"
    /\ UNCHANGED <<job, owned, retired, closeNow, callInUse, decoder, task, gate, pcm,
                   decodeThreads, sessionVars>>

(* The loop condition fails, or sleep() is interrupted. *)
LeaveLoop ==
    /\ corrector = "loop"
    /\ stopping # "no" \/ interrupted
    /\ corrector' = "exit"
    /\ UNCHANGED <<job, owned, retired, closeNow, callInUse, decoderVars, sessionVars>>

(* The finally block of correctLoop(). *)
Exit ==
    /\ corrector = "exit"
    /\ closes' = IF retired THEN closes ELSE closes + 1
    /\ corrector' = "done"
    /\ UNCHANGED <<job, owned, retired, closeNow, callInUse, decoder, task, gate, pcm,
                   decodeThreads, sessionVars>>

-----------------------------------------------------------------------------
(* The decode thread of job j.                                             *)

Goto(j, where) == decoder' = [decoder EXCEPT ![j] = where]

(* FutureTask.run() calls the task unless it was cancelled before. *)
RunTask(j) ==
    /\ decoder[j] = "spawned"
    /\ Goto(j, IF task[j] = "new" THEN "entered" ELSE "leaving")
    /\ UNCHANGED <<correctorVars, task, gate, pcm, decodeThreads, closes, sessionVars>>

(* Mutant: a retired gate still admits the call. *)
BeginCall_Unchecked(j) ==
    /\ decoder[j] = "entered"
    /\ gate' = [gate EXCEPT ![j].callStarted = TRUE]
    /\ Goto(j, "decoding")
    /\ UNCHANGED <<correctorVars, task, pcm, decodeThreads, closes, sessionVars>>

BeginCall(j) ==
    /\ decoder[j] = "entered"
    /\ IF gate[j].retirementRequested
       THEN Goto(j, "refused") /\ UNCHANGED gate
       ELSE /\ Goto(j, "decoding")
            /\ gate' = [gate EXCEPT ![j].callStarted = TRUE]
    /\ UNCHANGED <<correctorVars, task, pcm, decodeThreads, closes, sessionVars>>

WipeRefused(j) ==
    /\ decoder[j] = "refused"
    /\ pcm' = [pcm EXCEPT ![j] = "wiped"]
    /\ Goto(j, "completing")
    /\ UNCHANGED <<correctorVars, task, gate, decodeThreads, closes, sessionVars>>

(* engine.decode() returns or throws. *)
DecodeReturns(j) ==
    /\ decoder[j] = "decoding"
    /\ Goto(j, "decoded")
    /\ UNCHANGED <<correctorVars, task, gate, pcm, decodeThreads, closes, sessionVars>>

WipeDecoded(j) ==
    /\ decoder[j] = "decoded"
    /\ pcm' = [pcm EXCEPT ![j] = "wiped"]
    /\ Goto(j, "finishing")
    /\ UNCHANGED <<correctorVars, task, gate, decodeThreads, closes, sessionVars>>

(* Mutant: the end of the call is not reported. *)
FinishCall_Forgotten(j) ==
    /\ decoder[j] = "finishing"
    /\ Goto(j, "completing")
    /\ UNCHANGED <<correctorVars, task, gate, pcm, decodeThreads, closes, sessionVars>>

(* NativeResourceUseGate.finishCall() *)
FinishCall(j) ==
    LET g == gate[j]
        mine == g.retirementRequested /\ ~g.closed
    IN  /\ decoder[j] = "finishing"
        /\ gate' = [gate EXCEPT ![j] =
                      [g EXCEPT !.callFinished = TRUE, !.closed = g.closed \/ mine]]
        /\ Goto(j, IF mine THEN "closing" ELSE "completing")
        /\ UNCHANGED <<correctorVars, task, pcm, decodeThreads, closes, sessionVars>>

CloseAfterDecode(j) ==
    /\ decoder[j] = "closing"
    /\ closes' = closes + 1
    /\ Goto(j, "completing")
    /\ UNCHANGED <<correctorVars, task, gate, pcm, decodeThreads, sessionVars>>

CompleteTask(j) ==
    /\ decoder[j] = "completing"
    /\ task' = [task EXCEPT ![j] = IF @ = "new" THEN "done" ELSE @]
    /\ Goto(j, "leaving")
    /\ UNCHANGED <<correctorVars, gate, pcm, decodeThreads, closes, sessionVars>>

(* Mutant: the thread stays listed. *)
Leave_KeepsEntry(j) ==
    /\ decoder[j] = "leaving"
    /\ Goto(j, "gone")
    /\ UNCHANGED <<correctorVars, task, gate, pcm, decodeThreads, closes, sessionVars>>

Leave(j) ==
    /\ decoder[j] = "leaving"
    /\ decodeThreads' = decodeThreads \ {j}
    /\ Goto(j, "gone")
    /\ UNCHANGED <<correctorVars, task, gate, pcm, closes, sessionVars>>

-----------------------------------------------------------------------------
(* The session.                                                            *)

Stop ==
    /\ stopping = "no"
    /\ stopping' = "stop"
    /\ UNCHANGED <<correctorVars, decoderVars, interrupted, joined>>

(* cancel() interrupts the corrector as well. *)
Cancel ==
    /\ stopping # "cancel"
    /\ stopping' = "cancel"
    /\ interrupted' = TRUE
    /\ UNCHANGED <<correctorVars, decoderVars, joined>>

(* Mutant: join() ignores decode threads. *)
Join_WorkersOnly ==
    /\ stopping # "no"
    /\ corrector = "done"
    /\ joined' = TRUE
    /\ UNCHANGED <<correctorVars, decoderVars, stopping, interrupted>>

(* join() waits for the workers and then for the decode threads. *)
Join ==
    /\ stopping # "no"
    /\ corrector = "done"
    /\ decodeThreads = {}
    /\ joined' = TRUE
    /\ UNCHANGED <<correctorVars, decoderVars, stopping, interrupted>>

-----------------------------------------------------------------------------
Init ==
    /\ corrector = "loop"
    /\ job = 0
    /\ owned = FALSE
    /\ retired = FALSE
    /\ closeNow = FALSE
    /\ callInUse = FALSE
    /\ decoder = [j \in Jobs |-> "absent"]
    /\ task = [j \in Jobs |-> "new"]
    /\ gate = [j \in Jobs |-> NewGate]
    /\ pcm = [j \in Jobs |-> "held"]
    /\ decodeThreads = {}
    /\ closes = 0
    /\ stopping = "no"
    /\ interrupted = FALSE
    /\ joined = FALSE

Corrector ==
    \/ Poll \/ DropJob \/ DeadlineElapsedInQueue \/ StartDecoder
    \/ GetReturns \/ Deadline \/ GetInterrupted
    \/ Retire \/ CancelTask \/ WipeUnused \/ CloseUnused
    \/ LeaveLoop \/ Exit

(* Everything a decode thread does but the native call itself. *)
Bookkeeping(j) ==
    \/ RunTask(j) \/ BeginCall(j) \/ WipeRefused(j)
    \/ WipeDecoded(j) \/ FinishCall(j) \/ CloseAfterDecode(j)
    \/ CompleteTask(j) \/ Leave(j)

Next ==
    \/ Corrector
    \/ \E j \in Jobs : Bookkeeping(j) \/ DecodeReturns(j)
    \/ Stop \/ Cancel \/ Join

(* The scheduler runs every thread that can run, the deadline passes, and  *)
(* the service retries join().  Nothing is assumed of the native decode.   *)
Fairness ==
    /\ WF_vars(Corrector)
    /\ \A j \in Jobs : WF_vars(Bookkeeping(j))
    /\ WF_vars(Join)

Spec == Init /\ [][Next]_vars /\ Fairness

-----------------------------------------------------------------------------
CorrectorPc == {"loop", "polled", "waiting", "retiring", "cancelling", "wiping",
                "closing", "exit", "done"}

DecoderPc == {"absent", "spawned", "entered", "refused", "decoding", "decoded",
              "finishing", "closing", "completing", "leaving", "gone"}

Gate == [callStarted : BOOLEAN, callFinished : BOOLEAN,
         retirementRequested : BOOLEAN, closed : BOOLEAN]

TypeOK ==
    /\ corrector \in CorrectorPc
    /\ job \in 0..MaxJobs
    /\ owned \in BOOLEAN /\ retired \in BOOLEAN
    /\ closeNow \in BOOLEAN /\ callInUse \in BOOLEAN
    /\ decoder \in [Jobs -> DecoderPc]
    /\ task \in [Jobs -> {"new", "cancelled", "done"}]
    /\ gate \in [Jobs -> Gate]
    /\ pcm \in [Jobs -> {"held", "wiped"}]
    /\ decodeThreads \subseteq Jobs
    /\ closes \in Nat
    /\ stopping \in {"no", "stop", "cancel"} /\ interrupted \in BOOLEAN /\ joined \in BOOLEAN

(***************************************************************************)
(* "Cancellation never releases an in-use object": the native recognizer   *)
(* is never closed while a thread is inside decode(), nor entered after it *)
(* was closed.                                                             *)
(***************************************************************************)
NeverClosedInUse ==
    closes > 0 => \A j \in Jobs : decoder[j] # "decoding"

(***************************************************************************)
(* The recognizer is closed at most once, although a timeout, the decode   *)
(* thread and the corrector's own exit may each close it.                  *)
(***************************************************************************)
ClosedAtMostOnce == closes <= 1

(***************************************************************************)
(* The samples a native decode reads are not zeroed under it.              *)
(***************************************************************************)
PcmIntactWhileDecoding ==
    \A j \in Jobs : decoder[j] = "decoding" => pcm[j] = "held"

(***************************************************************************)
(* Once join() has returned true, nothing of the correction worker is      *)
(* left: the recognizer is closed and the audio of every job it took is    *)
(* zeroed.  A new session may load its own recognizer.                     *)
(***************************************************************************)
JoinedMeansReleased ==
    joined => closes = 1 /\ \A j \in 1..job : pcm[j] = "wiped"

-----------------------------------------------------------------------------
(* The parts of the inductive invariant.                                   *)

(* Jobs still to come are untouched. *)
AheadUntouched ==
    \A j \in Jobs :
        j > job \/ (j = job /\ corrector = "polled") =>
            /\ decoder[j] = "absent" /\ task[j] = "new"
            /\ gate[j] = NewGate /\ pcm[j] = "held"

(* Jobs the corrector is through with are over. *)
BehindOver ==
    \A j \in Jobs :
        j < job \/ (j = job /\ ~retired /\ corrector \in {"loop", "exit", "done"}) =>
            decoder[j] \in {"absent", "leaving", "gone"} /\ pcm[j] = "wiped"

(* The gate, the audio and the task follow the decode thread. *)
ThreadConsistent(j) ==
    /\ gate[j].callStarted => decoder[j] \notin {"absent", "spawned", "entered", "refused"}
    /\ gate[j].callFinished =>
          gate[j].callStarted /\ decoder[j] \in {"closing", "completing", "leaving", "gone"}
    /\ InUse(gate[j]) <=> decoder[j] \in {"decoding", "decoded", "finishing"}
    /\ decoder[j] \in {"spawned", "entered"} => pcm[j] = "held" \/ gate[j].retirementRequested
    /\ decoder[j] \in {"decoding", "decoded"} => pcm[j] = "held"
    /\ gate[j].callStarted /\ decoder[j] \notin {"decoding", "decoded"} => pcm[j] = "wiped"
    /\ decoder[j] = "refused" => gate[j].retirementRequested
    /\ decoder[j] = "closing" => gate[j].callFinished /\ gate[j].closed
    /\ decoder[j] = "completing" => pcm[j] = "wiped"
    /\ task[j] = "done" => decoder[j] \in {"leaving", "gone"} /\ pcm[j] = "wiped"
    /\ task[j] = "cancelled" => gate[j].retirementRequested
    /\ decoder[j] \in {"leaving", "gone"} => task[j] # "new"
    /\ gate[j].closed => gate[j].retirementRequested
    /\ gate[j].retirementRequested => j = job /\ retired /\ corrector # "retiring"

ThreadsConsistent == \A j \in Jobs : ThreadConsistent(j)

ThreadsListed ==
    decodeThreads = {j \in Jobs : decoder[j] \notin {"absent", "gone"}}

CorrectorConsistent ==
    /\ corrector \notin {"loop", "exit", "done"} => job \in Jobs
    /\ corrector \in {"retiring", "cancelling", "wiping", "closing"} => retired
    /\ corrector \in {"loop", "polled", "waiting"} => ~retired
    /\ corrector = "polled" => ~owned
    /\ corrector = "waiting" => owned
    /\ corrector \in {"waiting", "retiring"} => decoder[job] # "absent"

(* After retire(): who closes the recognizer and who wipes the audio. *)
RetirementConsistent ==
    retired =>
        /\ job \in Jobs
        /\ decoder[job] # "absent"
        /\ corrector # "retiring" =>
              /\ gate[job].retirementRequested
              /\ closeNow <=> ~callInUse
              /\ callInUse => gate[job].callStarted
              /\ callInUse => (gate[job].closed <=> gate[job].callFinished)
              /\ closeNow => gate[job].closed /\ ~InUse(gate[job]) /\ decoder[job] # "closing"
              /\ corrector \in {"closing", "exit", "done"} /\ ~callInUse => pcm[job] = "wiped"

ClosesCounted ==
    closes =
        IF ~retired THEN IF corrector = "done" THEN 1 ELSE 0
        ELSE IF corrector = "retiring" THEN 0
        ELSE IF closeNow THEN IF corrector \in {"exit", "done"} THEN 1 ELSE 0
        ELSE IF decoder[job] \in {"completing", "leaving", "gone"} THEN 1 ELSE 0

JoinedLast == joined => corrector = "done" /\ decodeThreads = {}

(***************************************************************************)
(* The inductive invariant behind the theorems about the recognizer: the   *)
(* gate's flags tell where the decode thread is, and exactly one of the    *)
(* two threads owes the call to close().                                   *)
(***************************************************************************)
DecodeInv ==
    /\ TypeOK
    /\ AheadUntouched
    /\ BehindOver
    /\ ThreadsConsistent
    /\ ThreadsListed
    /\ CorrectorConsistent
    /\ RetirementConsistent
    /\ ClosesCounted
    /\ JoinedLast

-----------------------------------------------------------------------------
(***************************************************************************)
(* The deadline frees the corrector although the native decode may never   *)
(* return: the caller queues the uncorrected final in time.                *)
(***************************************************************************)
CorrectorIsNeverStuck == corrector = "waiting" ~> corrector # "waiting"

(***************************************************************************)
(* If native decodes do return, a session that is asked to stop gets rid   *)
(* of its correction worker, recognizer and audio.                         *)
(***************************************************************************)
StopReleasesEverything ==
    (\A j \in Jobs : WF_vars(DecodeReturns(j))) => (stopping # "no" ~> joined)
=============================================================================
