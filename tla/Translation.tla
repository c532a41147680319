----------------------------- MODULE Translation -----------------------------
(***************************************************************************)
(* What a translation engine promises (TranslationEngine of                *)
(* translation.hpp): a request is answered from what it asks and nothing   *)
(* else.  Every token is one that may follow the request and the tokens    *)
(* before it, for this request alone; only a complete text is delivered;   *)
(* an engine may start over a number of times; a cancelled request yields  *)
(* nothing more; and every request ends.                                   *)
(***************************************************************************)
EXTENDS Naturals, Sequences

CONSTANTS Request, Token,
          EndOfText,        \* the token that ends a text
          MaxOutput,        \* the length of a text is below it
          MaxRestarts,      \* how often an engine starts over
          Continues(_, _)   \* what may follow a request and some output

VARIABLES phase,            \* "waiting", "busy", "delivered", "failed"
          request, output, restarts, cancelled

vars == <<phase, request, output, restarts, cancelled>>

Begin(r) ==
    /\ phase # "busy"
    /\ phase' = "busy" /\ request' = r /\ output' = <<>>
    /\ restarts' = 0 /\ cancelled' = FALSE

Emit(token) ==
    /\ phase = "busy" /\ ~cancelled /\ Len(output) < MaxOutput
    /\ token \in Continues(request, output)
    /\ output' = Append(output, token)
    /\ UNCHANGED <<phase, request, restarts, cancelled>>

StartOver ==
    /\ phase = "busy" /\ ~cancelled /\ restarts < MaxRestarts
    /\ output' = <<>> /\ restarts' = restarts + 1
    /\ UNCHANGED <<phase, request, cancelled>>

Deliver ==
    /\ phase = "busy" /\ ~cancelled /\ Len(output) < MaxOutput
    /\ EndOfText \in Continues(request, output)
    /\ phase' = "delivered"
    /\ UNCHANGED <<request, output, restarts, cancelled>>

(* With an error that is reported, or with the process. *)
Fail ==
    /\ phase = "busy"
    /\ phase' = "failed"
    /\ UNCHANGED <<request, output, restarts, cancelled>>

Cancel ==
    /\ cancelled' = TRUE
    /\ UNCHANGED <<phase, request, output, restarts>>

Init ==
    /\ phase = "waiting" /\ request \in Request /\ output = <<>>
    /\ restarts = 0 /\ cancelled = FALSE

Next ==
    \/ \E r \in Request : Begin(r)
    \/ \E token \in Token : Emit(token)
    \/ StartOver \/ Deliver \/ Fail \/ Cancel

Safety == Init /\ [][Next]_vars

Ends == phase = "busy" ~> phase # "busy"

Spec == Safety /\ Ends
=============================================================================
