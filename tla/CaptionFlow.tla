----------------------------- MODULE CaptionFlow -----------------------------
(***************************************************************************)
(* What a caption session promises about the captions of its utterances,   *)
(* without its threads and mailboxes: an utterance that ends gets a        *)
(* caption that waits for its translation; the session holds the final     *)
(* request for it until it is answered, once; a caption that was           *)
(* translated, skipped or cleared does not change again; and only a        *)
(* cancelled session lets go of a request without an answer.               *)
(***************************************************************************)
EXTENDS Integers

CONSTANT Utterances          \* utterances are numbered as they end

VARIABLES over,              \* the session was cancelled
          ended,             \* utterances 1..ended have ended
          held,              \* the final requests the session has
          fate               \* what the captions show

flow == <<over, ended, held, fate>>

(* Also one whose end was being published when the session was cancelled. *)
End ==
    /\ ended + 1 \in Utterances \ held /\ fate[ended + 1] = "none"
    /\ ended' = ended + 1
    /\ held' = held \cup {ended + 1}
    /\ fate' = [fate EXCEPT ![ended + 1] = "pending"]
    /\ UNCHANGED over

(* A caption that was cleared takes no answer. *)
Answer(u, how) ==
    /\ u \in held
    /\ held' = held \ {u}
    /\ fate' = [fate EXCEPT ![u] = IF @ = "pending" THEN how ELSE @]
    /\ UNCHANGED <<over, ended>>

Clear ==
    /\ fate' = [u \in Utterances |-> IF fate[u] = "pending" THEN "cleared" ELSE fate[u]]
    /\ UNCHANGED <<over, ended, held>>

Cancel ==
    /\ ~over /\ over' = TRUE
    /\ UNCHANGED <<ended, held, fate>>

Abandon ==
    /\ over
    /\ held' \subseteq held
    /\ UNCHANGED <<over, ended, fate>>

Init == over = FALSE /\ ended = 0 /\ held = {} /\ fate = [u \in Utterances |-> "none"]

Next ==
    \/ End \/ Clear \/ Cancel \/ Abandon
    \/ \E u \in held, how \in {"translated", "skipped"} : Answer(u, how)

Spec == Init /\ [][Next]_flow
=============================================================================
