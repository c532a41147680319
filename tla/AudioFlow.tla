------------------------------ MODULE AudioFlow ------------------------------
(***************************************************************************)
(* What a caption session promises about the audio it captures, without    *)
(* its threads and mailboxes: chunks are heard in order and at most once,  *)
(* and until the session's mailboxes are closed none of them vanishes.  A  *)
(* chunk that is not heard was counted as dropped: it was the oldest and   *)
(* made room for a new one, or it lay behind one that was dropped before.  *)
(***************************************************************************)
EXTENDS Integers

VARIABLES over,              \* the mailboxes are closed: the session was cancelled
          captured,          \* chunks 1..captured were captured
          waiting,
          taken,             \* found behind a gap, and not yet counted
          heard, dropped

flow == <<over, captured, waiting, taken, heard, dropped>>

IsOldest(c) == c \in waiting /\ \A d \in waiting : c <= d

Capture ==
    /\ ~over
    /\ captured' = captured + 1
    /\ \/ waiting' = waiting \cup {captured + 1} /\ UNCHANGED dropped
       \/ \E c \in waiting :
            /\ IsOldest(c)
            /\ waiting' = (waiting \ {c}) \cup {captured + 1}
            /\ dropped' = dropped \cup {c}
    /\ UNCHANGED <<over, taken, heard>>

Hear(c) ==
    /\ IsOldest(c) /\ \A d \in heard : d < c
    /\ taken = {}
    /\ waiting' = waiting \ {c}
    /\ heard' = heard \cup {c}
    /\ UNCHANGED <<over, captured, taken, dropped>>

(* There is a gap before the oldest chunk ... *)
Take(c) ==
    /\ IsOldest(c) /\ c - 1 \in dropped
    /\ taken = {}
    /\ waiting' = waiting \ {c}
    /\ taken' = {c}
    /\ UNCHANGED <<over, captured, heard, dropped>>

(* ... and what waits by the time it is dealt with goes the same way. *)
Discard ==
    /\ taken # {}
    /\ dropped' = dropped \cup taken \cup waiting
    /\ waiting' = {} /\ taken' = {}
    /\ UNCHANGED <<over, captured, heard>>

Close ==
    /\ ~over /\ over' = TRUE
    /\ waiting' = {}
    /\ UNCHANGED <<captured, taken, heard, dropped>>

(* A chunk that was on its way when the mailboxes were closed. *)
Refuse ==
    /\ over
    /\ captured' = captured + 1
    /\ dropped' = dropped \cup {captured + 1}
    /\ UNCHANGED <<over, waiting, taken, heard>>

Init ==
    /\ over = FALSE /\ captured = 0
    /\ waiting = {} /\ taken = {} /\ heard = {} /\ dropped = {}

Next ==
    \/ Capture \/ Discard \/ Close \/ Refuse
    \/ \E c \in waiting : Hear(c) \/ Take(c)

Spec == Init /\ [][Next]_flow
=============================================================================
