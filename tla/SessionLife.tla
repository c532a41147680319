----------------------------- MODULE SessionLife -----------------------------
(***************************************************************************)
(* The life of caption sessions as their owner sees it (what               *)
(* CaptionService relies on and CaptionSession provides): a session is     *)
(* created once, ends only after it was stopped or cancelled, and stays    *)
(* dead: its threads, the microphone and the models are free for good.     *)
(***************************************************************************)
CONSTANT Sessions

VARIABLE phase               \* of each session

Becomes(s, next) == phase' = [phase EXCEPT ![s] = next]

(* The session is cancelled at once if a thread of it cannot start. *)
Create(s) == phase[s] = "none" /\ (Becomes(s, "running") \/ Becomes(s, "cancelled"))

Stop(s) == phase[s] = "running" /\ Becomes(s, "stopping")

Cancel(s) == phase[s] \in {"running", "stopping"} /\ Becomes(s, "cancelled")

Die(s) == phase[s] \in {"stopping", "cancelled"} /\ Becomes(s, "dead")

Init == phase \in [Sessions -> {"none", "running"}]

Next == \E s \in Sessions : Create(s) \/ Stop(s) \/ Cancel(s) \/ Die(s)

Spec == Init /\ [][Next]_phase
=============================================================================
