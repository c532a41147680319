-------------------------- MODULE MCCaptionSession --------------------------
(* The configurations give each question the size it needs.  In            *)
(* MCCaptionSession the audio queue overflows, leaves a gap and fills      *)
(* again while the recognizer is rebuilt, with or without an utterance     *)
(* before; and a final is displaced while another is with the corrector or *)
(* with Hy.  SessionStop and SessionStopDrain need one or two of each.     *)
EXTENDS CaptionSession

MaxWork == 4       \* bound: chunks, utterances and provisional requests together

(* A provisional request goes with two chunks: more of them add nothing.   *)
(* A cancelled session is followed for three of all, enough for a gap that *)
(* is found late, or for two utterances of a chunk each, of which one      *)
(* displaces the other.                                                    *)
WithinMaxWork ==
    /\ captured + ended + partials <= MaxWork
    /\ captured > 2 => partials = 0
    /\ cancelled => \/ captured + ended + partials < MaxWork
                    \/ captured = 2 /\ ended = 2
=============================================================================
