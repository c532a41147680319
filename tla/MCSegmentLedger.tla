-------------------------- MODULE MCSegmentLedger --------------------------
(* A few hypotheses that grow and are edited; ";" stands for the           *)
(* full-width semicolon that only StablePrefix takes for a word end.       *)
EXTENDS SegmentLedger

MCChar == {"a", "b", "c", " ", ",", ";"}
MCWhitespace == {" "}
MCStablePunct == {",", ";"}
MCPortionPunct == {","}

a   == <<"a">>
ab  == <<"a", " ", "b">>
abc == <<"a", " ", "b", " ", "c">>
abb == <<"a", " ", "b", "b">>    \* a word that goes on
c   == <<"c">>

Growing == {a, ab, abb, abc, c}
=============================================================================
