------------------------------- MODULE MCOpus -------------------------------
(* Sources of one to three pieces, of which the longest is refused, and a  *)
(* model that prefers padding, the end or a piece depending on all that it *)
(* attends to.                                                             *)
EXTENDS Opus, FiniteSets

MCSources == {<<"a">>, <<"b">>, <<"a", "b">>, <<"a", "b", "a">>}

MCRanked(attended) ==
    LET source == CHOOSE s \in attended.source : TRUE
        tokens == CHOOSE t \in attended.tokens : TRUE
        same   == Cardinality(attended.source) = 1 /\ Cardinality(attended.tokens) = 1
        rank   == (Len(source) + 2 * Len(tokens)
                   + (IF source # Empty /\ source[1] = "a" THEN 1 ELSE 0)) % 4
    IN  IF ~same THEN <<"b", "a">>
        ELSE CASE rank = 0 -> <<Pad, "a">>
               [] rank = 1 -> <<"a", "b">>
               [] rank = 2 -> <<EndOfText, "b">>
               [] rank = 3 -> <<Pad, "b">>
=============================================================================
