------------------------------- MODULE MCHyMt -------------------------------
(* Prompts of up to three tokens over two letters, of which the longest    *)
(* leave no room for two tokens of output; a prefill of two tokens at a    *)
(* time takes one or two rounds.                                           *)
EXTENDS HyMt

MCPrompts == {<<"a">>, <<"a", "b">>, <<"a", "b", "a">>, <<"a", "b", "b">>, <<"b">>,
              <<"a", "b", "a", "b">>}

(* Each memory rules out one token, so that most memories that differ      *)
(* allow different outputs.                                                *)
MCLikely(entries) ==
    LET weight == Len(entries)
                  + (IF entries = <<>> THEN 0
                     ELSE entries[1].session + 2 * entries[1].scope
                          + (IF entries[Len(entries)].token = "a" THEN 1 ELSE 0))
    IN  CASE weight % 3 = 0 -> {"b", EndOfText}
          [] weight % 3 = 1 -> {"a", EndOfText}
          [] weight % 3 = 2 -> {"a", "b"}
=============================================================================
