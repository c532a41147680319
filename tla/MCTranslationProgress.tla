---------------------- MODULE MCTranslationProgress ----------------------
(* Single bytes of every class that the scan tells apart (a letter, white  *)
(* space, punctuation, every kind of lead, valid or not, and three ranges  *)
(* of continuations), and pieces of several bytes.                         *)
EXTENDS TranslationProgress

MCPieces ==
    {<<b>> : b \in {97, 32, 46, 193, 195, 224, 226, 237, 240, 244, 245, 133, 149, 165}}
    \cup {<<240, 149, 133>>, <<97, 32>>, <<>>}
=============================================================================
