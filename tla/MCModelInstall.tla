--------------------------- MODULE MCModelInstall ---------------------------
(* Two files of the speech model: one can be there without the other. *)
EXTENDS ModelInstall
=============================================================================
