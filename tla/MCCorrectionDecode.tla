------------------------- MODULE MCCorrectionDecode -------------------------
(* Three jobs: one that ends in time, one that does not, and one behind    *)
(* them that must never meet the retired recognizer.                       *)
EXTENDS CorrectionDecode
=============================================================================
