------------------------- MODULE MCNativeTranslator -------------------------
(* Three requests: one that ends, one that a late cancellation of the      *)
(* first must not touch, one after a close.                                *)
EXTENDS NativeTranslator
=============================================================================
