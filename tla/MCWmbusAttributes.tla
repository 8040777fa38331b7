------------------------- MODULE MCWmbusAttributes -------------------------
(* Small instances of WmbusAttributes. *)
EXTENDS WmbusAttributes, TLC

HandlerSymmetry == Permutations(Handlers)
=============================================================================
