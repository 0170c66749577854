----------------------------- MODULE MCJaxRsCall -----------------------------
(* Calls of one service that are alike but for their names.                 *)
EXTENDS JaxRsCall, TLC

Symmetry == Permutations(Call)
=============================================================================
