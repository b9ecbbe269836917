--------------------------- MODULE MCEnvironment ---------------------------
(* An instance of Environment for TLC. *)
EXTENDS Environment, TLC

CONSTANTS f1, f2, f3, f4

Symm == Permutations(Finalizers)
=============================================================================
