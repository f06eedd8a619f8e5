------------------------- MODULE MCRuntimeBootstrap -------------------------
(* Instances of RuntimeBootstrap for TLC.                                  *)
EXTENDS RuntimeBootstrap, TLC

Symmetry == Permutations(Procs)
=============================================================================
