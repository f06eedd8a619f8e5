--------------------------- MODULE MCBatchRunner ----------------------------
(* Instances of BatchRunner for TLC.                                       *)
EXTENDS BatchRunner, TLC

Symmetry == Permutations(Runs)
=============================================================================
