--------------------------- MODULE MCEnergyPlusRun ---------------------------
(* EnergyPlusRun for TLC: the runs of a small instance are interchangeable. *)
EXTENDS EnergyPlusRun, TLC

Symmetry == Permutations(Ids)
=============================================================================
