---------------------------- MODULE MCRunComponent ---------------------------
(* RunComponent for TLC: keys differ in nothing but their name.            *)
EXTENDS RunComponent, TLC

Symmetry == Permutations(Keys)
=============================================================================
