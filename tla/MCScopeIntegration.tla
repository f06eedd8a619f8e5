------------------------ MODULE MCScopeIntegration ------------------------
(* One symbol decided before the policy, one the policy decides, and one it *)
(* leaves alone, which may be claimed equivalent.                           *)
EXTENDS ScopeIntegration, TLC

CONSTANTS c1, c2

Symmetry == Permutations({c1, c2})
=============================================================================
