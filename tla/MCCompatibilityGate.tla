------------------------ MODULE MCCompatibilityGate ------------------------
(***************************************************************************)
(* Two assertions in two projects.  The second version of the registry     *)
(* names the second version of the tests; the second version of the matrix *)
(* makes claims for the first assertion only and leaves the other open.    *)
(***************************************************************************)
EXTENDS CompatibilityGate, TLC

CONSTANTS a1, a2, p1, p2

MCProjectOrder == <<p1, p2>>

MCOwner == a1 :> p1 @@ a2 :> p2

MCReceipts == [v \in Versions |-> {a1, a2}]

MCEquivalent == [v \in Versions |-> IF v = 0 THEN {a1, a2} ELSE {a1}]

MCBoundTests == [v \in Versions |-> v]
=============================================================================
