------------------------- MODULE ReferenceDiscipline -------------------------
(***************************************************************************)
(* What can be said of a generator's program without running it: where in   *)
(* its straight line a load, an observation or a copy is compared, and with *)
(* what.  ReferencePipeline assumes of the programs what its properties     *)
(* need and TLC evaluates, and the proofs show that it is enough whatever a *)
(* file says, whenever it is edited and wherever a command is ended.        *)
(* P is a program, i and j are places in it.                                *)
(***************************************************************************)
EXTENDS Naturals, ReferenceSteps

Loading == {"use", "use too"}
Without(P, ops, from, to) == \A k \in from..to : P[k].op \notin ops

IsProgram(P) ==
  /\ Len(P) \in Nat /\ DOMAIN P = 1..Len(P)
  /\ \A i \in 1..Len(P) : P[i].op = "observe" => P[i].slot \in {"primary", "relocated"}

(***************************************************************************)
(* What step i loads is one of the versions if the file itself is compared  *)
(* afterwards, if the copy it was loaded from is, before or afterwards but  *)
(* with no other copy made in between, or if what the process holds is,     *)
(* with nothing loaded over it in between.                                  *)
(***************************************************************************)
ComparedLater(P, i, versions) ==
  \E j \in i + 1..Len(P) :
    P[j].op = "expect" /\ P[j].place = "root" /\ P[j].versions \subseteq versions
ComparedInTheCopy(P, i, versions) ==
  /\ P[i].place = "copy"
  /\ \E j \in 1..Len(P) :
       /\ P[j].op = "expect" /\ P[j].place = "copy" /\ P[j].versions \subseteq versions
       /\ Without(P, {"copy"}, i, j) /\ Without(P, {"copy"}, j, i)
ComparedAsHeld(P, i, versions) ==
  \E j \in i + 1..Len(P) :
    /\ P[j].op = "held" /\ P[j].versions \subseteq versions
    /\ Without(P, {"use", "glance"}, i + 1, j - 1)
LoadsAreCompared(P, versions) ==
  \A i \in 1..Len(P) : P[i].op \in Loading =>
    \/ ComparedLater(P, i, versions)
    \/ ComparedInTheCopy(P, i, versions)
    \/ ComparedAsHeld(P, i, versions)

\* The file is compared somewhere, perhaps before anything is loaded.
FileIsCompared(P, versions) == ComparedLater(P, 0, versions)

\* Whatever is taken from the copy was copied there before.
CopiesFirst(P) ==
  \A i \in 1..Len(P) : P[i].op \in Loading \cup {"copy"} /\ P[i].place = "copy" =>
    \E k \in 1..i - 1 : P[k].op = "copy"

(***************************************************************************)
(* What step i observes in the first place is compared as a fact later, or  *)
(* what it runs was compared when it was loaded; what it observes in the    *)
(* copy is compared with the first place.                                   *)
(***************************************************************************)
FactsAreCompared(P) ==
  \A i \in 1..Len(P) : P[i].op = "observe" =>
    IF P[i].slot = "relocated" THEN \E j \in i + 1..Len(P) : P[j].op = "alike"
    ELSE \/ \E j \in i + 1..Len(P) : P[j].op = "facts" /\ P[j].behaviours \subseteq {"pinned"}
         \/ \E j \in 1..i - 1 :
              /\ P[j].op = "held" /\ P[j].versions \subseteq {"pinned"}
              /\ Without(P, {"use", "use too", "glance"}, j + 1, i - 1)

\* The program ends with a whole oracle.
IsFilled(P) ==
  \E j \in 1..Len(P) : P[j].op = "fill" /\ Without(P, {"tear"}, j + 1, Len(P))

\* The siblings whose oracles the program compares.
FixturesIn(P) == {step.of : step \in {s \in Range(P) : s.op = "fixture"}}

\* The oracle shows nothing of the unit, or the program stops at this version of it.
IsSilent(P) == \A i \in 1..Len(P) : ~(P[i].op = "observe" /\ P[i].slot = "primary")
Refuses(P, version) ==
  \/ \E j \in 1..Len(P) :
       P[j].op = "expect" /\ P[j].place = "root" /\ version \notin P[j].versions
  \/ \E j \in 1..Len(P) : \E i \in 1..j - 1 :
       /\ P[j].op = "held" /\ version \notin P[j].versions
       /\ P[i].op \in Loading /\ P[i].place = "root"
       /\ Without(P, {"use", "glance"}, i + 1, j - 1)
==============================================================================
