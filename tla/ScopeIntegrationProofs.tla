------------------------ MODULE ScopeIntegrationProofs ------------------------
(***************************************************************************)
(* Theorems about the scope integration, for any commands, any symbols and *)
(* any policy that keeps the baseline decisions, whatever the user does    *)
(* and whichever commands fail or die.                                     *)
(***************************************************************************)
EXTENDS ScopeIntegration, TLAPS

Registries == [decisions : SUBSET Symbols, classes : [Symbols -> Classes],
               evidence : SUBSET Symbols]

Loading == {"matrix", "evidence", "decisions", "align"}
Writers == {"write decisions", "move decisions", "write classes", "move classes"}
Planning == {"clean", "same", "planned", "written"} \cup Writers
Places == Loading \cup Planning \cup {"plan", "refused", "failed", "loaded", "dead"}

(* The types.                                                              *)
DiskTyped == disk \in Registries /\ committed \in Registries
CommandsTyped ==
    /\ pc \in [Commands -> Places]
    /\ held \in [Commands -> Registries] /\ target \in [Commands -> Registries]
HistoryTyped == unsaved \in BOOLEAN /\ since \subseteq Commands
TypeOK == DiskTyped /\ CommandsTyped /\ HistoryTyped

(* Every pair that is on disk and agrees has been noted.                   *)
DiskNoted == disk.decisions = Out(disk.classes) => Pair(disk) \in whole

(* Between a writer's two replacements the decisions are the policy's,     *)
(* unless the user put others there.                                       *)
HalfWritten ==
    \A c \in Commands \ since :
        pc[c] \in {"write classes", "move classes"} => disk.decisions = Reviewed

(* A command that has loaded the matrix only: the file is still the same,  *)
(* or it was replaced when the decisions were the policy's already, and so *)
(* whatever agrees with these was on disk together with them.              *)
HalfLoaded ==
    \A c \in Commands \ (since \cup disturbed) :
        pc[c] \in {"evidence", "decisions"} =>
            \/ held[c].classes = disk.classes
            \/ /\ disk.decisions = Reviewed
               /\ Out(held[c].classes) = Reviewed
                     => <<Reviewed, held[c].classes>> \in whole

Loaded ==
    \A c \in Commands \ (since \cup disturbed) :
        pc[c] \notin {"matrix", "evidence", "decisions", "refused", "failed", "dead"}
            /\ held[c].decisions = Out(held[c].classes)
          => Pair(held[c]) \in whole

(* What a command plans and writes follows from registries that agree.     *)
PlanSound ==
    \A c \in Commands :
        /\ pc[c] \in Planning \cup {"plan", "loaded"} => Aligned(held[c])
        /\ pc[c] \in Planning =>
              Plannable(held[c]) /\ target[c] = Planned(held[c])

(* Evidence is never taken away, so what was written once still has it.    *)
EvidenceKept ==
    /\ committed.evidence \subseteq disk.evidence
    /\ \A c \in Commands :
          pc[c] \in Writers => held[c].evidence \subseteq committed.evidence
    /\ done # None =>
          /\ done[1] = Reviewed /\ Out(done[2]) = Reviewed
          /\ {s \in Symbols : done[2][s] = "equivalent"} \subseteq committed.evidence

(* What is not committed is on disk only.                                  *)
UnsavedSound ==
    /\ unsaved => disk # committed
    /\ unsaved => \A c \in Commands : pc[c] \in Writers => c \in since

IInv == /\ TypeOK /\ DiskNoted /\ HalfWritten /\ HalfLoaded /\ Loaded
        /\ PlanSound /\ EvidenceKept /\ UnsavedSound

(* The baseline is part of the policy, the policy of the inventory.        *)
LEMMA Subsets ==
    /\ Baseline \subseteq Reviewed /\ Reviewed \subseteq Symbols
    /\ Prepared \subseteq Symbols
  BY ScopeAssumption

(* Planned registries are registries.                                      *)
LEMMA PlannedTypes ==
    ASSUME NEW r \in Registries
    PROVE  Planned(r) \in Registries
  <1>1. [s \in Symbols |-> IF s \in Reviewed THEN "out" ELSE r.classes[s]]
            \in [Symbols -> Classes]
    BY DEF Registries, Classes
  <1> QED
    BY <1>1, Subsets DEF Planned, Registries

(* A plan puts exactly the policy's symbols out of scope, and claims of no *)
(* symbol what was not claimed of it before.                               *)
LEMMA PlannedFacts ==
    ASSUME NEW r \in Registries, Plannable(r)
    PROVE  /\ Planned(r) \in Registries
           /\ Planned(r).decisions = Reviewed /\ Planned(r).evidence = r.evidence
           /\ Out(Planned(r).classes) = Reviewed
           /\ \A s \in Symbols : Planned(r).classes[s] = "equivalent"
                                   => r.classes[s] = "equivalent"
  <1> DEFINE f == [s \in Symbols |-> IF s \in Reviewed THEN "out" ELSE r.classes[s]]
  <1>1. f \in [Symbols -> Classes]
    BY DEF Registries, Classes
  <1>2. /\ Planned(r) \in Registries
        /\ Planned(r).decisions = Reviewed /\ Planned(r).evidence = r.evidence
        /\ Planned(r).classes = f
    BY <1>1, Subsets DEF Planned, Registries
  <1>3. Out(f) = Reviewed
    BY Subsets DEF Plannable, Out
  <1>4. \A s \in Symbols : f[s] = "equivalent" => r.classes[s] = "equivalent"
    OBVIOUS
  <1> QED
    BY <1>2, <1>3, <1>4

(* What the user leaves: evidence only grows.                              *)
LEMMA UserEffects ==
    ASSUME DiskTyped, committed.evidence \subseteq disk.evidence, User
    PROVE  \E r \in Registries, h \in Registries :
              /\ UserLeaves(r, h)
              /\ committed.evidence \subseteq h.evidence
              /\ h.evidence \subseteq r.evidence
  <1>1. ASSUME NEW s \in Symbols, PrepareEvidence(s)
        PROVE  [disk EXCEPT !.evidence = @ \cup {s}] \in Registries
    BY <1>1 DEF DiskTyped, Registries
  <1>2. ASSUME NEW s \in Symbols, Promote(s)
        PROVE  [disk EXCEPT !.classes[s] = "equivalent"] \in Registries
    BY <1>2 DEF DiskTyped, Registries, Classes
  <1>3. CASE \E s \in Symbols : PrepareEvidence(s)
    <2>1. PICK s \in Symbols : PrepareEvidence(s)
      BY <1>3
    <2>2. disk.evidence \subseteq [disk EXCEPT !.evidence = @ \cup {s}].evidence
      BY DEF DiskTyped, Registries
    <2> QED
      BY <2>1, <2>2, <1>1 DEF PrepareEvidence, DiskTyped
  <1>4. CASE \E s \in Symbols : Promote(s)
    <2>1. PICK s \in Symbols : Promote(s)
      BY <1>4
    <2>2. disk.evidence = [disk EXCEPT !.classes[s] = "equivalent"].evidence
      BY DEF DiskTyped, Registries
    <2> QED
      BY <2>1, <2>2, <1>2 DEF Promote, DiskTyped
  <1>5. CASE Commit \/ Restore
    BY <1>5 DEF Commit, Restore, DiskTyped
  <1> QED
    BY <1>3, <1>4, <1>5 DEF User

(* A file that is replaced is one that a plan holds.                       *)
LEMMA RegistriesAreTyped ==
    ASSUME CommandsTyped, NEW c \in Commands
    PROVE  held[c] \in Registries /\ Planned(held[c]) \in Registries
  BY PlannedTypes DEF CommandsTyped

(* What a command may do without touching the registries.                  *)
Quiet(c) ==
    \/ LoadMatrix(c) \/ LoadEvidence(c) \/ LoadDecisions(c) \/ IssueReceipt(c)
    \/ MakePlan(c) \/ CheckClean(c) \/ CheckSame(c) \/ FailWrite(c) \/ Die(c)
    \/ \E file \in {"decisions", "classes"} : WriteTemp(c, file)

Loads(c) ==
    /\ UNCHANGED <<target, unsaved>> /\ held'[c] \in Registries
    /\ \/ /\ pc[c] = "matrix" /\ pc'[c] = "evidence"
          /\ held'[c].classes = disk.classes
          /\ since' = since \ {c} /\ disturbed' = disturbed \ {c}
       \/ /\ pc[c] = "evidence" /\ pc'[c] = "decisions"
          /\ held'[c].classes = held[c].classes
          /\ UNCHANGED <<since, disturbed>>
       \/ /\ pc[c] = "decisions" /\ pc'[c] = "align"
          /\ held'[c].classes = held[c].classes
          /\ held'[c].decisions = disk.decisions
          /\ UNCHANGED <<since, disturbed>>

Plans(c) ==
    /\ UNCHANGED <<held, unsaved, since, disturbed>>
    /\ target'[c] \in {target[c], Planned(held[c])}
    /\ \/ /\ pc[c] = "align" /\ UNCHANGED target
          /\ pc'[c] = "refused"
                \/ (pc'[c] \in {"plan", "loaded"} /\ Aligned(held[c]))
       \/ /\ pc[c] = "plan"
          /\ \/ pc'[c] = "refused"
             \/ /\ pc'[c] \in {"clean", "planned"} /\ Plannable(held[c])
                /\ target'[c] = Planned(held[c])
       \/ /\ pc[c] = "clean" /\ pc'[c] \in {"same", "refused"} /\ UNCHANGED target

Checks(c) ==
    /\ UNCHANGED <<held, target, unsaved>>
    /\ since' = since \ {c} /\ disturbed' = disturbed \ {c}
    /\ pc[c] = "same"
    /\ \/ pc'[c] = "refused"
       \/ pc'[c] = "write decisions" /\ disk = committed /\ disk = held[c]

Waits(c) ==
    /\ UNCHANGED <<held, target, unsaved, since, disturbed>>
    /\ \/ pc[c] = "write decisions" /\ pc'[c] = "move decisions"
       \/ pc[c] = "write classes" /\ pc'[c] = "move classes"
       \/ pc'[c] \in {"failed", "dead"}

LEMMA QuietEffects ==
    ASSUME DiskTyped, CommandsTyped, NEW c \in Commands, Quiet(c)
    PROVE  /\ UNCHANGED <<disk, committed, whole, done>>
           /\ \A d \in Commands \ {c} :
                 pc'[d] = pc[d] /\ held'[d] = held[d] /\ target'[d] = target[d]
           /\ Loads(c) \/ Plans(c) \/ Checks(c) \/ Waits(c)
  <1> USE DEF CommandsTyped, Goto, history
  <1>1. CASE LoadMatrix(c)
    <2>1. held'[c] = [held[c] EXCEPT !.classes = disk.classes]
      BY <1>1 DEF LoadMatrix
    <2>2. held'[c] \in Registries /\ held'[c].classes = disk.classes
      BY <2>1 DEF DiskTyped, Registries
    <2> QED
      BY <1>1, <2>2 DEF LoadMatrix, Loads
  <1>2. CASE LoadEvidence(c)
    <2>1. held'[c] = [held[c] EXCEPT !.evidence = disk.evidence]
      BY <1>2 DEF LoadEvidence
    <2>2. held'[c] \in Registries /\ held'[c].classes = held[c].classes
      BY <2>1 DEF DiskTyped, Registries
    <2> QED
      BY <1>2, <2>2 DEF LoadEvidence, Loads
  <1>3. CASE LoadDecisions(c)
    <2>1. held'[c] = [held[c] EXCEPT !.decisions = disk.decisions]
      BY <1>3 DEF LoadDecisions
    <2>2. /\ held'[c] \in Registries /\ held'[c].classes = held[c].classes
          /\ held'[c].decisions = disk.decisions
      BY <2>1 DEF DiskTyped, Registries
    <2> QED
      BY <1>3, <2>2 DEF LoadDecisions, Loads
  <1>4. CASE IssueReceipt(c)
    BY <1>4 DEF IssueReceipt, Plans
  <1>5. CASE MakePlan(c)
    BY <1>5 DEF MakePlan, Plans
  <1>6. CASE CheckClean(c)
    BY <1>6 DEF CheckClean, Plans
  <1>7. CASE CheckSame(c)
    BY <1>7 DEF CheckSame, Checks
  <1>8. CASE FailWrite(c) \/ Die(c)
    BY <1>8 DEF FailWrite, Die, Waits
  <1>9. ASSUME NEW file \in {"decisions", "classes"}, WriteTemp(c, file)
        PROVE  /\ UNCHANGED <<disk, committed, whole, done>>
               /\ \A d \in Commands \ {c} :
                     pc'[d] = pc[d] /\ held'[d] = held[d] /\ target'[d] = target[d]
               /\ Waits(c)
    <2>1. CASE file = "decisions"
      BY <1>9, <2>1 DEF WriteTemp, Writing, Moving, Waits
    <2>2. CASE file = "classes"
      BY <1>9, <2>2 DEF WriteTemp, Writing, Moving, Waits
    <2> QED
      BY <2>1, <2>2
  <1> QED
    BY <1>1, <1>2, <1>3, <1>4, <1>5, <1>6, <1>7, <1>8, <1>9 DEF Quiet

(* What a writer does to the registries.                                   *)
LEMMA ReplaceEffects ==
    ASSUME DiskTyped, CommandsTyped, PlanSound, NEW c \in Commands,
           NEW file \in {"decisions", "classes"}, Replace(c, file)
    PROVE  /\ UNCHANGED <<committed, held, target, since>>
           /\ \A d \in Commands \ {c} : pc'[d] = pc[d]
           /\ whole' = Noted(disk') /\ whole \subseteq whole'
           /\ unsaved' = (unsaved /\ disk' # committed)
           /\ disturbed' = IF c \in since THEN Commands ELSE disturbed
           /\ disk' \in Registries /\ disk'.evidence = disk.evidence
           /\ target[c] = Planned(held[c]) /\ Plannable(held[c])
           /\ \/ /\ pc[c] = "move decisions" /\ pc'[c] = "write classes"
                 /\ disk'.decisions = Reviewed /\ disk'.classes = disk.classes
                 /\ done' = done
              \/ /\ pc[c] = "move classes" /\ pc'[c] = "written"
                 /\ disk'.decisions = disk.decisions
                 /\ disk'.classes = target[c].classes
                 /\ done' = Pair(target[c])
  <1>1. pc[c] \in Planning
    <2>1. pc[c] \in {"move decisions", "move classes"}
      <3>1. CASE file = "decisions"
        BY <3>1 DEF Replace, Moving
      <3>2. CASE file = "classes"
        BY <3>2 DEF Replace, Moving
      <3> QED
        BY <3>1, <3>2
    <2> QED
      BY <2>1 DEF Planning, Writers
  <1>2. target[c] = Planned(held[c]) /\ Plannable(held[c]) /\ held[c] \in Registries
    BY <1>1 DEF PlanSound, CommandsTyped
  <1>3. /\ UNCHANGED <<committed, held, target, since>>
        /\ \A d \in Commands \ {c} : pc'[d] = pc[d]
        /\ whole' = Noted(disk') /\ whole \subseteq whole'
        /\ unsaved' = (unsaved /\ disk' # committed)
        /\ disturbed' = IF c \in since THEN Commands ELSE disturbed
    BY DEF Replace, Goto, Noted, CommandsTyped
  <1>4. CASE file = "decisions"
    <2>1. /\ pc[c] = "move decisions" /\ pc'[c] = "write classes"
          /\ disk' = [disk EXCEPT !.decisions = target[c].decisions]
          /\ done' = done
      BY <1>4 DEF Replace, Goto, Moving, After, CommandsTyped
    <2>2. disk' = [disk EXCEPT !.decisions = Reviewed]
      BY <1>2, <2>1, PlannedFacts
    <2>3. /\ disk' \in Registries /\ disk'.evidence = disk.evidence
          /\ disk'.decisions = Reviewed /\ disk'.classes = disk.classes
      BY <2>2, Subsets DEF DiskTyped, Registries
    <2> QED
      BY <1>2, <1>3, <2>1, <2>3
  <1>5. CASE file = "classes"
    <2>1. /\ pc[c] = "move classes" /\ pc'[c] = "written"
          /\ disk' = [disk EXCEPT !.classes = target[c].classes]
          /\ done' = Pair(target[c])
      BY <1>5 DEF Replace, Goto, Moving, After, CommandsTyped
    <2>2. target[c] \in Registries
      BY <1>2, PlannedFacts
    <2>3. /\ disk' \in Registries /\ disk'.evidence = disk.evidence
          /\ disk'.decisions = disk.decisions /\ disk'.classes = target[c].classes
      BY <2>1, <2>2 DEF DiskTyped, Registries
    <2> QED
      BY <1>2, <1>3, <2>1, <2>3
  <1> QED
    BY <1>4, <1>5

(* Every step keeps the types.                                             *)
LEMMA TypesKept ==
    TypeOK /\ PlanSound /\ EvidenceKept /\ [Next]_vars => TypeOK'
  <1> SUFFICES ASSUME TypeOK, PlanSound, EvidenceKept, [Next]_vars
               PROVE  TypeOK'
    OBVIOUS
  <1>1. DiskTyped /\ CommandsTyped /\ committed.evidence \subseteq disk.evidence
    BY DEF TypeOK, EvidenceKept
  <1>2. ASSUME NEW c \in Commands, Quiet(c)
        PROVE  TypeOK'
    <2>1. DiskTyped'
      BY <1>1, <1>2, QuietEffects DEF DiskTyped
    <2>2. HistoryTyped'
      BY <1>1, <1>2, QuietEffects
         DEF TypeOK, HistoryTyped, Loads, Plans, Checks, Waits
    <2>3. pc' \in [Commands -> Places]
      <3>1. \E place \in Places : pc' = [pc EXCEPT ![c] = place]
        <4>1. {"evidence", "decisions", "align", "refused", "loaded", "plan",
               "clean", "planned", "same", "write decisions", "move decisions",
               "move classes", "failed", "dead"} \subseteq Places
          BY DEF Places, Loading, Planning, Writers
        <4>2. ASSUME NEW file \in {"decisions", "classes"}, WriteTemp(c, file)
              PROVE  pc' \in {[pc EXCEPT ![c] = "move decisions"],
                              [pc EXCEPT ![c] = "move classes"]}
          <5>1. Moving[file] \in {"move decisions", "move classes"}
            <6>1. CASE file = "decisions"
              BY <6>1 DEF Moving
            <6>2. CASE file = "classes"
              BY <6>2 DEF Moving
            <6> QED
              BY <6>1, <6>2
          <5> QED
            BY <4>2, <5>1 DEF WriteTemp, Goto
        <4> QED
          BY <1>2, <4>1, <4>2 DEF Quiet, LoadMatrix, LoadEvidence, LoadDecisions,
             IssueReceipt, MakePlan, CheckClean, CheckSame, FailWrite, Die, Goto
      <3> QED
        BY <1>1, <3>1 DEF CommandsTyped
    <2>4. held' \in [Commands -> Registries]
      <3>1. \E r : held' = [held EXCEPT ![c] = r]
        BY <1>1, <1>2 DEF Quiet, LoadMatrix, LoadEvidence, LoadDecisions,
           IssueReceipt, MakePlan, CheckClean, CheckSame, FailWrite, Die,
           WriteTemp, CommandsTyped
      <3>2. held'[c] \in Registries
        BY <1>1, <1>2, QuietEffects
           DEF Loads, Plans, Checks, Waits, CommandsTyped
      <3> QED
        BY <1>1, <3>1, <3>2 DEF CommandsTyped
    <2>5. target' \in [Commands -> Registries]
      <3>1. target' \in {target, [target EXCEPT ![c] = Planned(held[c])]}
        BY <1>2 DEF Quiet, LoadMatrix, LoadEvidence, LoadDecisions,
           IssueReceipt, MakePlan, CheckClean, CheckSame, FailWrite, Die,
           WriteTemp
      <3> QED
        BY <1>1, <3>1, RegistriesAreTyped DEF CommandsTyped
    <2> QED
      BY <2>1, <2>2, <2>3, <2>4, <2>5 DEF TypeOK, CommandsTyped
  <1>3. ASSUME NEW c \in Commands, NEW file \in {"decisions", "classes"},
               Replace(c, file)
        PROVE  TypeOK'
    <2>1. DiskTyped' /\ HistoryTyped' /\ UNCHANGED <<held, target>>
      BY <1>1, <1>3, ReplaceEffects DEF TypeOK, DiskTyped, HistoryTyped
    <2>2. pc' \in [Commands -> Places]
      <3>1. pc' = [pc EXCEPT ![c] = After[file]]
        BY <1>3 DEF Replace, Goto
      <3>2. After[file] \in Places
        <4>1. CASE file = "decisions"
          BY <4>1 DEF After, Places, Planning, Writers
        <4>2. CASE file = "classes"
          BY <4>2 DEF After, Places, Planning, Writers
        <4> QED
          BY <4>1, <4>2
      <3> QED
        BY <1>1, <3>1, <3>2 DEF CommandsTyped
    <2> QED
      BY <1>1, <2>1, <2>2 DEF TypeOK, CommandsTyped
  <1>4. CASE User
    BY <1>1, <1>4, UserEffects DEF UserLeaves, commands, TypeOK, DiskTyped,
       CommandsTyped, HistoryTyped
  <1>5. CASE UNCHANGED vars
    BY <1>5 DEF vars, commands, history, TypeOK, DiskTyped, CommandsTyped,
       HistoryTyped
  <1> QED
    BY <1>2, <1>3, <1>4, <1>5 DEF Next, Step, Quiet

(* Whoever changes a file notes the pair.                                  *)
LEMMA DiskStaysNoted ==
    TypeOK /\ PlanSound /\ EvidenceKept /\ DiskNoted
        /\ [Next]_vars => DiskNoted'
  <1> SUFFICES ASSUME TypeOK, PlanSound, EvidenceKept, DiskNoted, [Next]_vars
               PROVE  DiskNoted'
    OBVIOUS
  <1>1. DiskTyped /\ CommandsTyped /\ committed.evidence \subseteq disk.evidence
    BY DEF TypeOK, EvidenceKept
  <1>2. ASSUME NEW c \in Commands, Quiet(c)
        PROVE  DiskNoted'
    <2>1. CASE Loads(c)
      BY <1>1, <1>2, <2>1, QuietEffects DEF Loads, DiskNoted
    <2>2. CASE Plans(c)
      BY <1>1, <1>2, <2>2, QuietEffects DEF Plans, DiskNoted
    <2>3. CASE Checks(c)
      BY <1>1, <1>2, QuietEffects DEF DiskNoted
    <2>4. CASE Waits(c)
      BY <1>1, <1>2, QuietEffects DEF DiskNoted
    <2> QED
      BY <1>1, <1>2, <2>1, <2>2, <2>3, <2>4, QuietEffects
  <1>3. ASSUME NEW c \in Commands, NEW file \in {"decisions", "classes"},
               Replace(c, file)
        PROVE  DiskNoted'
    BY <1>1, <1>3, ReplaceEffects DEF DiskNoted, Noted
  <1>4. CASE User
    <2>1. PICK r \in Registries, h \in Registries :
              /\ UserLeaves(r, h)
              /\ committed.evidence \subseteq h.evidence
              /\ h.evidence \subseteq r.evidence
      BY <1>1, <1>4, UserEffects
    <2> QED
      BY <2>1 DEF UserLeaves, commands, DiskNoted, Noted
  <1>5. CASE UNCHANGED vars
    BY <1>5 DEF vars, commands, history, DiskNoted, Pair
  <1> QED
    BY <1>2, <1>3, <1>4, <1>5 DEF Next, Step, Quiet

(* Only the user moves the decisions away from the policy.                 *)
LEMMA HalfWrittenKept ==
    TypeOK /\ PlanSound /\ EvidenceKept /\ HalfWritten
        /\ [Next]_vars => HalfWritten'
  <1> SUFFICES ASSUME TypeOK, PlanSound, EvidenceKept, HalfWritten,
                      [Next]_vars
               PROVE  HalfWritten'
    OBVIOUS
  <1>1. DiskTyped /\ CommandsTyped /\ committed.evidence \subseteq disk.evidence
    BY DEF TypeOK, EvidenceKept
  <1>2. ASSUME NEW c \in Commands, Quiet(c)
        PROVE  HalfWritten'
    <2>1. CASE Loads(c)
      BY <1>1, <1>2, <2>1, QuietEffects DEF Loads, HalfWritten
    <2>2. CASE Plans(c)
      BY <1>1, <1>2, <2>2, QuietEffects DEF Plans, HalfWritten
    <2>3. CASE Checks(c)
      BY <1>1, <1>2, <2>3, QuietEffects DEF Checks, HalfWritten
    <2>4. CASE Waits(c)
      BY <1>1, <1>2, <2>4, QuietEffects DEF Waits, HalfWritten
    <2> QED
      BY <1>1, <1>2, <2>1, <2>2, <2>3, <2>4, QuietEffects
  <1>3. ASSUME NEW c \in Commands, NEW file \in {"decisions", "classes"},
               Replace(c, file)
        PROVE  HalfWritten'
    BY <1>1, <1>3, ReplaceEffects DEF HalfWritten
  <1>4. CASE User
    <2>1. PICK r \in Registries, h \in Registries :
              /\ UserLeaves(r, h)
              /\ committed.evidence \subseteq h.evidence
              /\ h.evidence \subseteq r.evidence
      BY <1>1, <1>4, UserEffects
    <2> QED
      BY <2>1 DEF UserLeaves, commands, HalfWritten
  <1>5. CASE UNCHANGED vars
    BY <1>5 DEF vars, commands, history, HalfWritten
  <1> QED
    BY <1>2, <1>3, <1>4, <1>5 DEF Next, Step, Quiet

(* A fresh writer that replaces the matrix does so under the policy's      *)
(* decisions, which stay.                                                  *)
LEMMA HalfLoadedKept ==
    TypeOK /\ PlanSound /\ EvidenceKept /\ DiskNoted /\ HalfWritten
        /\ HalfLoaded /\ [Next]_vars => HalfLoaded'
  <1> SUFFICES ASSUME TypeOK, PlanSound, EvidenceKept, DiskNoted,
                      HalfWritten, HalfLoaded, [Next]_vars
               PROVE  HalfLoaded'
    OBVIOUS
  <1>1. DiskTyped /\ CommandsTyped /\ committed.evidence \subseteq disk.evidence
    BY DEF TypeOK, EvidenceKept
  <1>2. ASSUME NEW c \in Commands, Quiet(c)
        PROVE  HalfLoaded'
    <2>1. CASE Loads(c)
      BY <1>1, <1>2, <2>1, QuietEffects DEF Loads, HalfLoaded
    <2>2. CASE Plans(c)
      BY <1>1, <1>2, <2>2, QuietEffects DEF Plans, HalfLoaded
    <2>3. CASE Checks(c)
      <3>1. /\ pc'[c] \notin {"evidence", "decisions"}
            /\ \A d \in Commands \ {c} : pc'[d] = pc[d] /\ held'[d] = held[d]
            /\ UNCHANGED <<disk, whole>>
        BY <1>1, <1>2, <2>3, QuietEffects DEF Checks
      <3>2. since' = since \ {c} /\ disturbed' = disturbed \ {c}
        BY <2>3 DEF Checks
      <3> QED
        BY <3>1, <3>2 DEF HalfLoaded
    <2>4. CASE Waits(c)
      BY <1>1, <1>2, <2>4, QuietEffects DEF Waits, HalfLoaded
    <2> QED
      BY <1>1, <1>2, <2>1, <2>2, <2>3, <2>4, QuietEffects
  <1>3. ASSUME NEW c \in Commands, NEW file \in {"decisions", "classes"},
               Replace(c, file)
        PROVE  HalfLoaded'
    <2>1. SUFFICES ASSUME NEW d \in Commands \ (since \cup disturbed),
                          pc[d] \in {"evidence", "decisions"}, c \notin since,
                          pc'[d] = pc[d], held'[d] = held[d]
                   PROVE  \/ held[d].classes = disk'.classes
                          \/ /\ disk'.decisions = Reviewed
                             /\ Out(held[d].classes) = Reviewed
                                   => <<Reviewed, held[d].classes>> \in whole'
      <3>1. /\ UNCHANGED <<held, since>>
            /\ disturbed' = IF c \in since THEN Commands ELSE disturbed
            /\ \A d \in Commands \ {c} : pc'[d] = pc[d]
            /\ pc'[c] \notin {"evidence", "decisions"}
        BY <1>1, <1>3, ReplaceEffects
      <3> QED
        BY <3>1 DEF HalfLoaded
    <2>2. \/ held[d].classes = disk.classes
          \/ /\ disk.decisions = Reviewed
             /\ Out(held[d].classes) = Reviewed
                   => <<Reviewed, held[d].classes>> \in whole
      BY <2>1 DEF HalfLoaded
    <2>3. whole \subseteq whole'
      BY <1>1, <1>3, ReplaceEffects
    <2>4. CASE pc[c] = "move decisions"
      <3>1. disk'.decisions = Reviewed /\ disk'.classes = disk.classes
        BY <1>1, <1>3, <2>4, ReplaceEffects
      <3> QED
        BY <2>2, <2>3, <3>1
    <2>5. CASE pc[c] = "move classes"
      <3>1. disk.decisions = Reviewed
        BY <2>1, <2>5 DEF HalfWritten
      <3>2. disk'.decisions = Reviewed
        BY <1>1, <1>3, <2>5, <3>1, ReplaceEffects
      <3>3. ASSUME held[d].classes = disk.classes,
                   Out(held[d].classes) = Reviewed
            PROVE  <<Reviewed, held[d].classes>> \in whole
        BY <3>1, <3>3 DEF DiskNoted, Pair
      <3> QED
        BY <2>2, <2>3, <3>2, <3>3
    <2> QED
      BY <1>1, <1>3, <2>4, <2>5, ReplaceEffects
  <1>4. CASE User
    <2>1. PICK r \in Registries, h \in Registries :
              /\ UserLeaves(r, h)
              /\ committed.evidence \subseteq h.evidence
              /\ h.evidence \subseteq r.evidence
      BY <1>1, <1>4, UserEffects
    <2> QED
      BY <2>1 DEF UserLeaves, commands, HalfLoaded
  <1>5. CASE UNCHANGED vars
    BY <1>5 DEF vars, commands, history, HalfLoaded
  <1> QED
    BY <1>2, <1>3, <1>4, <1>5 DEF Next, Step, Quiet

(* The pair of registries a fresh command has read was on disk together,   *)
(* though the decisions are read after the matrix.                         *)
LEMMA LoadedKept ==
    TypeOK /\ PlanSound /\ EvidenceKept /\ DiskNoted /\ HalfLoaded /\ Loaded
        /\ [Next]_vars => Loaded'
  <1> SUFFICES ASSUME TypeOK, PlanSound, EvidenceKept, DiskNoted,
                      HalfLoaded, Loaded, [Next]_vars
               PROVE  Loaded'
    OBVIOUS
  <1>1. DiskTyped /\ CommandsTyped /\ committed.evidence \subseteq disk.evidence
    BY DEF TypeOK, EvidenceKept
  <1>2. ASSUME NEW c \in Commands, Quiet(c)
        PROVE  Loaded'
    <2>1. CASE Loads(c)
      <3>1. /\ UNCHANGED <<disk, whole>>
            /\ \A d \in Commands \ {c} : pc'[d] = pc[d] /\ held'[d] = held[d]
            /\ \/ pc'[c] \in {"evidence", "decisions"}
               \/ /\ pc[c] = "decisions"
                  /\ held'[c].classes = held[c].classes
                  /\ held'[c].decisions = disk.decisions
                  /\ UNCHANGED <<since, disturbed>>
        BY <1>1, <1>2, <2>1, QuietEffects DEF Loads
      <3>2. since \ {c} \subseteq since' /\ disturbed \ {c} \subseteq disturbed'
        BY <2>1 DEF Loads
      <3>3. ASSUME pc[c] = "decisions", c \notin since \cup disturbed,
                   held'[c].classes = held[c].classes,
                   held'[c].decisions = disk.decisions,
                   held'[c].decisions = Out(held'[c].classes)
            PROVE  <<held'[c].decisions, held'[c].classes>> \in whole
        <4>1. CASE held[c].classes = disk.classes
          BY <3>3, <4>1 DEF DiskNoted, Pair
        <4>2. CASE /\ disk.decisions = Reviewed
                   /\ Out(held[c].classes) = Reviewed
                         => <<Reviewed, held[c].classes>> \in whole
          BY <3>3, <4>2
        <4> QED
          BY <3>3, <4>1, <4>2 DEF HalfLoaded
      <3> QED
        BY <3>1, <3>2, <3>3 DEF Loaded, Pair
    <2>2. CASE Plans(c)
      BY <1>1, <1>2, <2>2, QuietEffects DEF Plans, Loaded
    <2>3. CASE Checks(c)
      <3>1. /\ UNCHANGED <<disk, whole, held>>
            /\ \A d \in Commands \ {c} : pc'[d] = pc[d]
            /\ pc'[c] = "refused" \/ disk = held[c]
            /\ since' = since \ {c} /\ disturbed' = disturbed \ {c}
        BY <1>1, <1>2, <2>3, QuietEffects DEF Checks
      <3>2. disk = held[c] /\ held[c].decisions = Out(held[c].classes)
               => Pair(held[c]) \in whole
        BY DEF DiskNoted
      <3> QED
        BY <3>1, <3>2 DEF Loaded
    <2>4. CASE Waits(c)
      BY <1>1, <1>2, <2>4, QuietEffects DEF Waits, Loaded
    <2> QED
      BY <1>1, <1>2, <2>1, <2>2, <2>3, <2>4, QuietEffects
  <1>3. ASSUME NEW c \in Commands, NEW file \in {"decisions", "classes"},
               Replace(c, file)
        PROVE  Loaded'
    BY <1>1, <1>3, ReplaceEffects DEF Loaded
  <1>4. CASE User
    <2>1. PICK r \in Registries, h \in Registries :
              /\ UserLeaves(r, h)
              /\ committed.evidence \subseteq h.evidence
              /\ h.evidence \subseteq r.evidence
      BY <1>1, <1>4, UserEffects
    <2> QED
      BY <2>1 DEF UserLeaves, commands, Loaded
  <1>5. CASE UNCHANGED vars
    BY <1>5 DEF vars, commands, history, Loaded
  <1> QED
    BY <1>2, <1>3, <1>4, <1>5 DEF Next, Step, Quiet

(* A command plans only from registries that agree, and holds its plan.    *)
LEMMA PlanStaysSound ==
    TypeOK /\ EvidenceKept /\ PlanSound /\ [Next]_vars => PlanSound'
  <1> SUFFICES ASSUME TypeOK, EvidenceKept, PlanSound, [Next]_vars
               PROVE  PlanSound'
    OBVIOUS
  <1>1. DiskTyped /\ CommandsTyped /\ committed.evidence \subseteq disk.evidence
    BY DEF TypeOK, EvidenceKept
  <1>2. ASSUME NEW c \in Commands, Quiet(c)
        PROVE  PlanSound'
    <2>1. CASE Loads(c)
      BY <1>1, <1>2, <2>1, QuietEffects DEF Loads, PlanSound, Planning,
         Writers
    <2>2. CASE Plans(c)
      BY <1>1, <1>2, <2>2, QuietEffects DEF Plans, PlanSound, Planning,
         Writers
    <2>3. CASE Checks(c)
      BY <1>1, <1>2, <2>3, QuietEffects DEF Checks, PlanSound, Planning,
         Writers
    <2>4. CASE Waits(c)
      BY <1>1, <1>2, <2>4, QuietEffects DEF Waits, PlanSound, Planning,
         Writers
    <2> QED
      BY <1>1, <1>2, <2>1, <2>2, <2>3, <2>4, QuietEffects
  <1>3. ASSUME NEW c \in Commands, NEW file \in {"decisions", "classes"},
               Replace(c, file)
        PROVE  PlanSound'
    BY <1>1, <1>3, ReplaceEffects DEF PlanSound, Planning, Writers
  <1>4. CASE User
    <2>1. PICK r \in Registries, h \in Registries :
              /\ UserLeaves(r, h)
              /\ committed.evidence \subseteq h.evidence
              /\ h.evidence \subseteq r.evidence
      BY <1>1, <1>4, UserEffects
    <2> QED
      BY <2>1 DEF UserLeaves, commands, PlanSound, Planning, Writers
  <1>5. CASE UNCHANGED vars
    BY <1>5 DEF vars, commands, history, PlanSound, Planning, Writers
  <1> QED
    BY <1>2, <1>3, <1>4, <1>5 DEF Next, Step, Quiet

(* Evidence stays, and what an integration wrote keeps the evidence of     *)
(* every claim in it.                                                      *)
LEMMA EvidenceStaysKept ==
    TypeOK /\ PlanSound /\ EvidenceKept /\ [Next]_vars => EvidenceKept'
  <1> SUFFICES ASSUME TypeOK, PlanSound, EvidenceKept, [Next]_vars
               PROVE  EvidenceKept'
    OBVIOUS
  <1>1. DiskTyped /\ CommandsTyped /\ committed.evidence \subseteq disk.evidence
    BY DEF TypeOK, EvidenceKept
  <1>2. ASSUME NEW c \in Commands, Quiet(c)
        PROVE  EvidenceKept'
    <2>1. CASE Loads(c)
      BY <1>1, <1>2, <2>1, QuietEffects DEF Loads, EvidenceKept, Planning,
         Writers
    <2>2. CASE Plans(c)
      BY <1>1, <1>2, <2>2, QuietEffects DEF Plans, EvidenceKept, Planning,
         Writers
    <2>3. CASE Checks(c)
      BY <1>1, <1>2, <2>3, QuietEffects DEF Checks, EvidenceKept, Planning,
         Writers
    <2>4. CASE Waits(c)
      BY <1>1, <1>2, <2>4, QuietEffects DEF Waits, EvidenceKept, Planning,
         Writers
    <2> QED
      BY <1>1, <1>2, <2>1, <2>2, <2>3, <2>4, QuietEffects
  <1>3. ASSUME NEW c \in Commands, NEW file \in {"decisions", "classes"},
               Replace(c, file)
        PROVE  EvidenceKept'
    <2>1. /\ UNCHANGED <<committed, held>> /\ disk'.evidence = disk.evidence
          /\ \A d \in Commands \ {c} : pc'[d] = pc[d]
          /\ pc[c] \in Writers
      BY <1>1, <1>3, ReplaceEffects DEF Writers
    <2>2. ASSUME done' = Pair(target[c])
          PROVE  /\ done'[1] = Reviewed /\ Out(done'[2]) = Reviewed
                 /\ {s \in Symbols : done'[2][s] = "equivalent"}
                       \subseteq committed.evidence
      <3>1. /\ held[c] \in Registries /\ Plannable(held[c])
            /\ target[c] = Planned(held[c]) /\ Aligned(held[c])
        BY <1>1, <1>3, <2>1, ReplaceEffects, RegistriesAreTyped
           DEF PlanSound, Planning
      <3>2. done'[1] = Planned(held[c]).decisions
               /\ done'[2] = Planned(held[c]).classes
        BY <2>2, <3>1 DEF Pair
      <3>3. {s \in Symbols : held[c].classes[s] = "equivalent"}
                \subseteq held[c].evidence
        BY <3>1 DEF Aligned
      <3>4. held[c].evidence \subseteq committed.evidence
        BY <2>1 DEF EvidenceKept
      <3> QED
        BY <3>1, <3>2, <3>3, <3>4, PlannedFacts
    <2>3. done' = done \/ done' = Pair(target[c])
      BY <1>1, <1>3, ReplaceEffects
    <2>4. pc'[c] \in Writers => pc[c] \in Writers
      BY <2>1
    <2> QED
      BY <2>1, <2>2, <2>3, <2>4 DEF EvidenceKept
  <1>4. CASE User
    <2>1. PICK r \in Registries, h \in Registries :
              /\ UserLeaves(r, h)
              /\ committed.evidence \subseteq h.evidence
              /\ h.evidence \subseteq r.evidence
      BY <1>1, <1>4, UserEffects
    <2> QED
      BY <2>1 DEF UserLeaves, commands, EvidenceKept, Planning, Writers
  <1>5. CASE UNCHANGED vars
    BY <1>5 DEF vars, commands, history, EvidenceKept, Planning, Writers
  <1> QED
    BY <1>2, <1>3, <1>4, <1>5 DEF Next, Step, Quiet

(* A writer that has checked the registries since the user's last change    *)
(* found them committed.                                                   *)
LEMMA UnsavedStaysSound ==
    TypeOK /\ PlanSound /\ EvidenceKept /\ UnsavedSound
        /\ [Next]_vars => UnsavedSound'
  <1> SUFFICES ASSUME TypeOK, PlanSound, EvidenceKept, UnsavedSound,
                      [Next]_vars
               PROVE  UnsavedSound'
    OBVIOUS
  <1>1. DiskTyped /\ CommandsTyped /\ committed.evidence \subseteq disk.evidence
    BY DEF TypeOK, EvidenceKept
  <1>2. ASSUME NEW c \in Commands, Quiet(c)
        PROVE  UnsavedSound'
    <2>1. CASE Loads(c)
      BY <1>1, <1>2, <2>1, QuietEffects DEF Loads, UnsavedSound, Planning,
         Writers
    <2>2. CASE Plans(c)
      BY <1>1, <1>2, <2>2, QuietEffects DEF Plans, UnsavedSound, Planning,
         Writers
    <2>3. CASE Checks(c)
      BY <1>1, <1>2, <2>3, QuietEffects DEF Checks, UnsavedSound, Planning,
         Writers
    <2>4. CASE Waits(c)
      BY <1>1, <1>2, <2>4, QuietEffects DEF Waits, UnsavedSound, Planning,
         Writers
    <2> QED
      BY <1>1, <1>2, <2>1, <2>2, <2>3, <2>4, QuietEffects
  <1>3. ASSUME NEW c \in Commands, NEW file \in {"decisions", "classes"},
               Replace(c, file)
        PROVE  UnsavedSound'
    BY <1>1, <1>3, ReplaceEffects DEF UnsavedSound, Planning, Writers
  <1>4. CASE User
    <2>1. PICK r \in Registries, h \in Registries :
              /\ UserLeaves(r, h)
              /\ committed.evidence \subseteq h.evidence
              /\ h.evidence \subseteq r.evidence
      BY <1>1, <1>4, UserEffects
    <2> QED
      BY <2>1 DEF UserLeaves, commands, UnsavedSound, Planning, Writers
  <1>5. CASE UNCHANGED vars
    BY <1>5 DEF vars, commands, history, UnsavedSound, Planning, Writers
  <1> QED
    BY <1>2, <1>3, <1>4, <1>5 DEF Next, Step, Quiet

(* It all holds when the tracker starts.                                   *)
LEMMA InitSound ==
    Init => IInv
  <1> SUFFICES ASSUME Init
               PROVE  IInv
    OBVIOUS
  <1> DEFINE start == [s \in Symbols |-> IF s \in Baseline THEN "out" ELSE "needs"]
  <1>1. start \in [Symbols -> Classes]
    BY DEF Classes
  <1>2. /\ disk \in Registries /\ disk.decisions = Baseline
        /\ disk.classes = start /\ committed = disk
    BY <1>1, Subsets DEF Init, Registries
  <1>3. /\ pc = [c \in Commands |-> "matrix"]
        /\ held = [c \in Commands |-> disk] /\ target = held
    BY DEF Init
  <1>4. TypeOK
    <2>1. "matrix" \in Places
      BY DEF Places, Loading
    <2>2. DiskTyped
      BY <1>2 DEF DiskTyped
    <2>3. CommandsTyped
      BY <1>2, <1>3, <2>1 DEF CommandsTyped
    <2>4. HistoryTyped
      BY DEF Init, HistoryTyped
    <2> QED
      BY <2>2, <2>3, <2>4 DEF TypeOK
  <1>5. DiskNoted
    BY DEF Init, DiskNoted
  <1>6. HalfWritten /\ HalfLoaded /\ Loaded
    BY <1>3 DEF HalfWritten, HalfLoaded, Loaded
  <1>7. PlanSound
    BY <1>3 DEF PlanSound, Planning, Writers
  <1>8. EvidenceKept /\ UnsavedSound
    BY <1>2, <1>3 DEF Init, EvidenceKept, UnsavedSound, Writers
  <1> QED
    BY <1>4, <1>5, <1>6, <1>7, <1>8 DEF IInv

(* Every step of a command and everything the user does keeps it.          *)
LEMMA StepSound ==
    IInv /\ [Next]_vars => IInv'
  BY TypesKept, DiskStaysNoted, HalfWrittenKept, HalfLoadedKept, LoadedKept,
     PlanStaysSound, EvidenceStaysKept, UnsavedStaysSound DEF IInv

(* The invariant holds throughout.                                         *)
LEMMA AlwaysSound ==
    Spec => []IInv
  BY InitSound, StepSound, PTL DEF Spec

(* Whatever a command works with was on disk together and agreed, however  *)
(* many commands read and replace the two files meanwhile, fail between    *)
(* them or die (load_bundle, apply_safe_scope).                            *)
THEOREM PairsAreWhole ==
    Spec => []WholePairsOnly
  <1>1. ASSUME IInv
        PROVE  WholePairsOnly
    <2> SUFFICES ASSUME NEW c \in Commands \ (since \cup disturbed),
                        pc[c] \notin {"matrix", "evidence", "decisions", "align",
                                      "refused", "failed", "dead"}
                 PROVE  Pair(held[c]) \in whole
      BY DEF WholePairsOnly
    <2>1. pc[c] \in Planning \cup {"plan", "loaded"}
      BY <1>1 DEF IInv, TypeOK, CommandsTyped, Places, Loading
    <2>2. held[c].decisions = Out(held[c].classes)
      BY <1>1, <2>1 DEF IInv, PlanSound, Aligned
    <2> QED
      BY <1>1, <2>2 DEF IInv, Loaded
  <1> QED
    BY <1>1, AlwaysSound, PTL

(* Run again over what it wrote, the integration changes nothing, for any  *)
(* policy and whatever the user and other commands did since, unless there *)
(* is evidence for what the policy puts out of scope (apply_safe_scope).   *)
THEOREM RerunsAreStable ==
    Spec => []RerunIsStable
  <1>1. ASSUME IInv, done # None, Pair(disk) = done,
               disk.evidence \cap Reviewed = {}
        PROVE  /\ Aligned(disk) /\ Plannable(disk)
               /\ disk.decisions = Reviewed /\ Pair(Planned(disk)) = done
    <2>1. disk \in Registries /\ committed.evidence \subseteq disk.evidence
      BY <1>1 DEF IInv, TypeOK, DiskTyped, EvidenceKept
    <2>2. disk.decisions = done[1] /\ disk.classes = done[2]
      BY <1>1 DEF Pair
    <2>3. /\ disk.decisions = Reviewed /\ Out(disk.classes) = Reviewed
          /\ {s \in Symbols : disk.classes[s] = "equivalent"} \subseteq disk.evidence
      BY <1>1, <2>1, <2>2 DEF IInv, EvidenceKept
    <2>4. Aligned(disk) /\ Plannable(disk)
      BY <1>1, <2>3, Subsets DEF Aligned, Plannable
    <2>5. Planned(disk).classes = disk.classes
      <3>1. Planned(disk).classes
               = [s \in Symbols |-> IF s \in Reviewed THEN "out" ELSE disk.classes[s]]
        BY <2>1 DEF Planned, Registries
      <3>2. \A s \in Reviewed : disk.classes[s] = "out"
        BY <2>3 DEF Out
      <3>3. disk.classes \in [Symbols -> Classes]
        BY <2>1 DEF Registries
      <3> QED
        BY <3>1, <3>2, <3>3
    <2>6. Planned(disk).decisions = Reviewed
      BY <2>1, <2>4, PlannedFacts
    <2> QED
      BY <2>2, <2>3, <2>4, <2>5, <2>6, <1>1 DEF Pair
  <1>2. IInv => RerunIsStable
    BY <1>1 DEF RerunIsStable
  <1> QED
    BY <1>2, AlwaysSound, PTL

(* No writer that has checked the registries since the user changed them   *)
(* moves a file over what is not committed (apply_safe_scope,              *)
(* atomic_write_json).                                                     *)
THEOREM EditsAreSafe ==
    Spec => NoEditLost
  <1>1. IInv /\ [Next]_vars =>
          [\A c \in Commands, file \in {"decisions", "classes"} :
              pc[c] = Moving[file] /\ pc'[c] = After[file] /\ unsaved => c \in since]_vars
    <2> SUFFICES ASSUME IInv, NEW c \in Commands,
                        NEW file \in {"decisions", "classes"},
                        pc[c] = Moving[file], unsaved
                 PROVE  c \in since
      OBVIOUS
    <2>1. pc[c] \in Writers
      <3>1. CASE file = "decisions"
        BY <3>1 DEF Moving, Writers
      <3>2. CASE file = "classes"
        BY <3>2 DEF Moving, Writers
      <3> QED
        BY <3>1, <3>2
    <2> QED
      BY <2>1 DEF IInv, UnsavedSound
  <1> QED
    BY <1>1, AlwaysSound, PTL DEF Spec, NoEditLost

=============================================================================
