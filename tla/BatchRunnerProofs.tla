-------------------------- MODULE BatchRunnerProofs --------------------------
(***************************************************************************)
(* Theorems about SimpleDragon's batch, for any number of runs, workers    *)
(* and cases, any cancellations, failing file operations, damaged entries  *)
(* and changes of the weather file.                                        *)
(***************************************************************************)
EXTENDS BatchRunner, FiniteSetTheorems, TLAPS

(* There is at least one worker, and a worker belongs to a run.            *)
LEMMA WorkerFacts ==
    /\ WorkerCount \in Nat \ {0}
    /\ \A w \in Workers : RunOf(w) \in Runs
    /\ \A r \in Runs : <<r, 1>> \in Workers /\ RunOf(<<r, 1>>) = r
  <1>1. WorkerCount \in Nat \ {0}
    BY BatchAssumption DEF WorkerCount
  <1> QED
    BY <1>1 DEF Workers, RunOf

(* The cases are finitely many, so what is unfilled can be counted.        *)
LEMMA UnfilledCounted ==
    \A r \in Runs : Cardinality(Unfilled(r)) \in Nat
  <1>1. IsFiniteSet(Cases)
    BY BatchAssumption, FS_Interval DEF Cases
  <1> QED
    BY <1>1, FS_Subset, FS_CardinalityType DEF Unfilled

(* The counters stay natural numbers.                                      *)
LEMMA TallyTypes ==
    ASSUME NEW t \in Tally
    PROVE  /\ CountStart(t) \in Tally
           /\ \A v \in Verdict : CountEnd(t, v) \in Tally
           /\ \A n \in Nat : CountCancelled(t, n) \in Tally
  <1>1. \A k \in Counters : t[k] \in Nat
    BY DEF Tally
  <1>2. CountStart(t) \in Tally
    BY <1>1 DEF CountStart, Tally
  <1>3. \A v \in Verdict : CountEnd(t, v) \in Tally
    BY <1>1 DEF CountEnd, Tally
  <1>4. \A n \in Nat : CountCancelled(t, n) \in Tally
    BY <1>1 DEF CountCancelled, Tally
  <1> QED
    BY <1>2, <1>3, <1>4

(* The results a worker can come to.                                       *)
LEMMA VerdictTypes ==
    /\ NoVerdict \in Verdict
    /\ \A s \in Statuses : Blank(s) \in Verdict /\ Blank(s).status = s
                           /\ ~Blank(s).hit
    /\ \A b \in Weathers \cup {NoWeather} :
           /\ Success(b) \in Verdict /\ Success(b).status = "Succeeded"
           /\ ~Success(b).hit /\ Success(b).basis = b
           /\ Hit(b) \in Verdict /\ Hit(b).status = "Succeeded"
           /\ Hit(b).hit
    /\ \A v \in Verdict :
           /\ Warned(v) \in Verdict /\ Warned(v).status = v.status
           /\ Warned(v).hit = v.hit /\ Warned(v).basis = v.basis
  BY DEF NoVerdict, Blank, Success, Hit, Warned, Result, Verdict, Statuses

(* What the files can be.                                                  *)
LEMMA FileTypes ==
    /\ NoFile \in FileStates /\ NoFile.kind = "none"
    /\ \A k \in FileKinds : Without(k) \in FileStates /\ Without(k).kind = k
    /\ \A r \in Runs, b \in Weathers \cup {NoWeather} :
           /\ Whole(r, b) \in FileStates
           /\ Whole(r, b).run = r /\ Whole(r, b).basis = b
  BY DEF NoFile, Without, Whole, FileStates, FileKinds


(* The entry a worker is concerned with is a path.                         *)
LEMMA EntryIsPath ==
    ASSUME TypeOK
    PROVE  \A w \in Workers :
               held[w] # NoCase /\ phase[RunOf(w)] # "new" =>
                   /\ held[w] \in Cases
                   /\ Entry(held[w], hash[RunOf(w)]) \in EntryPaths
                   /\ files[Entry(held[w], hash[RunOf(w)])] \in FileStates
  BY WorkerFacts DEF TypeOK, FilesTyped, RunsTyped, WorkersTyped, Entry,
     EntryPaths, Paths

(* Type correctness: what each step assigns has the type of its variable.  *)
LEMMA TypeOKStep == TypeOK /\ [Next]_vars => TypeOK'
  <1> SUFFICES ASSUME TypeOK, [Next]_vars PROVE TypeOK'
    OBVIOUS
  <1> USE BatchAssumption, WorkerFacts DEF TypeOK
  <1>1. CASE EditWeather
    <2>1. FilesTyped'
      BY <1>1 DEF EditWeather, board, FilesTyped
    <2>2. RunsTyped'
      BY <1>1 DEF EditWeather, board, RunsTyped, Phases, OutputPhases
    <2>3. WorkersTyped'
      BY <1>1 DEF EditWeather, board, WorkersTyped, WorkerSteps, Busy
    <2>4. BudgetsTyped'
      BY <1>1 DEF EditWeather, board, BudgetsTyped
    <2> QED
      BY <2>1, <2>2, <2>3, <2>4
  <1>2. ASSUME NEW p \in EntryPaths, DamageEntry(p)
        PROVE  TypeOK'
    <2>1. FilesTyped'
      BY <1>2, FileTypes DEF DamageEntry, board, BeingRead, FilesTyped,
         FileKinds, Paths
    <2>2. RunsTyped'
      BY <1>2 DEF DamageEntry, board, BeingRead, RunsTyped, Phases, OutputPhases
    <2>3. WorkersTyped'
      BY <1>2 DEF DamageEntry, board, BeingRead, WorkersTyped, WorkerSteps, Busy
    <2>4. BudgetsTyped'
      BY <1>2 DEF DamageEntry, board, BeingRead, BudgetsTyped
    <2> QED
      BY <2>1, <2>2, <2>3, <2>4
  <1>3. ASSUME NEW r \in Runs, Prepare(r)
        PROVE  TypeOK'
    <2>1. FilesTyped'
      BY <1>3 DEF Prepare, budgets, FilesTyped
    <2>2. RunsTyped'
      BY <1>3 DEF Prepare, budgets, RunsTyped, Phases, OutputPhases, FilesTyped
    <2>3. WorkersTyped'
      BY <1>3 DEF Prepare, budgets, WorkersTyped, WorkerSteps, Busy
    <2>4. BudgetsTyped'
      BY <1>3 DEF Prepare, budgets, BudgetsTyped
    <2> QED
      BY <2>1, <2>2, <2>3, <2>4
  <1>4. ASSUME NEW r \in Runs, Cancel(r)
        PROVE  TypeOK'
    <2>1. FilesTyped'
      BY <1>4 DEF Cancel, board, budgets, FilesTyped
    <2>2. RunsTyped'
      BY <1>4 DEF Cancel, board, budgets, RunsTyped, Phases, OutputPhases
    <2>3. WorkersTyped'
      BY <1>4 DEF Cancel, board, budgets, WorkersTyped, WorkerSteps, Busy
    <2>4. BudgetsTyped'
      BY <1>4 DEF Cancel, board, budgets, BudgetsTyped
    <2> QED
      BY <2>1, <2>2, <2>3, <2>4
  <1>5. ASSUME NEW r \in Runs, Gather(r)
        PROVE  TypeOK'
    <2>1. FilesTyped'
      BY <1>5 DEF Gather, budgets, CountCancelled, FilesTyped
    <2>2. RunsTyped'
      <3>1. CountCancelled(tally[r], Cardinality(Unfilled(r))) \in Tally
        BY UnfilledCounted, TallyTypes DEF RunsTyped
      <3>2. [c \in Cases |-> IF Empty(results[r][c]) THEN Blank("Cancelled")
                             ELSE results[r][c]] \in [Cases -> Verdict]
        BY VerdictTypes DEF RunsTyped, Statuses
      <3> QED
        BY <1>5, <3>1, <3>2 DEF Gather, budgets, RunsTyped, Phases, OutputPhases
    <2>3. WorkersTyped'
      BY <1>5 DEF Gather, budgets, CountCancelled, WorkersTyped, WorkerSteps,
         Busy
    <2>4. BudgetsTyped'
      BY <1>5 DEF Gather, budgets, CountCancelled, BudgetsTyped
    <2> QED
      BY <2>1, <2>2, <2>3, <2>4
  <1>6. ASSUME NEW r \in Runs, Rethrow(r)
        PROVE  TypeOK'
    <2>1. FilesTyped'
      BY <1>6 DEF Rethrow, budgets, FilesTyped
    <2>2. RunsTyped'
      BY <1>6 DEF Rethrow, budgets, RunsTyped, Phases, OutputPhases
    <2>3. WorkersTyped'
      BY <1>6 DEF Rethrow, budgets, WorkersTyped, WorkerSteps, Busy
    <2>4. BudgetsTyped'
      BY <1>6 DEF Rethrow, budgets, BudgetsTyped
    <2> QED
      BY <2>1, <2>2, <2>3, <2>4
  <1>7. ASSUME NEW r \in Runs, ProbeOutput(r)
        PROVE  TypeOK'
    <2>1. FilesTyped'
      BY <1>7 DEF ProbeOutput, Fault, NoFault, FilesTyped
    <2>2. RunsTyped'
      BY <1>7 DEF ProbeOutput, Fault, NoFault, RunsTyped, Phases, OutputPhases
    <2>3. WorkersTyped'
      BY <1>7 DEF ProbeOutput, Fault, NoFault, WorkersTyped, WorkerSteps, Busy
    <2>4. BudgetsTyped'
      BY <1>7 DEF ProbeOutput, Fault, NoFault, BudgetsTyped
    <2> QED
      BY <2>1, <2>2, <2>3, <2>4
  <1>8. ASSUME NEW r \in Runs, PublishOutput(r)
        PROVE  TypeOK'
    <2>1. FilesTyped'
      BY <1>8, FileTypes DEF PublishOutput, Fault, NoFault, MoveTo, ReplaceWith,
         Present, After, FilesTyped
    <2>2. RunsTyped'
      BY <1>8 DEF PublishOutput, Fault, NoFault, MoveTo, ReplaceWith, Present,
         After, RunsTyped, Phases, OutputPhases
    <2>3. WorkersTyped'
      BY <1>8 DEF PublishOutput, Fault, NoFault, MoveTo, ReplaceWith, Present,
         After, WorkersTyped, WorkerSteps, Busy
    <2>4. BudgetsTyped'
      BY <1>8 DEF PublishOutput, Fault, NoFault, MoveTo, ReplaceWith, Present,
         After, BudgetsTyped
    <2> QED
      BY <2>1, <2>2, <2>3, <2>4
  <1>9. ASSUME NEW w \in Workers, Claim(w)
        PROVE  TypeOK'
    <2>1. FilesTyped'
      BY <1>9 DEF Claim, Running, Goto, budgets, FilesTyped
    <2>2. RunsTyped'
      BY <1>9 DEF Claim, Running, Goto, budgets, RunsTyped, Phases, OutputPhases
    <2>3. WorkersTyped'
      BY <1>9 DEF Claim, Running, Goto, budgets, WorkersTyped, WorkerSteps, Busy,
         Cases, NoCase, RunsTyped
    <2>4. BudgetsTyped'
      BY <1>9 DEF Claim, Running, Goto, budgets, BudgetsTyped
    <2> QED
      BY <2>1, <2>2, <2>3, <2>4
  <1>10. ASSUME NEW w \in Workers, Leave(w)
         PROVE  TypeOK'
    <2>1. FilesTyped'
      BY <1>10 DEF Leave, Running, Goto, budgets, FilesTyped
    <2>2. RunsTyped'
      BY <1>10 DEF Leave, Running, Goto, budgets, RunsTyped, Phases, OutputPhases
    <2>3. WorkersTyped'
      BY <1>10 DEF Leave, Running, Goto, budgets, WorkersTyped, WorkerSteps, Busy
    <2>4. BudgetsTyped'
      BY <1>10 DEF Leave, Running, Goto, budgets, BudgetsTyped
    <2> QED
      BY <2>1, <2>2, <2>3, <2>4
  <1>11. ASSUME NEW w \in Workers, Start(w)
         PROVE  TypeOK'
    <2>1. FilesTyped'
      BY <1>11 DEF Start, Running, Goto, budgets, CountStart, FilesTyped
    <2>2. RunsTyped'
      BY <1>11, TallyTypes DEF Start, Running, Goto, budgets, CountStart,
         RunsTyped, Phases, OutputPhases
    <2>3. WorkersTyped'
      BY <1>11 DEF Start, Running, Goto, budgets, CountStart, WorkersTyped,
         WorkerSteps, Busy
    <2>4. BudgetsTyped'
      BY <1>11 DEF Start, Running, Goto, budgets, CountStart, BudgetsTyped
    <2> QED
      BY <2>1, <2>2, <2>3, <2>4
  <1>12. ASSUME NEW w \in Workers, Look(w)
         PROVE  TypeOK'
    <2>1. FilesTyped'
      BY <1>12 DEF Look, Running, Goto, Conclude, board, budgets, Present,
         FilesTyped
    <2>2. RunsTyped'
      BY <1>12 DEF Look, Running, Goto, Conclude, board, budgets, Present,
         RunsTyped, Phases, OutputPhases
    <2>3. WorkersTyped'
      BY <1>12, VerdictTypes DEF Look, Running, Goto, Conclude, board, budgets,
         Present, WorkersTyped, WorkerSteps, Busy, Statuses, Empty
    <2>4. BudgetsTyped'
      BY <1>12 DEF Look, Running, Goto, Conclude, board, budgets, Present,
         BudgetsTyped
    <2> QED
      BY <2>1, <2>2, <2>3, <2>4
  <1>13. ASSUME NEW w \in Workers, Read(w)
         PROVE  TypeOK'
    <2>1. FilesTyped'
      BY <1>13 DEF Read, Running, Goto, Conclude, Fault, NoFault, board,
         FilesTyped
    <2>2. RunsTyped'
      BY <1>13 DEF Read, Running, Goto, Conclude, Fault, NoFault, board,
         RunsTyped, Phases, OutputPhases
    <2>3. WorkersTyped'
      <3>1. files[Entry(held[w], hash[RunOf(w)])].basis
                \in Weathers \cup {NoWeather}
        BY <1>13, EntryIsPath DEF Read, Running, WorkersTyped, FileStates
      <3>2. \/ verdict' = verdict /\ pc' \in {[pc EXCEPT ![w] = "execute"],
                                            [pc EXCEPT ![w] = "faulted"]}
            \/ \E b \in Weathers \cup {NoWeather} :
                   Conclude(w, Hit(b))
        BY <1>13, <3>1 DEF Read, Goto
      <3>3. held' = held /\ pc[w] = "reading"
        BY <1>13 DEF Read, Running
      <3> QED
        BY <3>2, <3>3, VerdictTypes DEF Conclude, Goto, WorkersTyped,
           WorkerSteps, Busy, Empty
    <2>4. BudgetsTyped'
      BY <1>13 DEF Read, Running, Goto, Conclude, Fault, NoFault, board,
         BudgetsTyped
    <2> QED
      BY <2>1, <2>2, <2>3, <2>4
  <1>14. ASSUME NEW w \in Workers, BeginExecution(w)
         PROVE  TypeOK'
    <2>1. FilesTyped'
      BY <1>14 DEF BeginExecution, Running, Goto, Conclude, board, budgets,
         FilesTyped
    <2>2. RunsTyped'
      BY <1>14 DEF BeginExecution, Running, Goto, Conclude, board, budgets,
         RunsTyped, Phases, OutputPhases
    <2>3. WorkersTyped'
      BY <1>14, VerdictTypes DEF BeginExecution, Running, Goto, Conclude, board,
         budgets, WorkersTyped, WorkerSteps, Busy, Statuses, Empty, FilesTyped
    <2>4. BudgetsTyped'
      BY <1>14 DEF BeginExecution, Running, Goto, Conclude, board, budgets,
         BudgetsTyped
    <2> QED
      BY <2>1, <2>2, <2>3, <2>4
  <1>15. ASSUME NEW w \in Workers, EndExecution(w)
         PROVE  TypeOK'
    <2>1. FilesTyped'
      BY <1>15 DEF EndExecution, Running, Goto, Conclude, board, budgets,
         FilesTyped
    <2>2. RunsTyped'
      BY <1>15 DEF EndExecution, Running, Goto, Conclude, board, budgets,
         RunsTyped, Phases, OutputPhases
    <2>3. WorkersTyped'
      BY <1>15, VerdictTypes DEF EndExecution, Running, Goto, Conclude, board,
         budgets, WorkersTyped, WorkerSteps, Busy, Statuses, Empty
    <2>4. BudgetsTyped'
      BY <1>15 DEF EndExecution, Running, Goto, Conclude, board, budgets,
         BudgetsTyped
    <2> QED
      BY <2>1, <2>2, <2>3, <2>4
  <1>16. ASSUME NEW w \in Workers, WritePrivate(w)
         PROVE  TypeOK'
    <2>1. FilesTyped'
      BY <1>16 DEF WritePrivate, Running, Goto, Conclude, Fault, NoFault, board,
         Warn, Present, FilesTyped
    <2>2. RunsTyped'
      BY <1>16 DEF WritePrivate, Running, Goto, Conclude, Fault, NoFault, board,
         Warn, Present, RunsTyped, Phases, OutputPhases
    <2>3. WorkersTyped'
      BY <1>16, VerdictTypes DEF WritePrivate, Running, Goto, Conclude, Fault,
         NoFault, board, Warn, Present, WorkersTyped, WorkerSteps, Busy,
         Statuses, Empty
    <2>4. BudgetsTyped'
      BY <1>16 DEF WritePrivate, Running, Goto, Conclude, Fault, NoFault, board,
         Warn, Present, BudgetsTyped
    <2> QED
      BY <2>1, <2>2, <2>3, <2>4
  <1>17. ASSUME NEW w \in Workers, Publish(w)
         PROVE  TypeOK'
    <2>1. FilesTyped'
      BY <1>17, FileTypes DEF Publish, Running, Goto, Conclude, Fault, NoFault,
         board, Warn, MoveTo, ReplaceWith, Present, FilesTyped, WorkersTyped,
         Verdict
    <2>2. RunsTyped'
      BY <1>17 DEF Publish, Running, Goto, Conclude, Fault, NoFault, board, Warn,
         MoveTo, ReplaceWith, Present, RunsTyped, Phases, OutputPhases
    <2>3. WorkersTyped'
      BY <1>17, VerdictTypes DEF Publish, Running, Goto, Conclude, Fault, NoFault,
         board, Warn, MoveTo, ReplaceWith, Present, WorkersTyped, WorkerSteps,
         Busy, Statuses, Empty
    <2>4. BudgetsTyped'
      BY <1>17 DEF Publish, Running, Goto, Conclude, Fault, NoFault, board, Warn,
         MoveTo, ReplaceWith, Present, BudgetsTyped
    <2> QED
      BY <2>1, <2>2, <2>3, <2>4
  <1>18. ASSUME NEW w \in Workers, Complete(w)
         PROVE  TypeOK'
    <2>1. FilesTyped'
      BY <1>18 DEF Complete, Running, Goto, budgets, CountEnd, FilesTyped
    <2>2. RunsTyped'
      <3>1. CountEnd(tally[RunOf(w)], verdict[w]) \in Tally
        BY TallyTypes DEF RunsTyped, WorkersTyped
      <3>2. held[w] \in Cases
        BY <1>18 DEF Complete, Running, WorkersTyped, NoCase
      <3> QED
        BY <1>18, <3>1, <3>2 DEF Complete, Running, Goto, budgets, RunsTyped,
           WorkersTyped
    <2>3. WorkersTyped'
      BY <1>18, VerdictTypes DEF Complete, Running, Goto, budgets, CountEnd,
         WorkersTyped, WorkerSteps, Busy, NoCase
    <2>4. BudgetsTyped'
      BY <1>18 DEF Complete, Running, Goto, budgets, CountEnd, BudgetsTyped
    <2> QED
      BY <2>1, <2>2, <2>3, <2>4
  <1>19. CASE UNCHANGED vars
    BY <1>19 DEF vars, FilesTyped, RunsTyped, Phases, OutputPhases, WorkersTyped,
       WorkerSteps, Busy, BudgetsTyped
  <1> QED
    BY <1>1, <1>2, <1>3, <1>4, <1>5, <1>6, <1>7, <1>8, <1>9, <1>10, <1>11,
       <1>12, <1>13, <1>14, <1>15, <1>16, <1>17, <1>18, <1>19 DEF Next,
       WorkerStep, RunStep

(* The initial states are well typed.                                      *)
LEMMA TypeCorrectAtInit == Init => TypeOK
  <1> SUFFICES ASSUME Init PROVE TypeOK
    OBVIOUS
  <1> USE BatchAssumption, WorkerFacts DEF Init
  <1>1. FilesTyped
    BY FileTypes DEF FilesTyped
  <1>2. RunsTyped
    BY VerdictTypes DEF RunsTyped, Phases, Tally
  <1>3. WorkersTyped
    BY VerdictTypes DEF WorkersTyped, WorkerSteps, NoCase
  <1> QED
    BY <1>1, <1>2, <1>3 DEF TypeOK, BudgetsTyped

(* Every reachable state is well typed.                                    *)
THEOREM TypeCorrect == Spec => []TypeOK
  BY TypeCorrectAtInit, TypeOKStep, PTL DEF Spec

-----------------------------------------------------------------------------
(* The induction behind the other theorems.  Before a run begins its       *)
(* workers have done nothing.  Two workers of a run never hold the same    *)
(* case, and what they hold was handed out.  Until the final sweep a case  *)
(* lacks a result exactly if it was not handed out or is still held.  A    *)
(* worker leaves only a cancelled run or one whose cases are all handed    *)
(* out, and reports a cancelled case only in a cancelled run.              *)
Fresh == \A w \in Workers : phase[RunOf(w)] = "new" => pc[w] = "loop"

Exclusive ==
    \A w \in Workers : held[w] # NoCase =>
        /\ held[w] < nextCase[RunOf(w)]
        /\ \A v \in Workers :
               RunOf(v) = RunOf(w) /\ v # w => held[v] # held[w]

Outstanding(r, c) ==
    c >= nextCase[r] \/ \E w \in Workers : RunOf(w) = r /\ held[w] = c

Accounted ==
    \A r \in Runs, c \in Cases :
        phase[r] \in {"new", "running"} =>
            (Empty(results[r][c]) <=> Outstanding(r, c))

Justified ==
    \A w \in Workers :
        /\ pc[w] = "left" =>
               cancelled[RunOf(w)] \/ nextCase[RunOf(w)] >= NumCases
        /\ pc[w] = "report" /\ verdict[w].status = "Cancelled" =>
               cancelled[RunOf(w)]

Claims == TypeOK /\ Fresh /\ Exclusive /\ Accounted /\ Justified

(* The induction step.                                                     *)
LEMMA ClaimsStep == Claims /\ [Next]_vars => Claims'
  <1> SUFFICES ASSUME Claims, [Next]_vars PROVE Claims'
    OBVIOUS
  <1> USE BatchAssumption, WorkerFacts DEF Claims
  <1> TypeOK'
    BY TypeOKStep
  <1>1. CASE EditWeather
    <2>1. Fresh'
      BY <1>1 DEF EditWeather, board, Fresh, TypeOK, RunsTyped, WorkersTyped
    <2>2. Exclusive'
      BY <1>1 DEF EditWeather, board, Exclusive, TypeOK, RunsTyped, WorkersTyped
    <2>3. Accounted'
      BY <1>1 DEF EditWeather, board, Accounted, Outstanding, TypeOK, RunsTyped,
         WorkersTyped
    <2>4. Justified'
      BY <1>1 DEF EditWeather, board, Justified, TypeOK, RunsTyped, WorkersTyped
    <2> QED
      BY <2>1, <2>2, <2>3, <2>4
  <1>2. ASSUME NEW p \in EntryPaths, DamageEntry(p)
        PROVE  Claims'
    <2>1. Fresh'
      BY <1>2 DEF DamageEntry, board, BeingRead, Fresh, TypeOK, RunsTyped,
         WorkersTyped
    <2>2. Exclusive'
      BY <1>2 DEF DamageEntry, board, BeingRead, Exclusive, TypeOK, RunsTyped,
         WorkersTyped
    <2>3. Accounted'
      BY <1>2 DEF DamageEntry, board, BeingRead, Accounted, Outstanding, TypeOK,
         RunsTyped, WorkersTyped
    <2>4. Justified'
      BY <1>2 DEF DamageEntry, board, BeingRead, Justified, TypeOK, RunsTyped,
         WorkersTyped
    <2> QED
      BY <2>1, <2>2, <2>3, <2>4
  <1>3. ASSUME NEW r \in Runs, Prepare(r)
        PROVE  Claims'
    <2>1. Fresh'
      BY <1>3 DEF Prepare, budgets, Fresh, TypeOK, RunsTyped, WorkersTyped
    <2>2. Exclusive'
      BY <1>3 DEF Prepare, budgets, Exclusive, TypeOK, RunsTyped, WorkersTyped
    <2>3. Accounted'
      BY <1>3 DEF Prepare, budgets, Accounted, Outstanding, TypeOK, RunsTyped,
         WorkersTyped
    <2>4. Justified'
      BY <1>3 DEF Prepare, budgets, Justified, TypeOK, RunsTyped, WorkersTyped
    <2> QED
      BY <2>1, <2>2, <2>3, <2>4
  <1>4. ASSUME NEW r \in Runs, Cancel(r)
        PROVE  Claims'
    <2>1. Fresh'
      BY <1>4 DEF Cancel, board, budgets, Fresh, TypeOK, RunsTyped, WorkersTyped
    <2>2. Exclusive'
      BY <1>4 DEF Cancel, board, budgets, Exclusive, TypeOK, RunsTyped,
         WorkersTyped
    <2>3. Accounted'
      BY <1>4 DEF Cancel, board, budgets, Accounted, Outstanding, TypeOK,
         RunsTyped, WorkersTyped
    <2>4. Justified'
      BY <1>4 DEF Cancel, board, budgets, Justified, TypeOK, RunsTyped,
         WorkersTyped
    <2> QED
      BY <2>1, <2>2, <2>3, <2>4
  <1>5. ASSUME NEW r \in Runs, Gather(r)
        PROVE  Claims'
    <2>1. Fresh'
      BY <1>5 DEF Gather, budgets, CountCancelled, Fresh, TypeOK, RunsTyped,
         WorkersTyped
    <2>2. Exclusive'
      BY <1>5 DEF Gather, budgets, CountCancelled, Exclusive, TypeOK, RunsTyped,
         WorkersTyped
    <2>3. Accounted'
      BY <1>5 DEF Gather, budgets, CountCancelled, Accounted, Outstanding,
         TypeOK, RunsTyped, WorkersTyped
    <2>4. Justified'
      BY <1>5 DEF Gather, budgets, CountCancelled, Justified, TypeOK, RunsTyped,
         WorkersTyped
    <2> QED
      BY <2>1, <2>2, <2>3, <2>4
  <1>6. ASSUME NEW r \in Runs, Rethrow(r)
        PROVE  Claims'
    <2>1. Fresh'
      BY <1>6 DEF Rethrow, budgets, Fresh, TypeOK, RunsTyped, WorkersTyped
    <2>2. Exclusive'
      BY <1>6 DEF Rethrow, budgets, Exclusive, TypeOK, RunsTyped, WorkersTyped
    <2>3. Accounted'
      BY <1>6 DEF Rethrow, budgets, Accounted, Outstanding, TypeOK, RunsTyped,
         WorkersTyped
    <2>4. Justified'
      BY <1>6 DEF Rethrow, budgets, Justified, TypeOK, RunsTyped, WorkersTyped
    <2> QED
      BY <2>1, <2>2, <2>3, <2>4
  <1>7. ASSUME NEW r \in Runs, ProbeOutput(r)
        PROVE  Claims'
    <2>1. Fresh'
      BY <1>7 DEF ProbeOutput, Fault, NoFault, Fresh, TypeOK, RunsTyped,
         WorkersTyped
    <2>2. Exclusive'
      BY <1>7 DEF ProbeOutput, Fault, NoFault, Exclusive, TypeOK, RunsTyped,
         WorkersTyped
    <2>3. Accounted'
      BY <1>7 DEF ProbeOutput, Fault, NoFault, Accounted, Outstanding, TypeOK,
         RunsTyped, WorkersTyped
    <2>4. Justified'
      BY <1>7 DEF ProbeOutput, Fault, NoFault, Justified, TypeOK, RunsTyped,
         WorkersTyped
    <2> QED
      BY <2>1, <2>2, <2>3, <2>4
  <1>8. ASSUME NEW r \in Runs, PublishOutput(r)
        PROVE  Claims'
    <2>1. Fresh'
      BY <1>8 DEF PublishOutput, Fault, NoFault, MoveTo, ReplaceWith, Present,
         After, Fresh, TypeOK, RunsTyped, WorkersTyped
    <2>2. Exclusive'
      BY <1>8 DEF PublishOutput, Fault, NoFault, MoveTo, ReplaceWith, Present,
         After, Exclusive, TypeOK, RunsTyped, WorkersTyped
    <2>3. Accounted'
      BY <1>8 DEF PublishOutput, Fault, NoFault, MoveTo, ReplaceWith, Present,
         After, Accounted, Outstanding, TypeOK, RunsTyped, WorkersTyped
    <2>4. Justified'
      BY <1>8 DEF PublishOutput, Fault, NoFault, MoveTo, ReplaceWith, Present,
         After, Justified, TypeOK, RunsTyped, WorkersTyped
    <2> QED
      BY <2>1, <2>2, <2>3, <2>4
  <1>9. ASSUME NEW w \in Workers, Claim(w)
        PROVE  Claims'
    <2>1. Fresh'
      BY <1>9 DEF Claim, Running, Goto, budgets, Fresh, TypeOK, RunsTyped,
         WorkersTyped
    <2>2. Exclusive'
      <3> DEFINE r == RunOf(w)
      <3>0. r \in Runs /\ nextCase \in [Runs -> Nat]
        BY DEF TypeOK, RunsTyped
      <3> HIDE DEF r
      <3>1. /\ nextCase[r] \in Nat /\ nextCase[r] < NumCases
            /\ nextCase' = [nextCase EXCEPT ![r] = nextCase[r] + 1]
            /\ held' = [held EXCEPT ![w] = nextCase[r]]
        BY <1>9, <3>0 DEF Claim, r
      <3>2. \A v \in Workers : held[v] \in Nat
        BY DEF TypeOK, WorkersTyped, Cases, NoCase
      <3>3. \A q \in Runs : nextCase'[q] \in Nat /\ nextCase'[q] >= nextCase[q]
        BY <3>0, <3>1
      <3>4. \A v \in Workers : RunOf(v) = r /\ v # w => held[v] # nextCase[r]
        BY <3>1 DEF Exclusive, NoCase, r
      <3>5. ASSUME NEW u \in Workers, held'[u] # NoCase
            PROVE  /\ held'[u] < nextCase'[RunOf(u)]
                   /\ \A v \in Workers :
                          RunOf(v) = RunOf(u) /\ v # u => held'[v] # held'[u]
        <4>1. CASE u = w
          <5>1. held'[u] = nextCase[r] /\ RunOf(u) = r
            BY <4>1, <3>1 DEF TypeOK, WorkersTyped, r
          <5>2. nextCase'[r] = nextCase[r] + 1
            BY <3>0, <3>1
          <5>3. \A v \in Workers : v # u => held'[v] = held[v]
            BY <4>1, <3>1 DEF TypeOK, WorkersTyped
          <5> QED
            BY <4>1, <5>1, <5>2, <5>3, <3>1, <3>4
        <4>2. CASE u # w
          <5>1. held'[u] = held[u] /\ held[u] < nextCase[RunOf(u)]
            BY <4>2, <3>1, <3>5 DEF Exclusive, TypeOK, WorkersTyped
          <5>2. \A v \in Workers : v # w => held'[v] = held[v]
            BY <3>1 DEF TypeOK, WorkersTyped
          <5>3. RunOf(u) = r => held'[w] # held[u]
            BY <4>2, <3>1, <3>4 DEF TypeOK, WorkersTyped
          <5>4. held'[u] < nextCase'[RunOf(u)]
            BY <5>1, <3>2, <3>3 DEF TypeOK, RunsTyped
          <5> QED
            BY <4>2, <5>1, <5>2, <5>3, <5>4, <3>5 DEF Exclusive, r
        <4> QED
          BY <4>1, <4>2
      <3> QED
        BY <3>5 DEF Exclusive
    <2>3. Accounted'
      <3> DEFINE r == RunOf(w)
      <3>0. r \in Runs /\ nextCase \in [Runs -> Nat]
        BY DEF TypeOK, RunsTyped
      <3> HIDE DEF r
      <3>1. /\ nextCase[r] \in Nat /\ nextCase[r] < NumCases
            /\ nextCase' = [nextCase EXCEPT ![r] = nextCase[r] + 1]
            /\ held' = [held EXCEPT ![w] = nextCase[r]]
            /\ results' = results /\ phase' = phase
            /\ held[w] = NoCase
        BY <1>9, <3>0 DEF Claim, Running, TypeOK, WorkersTyped, r
      <3>2. ASSUME NEW q \in Runs, NEW c \in Cases
            PROVE  Outstanding(q, c) <=> Outstanding(q, c)'
        <4>1. \A v \in Workers : v # w => held'[v] = held[v]
          BY <3>1 DEF TypeOK, WorkersTyped
        <4>2. held'[w] = nextCase[r] /\ held[w] # c
          BY <3>1 DEF TypeOK, WorkersTyped, Cases, NoCase
        <4>3. CASE q # r
          BY <4>1, <4>3, <3>0, <3>1 DEF Outstanding, r
        <4>4. CASE q = r
          <5>1. nextCase'[q] = nextCase[q] + 1 /\ c \in Nat
            BY <4>4, <3>0, <3>1 DEF Cases
          <5>2. c >= nextCase[q] <=> c >= nextCase'[q] \/ held'[w] = c
            BY <5>1, <4>2, <4>4, <3>1
          <5> QED
            BY <5>2, <4>1, <4>2, <4>4 DEF Outstanding, r
        <4> QED
          BY <4>3, <4>4
      <3> QED
        BY <3>1, <3>2 DEF Accounted
    <2>4. Justified'
      BY <1>9 DEF Claim, Running, Goto, budgets, Justified, TypeOK, RunsTyped,
         WorkersTyped
    <2> QED
      BY <2>1, <2>2, <2>3, <2>4
  <1>10. ASSUME NEW w \in Workers, Leave(w)
         PROVE  Claims'
    <2>1. Fresh'
      BY <1>10 DEF Leave, Running, Goto, budgets, Fresh, TypeOK, RunsTyped,
         WorkersTyped
    <2>2. Exclusive'
      <3>1. /\ held' = held /\ results' = results /\ phase' = phase
            /\ \A r \in Runs :
                   /\ nextCase'[r] >= nextCase[r]
                   /\ nextCase'[r] # nextCase[r] => nextCase[r] >= NumCases
        BY <1>10 DEF Leave, budgets, TypeOK, RunsTyped
      <3>2. \A r \in Runs : nextCase[r] \in Nat /\ nextCase'[r] \in Nat
        BY DEF TypeOK, RunsTyped
      <3>3. \A v \in Workers : held[v] \in Nat
        BY DEF TypeOK, WorkersTyped, Cases, NoCase
      <3> QED
        BY <3>1, <3>2, <3>3 DEF Exclusive
    <2>3. Accounted'
      <3>1. /\ held' = held /\ results' = results /\ phase' = phase
            /\ \A r \in Runs :
                   /\ nextCase'[r] >= nextCase[r]
                   /\ nextCase'[r] # nextCase[r] => nextCase[r] >= NumCases
        BY <1>10 DEF Leave, budgets, TypeOK, RunsTyped
      <3>2. \A r \in Runs : nextCase[r] \in Nat /\ nextCase'[r] \in Nat
        BY DEF TypeOK, RunsTyped
      <3>3. \A c \in Cases : c \in Nat /\ c < NumCases
        BY DEF Cases
      <3>4. \A r \in Runs, c \in Cases :
                c >= nextCase[r] <=> c >= nextCase'[r]
        BY <3>1, <3>2, <3>3
      <3> QED
        BY <3>1, <3>4 DEF Accounted, Outstanding
    <2>4. Justified'
      <3>1. /\ held' = held /\ results' = results /\ phase' = phase
            /\ \A r \in Runs :
                   /\ nextCase'[r] >= nextCase[r]
                   /\ nextCase'[r] # nextCase[r] => nextCase[r] >= NumCases
        BY <1>10 DEF Leave, budgets, TypeOK, RunsTyped
      <3>2. \A r \in Runs : nextCase[r] \in Nat /\ nextCase'[r] \in Nat
        BY DEF TypeOK, RunsTyped
      <3>3. /\ cancelled' = cancelled /\ verdict' = verdict
            /\ pc' = [pc EXCEPT ![w] = "left"]
            /\ cancelled[RunOf(w)] \/ nextCase[RunOf(w)] >= NumCases
        BY <1>10 DEF Leave, Goto
      <3>4. \A v \in Workers : v # w => pc'[v] = pc[v]
        BY <3>3 DEF TypeOK, WorkersTyped
      <3>5. \A r \in Runs : nextCase[r] >= NumCases => nextCase'[r] >= NumCases
        BY <3>1, <3>2
      <3>6. pc'[w] = "left"
        BY <3>3 DEF TypeOK, WorkersTyped
      <3> QED
        BY <3>3, <3>4, <3>5, <3>6 DEF Justified
    <2> QED
      BY <2>1, <2>2, <2>3, <2>4
  <1>11. ASSUME NEW w \in Workers, Start(w)
         PROVE  Claims'
    <2>1. Fresh'
      BY <1>11 DEF Start, Running, Goto, budgets, CountStart, Fresh, TypeOK,
         RunsTyped, WorkersTyped
    <2>2. Exclusive'
      BY <1>11 DEF Start, Running, Goto, budgets, CountStart, Exclusive, TypeOK,
         RunsTyped, WorkersTyped
    <2>3. Accounted'
      BY <1>11 DEF Start, Running, Goto, budgets, CountStart, Accounted,
         Outstanding, TypeOK, RunsTyped, WorkersTyped
    <2>4. Justified'
      BY <1>11 DEF Start, Running, Goto, budgets, CountStart, Justified, TypeOK,
         RunsTyped, WorkersTyped
    <2> QED
      BY <2>1, <2>2, <2>3, <2>4
  <1>12. ASSUME NEW w \in Workers, Look(w)
         PROVE  Claims'
    <2>1. Fresh'
      BY <1>12 DEF Look, Running, Goto, Conclude, board, budgets, Present, Fresh,
         TypeOK, RunsTyped, WorkersTyped
    <2>2. Exclusive'
      BY <1>12 DEF Look, Running, Goto, Conclude, board, budgets, Present,
         Exclusive, TypeOK, RunsTyped, WorkersTyped
    <2>3. Accounted'
      BY <1>12 DEF Look, Running, Goto, Conclude, board, budgets, Present,
         Accounted, Outstanding, TypeOK, RunsTyped, WorkersTyped
    <2>4. Justified'
      BY <1>12, VerdictTypes DEF Look, Running, Goto, Conclude, board, budgets,
         Present, Justified, TypeOK, RunsTyped, WorkersTyped, Statuses
    <2> QED
      BY <2>1, <2>2, <2>3, <2>4
  <1>13. ASSUME NEW w \in Workers, Read(w)
         PROVE  Claims'
    <2>1. Fresh'
      BY <1>13 DEF Read, Running, Goto, Conclude, Fault, NoFault, board, Fresh,
         TypeOK, RunsTyped, WorkersTyped
    <2>2. Exclusive'
      BY <1>13 DEF Read, Running, Goto, Conclude, Fault, NoFault, board,
         Exclusive, TypeOK, RunsTyped, WorkersTyped
    <2>3. Accounted'
      BY <1>13 DEF Read, Running, Goto, Conclude, Fault, NoFault, board,
         Accounted, Outstanding, TypeOK, RunsTyped, WorkersTyped
    <2>4. Justified'
      <3>1. /\ \A v \in Workers : v # w => pc'[v] = pc[v]
            /\ \A v \in Workers : v # w => verdict'[v] = verdict[v]
            /\ cancelled' = cancelled /\ nextCase' = nextCase
        BY <1>13 DEF Read, Conclude, Goto, board, TypeOK, WorkersTyped
      <3>2. pc'[w] # "left"
        BY <1>13 DEF Read, Conclude, Goto, TypeOK, WorkersTyped
      <3>3. pc'[w] = "report" => verdict'[w].status # "Cancelled"
        <4> SUFFICES ASSUME pc'[w] = "report"
                     PROVE  verdict'[w].status # "Cancelled"
          OBVIOUS
        <4>1. \E b : verdict'[w] = Hit(b)
          BY <1>13 DEF Read, Conclude, Goto, TypeOK, WorkersTyped
        <4> QED
          BY <4>1 DEF Hit, Result
      <3> QED
        BY <3>1, <3>2, <3>3 DEF Justified
    <2> QED
      BY <2>1, <2>2, <2>3, <2>4
  <1>14. ASSUME NEW w \in Workers, BeginExecution(w)
         PROVE  Claims'
    <2>1. Fresh'
      BY <1>14 DEF BeginExecution, Running, Goto, Conclude, board, budgets, Fresh,
         TypeOK, RunsTyped, WorkersTyped
    <2>2. Exclusive'
      BY <1>14 DEF BeginExecution, Running, Goto, Conclude, board, budgets,
         Exclusive, TypeOK, RunsTyped, WorkersTyped
    <2>3. Accounted'
      BY <1>14 DEF BeginExecution, Running, Goto, Conclude, board, budgets,
         Accounted, Outstanding, TypeOK, RunsTyped, WorkersTyped
    <2>4. Justified'
      BY <1>14, VerdictTypes DEF BeginExecution, Running, Goto, Conclude, board,
         budgets, Justified, TypeOK, RunsTyped, WorkersTyped, Statuses
    <2> QED
      BY <2>1, <2>2, <2>3, <2>4
  <1>15. ASSUME NEW w \in Workers, EndExecution(w)
         PROVE  Claims'
    <2>1. Fresh'
      BY <1>15 DEF EndExecution, Running, Goto, Conclude, board, budgets, Fresh,
         TypeOK, RunsTyped, WorkersTyped
    <2>2. Exclusive'
      BY <1>15 DEF EndExecution, Running, Goto, Conclude, board, budgets,
         Exclusive, TypeOK, RunsTyped, WorkersTyped
    <2>3. Accounted'
      BY <1>15 DEF EndExecution, Running, Goto, Conclude, board, budgets,
         Accounted, Outstanding, TypeOK, RunsTyped, WorkersTyped
    <2>4. Justified'
      BY <1>15, VerdictTypes DEF EndExecution, Running, Goto, Conclude, board,
         budgets, Justified, TypeOK, RunsTyped, WorkersTyped, Statuses
    <2> QED
      BY <2>1, <2>2, <2>3, <2>4
  <1>16. ASSUME NEW w \in Workers, WritePrivate(w)
         PROVE  Claims'
    <2>1. Fresh'
      BY <1>16 DEF WritePrivate, Running, Goto, Conclude, Fault, NoFault, board,
         Warn, Present, Fresh, TypeOK, RunsTyped, WorkersTyped
    <2>2. Exclusive'
      BY <1>16 DEF WritePrivate, Running, Goto, Conclude, Fault, NoFault, board,
         Warn, Present, Exclusive, TypeOK, RunsTyped, WorkersTyped
    <2>3. Accounted'
      BY <1>16 DEF WritePrivate, Running, Goto, Conclude, Fault, NoFault, board,
         Warn, Present, Accounted, Outstanding, TypeOK, RunsTyped,
         WorkersTyped
    <2>4. Justified'
      BY <1>16, VerdictTypes DEF WritePrivate, Running, Goto, Conclude, Fault,
         NoFault, board, Warn, Present, Justified, TypeOK, RunsTyped,
         WorkersTyped, Statuses
    <2> QED
      BY <2>1, <2>2, <2>3, <2>4
  <1>17. ASSUME NEW w \in Workers, Publish(w)
         PROVE  Claims'
    <2>1. Fresh'
      BY <1>17 DEF Publish, Running, Goto, Conclude, Fault, NoFault, board, Warn,
         MoveTo, ReplaceWith, Present, Fresh, TypeOK, RunsTyped, WorkersTyped
    <2>2. Exclusive'
      BY <1>17 DEF Publish, Running, Goto, Conclude, Fault, NoFault, board, Warn,
         MoveTo, ReplaceWith, Present, Exclusive, TypeOK, RunsTyped,
         WorkersTyped
    <2>3. Accounted'
      BY <1>17 DEF Publish, Running, Goto, Conclude, Fault, NoFault, board, Warn,
         MoveTo, ReplaceWith, Present, Accounted, Outstanding, TypeOK,
         RunsTyped, WorkersTyped
    <2>4. Justified'
      BY <1>17, VerdictTypes DEF Publish, Running, Goto, Conclude, Fault, NoFault,
         board, Warn, MoveTo, ReplaceWith, Present, Justified, TypeOK,
         RunsTyped, WorkersTyped, Statuses
    <2> QED
      BY <2>1, <2>2, <2>3, <2>4
  <1>18. ASSUME NEW w \in Workers, Complete(w)
         PROVE  Claims'
    <2>1. Fresh'
      BY <1>18 DEF Complete, Running, Goto, budgets, CountEnd, Fresh, TypeOK,
         RunsTyped, WorkersTyped
    <2>2. Exclusive'
      BY <1>18 DEF Complete, Running, Goto, budgets, CountEnd, Exclusive, TypeOK,
         RunsTyped, WorkersTyped
    <2>3. Accounted'
      <3> DEFINE r == RunOf(w)
      <3>1. /\ pc[w] = "report" /\ held[w] # NoCase
            /\ ~Empty(verdict[w]) /\ held[w] \in Cases
        BY <1>18 DEF Complete, Running, TypeOK, WorkersTyped
      <3>2. /\ results' = [results EXCEPT ![r][held[w]] = verdict[w]]
            /\ held' = [held EXCEPT ![w] = NoCase]
            /\ nextCase' = nextCase /\ phase' = phase
        BY <1>18 DEF Complete
      <3>3. ASSUME NEW q \in Runs, NEW c \in Cases,
                   phase[q] \in {"new", "running"}
            PROVE  Empty(results'[q][c]) <=> Outstanding(q, c)'
        <4>1. \A v \in Workers : v # w => held'[v] = held[v]
          BY <3>2 DEF TypeOK, WorkersTyped
        <4>2. held'[w] = NoCase /\ NoCase # c
          BY <3>2 DEF TypeOK, WorkersTyped, Cases, NoCase
        <4>3. CASE q = r /\ c = held[w]
          <5>1. results'[q][c] = verdict[w]
            BY <4>3, <3>2 DEF TypeOK, RunsTyped
          <5>2. \A v \in Workers : RunOf(v) = r => held'[v] # c
            BY <4>1, <4>2, <4>3, <3>1 DEF Exclusive
          <5>3. ~(c >= nextCase[q])
            <6>1. c < nextCase[q] /\ c \in Nat /\ nextCase[q] \in Nat
              BY <4>3, <3>1 DEF Exclusive, Cases, TypeOK, RunsTyped
            <6> QED
              BY <6>1
          <5> QED
            BY <5>1, <5>2, <5>3, <4>3, <3>1, <3>2 DEF Outstanding
        <4>4. CASE ~(q = r /\ c = held[w])
          <5>1. results'[q][c] = results[q][c]
            BY <4>4, <3>2 DEF TypeOK, RunsTyped
          <5>2. Outstanding(q, c) <=> Outstanding(q, c)'
            BY <4>1, <4>2, <4>4, <3>2 DEF Outstanding
          <5> QED
            BY <5>1, <5>2, <3>3 DEF Accounted
        <4> QED
          BY <4>3, <4>4
      <3> QED
        BY <3>2, <3>3 DEF Accounted
    <2>4. Justified'
      BY <1>18, VerdictTypes DEF Complete, Running, Goto, budgets, CountEnd,
         Justified, TypeOK, RunsTyped, WorkersTyped, Statuses
    <2> QED
      BY <2>1, <2>2, <2>3, <2>4
  <1>19. CASE UNCHANGED vars
    BY <1>19 DEF vars, Fresh, Exclusive, Accounted, Outstanding, Justified
  <1> QED
    BY <1>1, <1>2, <1>3, <1>4, <1>5, <1>6, <1>7, <1>8, <1>9, <1>10, <1>11,
       <1>12, <1>13, <1>14, <1>15, <1>16, <1>17, <1>18, <1>19 DEF Next,
       WorkerStep, RunStep

(* Claims holds in every reachable state.                                  *)
LEMMA ClaimsInvariant == Spec => []Claims
  <1>1. Init => Claims
    <2> SUFFICES ASSUME Init, TypeOK PROVE Claims
      BY TypeCorrectAtInit
    <2> USE WorkerFacts DEF Init
    <2>1. Fresh
      BY DEF Fresh
    <2>2. Exclusive
      BY DEF Exclusive
    <2>3. Accounted
      BY BatchAssumption DEF Accounted, Outstanding, Empty, NoVerdict, Blank,
         Result, Cases
    <2>4. Justified
      BY DEF Justified
    <2> QED
      BY <2>1, <2>2, <2>3, <2>4 DEF Claims
  <1> QED
    BY <1>1, ClaimsStep, PTL DEF Spec

-----------------------------------------------------------------------------
(* The only steps that change results are a worker's report, which fills   *)
(* the empty slot of the case it holds, and the final sweep.               *)
LEMMA ResultsStep ==
    ASSUME Claims, [Next]_vars, NEW r \in Runs, NEW c \in Cases,
           ~Empty(results[r][c])
    PROVE  results'[r][c] = results[r][c]
  <1> USE WorkerFacts DEF Claims
  <1>1. ASSUME NEW w \in Workers, Complete(w)
        PROVE  results'[r][c] = results[r][c]
    <2>1. /\ phase[RunOf(w)] = "running" /\ held[w] \in Cases
          /\ results' = [results EXCEPT ![RunOf(w)][held[w]] = verdict[w]]
      BY <1>1 DEF Complete, Running, TypeOK, WorkersTyped
    <2>2. Empty(results[RunOf(w)][held[w]])
      BY <2>1 DEF Accounted, Outstanding
    <2> QED
      BY <2>1, <2>2 DEF TypeOK, RunsTyped
  <1>2. ASSUME NEW q \in Runs, Gather(q)
        PROVE  results'[r][c] = results[r][c]
    BY <1>2 DEF Gather, TypeOK, RunsTyped
  <1>3. CASE UNCHANGED results
    BY <1>3
  <1> QED
    BY <1>1, <1>2, <1>3 DEF Next, vars, WorkerStep, RunStep, EditWeather,
       DamageEntry, Prepare, Cancel, Claim, Leave, Start, Look, Read,
       BeginExecution, EndExecution, WritePrivate, Publish, Rethrow,
       ProbeOutput, PublishOutput, board

(* A case's result is never overwritten, however workers and cancellations *)
(* interleave.                                                             *)
THEOREM ResultsAreFinal == Spec => ResultsFinal
  <1>1. Claims /\ [Next]_vars =>
            [\A r \in Runs, c \in Cases :
                 ~Empty(results[r][c]) => results'[r][c] = results[r][c]]_vars
    BY ResultsStep
  <1> QED
    BY <1>1, ClaimsInvariant, PTL DEF Spec, ResultsFinal


-----------------------------------------------------------------------------
(* A result about to be stored stays so until it is stored.                *)
LEMMA ReportStays ==
    ASSUME Claims, [Next]_vars, NEW w \in Workers, pc[w] = "report"
    PROVE  \/ /\ pc'[w] = "report" /\ held'[w] = held[w]
              /\ verdict'[w] = verdict[w]
           \/ Complete(w)
  <1> USE DEF Claims
  <1>1. ASSUME NEW v \in Workers, WorkerStep(v), v # w
        PROVE  pc'[w] = "report" /\ held'[w] = held[w]
               /\ verdict'[w] = verdict[w]
    BY <1>1 DEF WorkerStep, Claim, Leave, Start, Look, Read, BeginExecution,
       EndExecution, WritePrivate, Publish, Complete, Conclude, Goto, Warn,
       board, TypeOK, WorkersTyped
  <1>2. ASSUME WorkerStep(w)
        PROVE  Complete(w)
    BY <1>2 DEF WorkerStep, Claim, Leave, Start, Look, Read, BeginExecution,
       EndExecution, WritePrivate, Publish, Running
  <1>3. CASE UNCHANGED <<pc, held, verdict>>
    BY <1>3
  <1> QED
    BY <1>1, <1>2, <1>3 DEF Next, vars, RunStep, EditWeather, DamageEntry,
       Prepare, Cancel, Gather, Rethrow, ProbeOutput, PublishOutput

(* A run that has begun keeps the weather its keys were made from.         *)
LEMMA HashStays ==
    ASSUME Claims, [Next]_vars, NEW r \in Runs, phase[r] # "new"
    PROVE  hash'[r] = hash[r] /\ phase'[r] # "new"
  <1> USE DEF Claims
  <1>1. ASSUME NEW q \in Runs, Prepare(q)
        PROVE  hash'[r] = hash[r] /\ phase'[r] # "new"
    BY <1>1 DEF Prepare, TypeOK, RunsTyped
  <1>2. ASSUME NEW q \in Runs, RunStep(q)
        PROVE  hash'[r] = hash[r] /\ phase'[r] # "new"
    BY <1>2 DEF RunStep, Gather, Rethrow, ProbeOutput, PublishOutput, After,
       TypeOK, RunsTyped
  <1>3. CASE UNCHANGED <<hash, phase>>
    BY <1>3
  <1> QED
    BY <1>1, <1>2, <1>3 DEF Next, vars, WorkerStep, EditWeather, DamageEntry,
       Cancel, Claim, Leave, Start, Look, Read, BeginExecution, EndExecution,
       WritePrivate, Publish, Complete, board

(* A reported success stays reported.                                      *)
LEMMA ReportedStays ==
    ASSUME Claims, [Next]_vars, NEW r \in Runs, NEW c \in Cases,
           NEW b \in Weathers \cup {NoWeather}, Reports(r, c, "Succeeded", b)
    PROVE  Reports(r, c, "Succeeded", b)'
  <1>1. CASE /\ results[r][c].status = "Succeeded" /\ results[r][c].basis = b
             /\ ~results[r][c].hit
    <2>1. results'[r][c] = results[r][c]
      BY <1>1, ResultsStep DEF Empty
    <2> QED
      BY <1>1, <2>1 DEF Reports
  <1>2. ASSUME NEW w \in Mine(r), pc[w] = "report", held[w] = c,
               verdict[w].status = "Succeeded", verdict[w].basis = b,
               ~verdict[w].hit
        PROVE  Reports(r, c, "Succeeded", b)'
    <2>1. w \in Workers /\ RunOf(w) = r
      BY DEF Mine
    <2>2. CASE Complete(w)
      <3>1. results'[r][c] = verdict[w]
        BY <2>1, <2>2, <1>2 DEF Complete, Claims, TypeOK, RunsTyped
      <3> QED
        BY <1>2, <3>1 DEF Reports
    <2>3. CASE pc'[w] = "report" /\ held'[w] = held[w]
               /\ verdict'[w] = verdict[w]
      BY <1>2, <2>1, <2>3 DEF Reports, Mine
    <2> QED
      BY <1>2, <2>1, <2>2, <2>3, ReportStays
  <1> QED
    BY <1>1, <1>2 DEF Reports

CachedByStarted ==
    \A p \in EntryPaths : files[p].kind = "whole" =>
        phase[files[p].run] # "new"

(* An entry that is not touched stays a reported success.                  *)
LEMMA EntryStays ==
    ASSUME Claims, CachedBySuccess, CachedByStarted, [Next]_vars,
           NEW p \in EntryPaths, files'[p] = files[p], files[p].kind = "whole"
    PROVE  /\ files'[p].run \in Runs /\ hash'[files'[p].run] = p.hash
           /\ Reports(files[p].run, p.case, "Succeeded", files[p].basis)'
           /\ phase'[files'[p].run] # "new"
  <1>1. p.case \in Cases /\ files[p].basis \in Weathers \cup {NoWeather}
    BY DEF EntryPaths, Claims, TypeOK, FilesTyped, Paths, FileStates
  <1> QED
    BY <1>1, HashStays, ReportedStays DEF CachedBySuccess, CachedByStarted

(* A worker publishes an entry for the success it goes on to report.       *)
LEMMA PublishStep ==
    ASSUME Claims, NEW w \in Workers, Publish(w), NEW p \in EntryPaths,
           files'[p] # files[p]
    PROVE  /\ files'[p].run \in Runs /\ hash'[files'[p].run] = p.hash
           /\ Reports(files[p].run, p.case, "Succeeded", files[p].basis)'
           /\ phase'[files'[p].run] # "new"
  <1> DEFINE r == RunOf(w)
  <1>1. /\ r \in Runs /\ phase[r] = "running" /\ phase' = phase
        /\ hash' = hash /\ held' = held
        /\ pc[w] \in {"replace", "move"}
    BY WorkerFacts DEF Publish, Running, board
  <1>2. /\ files' = [files EXCEPT ![Entry(held[w], hash[r])] =
                         Whole(r, verdict[w].basis)]
        /\ Conclude(w, verdict[w])
    BY DEF Publish, MoveTo, ReplaceWith
  <1>3. /\ p = Entry(held[w], hash[r])
        /\ files'[p] = Whole(r, verdict[w].basis)
    BY <1>2 DEF Claims, TypeOK, FilesTyped, Paths
  <1>4. p.case = held[w] /\ p.hash = hash[r]
    BY <1>3 DEF Entry
  <1>5. verdict[w].status = "Succeeded" /\ ~verdict[w].hit
        /\ verdict[w].basis \in Weathers \cup {NoWeather}
    BY <1>1 DEF Claims, TypeOK, WorkersTyped, Verdict
  <1>6. files'[p].run = r /\ files'[p].basis = verdict[w].basis
    BY <1>1, <1>3, <1>5, FileTypes
  <1>7. pc'[w] = "report" /\ verdict'[w] = verdict[w]
    BY <1>2 DEF Conclude, Goto, Claims, TypeOK, WorkersTyped
  <1> QED
    BY <1>1, <1>4, <1>5, <1>6, <1>7 DEF Reports, Mine

(* The induction step of the cache.                                        *)
LEMMA CacheStep ==
    Claims /\ CachedBySuccess /\ CachedByStarted /\ [Next]_vars
        => CachedBySuccess' /\ CachedByStarted'
  <1> SUFFICES ASSUME Claims, CachedBySuccess, CachedByStarted, [Next]_vars,
                      NEW p \in EntryPaths, files'[p].kind = "whole"
               PROVE  /\ files'[p].run \in Runs
                      /\ hash'[files'[p].run] = p.hash
                      /\ Reports(files[p].run, p.case, "Succeeded",
                                 files[p].basis)'
                      /\ phase'[files'[p].run] # "new"
    BY DEF CachedBySuccess, CachedByStarted
  <1>1. CASE files'[p] = files[p]
    BY <1>1, EntryStays
  <1>2. ASSUME files'[p] # files[p] PROVE \E w \in Workers : Publish(w)
    <2>1. ASSUME NEW q \in EntryPaths, DamageEntry(q) PROVE FALSE
      BY <1>2, <2>1, FileTypes DEF DamageEntry, FileKinds, Claims, TypeOK,
         FilesTyped, Paths
    <2>2. ASSUME NEW r \in Runs, PublishOutput(r) PROVE FALSE
      <3>1. p # Output(phase[r], hash[r])
        BY <2>2 DEF PublishOutput, OutputPhases, EntryPaths, Output
      <3> QED
        BY <1>2, <2>2, <3>1 DEF PublishOutput, MoveTo, ReplaceWith, Claims,
           TypeOK, FilesTyped, Paths
    <2> QED
      BY <1>2, <2>1, <2>2 DEF Next, vars, WorkerStep, RunStep, EditWeather,
         Prepare, Cancel, Claim, Leave, Start, Look, Read, BeginExecution,
         EndExecution, WritePrivate, Complete, Gather, Rethrow, ProbeOutput
  <1> QED
    BY <1>1, <1>2, PublishStep

(* Only a case its writer reports as succeeded is ever in the cache, with  *)
(* the metrics that were reported, whatever is cancelled, fails, is read   *)
(* or replaced meanwhile.                                                  *)
THEOREM OnlySuccessesAreCached == Spec => []CachedBySuccess
  <1>1. Init => CachedBySuccess /\ CachedByStarted
    BY FileTypes DEF Init, CachedBySuccess, CachedByStarted, Paths
  <1> QED
    BY <1>1, CacheStep, ClaimsInvariant, PTL DEF Spec

-----------------------------------------------------------------------------
(* Where a cached result comes from: another run that has begun, with the  *)
(* same key, reports that it executed the case.                            *)
Origin(r, c, b) ==
    /\ phase[r] # "new"
    /\ \E q \in Runs \ {r} : /\ phase[q] # "new" /\ hash[q] = hash[r]
                             /\ Reports(q, c, "Succeeded", b)

(* A hit has an origin from the moment the entry is read.                  *)
StoredHits ==
    \A r \in Runs, c \in Cases :
        results[r][c].hit => Origin(r, c, results[r][c].basis)

ComingHits ==
    \A w \in Workers :
        pc[w] = "report" /\ verdict[w].hit =>
            Origin(RunOf(w), held[w], verdict[w].basis)

(* An origin does not vanish.                                              *)
LEMMA OriginStays ==
    ASSUME Claims, [Next]_vars, NEW r \in Runs, NEW c \in Cases,
           NEW b \in Weathers \cup {NoWeather}, Origin(r, c, b)
    PROVE  Origin(r, c, b)'
  <1>1. PICK q \in Runs \ {r} : /\ phase[q] # "new" /\ hash[q] = hash[r]
                                /\ Reports(q, c, "Succeeded", b)
    BY DEF Origin
  <1>2. hash'[r] = hash[r] /\ phase'[r] # "new"
    BY HashStays DEF Origin
  <1>3. hash'[q] = hash[q] /\ phase'[q] # "new"
    BY <1>1, HashStays
  <1>4. Reports(q, c, "Succeeded", b)'
    BY <1>1, ReportedStays
  <1> QED
    BY <1>1, <1>2, <1>3, <1>4 DEF Origin

(* What a worker reads was cached by another run: its own run has no       *)
(* result of the case it holds, nor another worker with one.               *)
LEMMA ReadHasOrigin ==
    ASSUME Claims, CachedBySuccess, CachedByStarted, NEW w \in Workers,
           Running(w, "reading"),
           files[Entry(held[w], hash[RunOf(w)])].kind = "whole"
    PROVE  Origin(RunOf(w), held[w],
                  files[Entry(held[w], hash[RunOf(w)])].basis)
  <1> DEFINE r == RunOf(w)
             c == held[w]
             p == Entry(held[w], hash[RunOf(w)])
             q == files[p].run
  <1>1. /\ r \in Runs /\ phase[r] = "running" /\ pc[w] = "reading"
        /\ c # NoCase /\ c \in Cases /\ p \in EntryPaths
    BY WorkerFacts, EntryIsPath DEF Claims, Running, TypeOK, WorkersTyped
  <1>2. p.case = c /\ p.hash = hash[r]
    BY DEF Entry
  <1>3. /\ q \in Runs /\ hash[q] = hash[r] /\ phase[q] # "new"
        /\ Reports(q, c, "Succeeded", files[p].basis)
    BY <1>1, <1>2 DEF CachedBySuccess, CachedByStarted
  <1>4. ~Reports(r, c, "Succeeded", files[p].basis)
    <2>1. Empty(results[r][c])
      BY <1>1 DEF Claims, Accounted, Outstanding
    <2>2. \A v \in Mine(r) : held[v] = c => v = w
      BY <1>1 DEF Claims, Exclusive, Mine
    <2> QED
      BY <1>1, <2>1, <2>2 DEF Reports, Empty
  <1> QED
    BY <1>1, <1>3, <1>4 DEF Origin

(* A hit that comes to be reported in a step was read in it.               *)
LEMMA NewHitIsRead ==
    ASSUME Claims, NEW w \in Workers, WorkerStep(w), pc[w] # "report",
           pc'[w] = "report", verdict'[w].hit
    PROVE  /\ Running(w, "reading") /\ held' = held
           /\ files[Entry(held[w], hash[RunOf(w)])].kind = "whole"
           /\ verdict'[w].basis =
                  files[Entry(held[w], hash[RunOf(w)])].basis
  <1> USE VerdictTypes DEF Claims, TypeOK, WorkersTyped, Goto, Conclude,
          Running, Statuses
  <1>1. ~(Claim(w) \/ Leave(w) \/ Start(w) \/ Complete(w))
    BY DEF Claim, Leave, Start, Complete
  <1>2. ~Look(w)
    BY DEF Look
  <1>3. ~BeginExecution(w)
    BY DEF BeginExecution
  <1>4. ~EndExecution(w)
    BY DEF EndExecution
  <1>5. ~WritePrivate(w)
    BY DEF WritePrivate, Warn
  <1>6. ~Publish(w)
    BY DEF Publish, Warn
  <1>7. Read(w)
    BY <1>1, <1>2, <1>3, <1>4, <1>5, <1>6 DEF WorkerStep
  <1>8. /\ pc[w] = "reading" /\ held' = held
        /\ files[Entry(held[w], hash[RunOf(w)])].kind = "whole"
        /\ verdict'[w] = Hit(files[Entry(held[w], hash[RunOf(w)])].basis)
    BY <1>7 DEF Read
  <1> QED
    BY <1>7, <1>8 DEF Read, Hit, Result

(* The induction step of the hits.                                         *)
LEMMA HitsStep ==
    ASSUME Claims, CachedBySuccess, CachedByStarted, StoredHits, ComingHits,
           [Next]_vars
    PROVE  StoredHits' /\ ComingHits'
  <1> TypeOK /\ TypeOK'
    BY TypeOKStep DEF Claims
  <1>1. ASSUME NEW r \in Runs, NEW c \in Cases, results'[r][c].hit
        PROVE  Origin(r, c, results[r][c].basis)'
    <2>1. CASE results'[r][c] = results[r][c]
      <3>1. results[r][c].basis \in Weathers \cup {NoWeather}
        BY DEF TypeOK, RunsTyped, Verdict
      <3> QED
        BY <1>1, <2>1, <3>1, OriginStays DEF StoredHits
    <2>2. ASSUME NEW w \in Workers, Complete(w), results'[r][c] # results[r][c]
          PROVE  Origin(r, c, results[r][c].basis)'
      <3>1. r = RunOf(w) /\ c = held[w] /\ results'[r][c] = verdict[w]
            /\ pc[w] = "report" /\ verdict[w].basis \in Weathers \cup {NoWeather}
        BY <2>2 DEF Complete, Running, TypeOK, RunsTyped, WorkersTyped, Verdict
      <3> QED
        BY <1>1, <3>1, OriginStays DEF ComingHits
    <2>3. ASSUME NEW q \in Runs, Gather(q), results'[r][c] # results[r][c]
          PROVE  FALSE
      BY <1>1, <2>3, VerdictTypes DEF Gather, TypeOK, RunsTyped, Statuses
    <2> QED
      BY <2>1, <2>2, <2>3 DEF Next, vars, WorkerStep, RunStep, EditWeather,
         DamageEntry, Prepare, Cancel, Claim, Leave, Start, Look, Read,
         BeginExecution, EndExecution, WritePrivate, Publish, Rethrow,
         ProbeOutput, PublishOutput, board
  <1>2. ASSUME NEW w \in Workers, pc'[w] = "report", verdict'[w].hit
        PROVE  Origin(RunOf(w), held[w], verdict[w].basis)'
    <2>1. CASE pc[w] = "report"
      <3>1. ~Complete(w)
        BY <1>2 DEF Complete, Goto, TypeOK, WorkersTyped
      <3>2. held'[w] = held[w] /\ verdict'[w] = verdict[w]
        BY <2>1, <3>1, ReportStays
      <3>3. /\ RunOf(w) \in Runs /\ held[w] \in Cases
            /\ verdict[w].basis \in Weathers \cup {NoWeather}
        BY <2>1, WorkerFacts DEF TypeOK, WorkersTyped, Verdict
      <3> QED
        BY <1>2, <2>1, <3>2, <3>3, OriginStays DEF ComingHits
    <2>2. CASE pc[w] # "report"
      <3>1. WorkerStep(w)
        BY <1>2, <2>2 DEF Next, vars, WorkerStep, RunStep, EditWeather,
           DamageEntry, Prepare, Cancel, Claim, Leave, Start, Look, Read,
           BeginExecution, EndExecution, WritePrivate, Publish, Complete,
           Gather, Rethrow, ProbeOutput, PublishOutput, board, Goto, Conclude,
           Warn, TypeOK, WorkersTyped
      <3>2. /\ Running(w, "reading") /\ held' = held
            /\ files[Entry(held[w], hash[RunOf(w)])].kind = "whole"
            /\ verdict'[w].basis =
                   files[Entry(held[w], hash[RunOf(w)])].basis
        BY <1>2, <2>2, <3>1, NewHitIsRead
      <3>3. Origin(RunOf(w), held[w], verdict'[w].basis)
        BY <3>2, ReadHasOrigin
      <3>4. /\ RunOf(w) \in Runs /\ held[w] \in Cases
            /\ verdict'[w].basis \in Weathers \cup {NoWeather}
        BY <3>2, WorkerFacts DEF Running, TypeOK, WorkersTyped, Verdict
      <3> QED
        BY <3>2, <3>3, <3>4, OriginStays
    <2> QED
      BY <2>1, <2>2
  <1> QED
    BY <1>1, <1>2 DEF StoredHits, ComingHits

(* A cached result repeats what another run with the same key executed,    *)
(* for any number of runs and whatever is damaged, cancelled or replaced   *)
(* between the writing of the entry and its reading (BatchCache.TryRead).  *)
THEOREM HitsAreRepeats == Spec => []HitsHaveAnOrigin
  <1>1. Init => CachedBySuccess /\ CachedByStarted /\ StoredHits /\ ComingHits
    BY FileTypes DEF Init, CachedBySuccess, CachedByStarted, Paths, StoredHits,
       ComingHits, NoVerdict, Blank, Result
  <1>2. /\ Claims /\ CachedBySuccess /\ CachedByStarted
        /\ StoredHits /\ ComingHits /\ [Next]_vars
        => CachedBySuccess' /\ CachedByStarted' /\ StoredHits' /\ ComingHits'
    BY CacheStep, HitsStep
  <1>3. StoredHits => HitsHaveAnOrigin
    BY DEF StoredHits, HitsHaveAnOrigin, Origin
  <1> QED
    BY <1>1, <1>2, <1>3, ClaimsInvariant, PTL DEF Spec

-----------------------------------------------------------------------------
(* What the counters of a run count.                                       *)
CasesWith(r, s) == {c \in Cases : results[r][c].status = s}
HitCases(r) == {c \in Cases : results[r][c].hit}
Active(r) == {w \in Mine(r) : pc[w] \in Busy \cup {"faulted"}}

Settled == OutputPhases \cup {"done"}

Counted(r) ==
    /\ \A s \in Statuses : tally[r][s] = Cardinality(CasesWith(r, s))
    /\ tally[r]["hits"] = Cardinality(HitCases(r))
    /\ tally[r]["completed"] =
           tally[r]["Succeeded"] + tally[r]["Failed"] + tally[r]["Cancelled"]
    /\ tally[r]["active"] = Cardinality(Active(r))
    /\ phase[r] \in Settled =>
           tally[r]["completed"] = NumCases /\ tally[r]["active"] = 0
    /\ \A c \in HitCases(r) : ~Empty(results[r][c])

LEMMA TallyIsCounted == (\A r \in Runs : Counted(r)) => TallyCorrect
  BY DEF TallyCorrect, Counted, CasesWith, HitCases, Active, Settled

(* All of it can be counted: the cases are finitely many, and so are the   *)
(* workers of one run.                                                     *)
LEMMA CountsAreFinite ==
    /\ IsFiniteSet(Cases) /\ Cardinality(Cases) = NumCases
    /\ \A S \in SUBSET Cases : IsFiniteSet(S) /\ Cardinality(S) \in Nat
    /\ \A r \in Runs : \A S \in SUBSET Mine(r) :
           IsFiniteSet(S) /\ Cardinality(S) \in Nat
  <1>1. IsFiniteSet(Cases) /\ Cardinality(Cases) = NumCases
    BY BatchAssumption, FS_Interval DEF Cases
  <1>2. \A S \in SUBSET Cases : IsFiniteSet(S) /\ Cardinality(S) \in Nat
    BY <1>1, FS_Subset, FS_CardinalityType
  <1>3. ASSUME NEW r \in Runs, NEW S \in SUBSET Mine(r)
        PROVE  IsFiniteSet(S) /\ Cardinality(S) \in Nat
    <2>0. IsFiniteSet(1..WorkerCount)
      <3>1. 1 \in Int /\ WorkerCount \in Int
        BY WorkerFacts
      <3> QED
        BY <3>1, FS_Interval
    <2>1. IsFiniteSet({r}) /\ IsFiniteSet(1..WorkerCount)
      BY <2>0, FS_Singleton
    <2>2. IsFiniteSet({r} \X (1..WorkerCount))
      BY <2>1, FS_Product
    <2>3. S \in SUBSET ({r} \X (1..WorkerCount))
      BY DEF Mine, Workers, RunOf
    <2> QED
      BY <2>2, <2>3, FS_Subset, FS_CardinalityType
  <1> QED
    BY <1>1, <1>2, <1>3

(* The counters of a run change only with its results and its workers.     *)
LEMMA CountedStays ==
    ASSUME NEW r \in Runs, Counted(r), results'[r] = results[r],
           tally'[r] = tally[r], Active(r)' = Active(r),
           phase'[r] \in Settled => phase[r] \in Settled
    PROVE  Counted(r)'
  BY DEF Counted, CasesWith, HitCases

(* What a worker does between Started and Completed is not counted.        *)
LEMMA QuietStep ==
    ASSUME TypeOK, NEW w \in Workers, WorkerStep(w), ~Start(w), ~Complete(w)
    PROVE  /\ UNCHANGED <<results, tally, phase>>
           /\ \A r \in Runs : Active(r)' = Active(r)
  <1> USE DEF TypeOK, WorkersTyped, Goto, Conclude, Running, Warn, board
  <1>1. UNCHANGED <<results, tally, phase>>
    BY DEF WorkerStep, Claim, Leave, Look, Read, BeginExecution, EndExecution,
       WritePrivate, Publish
  <1>2. \A v \in Workers : v # w => pc'[v] = pc[v]
    BY DEF WorkerStep, Claim, Leave, Look, Read, BeginExecution, EndExecution,
       WritePrivate, Publish
  <1>3. pc'[w] \in Busy \cup {"faulted"} <=> pc[w] \in Busy \cup {"faulted"}
    <2>1. CASE Claim(w) \/ Leave(w)
      BY <2>1 DEF Claim, Leave, Busy
    <2>2. CASE Look(w) \/ Read(w)
      BY <2>2 DEF Look, Read, Busy
    <2>3. CASE BeginExecution(w) \/ EndExecution(w)
      BY <2>3 DEF BeginExecution, EndExecution, Busy
    <2>4. CASE WritePrivate(w) \/ Publish(w)
      BY <2>4 DEF WritePrivate, Publish, Busy
    <2> QED
      BY <2>1, <2>2, <2>3, <2>4 DEF WorkerStep
  <1> QED
    BY <1>1, <1>2, <1>3 DEF Active, Mine

(* tracker.Started counts a worker in.                                     *)
LEMMA StartCounts ==
    ASSUME TypeOK, NEW w \in Workers, Start(w), NEW r \in Runs, Counted(r)
    PROVE  Counted(r)'
  <1>1. /\ results' = results /\ phase' = phase
        /\ pc[w] = "claimed" /\ pc' = [pc EXCEPT ![w] = "look"]
        /\ tally' = [tally EXCEPT ![RunOf(w)] = CountStart(tally[RunOf(w)])]
    BY DEF Start, Running, Goto
  <1>2. CASE r # RunOf(w)
    <2>1. Active(r)' = Active(r)
      BY <1>1, <1>2 DEF Active, Mine
    <2> QED
      BY <1>1, <1>2, <2>1, CountedStays DEF TypeOK, RunsTyped
  <1>3. CASE r = RunOf(w)
    <2>1. /\ Active(r)' = Active(r) \cup {w} /\ w \notin Active(r)
          /\ Active(r) \in SUBSET Mine(r)
      BY <1>1, <1>3 DEF Active, Mine, Busy, TypeOK, WorkersTyped
    <2>2. /\ Cardinality(Active(r)') = Cardinality(Active(r)) + 1
      BY <2>1, CountsAreFinite, FS_AddElement
    <2>3. /\ tally'[r]["active"] = tally[r]["active"] + 1
          /\ \A k \in Statuses \cup {"hits", "completed"} :
                 tally'[r][k] = tally[r][k]
      BY <1>1, <1>3 DEF CountStart, Counters, Statuses, TypeOK, RunsTyped, Tally
    <2>4. phase[r] = "running"
      BY <1>3 DEF Start, Running
    <2> QED
      BY <1>1, <2>2, <2>3, <2>4 DEF Counted, CasesWith, HitCases, Settled,
         OutputPhases, Statuses
  <1> QED
    BY <1>2, <1>3

(* tracker.Completed counts a result in and a worker out: nobody had       *)
(* stored a result of this case before.                                    *)
LEMMA CompleteCounts ==
    ASSUME Claims, NEW w \in Workers, Complete(w), NEW r \in Runs, Counted(r)
    PROVE  Counted(r)'
  <1> DEFINE v == verdict[w]
             c == held[w]
  <1> TypeOK
    BY DEF Claims
  <1>1. /\ phase' = phase /\ phase[RunOf(w)] = "running"
        /\ pc[w] = "report" /\ pc' = [pc EXCEPT ![w] = "loop"]
        /\ results' = [results EXCEPT ![RunOf(w)][c] = v]
        /\ tally' = [tally EXCEPT ![RunOf(w)] = CountEnd(tally[RunOf(w)], v)]
    BY DEF Complete, Running, Goto
  <1>2. CASE r # RunOf(w)
    <2>1. Active(r)' = Active(r)
      BY <1>1, <1>2 DEF Active, Mine
    <2> QED
      BY <1>1, <1>2, <2>1, CountedStays DEF TypeOK, RunsTyped
  <1>3. CASE r = RunOf(w)
    <2>1. /\ c \in Cases /\ v \in Verdict /\ ~Empty(v)
          /\ v.status \in Statuses /\ v.hit \in BOOLEAN
      BY <1>1 DEF TypeOK, WorkersTyped, Verdict, Empty
    <2>2. results[r][c].status = "none" /\ results[r][c] \in Verdict
      BY <1>1, <1>3, <2>1 DEF Claims, Accounted, Outstanding, Empty, TypeOK,
         RunsTyped
    <2>3. c \notin HitCases(r) /\ \A s \in Statuses : c \notin CasesWith(r, s)
      BY <2>1, <2>2 DEF Counted, HitCases, CasesWith, Statuses, Empty
    <2>4. /\ results'[r][c] = v
          /\ \A d \in Cases : d # c => results'[r][d] = results[r][d]
      BY <1>1, <1>3, <2>1 DEF TypeOK, RunsTyped
    <2>5. /\ \A s \in Statuses : CasesWith(r, s)' =
                 IF s = v.status THEN CasesWith(r, s) \cup {c}
                 ELSE CasesWith(r, s)
          /\ HitCases(r)' = IF v.hit THEN HitCases(r) \cup {c} ELSE HitCases(r)
      BY <2>1, <2>2, <2>3, <2>4 DEF CasesWith, HitCases
    <2>6. \A S \in SUBSET Cases : c \notin S =>
              Cardinality(S \cup {c}) = Cardinality(S) + 1
      BY CountsAreFinite, FS_AddElement
    <2>7. /\ HitCases(r) \in SUBSET Cases
          /\ \A s \in Statuses : CasesWith(r, s) \in SUBSET Cases
      BY DEF HitCases, CasesWith
    <2>8. /\ Active(r)' = Active(r) \ {w} /\ w \in Active(r)
          /\ Active(r) \in SUBSET Mine(r)
      BY <1>1, <1>3 DEF Active, Mine, Busy, TypeOK, WorkersTyped
    <2>9. /\ Cardinality(Active(r)') = Cardinality(Active(r)) - 1
          /\ Cardinality(Active(r)) \in Nat /\ Cardinality(Active(r)') \in Nat
      BY <2>8, CountsAreFinite, FS_RemoveElement, FS_CardinalityType
    <2>10. \A k \in Counters : tally[r][k] \in Nat
      BY DEF TypeOK, RunsTyped, Tally
    <2>11. tally'[r] = CountEnd(tally[r], v)
      BY <1>1, <1>3 DEF TypeOK, RunsTyped
    <2>12. /\ \A s \in Statuses : tally'[r][s] =
                  IF s = v.status THEN tally[r][s] + 1 ELSE tally[r][s]
           /\ tally'[r]["hits"] =
                  IF v.hit THEN tally[r]["hits"] + 1 ELSE tally[r]["hits"]
           /\ tally'[r]["completed"] = tally[r]["completed"] + 1
      BY <2>1, <2>10, <2>11 DEF CountEnd, Counters, Statuses
    <2>13. tally'[r]["active"] = Cardinality(Active(r)')
      <3>1. tally'[r]["active"] =
                IF tally[r]["active"] > 0 THEN tally[r]["active"] - 1
                ELSE tally[r]["active"]
        BY <2>1, <2>11 DEF CountEnd, Counters, Statuses
      <3> QED
        BY <3>1, <2>9 DEF Counted
    <2>14. \A s \in Statuses : tally'[r][s] = Cardinality(CasesWith(r, s)')
      BY <2>3, <2>5, <2>6, <2>7, <2>12 DEF Counted
    <2>15. tally'[r]["hits"] = Cardinality(HitCases(r)')
      BY <2>3, <2>5, <2>6, <2>7, <2>12, <2>1 DEF Counted
    <2>16. tally'[r]["completed"] = tally'[r]["Succeeded"] + tally'[r]["Failed"]
                                    + tally'[r]["Cancelled"]
      BY <2>1, <2>10, <2>12 DEF Counted, Statuses, Counters
    <2>17. phase'[r] \notin Settled
      BY <1>1, <1>3 DEF Settled, OutputPhases
    <2>18. \A d \in HitCases(r)' : ~Empty(results'[r][d])
      BY <2>1, <2>4 DEF Counted, HitCases
    <2> QED
      BY <2>13, <2>14, <2>15, <2>16, <2>17, <2>18 DEF Counted
  <1> QED
    BY <1>2, <1>3

(* The final sweep counts the cases it fills in; by then every case has a  *)
(* result, and no worker is left.                                          *)
LEMMA GatherCounts ==
    ASSUME Claims, NEW q \in Runs, Gather(q), NEW r \in Runs, Counted(r)
    PROVE  Counted(r)'
  <1> TypeOK
    BY DEF Claims
  <1>1. /\ pc' = pc /\ phase' = [phase EXCEPT ![q] =
                                    IF WriteOutputs THEN "csv" ELSE "done"]
        /\ results' = [results EXCEPT ![q] = [d \in Cases |->
               IF Empty(results[q][d]) THEN Blank("Cancelled")
               ELSE results[q][d]]]
        /\ tally' = [tally EXCEPT ![q] =
               CountCancelled(tally[q], Cardinality(Unfilled(q)))]
        /\ \A w \in Mine(q) : pc[w] = "left"
    BY DEF Gather, AllEnded, Faulted, TypeOK, RunsTyped
  <1>2. CASE r # q
    <2>1. Active(r)' = Active(r)
      BY <1>1 DEF Active, Mine
    <2> QED
      BY <1>1, <1>2, <2>1, CountedStays DEF TypeOK, RunsTyped
  <1>3. CASE r = q
    <2> DEFINE U == Unfilled(r)
               A == CasesWith(r, "Succeeded")
               B == CasesWith(r, "Failed")
               C == CasesWith(r, "Cancelled")
    <2>1. \A d \in Cases : results[r][d] \in Verdict /\ results'[r][d] =
              IF Empty(results[r][d]) THEN Blank("Cancelled") ELSE results[r][d]
      BY <1>1, <1>3 DEF TypeOK, RunsTyped
    <2>2. Blank("Cancelled").status = "Cancelled" /\ ~Blank("Cancelled").hit
      BY VerdictTypes DEF Statuses
    <2>3. /\ CasesWith(r, "Succeeded")' = A /\ CasesWith(r, "Failed")' = B
          /\ CasesWith(r, "Cancelled")' = C \cup U
      BY <2>1, <2>2 DEF CasesWith, Unfilled, Empty
    <2>4. HitCases(r)' = HitCases(r)
      BY <2>1, <2>2 DEF HitCases, Counted
    <2>5. /\ A \cap B = {} /\ (A \cup B) \cap (C \cup U) = {} /\ C \cap U = {}
          /\ Cases = (A \cup B) \cup (C \cup U)
      BY <2>1 DEF CasesWith, Unfilled, Empty, Verdict, Statuses
    <2>6. \A S, T \in SUBSET Cases : S \cap T = {} =>
              Cardinality(S \cup T) = Cardinality(S) + Cardinality(T)
      <3> SUFFICES ASSUME NEW S \in SUBSET Cases, NEW T \in SUBSET Cases,
                          S \cap T = {}
                   PROVE  Cardinality(S \cup T) = Cardinality(S) + Cardinality(T)
        OBVIOUS
      <3>1. /\ IsFiniteSet(S) /\ IsFiniteSet(T) /\ Cardinality(S) \in Nat
            /\ Cardinality(T) \in Nat
        BY CountsAreFinite
      <3>2. Cardinality(S \cup T) =
                Cardinality(S) + Cardinality(T) - Cardinality(S \cap T)
        BY <3>1, FS_Union
      <3>3. Cardinality(S \cap T) = 0
        BY FS_EmptySet
      <3> QED
        BY <3>1, <3>2, <3>3
    <2>7. /\ A \in SUBSET Cases /\ B \in SUBSET Cases /\ C \in SUBSET Cases
          /\ U \in SUBSET Cases
      BY DEF CasesWith, Unfilled
    <2>8. /\ Cardinality(A) \in Nat /\ Cardinality(B) \in Nat
          /\ Cardinality(C) \in Nat /\ Cardinality(U) \in Nat
      BY <2>7, CountsAreFinite
    <2> HIDE DEF A, B, C, U
    <2>9. /\ Cardinality(C \cup U) = Cardinality(C) + Cardinality(U)
          /\ NumCases = Cardinality(A) + Cardinality(B) + Cardinality(C)
                        + Cardinality(U)
      <3>1. (A \cup B) \in SUBSET Cases /\ (C \cup U) \in SUBSET Cases
        BY <2>7
      <3>2. Cardinality(C \cup U) = Cardinality(C) + Cardinality(U)
        BY <2>5, <2>6, <2>7
      <3>3. Cardinality(A \cup B) = Cardinality(A) + Cardinality(B)
        BY <2>5, <2>6, <2>7
      <3>4. Cardinality(Cases) = Cardinality(A \cup B) + Cardinality(C \cup U)
        BY <2>5, <2>6, <3>1
      <3> QED
        BY <2>8, <3>2, <3>3, <3>4, CountsAreFinite
    <2>10. Active(r)' = {} /\ Cardinality(Active(r)) = 0
      <3>1. Active(r) = {} /\ Active(r)' = {}
        BY <1>1, <1>3 DEF Active, Mine, Busy
      <3> QED
        BY <3>1, FS_EmptySet
    <2>11. /\ tally'[r] = CountCancelled(tally[r], Cardinality(U))
           /\ \A k \in Counters : tally[r][k] \in Nat
      BY <1>1, <1>3 DEF U, TypeOK, RunsTyped, Tally
    <2>12. /\ tally'[r]["completed"] = tally[r]["completed"] + Cardinality(U)
           /\ tally'[r]["Cancelled"] = tally[r]["Cancelled"] + Cardinality(U)
           /\ \A k \in {"Succeeded", "Failed", "hits"} :
                  tally'[r][k] = tally[r][k]
      BY <2>11 DEF CountCancelled, Counters, Statuses
    <2>13. tally'[r]["active"] = 0
      <3>1. tally[r]["active"] = 0
        BY <2>10 DEF Counted
      <3> QED
        BY <2>8, <2>11, <3>1 DEF CountCancelled, Counters, Statuses
    <2>14. /\ tally[r]["Succeeded"] = Cardinality(A)
           /\ tally[r]["Failed"] = Cardinality(B)
           /\ tally[r]["Cancelled"] = Cardinality(C)
           /\ tally[r]["hits"] = Cardinality(HitCases(r))
           /\ tally[r]["completed"] = tally[r]["Succeeded"] + tally[r]["Failed"]
                                      + tally[r]["Cancelled"]
      BY DEF Counted, Statuses, A, B, C
    <2>15. \A s \in Statuses : tally'[r][s] = Cardinality(CasesWith(r, s)')
      BY <2>3, <2>9, <2>12, <2>14 DEF Statuses
    <2>16. tally'[r]["hits"] = Cardinality(HitCases(r)')
      BY <2>4, <2>12, <2>14
    <2>17. /\ tally'[r]["completed"] = tally'[r]["Succeeded"]
                  + tally'[r]["Failed"] + tally'[r]["Cancelled"]
           /\ tally'[r]["completed"] = NumCases
      BY <2>8, <2>9, <2>12, <2>14
    <2>18. tally'[r]["active"] = Cardinality(Active(r)')
      BY <2>10, <2>13, FS_EmptySet
    <2>19. \A d \in HitCases(r)' : ~Empty(results'[r][d])
      BY <2>1, <2>2 DEF HitCases, Counted, Empty
    <2> QED
      BY <2>13, <2>15, <2>16, <2>17, <2>18, <2>19 DEF Counted
  <1> QED
    BY <1>2, <1>3

(* The induction step of the counters.                                     *)
LEMMA CountsStep ==
    ASSUME Claims, [Next]_vars, NEW r \in Runs, Counted(r)
    PROVE  Counted(r)'
  <1> TypeOK
    BY DEF Claims
  <1>1. ASSUME NEW w \in Workers, WorkerStep(w) PROVE Counted(r)'
    <2>1. CASE Start(w)
      BY <2>1, StartCounts
    <2>2. CASE Complete(w)
      BY <2>2, CompleteCounts
    <2>3. CASE ~Start(w) /\ ~Complete(w)
      <3>1. /\ UNCHANGED <<results, tally, phase>> /\ Active(r)' = Active(r)
        BY <1>1, <2>3, QuietStep
      <3> QED
        BY <3>1, CountedStays
    <2> QED
      BY <2>1, <2>2, <2>3
  <1>2. ASSUME NEW q \in Runs, Gather(q) PROVE Counted(r)'
    BY <1>2, GatherCounts
  <1>3. ASSUME UNCHANGED <<results, tally, pc>>,
               phase'[r] \in Settled => phase[r] \in Settled
        PROVE  Counted(r)'
    <2>1. Active(r)' = Active(r)
      BY <1>3 DEF Active, Mine
    <2> QED
      BY <1>3, <2>1, CountedStays
  <1>4. ASSUME NEW q \in Runs,
               Prepare(q) \/ Rethrow(q) \/ ProbeOutput(q) \/ PublishOutput(q)
        PROVE  Counted(r)'
    BY <1>3, <1>4 DEF Prepare, Rethrow, ProbeOutput, PublishOutput, Settled,
       OutputPhases, TypeOK, RunsTyped
  <1>5. CASE UNCHANGED <<results, tally, pc, phase>>
    BY <1>3, <1>5
  <1> QED
    BY <1>1, <1>2, <1>4, <1>5 DEF Next, vars, RunStep, EditWeather,
       DamageEntry, Cancel, board

(* What progress snapshots and the manifest count agrees with the results  *)
(* and with the workers in every state, for any number of cases and        *)
(* workers; when a run has ended nothing is active and all is counted      *)
(* (ProgressTracker).                                                      *)
THEOREM TalliesAreCorrect == Spec => []TallyCorrect
  <1>1. Init => \A r \in Runs : Counted(r)
    <2> SUFFICES ASSUME Init, NEW r \in Runs PROVE Counted(r)
      OBVIOUS
    <2>1. \A c \in Cases : results[r][c] = NoVerdict
      BY DEF Init
    <2>2. NoVerdict.status = "none" /\ ~NoVerdict.hit
      BY DEF NoVerdict, Blank, Result
    <2>3. /\ \A s \in Statuses : CasesWith(r, s) = {}
          /\ HitCases(r) = {} /\ Active(r) = {}
      BY <2>1, <2>2 DEF Init, CasesWith, HitCases, Active, Mine, Statuses, Busy
    <2>4. phase[r] \notin Settled /\ \A k \in Counters : tally[r][k] = 0
      BY DEF Init, Settled, OutputPhases
    <2> QED
      BY <2>3, <2>4, FS_EmptySet DEF Counted, Counters, Statuses
  <1>2. Claims /\ (\A r \in Runs : Counted(r)) /\ [Next]_vars
            => (\A r \in Runs : Counted(r))'
    BY CountsStep
  <1> QED
    BY <1>1, <1>2, TallyIsCounted, ClaimsInvariant, PTL DEF Spec

-----------------------------------------------------------------------------
(* The batch implements the board of slots.  The mapping, written out:     *)
Slots == [r \in Runs |-> [c \in Cases |-> results[r][c].status]]
States == [r \in Runs |-> BoardState(r)]

(* The board as the mapping shows it.                                       *)
LEMMA BoardFacts ==
    /\ \A r \in Runs :
           Board!Ask(r) \/ Board!Close(r) \/ Board!Throw(r) => Board!Next
    /\ \A r \in Runs, c \in Cases, s \in Statuses :
           Board!Fill(r, c, s) => Board!Next
    /\ Slots' = Slots /\ cancelled' = cancelled /\ States' = States
          => UNCHANGED Board!vars
  BY DEF Board!Next, Board!vars, Board!Cases, Cases, Statuses, Slots, States

(* A worker's report fills a slot.                                         *)
LEMMA CompleteFills ==
    ASSUME Claims, NEW w \in Workers, Complete(w)
    PROVE  Board!Next
  <1>0. /\ RunOf(w) \in Runs /\ held[w] \in Cases
        /\ phase[RunOf(w)] = "running" /\ pc[w] = "report"
        /\ ~Empty(verdict[w]) /\ verdict[w] \in Verdict
    BY WorkerFacts DEF Complete, Running, Claims, TypeOK, WorkersTyped
  <1> PICK r \in Runs : r = RunOf(w)
    BY <1>0
  <1> PICK c \in Cases : c = held[w]
    BY <1>0
  <1>1. PICK s \in Statuses : s = verdict[w].status
    BY <1>0 DEF Verdict, Empty
  <1>2. phase[r] = "running"
    BY <1>0
  <1>3. results[r][c].status = "none"
    BY <1>2 DEF Claims, Accounted, Outstanding, Empty
  <1>4. s = "Cancelled" => cancelled[r]
    BY <1>0, <1>1 DEF Claims, Justified
  <1>5. results' = [results EXCEPT ![r][c] = verdict[w]]
        /\ phase' = phase /\ cancelled' = cancelled
    BY DEF Complete
  <1>6. Slots' = [Slots EXCEPT ![r][c] = s]
    BY <1>1, <1>5 DEF Slots, Claims, TypeOK, RunsTyped
  <1>7. States' = States /\ States[r] = "open" /\ Slots[r][c] = "none"
    BY <1>2, <1>3, <1>5 DEF States, BoardState, Slots
  <1>8. Board!Fill(r, c, s)
    BY <1>4, <1>5, <1>6, <1>7 DEF Board!Fill, Slots, States
  <1> QED
    BY <1>8, BoardFacts

(* The final sweep closes the board: an uncancelled run has no empty slot, *)
(* since all its cases were handed out and nobody holds one any more.      *)
LEMMA GatherCloses ==
    ASSUME Claims, NEW r \in Runs, Gather(r)
    PROVE  Board!Close(r)
  <1>1. /\ phase[r] = "running" /\ cancelled' = cancelled
        /\ \A w \in Workers : RunOf(w) = r => pc[w] = "left"
    BY DEF Gather, AllEnded, Faulted, Mine
  <1>2. cancelled[r] \/ \A c \in Cases : results[r][c].status # "none"
    <2>1. cancelled[r] \/ nextCase[r] >= NumCases
      BY <1>1, WorkerFacts DEF Claims, Justified
    <2>2. \A w \in Workers : RunOf(w) = r => held[w] = NoCase
      BY <1>1 DEF Claims, TypeOK, WorkersTyped
    <2>3. ASSUME nextCase[r] >= NumCases, NEW c \in Cases
          PROVE  results[r][c].status # "none"
      <3>1. c \in Nat /\ c < NumCases /\ nextCase[r] \in Nat
        BY BatchAssumption DEF Cases, Claims, TypeOK, RunsTyped
      <3>2. ~(c >= nextCase[r])
        BY <2>3, <3>1, BatchAssumption
      <3>3. c # NoCase
        BY <3>1 DEF NoCase
      <3> QED
        BY <1>1, <2>2, <3>2, <3>3 DEF Claims, Accounted, Outstanding, Empty
    <2> QED
      BY <2>1, <2>3
  <1>3. results' = [results EXCEPT ![r] = [c \in Cases |->
            IF Empty(results[r][c]) THEN Blank("Cancelled")
            ELSE results[r][c]]]
    BY DEF Gather, Claims, TypeOK, RunsTyped
  <1>4. Slots' = [Slots EXCEPT ![r] = [c \in Cases |->
            IF Slots[r][c] = "none" THEN "Cancelled" ELSE Slots[r][c]]]
    <2>1. Blank("Cancelled").status = "Cancelled"
      BY VerdictTypes DEF Statuses
    <2> QED
      BY <1>3, <2>1 DEF Slots, Empty, Claims, TypeOK, RunsTyped
  <1>5. phase' = [phase EXCEPT ![r] = IF WriteOutputs THEN "csv" ELSE "done"]
    BY DEF Gather
  <1>6. States' = [States EXCEPT ![r] = "closed"] /\ States[r] = "open"
    BY <1>1, <1>5 DEF States, BoardState, Claims, TypeOK, RunsTyped
  <1>7. cancelled[r] \/ \A c \in Cases : Slots[r][c] # "none"
    BY <1>2 DEF Slots
  <1> QED
    BY <1>1, <1>4, <1>6, <1>7 DEF Board!Close, Board!Cases, Cases, Slots, States

(* Every step of the batch is a step of the board or a stutter.            *)
LEMMA BoardStep == Claims /\ [Next]_vars => [Board!Next]_(Board!vars)
  <1> SUFFICES ASSUME Claims, [Next]_vars PROVE [Board!Next]_(Board!vars)
    OBVIOUS
  <1>1. ASSUME NEW w \in Workers, Complete(w) PROVE Board!Next
    BY <1>1, CompleteFills
  <1>2. ASSUME NEW r \in Runs, Gather(r) PROVE Board!Next
    BY <1>2, GatherCloses, BoardFacts
  <1>3. ASSUME NEW r \in Runs, Cancel(r) PROVE Board!Next
    <2>1. cancelled' = [cancelled EXCEPT ![r] = TRUE]
          /\ Slots' = Slots /\ States' = States
      BY <1>3 DEF Cancel, board, Slots, States, BoardState
    <2>2. Board!Ask(r)
      BY <2>1 DEF Board!Ask, Slots, States
    <2> QED
      BY <2>2, BoardFacts
  <1>4. ASSUME NEW r \in Runs, Prepare(r) PROVE UNCHANGED Board!vars
    BY <1>4, BoardFacts DEF Prepare, Slots, States, BoardState, Claims, TypeOK,
       RunsTyped
  <1>5. ASSUME NEW r \in Runs, phase[r] # "threw",
               phase' = [phase EXCEPT ![r] = "threw"],
               UNCHANGED <<results, cancelled>>
        PROVE  Board!Next
    <2>1. States' = [States EXCEPT ![r] = "threw"] /\ States[r] # "threw"
          /\ Slots' = Slots
      BY <1>5 DEF States, BoardState, Slots, Claims, TypeOK, RunsTyped
    <2>2. Board!Throw(r)
      BY <1>5, <2>1 DEF Board!Throw, Slots, States
    <2> QED
      BY <2>2, BoardFacts
  <1>6. ASSUME NEW r \in Runs, Rethrow(r) PROVE Board!Next
    BY <1>5, <1>6 DEF Rethrow
  <1>7. ASSUME NEW r \in Runs, phase[r] \in OutputPhases,
               phase' = [phase EXCEPT ![r] = After(phase[r])],
               UNCHANGED <<results, cancelled>>
        PROVE  UNCHANGED Board!vars
    BY <1>7, BoardFacts DEF Slots, States, BoardState, After, OutputPhases,
       Claims, TypeOK, RunsTyped
  <1>8. CASE UNCHANGED <<phase, results, cancelled>>
    BY <1>8, BoardFacts DEF Slots, States, BoardState
  <1>9. ASSUME NEW r \in Runs, ProbeOutput(r) PROVE [Board!Next]_(Board!vars)
    BY <1>5, <1>8, <1>9 DEF ProbeOutput, OutputPhases
  <1>10. ASSUME NEW r \in Runs, PublishOutput(r)
         PROVE  [Board!Next]_(Board!vars)
    BY <1>5, <1>7, <1>10 DEF PublishOutput, OutputPhases
  <1> QED
    BY <1>1, <1>2, <1>3, <1>4, <1>6, <1>8, <1>9, <1>10 DEF Next, vars,
       WorkerStep, RunStep, EditWeather, DamageEntry, Claim, Leave, Start,
       Look, Read, BeginExecution, EndExecution, WritePrivate, Publish, board

(* Any number of workers together give each case one result, and leave     *)
(* none out that nobody cancelled.                                         *)
THEOREM BatchImplementsBoard == Spec => ImplementsBoard
  <1>1. Init => Board!Init
    <2> SUFFICES ASSUME Init PROVE Board!Init
      OBVIOUS
    <2>1. Slots = [r \in Runs |-> [c \in Cases |-> "none"]]
      BY DEF Init, Slots, NoVerdict, Blank, Result
    <2>2. States = [r \in Runs |-> "open"]
      BY DEF Init, States, BoardState
    <2> QED
      BY <2>1, <2>2 DEF Init, Board!Init, Board!Cases, Cases, Slots, States
  <1> QED
    BY <1>1, BoardStep, ClaimsInvariant, PTL DEF Spec, ImplementsBoard,
       Board!Spec

==============================================================================
