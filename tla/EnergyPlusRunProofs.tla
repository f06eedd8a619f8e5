-------------------------- MODULE EnergyPlusRunProofs --------------------------
(***************************************************************************)
(* Theorems about the EnergyPlus runner, for any number of runs that draw  *)
(* from any set of identifiers, with any cleanup policies, whatever fails  *)
(* and whatever killing a process achieves.                                *)
(***************************************************************************)
EXTENDS EnergyPlusRun, TLAPS

Over == {"cleanup", "remove", "done"}
Watching == {"race", "kill", "await", "drain"}

(* A process is alive only while the executor watches it, or when killing  *)
(* it threw, and a terminal state is entered only when it does not.        *)
WatchedRun(r) ==
    /\ child[r] \in Alive \/ helper[r] = TRUE => pc[r] \in Watching \/ KillThrew(r)
    /\ pc[r] = "drain" => Gone(r)
    /\ state[r] \in Terminal => pc[r] \in Over
Watched == \A r \in Runs : WatchedRun(r)

(* A process has no result before the executor is done with it, and is     *)
(* killed only for a cancellation.                                         *)
Early == {"call", "validate", "probe", "mkdir", "mark", "prepare", "expand"}
Executing == {"spawn", "start"} \cup Watching
UnreportedRun(r) ==
    /\ pc[r] \in Early => stage[r] = "ExpandObjects"
    /\ pc[r] \in Early \cup Executing => report[r][stage[r]] = "none"
    /\ pc[r] \in Early \cup Executing \cup {"reported"} /\ stage[r] = "ExpandObjects"
          => report[r]["EnergyPlus"] = "none"
    /\ pc[r] = "kill" => reason[r] = "Cancelled"
Unreported == \A r \in Runs : UnreportedRun(r)

(* Where a cancelled result comes from, and what a run has behind it at    *)
(* the point it judges.                                                    *)
EarnedRun(r) ==
    /\ reason[r] = "Cancelled" => Told(r)
    /\ \A s \in Stages : report[r][s] = "cancelled" => Told(r)
    /\ stage[r] = "EnergyPlus" => report[r]["ExpandObjects"] = "zero"
    /\ pc[r] \in {"collect", "judge"} => stage[r] = "EnergyPlus"
    /\ pc[r] = "judge" => collected[r] = TRUE
    /\ expired[r] = TRUE => r \in Timed
    /\ state[r] = "Succeeded" =>
          collected[r] = TRUE /\ \A s \in Stages : report[r][s] = "zero"
    /\ state[r] = "Cancelled" => cancelled[r] = TRUE
    /\ state[r] = "TimedOut" => expired[r] = TRUE
Earned == \A r \in Runs : EarnedRun(r)

(* The search for a directory goes on while there are attempts left, and   *)
(* only at its end has the run one.                                        *)
SearchingRun(r) ==
    /\ pc[r] \in {"mkdir", "mark"} =>
          attempt[r] < MaxAttempts /\ candidate[r] \in Ids
    /\ pc[r] \in {"call", "validate", "probe", "mkdir", "mark"} => dir[r] = NoId
    /\ pc[r] = "remove" => dir[r] # NoId
Searching == \A r \in Runs : SearchingRun(r)

(* A marker belongs to the run that has the directory; it is gone when the *)
(* directory is to be removed.                                             *)
MarkersSound == \A r \in Runs :
    \A i \in Ids : marker[i] = r =>
        /\ dir[r] = i /\ pc[r] # "remove"
        /\ pc[r] = "done" => retained[r] = TRUE

IInv ==
    TypeOK /\ Watched /\ Unreported /\ Earned /\ Searching /\ MarkersSound /\ HoldsItsDirectory

(* What a process reports is its result.                                   *)
LEMMA ReportEffects ==
    ASSUME ProcessTyped, NEW r \in Runs,
           NEW result \in {"zero", "nonzero", "cancelled"}, Reported(r, result)
    PROVE  /\ report' \in [Runs -> [Stages -> {"none", "zero", "nonzero", "cancelled"}]]
           /\ \A q \in Runs \ {r} : report'[q] = report[q]
           /\ report'[r][stage[r]] = result
           /\ \A s \in Stages \ {stage[r]} : report'[r][s] = report[r][s]
  <1>1. report' = [report EXCEPT ![r] = [report[r] EXCEPT ![stage[r]] = result]]
    BY DEF Reported
  <1> QED
    BY <1>1 DEF ProcessTyped

(* The output is drained to its end, so what is reported is the exit code  *)
(* or that the run has told the child to go.                               *)
LEMMA DrainEffects ==
    ASSUME ProcessTyped, Watched, NEW r \in Runs, Drain(r)
    PROVE  \E result \in {"zero", "nonzero", "cancelled"} :
              /\ Reported(r, result)
              /\ result = "cancelled" => reason[r] = "Cancelled"
  <1>1. child[r] \in {"zero", "nonzero"}
    BY DEF Drain, Watched, WatchedRun, Gone
  <1> QED
    BY <1>1 DEF Drain

(* A marker is written into an unmarked directory, and by the run that     *)
(* gets it or by nobody.                                                   *)
LEMMA MarkEffects ==
    ASSUME RunsTyped, FolderTyped, Searching, NEW r \in Runs, WriteMarker(r)
    PROVE  /\ pc[r] = "mark" /\ candidate[r] \in Ids /\ attempt[r] < MaxAttempts
           /\ attempt' \in {attempt, [attempt EXCEPT ![r] = @ + 1]}
           /\ UNCHANGED <<candidate, exists, retained>>
           /\ \A q \in Runs \ {r} : dir'[q] = dir[q] /\ pc'[q] = pc[q]
           /\ \/ /\ candidate[r] \in exists /\ marker[candidate[r]] = NoRun
                 /\ marker' = [marker EXCEPT ![candidate[r]] = r]
                 /\ dir' = [dir EXCEPT ![r] = candidate[r]] /\ pc'[r] = "prepare"
              \/ /\ dir' = dir /\ pc'[r] \in {"probe", "cleanup"}
                 /\ \/ marker' = marker
                    \/ /\ marker[candidate[r]] = NoRun
                       /\ marker' = [marker EXCEPT ![candidate[r]] = Stray]
  <1>1. pc[r] = "mark" /\ candidate[r] \in Ids /\ attempt[r] < MaxAttempts
    BY DEF WriteMarker, Searching, SearchingRun
  <1> QED
    BY <1>1 DEF WriteMarker, Retry, Fault, NoFault, Quiet, Finish, Fail, Enter,
       Goto, RunsTyped, FolderTyped

(* The cleanup finds the run's own marker; what it cannot delete it keeps. *)
LEMMA EmptyEffects ==
    ASSUME RunsTyped, FolderTyped, HoldsItsDirectory, NEW r \in Runs, Empty(r)
    PROVE  /\ pc[r] = "cleanup" /\ dir[r] \in Ids /\ marker[dir[r]] = r
           /\ UNCHANGED <<attempt, candidate, dir, exists>>
           /\ \A q \in Runs \ {r} : pc'[q] = pc[q] /\ retained'[q] = retained[q]
           /\ \/ /\ marker' = [marker EXCEPT ![dir[r]] = NoRun]
                 /\ pc'[r] \in {"remove", "done"}
              \/ marker' = marker /\ pc'[r] = "done" /\ retained'[r] = TRUE
  <1>1. /\ pc[r] = "cleanup" /\ dir[r] \in Ids /\ dir[r] # NoId
        /\ dir[r] \in exists /\ marker[dir[r]] = r /\ r # NoRun
    BY RunAssumption DEF Empty, FolderTyped, HoldsItsDirectory
  <1>2. UNCHANGED <<attempt, candidate, dir, exists>>
    BY <1>1 DEF Empty, Settled
  <1>3. \/ marker' = [marker EXCEPT ![dir[r]] = NoRun] /\ Goto(r, "remove")
              /\ UNCHANGED retained
        \/ marker' \in {marker, [marker EXCEPT ![dir[r]] = NoRun]} /\ Return(r)
    BY <1>1 DEF Empty
  <1> QED
    BY <1>1, <1>2, <1>3 DEF Return, Goto, RunsTyped

(* A run is always at one of its steps, in one of its states.              *)
LEMMA RunsStayTyped ==
    RunsTyped /\ [Next]_vars => RunsTyped'
  <1> SUFFICES ASSUME RunsTyped, [Next]_vars
               PROVE  RunsTyped'
    OBVIOUS
  <1>1. ASSUME NEW r \in Runs, Own(r) \/ Environment(r)
        PROVE  RunsTyped'
    <2>1. CASE Cancel(r) \/ Expire(r) \/ ChildEnds(r) \/ ChildDies(r)
               \/ HelperStarts(r) \/ HelperEnds(r)
      BY <2>1 DEF Cancel, Expire, ChildEnds, ChildDies, HelperStarts,
         HelperEnds, ProcessOnly, tokens, folder, process, RunsTyped, Steps,
         States, Terminal
    <2>2. CASE Call(r) \/ Validate(r) \/ Probe(r) \/ MakeDirectory(r)
               \/ WriteMarker(r) \/ Prepare(r)
      BY <2>2 DEF Call, Validate, Probe, MakeDirectory, WriteMarker, Prepare,
         Quiet, NoFault, Enter, Goto, Finish, Fail, Retry, Fault, Stop, Told,
         tokens, folder, process, RunsTyped, Steps, States, Terminal
    <2>3. CASE Expand(r) \/ Spawn(r) \/ Start(r) \/ SeeExit(r)
               \/ Interrupt(r) \/ Kill(r) \/ AwaitExit(r) \/ Drain(r)
               \/ AfterExpand(r) \/ AfterEnergyPlus(r)
      BY <2>3 DEF Expand, Spawn, Start, SeeExit, Interrupt, Kill, AwaitExit,
         Drain, AfterExpand, AfterEnergyPlus, Begin, Stop, Told, Finish, Fail,
         Enter, Goto, Reported, Fault, NoFault, Gone, Executor, Quiet, tokens,
         folder, process, RunsTyped, Steps, States, Terminal
    <2>4. CASE Collect(r) \/ Judge(r) \/ Keep(r) \/ Empty(r) \/ Remove(r)
      BY <2>4 DEF Collect, Judge, Keep, Empty, Remove, Fault, NoFault, Finish,
         Fail, Enter, Goto, Stop, Told, Quiet, Return, Settled, tokens,
         folder, process, RunsTyped, Steps, States, Terminal
    <2> QED
      BY <1>1, <2>1, <2>2, <2>3, <2>4 DEF Own, Environment
  <1>2. CASE UNCHANGED vars
    BY <1>2 DEF vars, tokens, folder, process, RunsTyped, Steps, States,
       Terminal
  <1> QED
    BY <1>1, <1>2 DEF Next, Ended

(* Tokens are only ever cancelled.                                         *)
LEMMA TokensStayTyped ==
    TokensTyped /\ [Next]_vars => TokensTyped'
  <1> SUFFICES ASSUME TokensTyped, [Next]_vars
               PROVE  TokensTyped'
    OBVIOUS
  <1>1. ASSUME NEW r \in Runs, Own(r) \/ Environment(r)
        PROVE  TokensTyped'
    <2>1. CASE Cancel(r) \/ Expire(r) \/ ChildEnds(r) \/ ChildDies(r)
               \/ HelperStarts(r) \/ HelperEnds(r)
      BY <2>1 DEF Cancel, Expire, ChildEnds, ChildDies, HelperStarts,
         HelperEnds, ProcessOnly, tokens, folder, process, TokensTyped
    <2>2. CASE Call(r) \/ Validate(r) \/ Probe(r) \/ MakeDirectory(r)
               \/ WriteMarker(r) \/ Prepare(r)
      BY <2>2 DEF Call, Validate, Probe, MakeDirectory, WriteMarker, Prepare,
         Quiet, NoFault, Enter, Goto, Finish, Fail, Retry, Fault, Stop, Told,
         tokens, folder, process, TokensTyped
    <2>3. CASE Expand(r) \/ Spawn(r) \/ Start(r) \/ SeeExit(r)
               \/ Interrupt(r) \/ Kill(r) \/ AwaitExit(r) \/ Drain(r)
               \/ AfterExpand(r) \/ AfterEnergyPlus(r)
      BY <2>3 DEF Expand, Spawn, Start, SeeExit, Interrupt, Kill, AwaitExit,
         Drain, AfterExpand, AfterEnergyPlus, Begin, Stop, Told, Finish, Fail,
         Enter, Goto, Reported, Fault, NoFault, Gone, Executor, Quiet, tokens,
         folder, process, TokensTyped
    <2>4. CASE Collect(r) \/ Judge(r) \/ Keep(r) \/ Empty(r) \/ Remove(r)
      BY <2>4 DEF Collect, Judge, Keep, Empty, Remove, Fault, NoFault, Finish,
         Fail, Enter, Goto, Stop, Told, Quiet, Return, Settled, tokens,
         folder, process, TokensTyped
    <2> QED
      BY <1>1, <2>1, <2>2, <2>3, <2>4 DEF Own, Environment
  <1>2. CASE UNCHANGED vars
    BY <1>2 DEF vars, tokens, folder, process, TokensTyped
  <1> QED
    BY <1>1, <1>2 DEF Next, Ended

(* Attempts are counted to the bound, and only identifiers are drawn.      *)
LEMMA FolderStaysTyped ==
    RunsTyped /\ FolderTyped /\ Searching /\ [Next]_vars => FolderTyped'
  <1> SUFFICES ASSUME RunsTyped, FolderTyped, Searching, [Next]_vars
               PROVE  FolderTyped'
    OBVIOUS
  <1>1. ASSUME NEW r \in Runs, Own(r) \/ Environment(r)
        PROVE  FolderTyped'
    <2>1. CASE Cancel(r) \/ Expire(r) \/ ChildEnds(r) \/ ChildDies(r)
               \/ HelperStarts(r) \/ HelperEnds(r)
      BY <2>1 DEF Cancel, Expire, ChildEnds, ChildDies, HelperStarts,
         HelperEnds, ProcessOnly, tokens, folder, process, FolderTyped,
         Searching, SearchingRun
    <2>2. CASE Call(r) \/ Validate(r) \/ MakeDirectory(r) \/ Prepare(r)
      BY <2>2 DEF Call, Validate, MakeDirectory, Prepare, Quiet, NoFault,
         Enter, Goto, Finish, Fail, Fault, Stop, Told, tokens, folder,
         process, FolderTyped, Searching, SearchingRun
    <2>3. CASE Probe(r)
      BY <2>3, RunAssumption DEF Probe, Retry, Fault, NoFault, Quiet, Finish,
         Fail, Enter, Goto, tokens, folder, process, FolderTyped, Searching,
         SearchingRun
    <2>4. CASE WriteMarker(r)
      BY <2>4, MarkEffects, RunAssumption DEF FolderTyped
    <2>5. CASE Expand(r) \/ Spawn(r) \/ Start(r) \/ SeeExit(r)
               \/ Interrupt(r) \/ Kill(r) \/ AwaitExit(r) \/ Drain(r)
               \/ AfterExpand(r) \/ AfterEnergyPlus(r)
      BY <2>5 DEF Expand, Spawn, Start, SeeExit, Interrupt, Kill, AwaitExit,
         Drain, AfterExpand, AfterEnergyPlus, Begin, Stop, Told, Finish, Fail,
         Enter, Goto, Reported, Fault, NoFault, Gone, Executor, Quiet, tokens,
         folder, process, FolderTyped, Searching, SearchingRun
    <2>6. CASE Collect(r) \/ Judge(r) \/ Keep(r) \/ Empty(r) \/ Remove(r)
      BY <2>6 DEF Collect, Judge, Keep, Empty, Remove, Fault, NoFault, Finish,
         Fail, Enter, Goto, Stop, Told, Quiet, Return, Settled, tokens,
         folder, process, FolderTyped, Searching, SearchingRun
    <2> QED
      BY <1>1, <2>1, <2>2, <2>3, <2>4, <2>5, <2>6 DEF Own, Environment
  <1>2. CASE UNCHANGED vars
    BY <1>2 DEF vars, tokens, folder, process, FolderTyped, Searching,
       SearchingRun
  <1> QED
    BY <1>1, <1>2 DEF Next, Ended

(* Faults are counted to their bound.                                      *)
LEMMA FaultsStayCounted ==
    faults \in 0..MaxFaults /\ [Next]_vars => (faults \in 0..MaxFaults)'
  <1> SUFFICES ASSUME faults \in 0..MaxFaults, [Next]_vars
               PROVE  (faults \in 0..MaxFaults)'
    OBVIOUS
  <1> USE RunAssumption
  <1>1. ASSUME NEW r \in Runs, Own(r) \/ Environment(r)
        PROVE  (faults \in 0..MaxFaults)'
    <2>1. CASE Cancel(r) \/ Expire(r) \/ ChildEnds(r) \/ ChildDies(r)
               \/ HelperStarts(r) \/ HelperEnds(r)
      BY <2>1 DEF Cancel, Expire, ChildEnds, ChildDies, HelperStarts,
         HelperEnds, ProcessOnly, tokens, folder, process
    <2>2. CASE Call(r) \/ Validate(r) \/ Probe(r) \/ MakeDirectory(r)
               \/ WriteMarker(r) \/ Prepare(r)
      BY <2>2 DEF Call, Validate, Probe, MakeDirectory, WriteMarker, Prepare,
         Quiet, NoFault, Enter, Goto, Finish, Fail, Retry, Fault, Stop, Told,
         tokens, folder, process
    <2>3. CASE Expand(r) \/ Spawn(r) \/ Start(r) \/ SeeExit(r)
               \/ Interrupt(r) \/ Kill(r) \/ AwaitExit(r) \/ Drain(r)
               \/ AfterExpand(r) \/ AfterEnergyPlus(r)
      BY <2>3 DEF Expand, Spawn, Start, SeeExit, Interrupt, Kill, AwaitExit,
         Drain, AfterExpand, AfterEnergyPlus, Begin, Stop, Told, Finish, Fail,
         Enter, Goto, Reported, Fault, NoFault, Gone, Executor, Quiet, tokens,
         folder, process
    <2>4. CASE Collect(r) \/ Judge(r) \/ Keep(r) \/ Empty(r) \/ Remove(r)
      BY <2>4 DEF Collect, Judge, Keep, Empty, Remove, Fault, NoFault, Finish,
         Fail, Enter, Goto, Stop, Told, Quiet, Return, Settled, tokens,
         folder, process
    <2> QED
      BY <1>1, <2>1, <2>2, <2>3, <2>4 DEF Own, Environment
  <1>2. CASE UNCHANGED vars
    BY <1>2 DEF vars, tokens, folder, process
  <1> QED
    BY <1>1, <1>2 DEF Next, Ended

(* A process reports when it is gone.                                      *)
LEMMA ProcessesStayTyped ==
    ProcessTyped /\ Watched /\ [Next]_vars => ProcessTyped'
  <1> SUFFICES ASSUME ProcessTyped, Watched, [Next]_vars
               PROVE  ProcessTyped'
    OBVIOUS
  <1>1. ASSUME NEW r \in Runs, Own(r) \/ Environment(r)
        PROVE  ProcessTyped'
    <2>1. CASE Cancel(r) \/ Expire(r) \/ ChildEnds(r) \/ ChildDies(r)
               \/ HelperStarts(r) \/ HelperEnds(r)
      BY <2>1 DEF Cancel, Expire, ChildEnds, ChildDies, HelperStarts,
         HelperEnds, ProcessOnly, tokens, folder, process, ProcessTyped,
         Alive, Stages
    <2>2. CASE Call(r) \/ Validate(r) \/ Probe(r) \/ MakeDirectory(r)
               \/ WriteMarker(r) \/ Prepare(r)
      BY <2>2 DEF Call, Validate, Probe, MakeDirectory, WriteMarker, Prepare,
         Quiet, NoFault, Enter, Goto, Finish, Fail, Retry, Fault, Stop, Told,
         tokens, folder, process, ProcessTyped, Alive, Stages
    <2>3. CASE Expand(r) \/ Start(r) \/ SeeExit(r) \/ Interrupt(r) \/ Kill(r)
               \/ AwaitExit(r) \/ AfterExpand(r) \/ AfterEnergyPlus(r)
      BY <2>3 DEF Expand, Start, SeeExit, Interrupt, Kill, AwaitExit,
         AfterExpand, AfterEnergyPlus, Begin, Stop, Told, Finish, Fail, Enter,
         Goto, Fault, NoFault, Gone, Executor, Quiet, tokens, folder, process,
         ProcessTyped, Alive, Stages
    <2>4. CASE Spawn(r)
      BY <2>4 DEF Spawn, Reported, Told, Goto, tokens, folder, process,
         ProcessTyped, Alive, Stages
    <2>5. CASE Drain(r)
      BY <2>5, DrainEffects, ReportEffects DEF Drain, Executor, ProcessTyped
    <2>6. CASE Collect(r) \/ Judge(r) \/ Keep(r) \/ Empty(r) \/ Remove(r)
      BY <2>6 DEF Collect, Judge, Keep, Empty, Remove, Fault, NoFault, Finish,
         Fail, Enter, Goto, Stop, Told, Quiet, Return, Settled, tokens,
         folder, process, ProcessTyped, Alive, Stages
    <2> QED
      BY <1>1, <2>1, <2>2, <2>3, <2>4, <2>5, <2>6 DEF Own, Environment
  <1>2. CASE UNCHANGED vars
    BY <1>2 DEF vars, tokens, folder, process, ProcessTyped, Alive, Stages
  <1> QED
    BY <1>1, <1>2 DEF Next, Ended

(* A result comes from the end of the execution, and only once.            *)
LEMMA UnreportedKept ==
    RunsTyped /\ ProcessTyped /\ Unreported /\ [Next]_vars => Unreported'
  <1> SUFFICES ASSUME RunsTyped, ProcessTyped, Unreported, [Next]_vars
               PROVE  Unreported'
    OBVIOUS
  <1>1. ASSUME NEW r \in Runs, Own(r) \/ Environment(r)
        PROVE  Unreported'
    <2>1. CASE Cancel(r) \/ Expire(r) \/ ChildEnds(r) \/ ChildDies(r)
               \/ HelperStarts(r) \/ HelperEnds(r)
      <3>1. UNCHANGED <<pc, stage, reason, report>>
        BY <2>1 DEF Cancel, Expire, ChildEnds, ChildDies, HelperStarts,
           HelperEnds, ProcessOnly, process
      <3> QED
        BY <3>1 DEF Unreported, UnreportedRun
    <2>2. CASE Call(r) \/ Validate(r) \/ Probe(r) \/ MakeDirectory(r)
               \/ WriteMarker(r) \/ Prepare(r)
      <3>1. /\ UNCHANGED <<stage, reason, report>>
            /\ pc[r] \in Early /\ pc'[r] \in Early \cup {"cleanup"}
            /\ \A q \in Runs \ {r} : pc'[q] = pc[q]
        BY <2>2 DEF Call, Validate, Probe, MakeDirectory, WriteMarker, Prepare,
           Quiet, process, Retry, Finish, Fail, Stop, Goto, RunsTyped, Early
      <3> QED
        BY <3>1 DEF Unreported, UnreportedRun, Early, Executing, Watching
    <2>3. CASE Expand(r)
      <3>1. /\ UNCHANGED <<reason, report>> /\ pc[r] = "expand"
            /\ \/ pc'[r] = "cleanup" /\ UNCHANGED stage
               \/ pc'[r] = "spawn" /\ stage'[r] = "ExpandObjects"
            /\ \A q \in Runs \ {r} : pc'[q] = pc[q] /\ stage'[q] = stage[q]
        BY <2>3 DEF Expand, Begin, Stop, Finish, Goto, RunsTyped, ProcessTyped
      <3> QED
        BY <3>1 DEF Unreported, UnreportedRun, Early, Executing, Watching
    <2>4. CASE Start(r) \/ SeeExit(r) \/ Interrupt(r) \/ Kill(r) \/ AwaitExit(r)
      <3>1. /\ UNCHANGED <<stage, report>> /\ pc[r] \in Executing
            /\ pc'[r] \in (Executing \ {"kill"}) \cup {"cleanup"}
                  \/ (pc'[r] = "kill" /\ reason'[r] = "Cancelled")
            /\ \A q \in Runs \ {r} : pc'[q] = pc[q] /\ reason'[q] = reason[q]
        BY <2>4 DEF Start, SeeExit, Interrupt, Kill, AwaitExit, Executor, Fail,
           Finish, Goto, RunsTyped, ProcessTyped, Executing, Watching
      <3> QED
        BY <3>1 DEF Unreported, UnreportedRun, Early, Executing, Watching
    <2>5. CASE Spawn(r) \/ Drain(r)
      <3>1. /\ UNCHANGED <<stage, reason>> /\ pc[r] \in Executing
            /\ \/ pc'[r] = "start" /\ UNCHANGED report
               \/ /\ pc'[r] = "reported"
                  /\ \E result :
                        report' = [report EXCEPT ![r] = [@ EXCEPT ![stage[r]] = result]]
            /\ \A q \in Runs \ {r} : pc'[q] = pc[q]
        BY <2>5 DEF Spawn, Drain, Reported, Executor, process, Goto, RunsTyped,
           Executing, Watching
      <3> QED
        BY <3>1 DEF Unreported, UnreportedRun, Early, Executing, Watching,
           ProcessTyped, Stages
    <2>6. CASE AfterExpand(r)
      <3>1. /\ UNCHANGED <<reason, report>>
            /\ pc[r] = "reported" /\ stage[r] = "ExpandObjects"
            /\ \/ pc'[r] = "cleanup" /\ UNCHANGED stage
               \/ pc'[r] = "spawn" /\ stage'[r] = "EnergyPlus"
            /\ \A q \in Runs \ {r} : pc'[q] = pc[q] /\ stage'[q] = stage[q]
        BY <2>6 DEF AfterExpand, Begin, Stop, Fail, Finish, Goto, RunsTyped,
           ProcessTyped
      <3> QED
        BY <3>1 DEF Unreported, UnreportedRun, Early, Executing, Watching
    <2>7. CASE AfterEnergyPlus(r) \/ Collect(r) \/ Judge(r) \/ Keep(r)
               \/ Empty(r) \/ Remove(r)
      <3>1. /\ UNCHANGED <<stage, reason, report>>
            /\ pc'[r] \in {"collect", "judge", "cleanup", "remove", "done"}
            /\ \A q \in Runs \ {r} : pc'[q] = pc[q]
        BY <2>7 DEF AfterEnergyPlus, Collect, Judge, Keep, Empty, Remove, Quiet,
           Settled, process, Return, Stop, Fail, Finish, Goto, RunsTyped
      <3> QED
        BY <3>1 DEF Unreported, UnreportedRun, Early, Executing, Watching
    <2> QED
      BY <1>1, <2>1, <2>2, <2>3, <2>4, <2>5, <2>6, <2>7 DEF Own, Environment
  <1>2. CASE UNCHANGED vars
    BY <1>2 DEF vars, process, Unreported, UnreportedRun
  <1> QED
    BY <1>1, <1>2 DEF Next, Ended

(* A child is started into the watch, which ends when nothing is left of   *)
(* it or when killing it throws, and a run ends only outside.              *)
LEMMA WatchedKept ==
    RunsTyped /\ ProcessTyped /\ Watched /\ Unreported /\ [Next]_vars => Watched'
  <1> SUFFICES ASSUME RunsTyped, ProcessTyped, Watched, Unreported, [Next]_vars
               PROVE  Watched'
    OBVIOUS
  <1>1. ASSUME NEW r \in Runs, Own(r) \/ Environment(r)
        PROVE  Watched'
    <2>1. CASE Cancel(r) \/ Expire(r)
      <3>1. UNCHANGED <<state, pc, child, helper, reason, report, stage>>
        BY <2>1 DEF Cancel, Expire, process
      <3> QED
        BY <3>1 DEF Watched, WatchedRun, KillThrew, Gone
    <2>2. CASE ChildEnds(r) \/ ChildDies(r) \/ HelperStarts(r) \/ HelperEnds(r)
      <3>1. /\ UNCHANGED <<state, pc, reason, report, stage>>
            /\ \A q \in Runs \ {r} : child'[q] = child[q] /\ helper'[q] = helper[q]
            /\ child[r] \in Alive \/ helper[r] = TRUE
            /\ Gone(r) => child'[r] = child[r]
        BY <2>2 DEF ChildEnds, ChildDies, HelperStarts, HelperEnds, ProcessOnly,
           ProcessTyped, Alive, Gone
      <3> QED
        BY <3>1 DEF Watched, WatchedRun, KillThrew, Gone
    <2>3. CASE Call(r) \/ Validate(r) \/ Probe(r) \/ MakeDirectory(r)
               \/ WriteMarker(r) \/ Prepare(r) \/ Expand(r) \/ Spawn(r)
               \/ AfterExpand(r) \/ AfterEnergyPlus(r) \/ Collect(r) \/ Judge(r)
      <3>1. /\ UNCHANGED <<child, helper, reason>>
            /\ \A q \in Runs \ {r} : /\ pc'[q] = pc[q] /\ state'[q] = state[q]
                                     /\ report'[q] = report[q] /\ stage'[q] = stage[q]
            /\ pc[r] \notin Watching \cup Over
            /\ pc'[r] # "drain"
            /\ pc'[r] \notin Over => state'[r] = state[r] \/ state'[r] \notin Terminal
        <4>1. CASE Call(r) \/ Validate(r) \/ Probe(r) \/ MakeDirectory(r)
          BY <2>3, <4>1 DEF Call, Validate, Probe, MakeDirectory, Quiet, process,
             Retry, Finish, Fail, Goto, Enter, RunsTyped, Watching, Over, Terminal
        <4>2. CASE WriteMarker(r) \/ Prepare(r) \/ AfterEnergyPlus(r)
          BY <2>3, <4>2 DEF WriteMarker, Prepare, AfterEnergyPlus, Quiet, process,
             Retry, Stop, Finish, Fail, Goto, Enter, RunsTyped, Watching, Over, Terminal
        <4>3. CASE Expand(r) \/ AfterExpand(r)
          BY <2>3, <4>3 DEF Expand, AfterExpand, Begin, Stop, Finish, Fail, Goto,
             Enter, RunsTyped, ProcessTyped, Watching, Over, Terminal
        <4>4. CASE Spawn(r)
          BY <2>3, <4>4 DEF Spawn, Reported, process, Goto, RunsTyped, ProcessTyped,
             Watching, Over
        <4>5. CASE Collect(r) \/ Judge(r)
          BY <2>3, <4>5 DEF Collect, Judge, Quiet, process, Stop, Finish, Fail,
             Goto, Enter, RunsTyped, Watching, Over, Terminal
        <4> QED
          BY <2>3, <4>1, <4>2, <4>3, <4>4, <4>5
      <3>2. state[r] \notin Terminal
        BY <3>1 DEF Watched, WatchedRun
      <3>3. child[r] \notin Alive /\ helper[r] # TRUE
        BY <3>1, <3>2 DEF Watched, WatchedRun, KillThrew, Terminal
      <3>4. WatchedRun(r)'
        BY <3>1, <3>2, <3>3 DEF WatchedRun
      <3>5. ASSUME NEW q \in Runs \ {r} PROVE WatchedRun(q)'
        BY <3>1 DEF Watched, WatchedRun, KillThrew, Gone
      <3> QED
        BY <3>4, <3>5 DEF Watched
    <2>4. CASE Start(r) \/ SeeExit(r) \/ Interrupt(r) \/ AwaitExit(r)
      <3>1. /\ UNCHANGED <<helper, report, stage>>
            /\ pc[r] \in {"start"} \cup Watching
            /\ \A q \in Runs \ {r} : /\ pc'[q] = pc[q] /\ state'[q] = state[q]
                                     /\ child'[q] = child[q] /\ reason'[q] = reason[q]
            /\ \/ /\ pc'[r] \in Watching /\ state'[r] = state[r]
                  /\ pc'[r] = "drain" => Gone(r) /\ UNCHANGED child
               \/ pc[r] = "start" /\ pc'[r] \in Over /\ UNCHANGED child
        BY <2>4 DEF Start, SeeExit, Interrupt, AwaitExit, Executor, Finish, Fail,
           Goto, Enter, RunsTyped, ProcessTyped, Watching, Over
      <3>2. state[r] \notin Terminal
        BY <3>1 DEF Watched, WatchedRun, Watching, Over
      <3>3. pc[r] = "start" => child[r] \notin Alive /\ helper[r] # TRUE
        BY <3>2 DEF Watched, WatchedRun, KillThrew, Watching, Terminal
      <3>4. WatchedRun(r)'
        BY <3>1, <3>2, <3>3 DEF WatchedRun, Gone, Watching, Over
      <3>5. ASSUME NEW q \in Runs \ {r} PROVE WatchedRun(q)'
        BY <3>1 DEF Watched, WatchedRun, KillThrew, Gone
      <3> QED
        BY <3>4, <3>5 DEF Watched
    <2>5. CASE Kill(r)
      <3>1. /\ UNCHANGED <<report, stage, reason>> /\ pc[r] = "kill"
            /\ \A q \in Runs \ {r} : /\ pc'[q] = pc[q] /\ state'[q] = state[q]
                                     /\ child'[q] = child[q] /\ helper'[q] = helper[q]
            /\ \/ pc'[r] = "await" /\ state'[r] = state[r]
               \/ pc'[r] = "cleanup" /\ state'[r] = "Failed"
        BY <2>5 DEF Kill, Finish, Fail, Goto, Enter, RunsTyped, ProcessTyped
      <3>2. reason[r] = "Cancelled" /\ report[r][stage[r]] = "none"
        BY <3>1 DEF Unreported, UnreportedRun, Executing, Watching
      <3> QED
        BY <3>1, <3>2 DEF Watched, WatchedRun, KillThrew, Gone, Watching, Over
    <2>6. CASE Drain(r)
      <3>1. /\ UNCHANGED <<state, child, helper, reason, stage>>
            /\ pc[r] = "drain" /\ helper[r] # TRUE /\ pc'[r] = "reported"
            /\ \A q \in Runs \ {r} : pc'[q] = pc[q] /\ report'[q] = report[q]
        BY <2>6 DEF Drain, Reported, Executor, Goto, RunsTyped, ProcessTyped
      <3>2. child[r] \notin Alive /\ state[r] \notin Terminal
        BY <3>1 DEF Watched, WatchedRun, Gone, Alive, Over
      <3>3. WatchedRun(r)'
        BY <3>1, <3>2 DEF WatchedRun
      <3>4. ASSUME NEW q \in Runs \ {r} PROVE WatchedRun(q)'
        BY <3>1 DEF Watched, WatchedRun, KillThrew, Gone
      <3> QED
        BY <3>3, <3>4 DEF Watched
    <2>7. CASE Keep(r) \/ Empty(r) \/ Remove(r)
      <3>1. /\ UNCHANGED <<state, child, helper, reason, report, stage>>
            /\ pc[r] \in Over /\ pc'[r] \in Over
            /\ \A q \in Runs \ {r} : pc'[q] = pc[q]
        BY <2>7 DEF Keep, Empty, Remove, Settled, process, Return, Goto,
           RunsTyped, Over
      <3> QED
        BY <3>1 DEF Watched, WatchedRun, KillThrew, Gone, Watching, Over
    <2> QED
      BY <1>1, <2>1, <2>2, <2>3, <2>4, <2>5, <2>6, <2>7 DEF Own, Environment
  <1>2. CASE UNCHANGED vars
    BY <1>2 DEF vars, process, Watched, WatchedRun, KillThrew, Gone
  <1> QED
    BY <1>1, <1>2 DEF Next, Ended

(* A run ends as what happened to it says.                                 *)
LEMMA EarnedKept ==
    RunsTyped /\ TokensTyped /\ FolderTyped /\ ProcessTyped /\ Watched
        /\ Earned /\ [Next]_vars => Earned'
  <1> SUFFICES ASSUME RunsTyped, TokensTyped, FolderTyped, ProcessTyped,
                      Watched, Earned, [Next]_vars
               PROVE  Earned'
    OBVIOUS
  <1>1. ASSUME NEW r \in Runs, Own(r) \/ Environment(r)
        PROVE  Earned'
    <2>1. CASE ChildEnds(r) \/ ChildDies(r) \/ HelperStarts(r)
               \/ HelperEnds(r)
      BY <2>1 DEF ChildEnds, ChildDies, HelperStarts, HelperEnds, ProcessOnly,
         tokens, folder, process, RunsTyped, TokensTyped, FolderTyped,
         ProcessTyped, Watched, WatchedRun, Over, Earned, EarnedRun, Terminal,
         Stages, Told
    <2>2. CASE Cancel(r)
      BY <2>2 DEF Cancel, tokens, folder, process, RunsTyped, TokensTyped,
         FolderTyped, ProcessTyped, Watched, WatchedRun, Over, Earned,
         EarnedRun, Terminal, Stages, Told
    <2>3. CASE Expire(r)
      BY <2>3 DEF Expire, tokens, folder, process, RunsTyped, TokensTyped,
         FolderTyped, ProcessTyped, Watched, WatchedRun, Over, Earned,
         EarnedRun, Terminal, Stages, Told
    <2>4. CASE Call(r) \/ Validate(r) \/ Probe(r) \/ MakeDirectory(r)
               \/ WriteMarker(r) \/ Prepare(r)
      BY <2>4 DEF Call, Validate, Probe, MakeDirectory, WriteMarker, Prepare,
         Quiet, NoFault, Enter, Goto, Finish, Fail, Retry, Fault, Stop, Told,
         tokens, folder, process, RunsTyped, TokensTyped, FolderTyped,
         ProcessTyped, Watched, WatchedRun, Over, Earned, EarnedRun, Terminal,
         Stages
    <2>5. CASE Expand(r) \/ Start(r) \/ SeeExit(r) \/ Interrupt(r) \/ Kill(r)
               \/ AwaitExit(r) \/ AfterEnergyPlus(r)
      BY <2>5 DEF Expand, Start, SeeExit, Interrupt, Kill, AwaitExit,
         AfterEnergyPlus, Begin, Stop, Told, Finish, Fail, Enter, Goto, Fault,
         NoFault, Gone, Executor, Quiet, tokens, folder, process, RunsTyped,
         TokensTyped, FolderTyped, ProcessTyped, Watched, WatchedRun, Over,
         Earned, EarnedRun, Terminal, Stages
    <2>6. CASE Spawn(r)
      <3>1. CASE Told(r) /\ Reported(r, "cancelled")
        <4>1. /\ UNCHANGED <<state, tokens, stage, reason, collected>>
              /\ pc[r] = "spawn" /\ pc'[r] = "reported"
              /\ \A q \in Runs \ {r} : pc'[q] = pc[q]
          BY <2>6, <3>1 DEF Spawn, process, Reported, Goto, RunsTyped
        <4>2. state[r] \notin Terminal
          BY <4>1 DEF Watched, WatchedRun, Over
        <4> QED
          BY <3>1, <4>1, <4>2, ReportEffects
             DEF Earned, EarnedRun, Told, tokens, Terminal, Stages, ProcessTyped
      <3>2. CASE ~Told(r) /\ Goto(r, "start") /\ UNCHANGED report
        BY <2>6, <3>2 DEF Spawn, Goto, tokens, process, RunsTyped, Earned, EarnedRun,
           Told
      <3> QED
        BY <2>6, <3>1, <3>2 DEF Spawn
    <2>7. CASE Drain(r)
      <3>1. PICK result \in {"zero", "nonzero", "cancelled"} :
               /\ Reported(r, result)
               /\ result = "cancelled" => reason[r] = "Cancelled"
        BY <2>7, DrainEffects
      <3>2. /\ UNCHANGED <<state, tokens, stage, reason, collected>>
            /\ pc[r] = "drain" /\ pc'[r] = "reported"
            /\ \A q \in Runs \ {r} : pc'[q] = pc[q]
        BY <2>7, <3>1 DEF Drain, Executor, Reported, Goto, RunsTyped
      <3>3. state[r] \notin Terminal
        BY <3>2 DEF Watched, WatchedRun, Over
      <3> QED
        BY <3>1, <3>2, <3>3, ReportEffects
           DEF Earned, EarnedRun, Told, tokens, Terminal, Stages, ProcessTyped
    <2>8. CASE AfterExpand(r)
      BY <2>8 DEF AfterExpand, Begin, Stop, Told, Finish, Fail, Enter, Goto,
         tokens, folder, process, RunsTyped, TokensTyped, FolderTyped,
         ProcessTyped, Watched, WatchedRun, Over, Earned, EarnedRun, Terminal,
         Stages
    <2>9. CASE Keep(r) \/ Empty(r) \/ Remove(r)
      BY <2>9 DEF Keep, Empty, Remove, Return, NoFault, Settled, Goto, Fault,
         tokens, folder, process, RunsTyped, TokensTyped, FolderTyped,
         ProcessTyped, Watched, WatchedRun, Over, Earned, EarnedRun, Terminal,
         Stages, Told
    <2>10. CASE Collect(r)
      BY <2>10 DEF Collect, Fault, NoFault, Finish, Fail, Enter, Goto, tokens,
         folder, process, RunsTyped, TokensTyped, FolderTyped, ProcessTyped,
         Watched, WatchedRun, Over, Earned, EarnedRun, Terminal, Stages, Told
    <2>11. CASE Judge(r)
      BY <2>11 DEF Judge, Stop, Told, Quiet, NoFault, Finish, Fail, Enter,
         Goto, tokens, folder, process, RunsTyped, TokensTyped, FolderTyped,
         ProcessTyped, Watched, WatchedRun, Over, Earned, EarnedRun, Terminal,
         Stages
    <2> QED
      BY <1>1, <2>1, <2>2, <2>3, <2>4, <2>5, <2>6, <2>7, <2>8, <2>9, <2>10,
         <2>11 DEF Own, Environment
  <1>2. CASE UNCHANGED vars
    BY <1>2 DEF vars, tokens, folder, process, RunsTyped, TokensTyped,
       FolderTyped, ProcessTyped, Watched, WatchedRun, Over, Earned,
       EarnedRun, Terminal, Stages, Told
  <1> QED
    BY <1>1, <1>2 DEF Next, Ended

(* The search ends with a directory or with the run.                       *)
LEMMA SearchingKept ==
    RunsTyped /\ TokensTyped /\ FolderTyped /\ ProcessTyped /\ Searching
        /\ [Next]_vars => Searching'
  <1> SUFFICES ASSUME RunsTyped, TokensTyped, FolderTyped, ProcessTyped,
                      Searching, [Next]_vars
               PROVE  Searching'
    OBVIOUS
  <1>1. ASSUME NEW r \in Runs, Own(r) \/ Environment(r)
        PROVE  Searching'
    <2>1. CASE Cancel(r) \/ Expire(r) \/ ChildEnds(r) \/ ChildDies(r)
               \/ HelperStarts(r) \/ HelperEnds(r)
      BY <2>1 DEF Cancel, Expire, ChildEnds, ChildDies, HelperStarts,
         HelperEnds, ProcessOnly, tokens, folder, process, RunsTyped,
         FolderTyped, Searching, SearchingRun
    <2>2. CASE Call(r) \/ Validate(r) \/ MakeDirectory(r) \/ Prepare(r)
      BY <2>2 DEF Call, Validate, MakeDirectory, Prepare, Quiet, NoFault,
         Enter, Goto, Finish, Fail, Fault, Stop, Told, tokens, folder,
         process, RunsTyped, FolderTyped, Searching, SearchingRun
    <2>3. CASE Probe(r)
      BY <2>3 DEF Probe, Retry, Fault, NoFault, Quiet, Finish, Fail, Enter,
         Goto, tokens, folder, process, RunsTyped, FolderTyped, Searching,
         SearchingRun
    <2>4. CASE WriteMarker(r)
      BY <2>4 DEF WriteMarker, Retry, Fault, NoFault, Quiet, Finish, Fail,
         Enter, Goto, tokens, folder, process, RunsTyped, FolderTyped,
         Searching, SearchingRun
    <2>5. CASE Expand(r) \/ Spawn(r) \/ Start(r) \/ SeeExit(r)
               \/ Interrupt(r) \/ Kill(r) \/ AwaitExit(r) \/ Drain(r)
               \/ AfterExpand(r) \/ AfterEnergyPlus(r)
      BY <2>5 DEF Expand, Spawn, Start, SeeExit, Interrupt, Kill, AwaitExit,
         Drain, AfterExpand, AfterEnergyPlus, Begin, Stop, Told, Finish, Fail,
         Enter, Goto, Reported, Fault, NoFault, Gone, Executor, Quiet, tokens,
         folder, process, RunsTyped, FolderTyped, Searching, SearchingRun
    <2>6. CASE Collect(r) \/ Judge(r) \/ Keep(r) \/ Empty(r) \/ Remove(r)
      BY <2>6 DEF Collect, Judge, Keep, Empty, Remove, Fault, NoFault, Finish,
         Fail, Enter, Goto, Stop, Told, Quiet, Return, Settled, tokens,
         folder, process, RunsTyped, FolderTyped, Searching, SearchingRun
    <2> QED
      BY <1>1, <2>1, <2>2, <2>3, <2>4, <2>5, <2>6 DEF Own, Environment
  <1>2. CASE UNCHANGED vars
    BY <1>2 DEF vars, tokens, folder, process, RunsTyped, FolderTyped,
       Searching, SearchingRun
  <1> QED
    BY <1>1, <1>2 DEF Next, Ended

(* Only its run writes a marker, and a run that ends says what it leaves.  *)
LEMMA MarkersKept ==
    RunsTyped /\ TokensTyped /\ FolderTyped /\ ProcessTyped /\ Searching
        /\ HoldsItsDirectory /\ MarkersSound /\ [Next]_vars => MarkersSound'
  <1> SUFFICES ASSUME RunsTyped, TokensTyped, FolderTyped, ProcessTyped,
                      Searching, HoldsItsDirectory, MarkersSound, [Next]_vars
               PROVE  MarkersSound'
    OBVIOUS
  <1>1. ASSUME NEW r \in Runs, Own(r) \/ Environment(r)
        PROVE  MarkersSound'
    <2>1. CASE Cancel(r) \/ Expire(r) \/ ChildEnds(r) \/ ChildDies(r)
               \/ HelperStarts(r) \/ HelperEnds(r)
      BY <2>1 DEF Cancel, Expire, ChildEnds, ChildDies, HelperStarts,
         HelperEnds, ProcessOnly, tokens, folder, process, RunsTyped,
         FolderTyped, Searching, SearchingRun, HoldsItsDirectory, MarkersSound
    <2>2. CASE Call(r) \/ Validate(r) \/ Probe(r) \/ MakeDirectory(r)
               \/ Prepare(r)
      BY <2>2 DEF Call, Validate, Probe, MakeDirectory, Prepare, Quiet,
         NoFault, Enter, Goto, Finish, Fail, Retry, Fault, Stop, Told, tokens,
         folder, process, RunsTyped, FolderTyped, Searching, SearchingRun,
         HoldsItsDirectory, MarkersSound
    <2>3. CASE WriteMarker(r)
      <3>1. dir[r] = NoId
        BY <2>3 DEF WriteMarker, Searching, SearchingRun
      <3>2. \A i \in Ids : marker[i] # r
        BY <3>1, RunAssumption DEF MarkersSound
      <3> QED
        BY <2>3, <3>2, MarkEffects, RunAssumption DEF MarkersSound, FolderTyped
    <2>4. CASE Expand(r) \/ Spawn(r) \/ Start(r) \/ SeeExit(r)
               \/ Interrupt(r) \/ Kill(r) \/ AwaitExit(r) \/ Drain(r)
               \/ AfterExpand(r) \/ AfterEnergyPlus(r)
      BY <2>4 DEF Expand, Spawn, Start, SeeExit, Interrupt, Kill, AwaitExit,
         Drain, AfterExpand, AfterEnergyPlus, Begin, Stop, Told, Finish, Fail,
         Enter, Goto, Reported, Fault, NoFault, Gone, Executor, Quiet, tokens,
         folder, process, RunsTyped, FolderTyped, Searching, SearchingRun,
         HoldsItsDirectory, MarkersSound
    <2>5. CASE Collect(r) \/ Judge(r)
      BY <2>5 DEF Collect, Judge, Fault, NoFault, Finish, Fail, Enter, Goto,
         Stop, Told, Quiet, tokens, folder, process, RunsTyped, FolderTyped,
         Searching, SearchingRun, HoldsItsDirectory, MarkersSound
    <2>6. CASE Keep(r)
      <3>1. /\ UNCHANGED <<dir, marker, exists>>
            /\ pc[r] = "cleanup" /\ pc'[r] = "done"
            /\ retained'[r] = (dir[r] # NoId /\ dir[r] \in exists)
            /\ \A q \in Runs \ {r} : pc'[q] = pc[q] /\ retained'[q] = retained[q]
        BY <2>6 DEF Keep, Return, Settled, Goto, RunsTyped
      <3>2. \A i \in Ids : marker[i] = r => dir[r] # NoId /\ dir[r] \in exists
        BY <3>1, RunAssumption DEF MarkersSound, HoldsItsDirectory
      <3> QED
        BY <3>1, <3>2 DEF MarkersSound
    <2>7. CASE Empty(r)
      <3>1. UNCHANGED dir /\ pc[r] = "cleanup" /\ dir[r] \in Ids
        BY <2>7, EmptyEffects
      <3>2. \A q \in Runs \ {r} : pc'[q] = pc[q] /\ retained'[q] = retained[q]
        BY <2>7, EmptyEffects
      <3>3. CASE marker' = [marker EXCEPT ![dir[r]] = NoRun]
        BY <3>1, <3>2, <3>3, RunAssumption DEF MarkersSound, FolderTyped
      <3>4. CASE marker' = marker /\ pc'[r] = "done" /\ retained'[r] = TRUE
        BY <3>1, <3>2, <3>4 DEF MarkersSound
      <3> QED
        BY <2>7, <3>3, <3>4, EmptyEffects
    <2>8. CASE Remove(r)
      BY <2>8 DEF Remove, Return, NoFault, Settled, Goto, tokens, folder,
         process, RunsTyped, FolderTyped, Searching, SearchingRun,
         HoldsItsDirectory, MarkersSound
    <2> QED
      BY <1>1, <2>1, <2>2, <2>3, <2>4, <2>5, <2>6, <2>7, <2>8 DEF Own,
         Environment
  <1>2. CASE UNCHANGED vars
    BY <1>2 DEF vars, tokens, folder, process, RunsTyped, FolderTyped,
       Searching, SearchingRun, HoldsItsDirectory, MarkersSound
  <1> QED
    BY <1>1, <1>2 DEF Next, Ended

(* No run marks, empties or removes the directory of another.              *)
LEMMA DirectoryKept ==
    RunsTyped /\ TokensTyped /\ FolderTyped /\ ProcessTyped /\ Searching
        /\ MarkersSound /\ HoldsItsDirectory
        /\ [Next]_vars => HoldsItsDirectory'
  <1> SUFFICES ASSUME RunsTyped, TokensTyped, FolderTyped, ProcessTyped,
                      Searching, MarkersSound, HoldsItsDirectory, [Next]_vars
               PROVE  HoldsItsDirectory'
    OBVIOUS
  <1>1. ASSUME NEW r \in Runs, Own(r) \/ Environment(r)
        PROVE  HoldsItsDirectory'
    <2>1. CASE Cancel(r) \/ Expire(r) \/ ChildEnds(r) \/ ChildDies(r)
               \/ HelperStarts(r) \/ HelperEnds(r)
      BY <2>1 DEF Cancel, Expire, ChildEnds, ChildDies, HelperStarts,
         HelperEnds, ProcessOnly, tokens, folder, process, RunsTyped,
         FolderTyped, Searching, SearchingRun, HoldsItsDirectory
    <2>2. CASE Call(r) \/ Validate(r) \/ Probe(r) \/ MakeDirectory(r)
               \/ Prepare(r)
      BY <2>2 DEF Call, Validate, Probe, MakeDirectory, Prepare, Quiet,
         NoFault, Enter, Goto, Finish, Fail, Retry, Fault, Stop, Told, tokens,
         folder, process, RunsTyped, FolderTyped, Searching, SearchingRun,
         HoldsItsDirectory
    <2>3. CASE WriteMarker(r)
      <3>1. dir[r] = NoId
        BY <2>3 DEF WriteMarker, Searching, SearchingRun
      <3> QED
        BY <2>3, <3>1, MarkEffects, RunAssumption DEF HoldsItsDirectory, FolderTyped, RunsTyped
    <2>4. CASE Expand(r) \/ Spawn(r) \/ Start(r) \/ SeeExit(r)
               \/ Interrupt(r) \/ Kill(r) \/ AwaitExit(r) \/ Drain(r)
               \/ AfterExpand(r) \/ AfterEnergyPlus(r)
      BY <2>4 DEF Expand, Spawn, Start, SeeExit, Interrupt, Kill, AwaitExit,
         Drain, AfterExpand, AfterEnergyPlus, Begin, Stop, Told, Finish, Fail,
         Enter, Goto, Reported, Fault, NoFault, Gone, Executor, Quiet, tokens,
         folder, process, RunsTyped, FolderTyped, Searching, SearchingRun,
         HoldsItsDirectory
    <2>5. CASE Collect(r) \/ Judge(r)
      BY <2>5 DEF Collect, Judge, Fault, NoFault, Finish, Fail, Enter, Goto,
         Stop, Told, Quiet, tokens, folder, process, RunsTyped, FolderTyped,
         Searching, SearchingRun, HoldsItsDirectory
    <2>6. CASE Keep(r)
      BY <2>6 DEF Keep, Return, NoFault, Settled, Goto, tokens, folder,
         process, RunsTyped, FolderTyped, Searching, SearchingRun,
         HoldsItsDirectory
    <2>7. CASE Empty(r)
      <3>1. /\ UNCHANGED <<dir, exists>> /\ dir[r] \in Ids /\ marker[dir[r]] = r
            /\ pc'[r] \in {"remove", "done"}
            /\ \A q \in Runs \ {r} : pc'[q] = pc[q]
            /\ marker' \in {marker, [marker EXCEPT ![dir[r]] = NoRun]}
        BY <2>7, EmptyEffects
      <3> QED
        BY <3>1 DEF HoldsItsDirectory, FolderTyped
    <2>8. CASE Remove(r)
      <3>1. /\ UNCHANGED <<dir, marker>> /\ pc[r] = "remove" /\ pc'[r] = "done"
            /\ \A q \in Runs \ {r} : pc'[q] = pc[q]
            /\ \A i \in exists \ exists' : marker[i] = NoRun
        BY <2>8 DEF Remove, Return, Settled, Goto, RunsTyped
      <3> QED
        BY <3>1, RunAssumption DEF HoldsItsDirectory
    <2> QED
      BY <1>1, <2>1, <2>2, <2>3, <2>4, <2>5, <2>6, <2>7, <2>8 DEF Own,
         Environment
  <1>2. CASE UNCHANGED vars
    BY <1>2 DEF vars, tokens, folder, process, RunsTyped, FolderTyped,
       Searching, SearchingRun, HoldsItsDirectory
  <1> QED
    BY <1>1, <1>2 DEF Next, Ended

(* It all holds before the first call.                                     *)
LEMMA InitSound ==
    Init => IInv
  <1> SUFFICES ASSUME Init
               PROVE  IInv
    OBVIOUS
  <1>1. RunsTyped
    BY DEF Init, RunsTyped, States, Steps
  <1>2. TokensTyped /\ FolderTyped
    BY RunAssumption DEF Init, TokensTyped, FolderTyped
  <1>3. ProcessTyped
    BY DEF Init, ProcessTyped, Stages
  <1>4. faults \in 0..MaxFaults
    BY RunAssumption DEF Init
  <1>5. Watched /\ Unreported
    BY DEF Init, Watched, WatchedRun, KillThrew, Alive, Terminal, Unreported,
       UnreportedRun, Stages
  <1>6. Earned
    BY DEF Init, Earned, EarnedRun, Stages
  <1>7. Searching /\ MarkersSound /\ HoldsItsDirectory
    BY RunAssumption
       DEF Init, Searching, SearchingRun, MarkersSound, HoldsItsDirectory
  <1> QED
    BY <1>1, <1>2, <1>3, <1>4, <1>5, <1>6, <1>7 DEF TypeOK, IInv

(* Every step of a run and of its environment keeps it.                    *)
LEMMA StepSound ==
    IInv /\ [Next]_vars => IInv'
  <1> SUFFICES ASSUME IInv, [Next]_vars
               PROVE  IInv'
    OBVIOUS
  <1>1. TypeOK'
    BY RunsStayTyped, TokensStayTyped, FolderStaysTyped, ProcessesStayTyped,
       FaultsStayCounted DEF IInv, TypeOK
  <1>2. Watched' /\ Unreported' /\ Earned'
    BY WatchedKept, UnreportedKept, EarnedKept DEF IInv, TypeOK
  <1>3. Searching' /\ MarkersSound' /\ HoldsItsDirectory'
    BY SearchingKept, MarkersKept, DirectoryKept DEF IInv, TypeOK
  <1> QED
    BY <1>1, <1>2, <1>3 DEF IInv

(* The invariant holds throughout.                                         *)
LEMMA AlwaysSound ==
    Spec => []IInv
  BY InitSound, StepSound, PTL DEF Spec

(* A terminal state says what happened to the run, whenever it is          *)
(* cancelled or its time runs out (EnergyPlusRunner.RunAsync).             *)
THEOREM VerdictsAreEarned ==
    Spec => []VerdictEarned
  <1>1. IInv => VerdictEarned
    BY DEF IInv, Earned, EarnedRun, VerdictEarned
  <1> QED
    BY <1>1, AlwaysSound, PTL

(* No child or descendant of a run is alive when the run has a terminal    *)
(* state, whatever a kill achieves, except in a run that failed because    *)
(* killing the tree threw (ProcessExecutor.RunAsync, TryKillProcessTree).  *)
THEOREM NothingOutlivesItsRun ==
    Spec => []NothingLeftRunning
  <1>1. IInv => NothingLeftRunning
    BY DEF IInv, TypeOK, ProcessTyped, Watched, WatchedRun, Watching, Over,
       NothingLeftRunning, Occupied
  <1> QED
    BY <1>1, AlwaysSound, PTL

(* Every variable keeps its type, no search makes more attempts than it    *)
(* may, and however many runs draw the same identifiers each keeps the     *)
(* directory it marked (SafeRunDirectory.Create, Delete).                  *)
THEOREM DirectoriesAreKept ==
    Spec => []DirectoriesSound
  <1>1. IInv => DirectoriesSound
    BY DEF IInv, DirectoriesSound
  <1> QED
    BY <1>1, AlwaysSound, PTL

(* A marked directory belongs to a run in progress or was returned to its  *)
(* caller, whatever fails (RunAsync, SafeRunDirectory.Delete).             *)
THEOREM NoMarkerIsLost ==
    Spec => []MarkersAccountedFor
  <1>1. IInv => MarkersAccountedFor
    BY DEF IInv, MarkersSound, MarkersAccountedFor
  <1> QED
    BY <1>1, AlwaysSound, PTL

=============================================================================
