---------------------------- MODULE EnergyPlusRun ----------------------------
(***************************************************************************)
(* One simulation: EnergyPlusRunner.RunAsync takes a private directory     *)
(* under the caller's temporary root, copies its inputs there, runs        *)
(* ExpandObjects and EnergyPlus as child processes (ProcessExecutor),      *)
(* collects the result files and deletes the directory when the cleanup    *)
(* policy says so.  The caller may cancel at any time and a timer may run  *)
(* out; both reach the run through one linked token, which is read between *)
(* the stages and raced against the exit of a child.                       *)
(*                                                                         *)
(* Several runs share the temporary root.  Their directories are named by  *)
(* random identifiers, drawn here from the small set Ids so that they      *)
(* collide: a marker file, created with CreateNew, decides who owns one.   *)
(***************************************************************************)
EXTENDS Integers

CONSTANTS
    Runs,           \* calls of RunAsync
    Ids,            \* values of Guid.NewGuid
    NoId,           \* no directory
    NoRun,          \* no marker
    Stray,          \* a marker left by a failed attempt to write it
    MaxAttempts,    \* attempts of SafeRunDirectory.Create (20 in the code)
    Policies,       \* cleanup policies the callers use
    Timed,          \* runs with a timeout
    KillOutcomes,   \* what killing may come to: "tree", "child", "nothing", "throws"
    Helpers,        \* whether a child may start processes of its own
    MaxFaults       \* bound on operations that fail

ASSUME RunAssumption ==
    /\ NoId \notin Ids
    /\ {NoRun, Stray} \cap Runs = {} /\ NoRun # Stray
    /\ MaxAttempts \in Nat \ {0}
    /\ Policies \subseteq {"KeepAlways", "DeleteOnSuccess", "DeleteAlways"}
    /\ Timed \subseteq Runs
    /\ KillOutcomes \subseteq {"tree", "child", "nothing", "throws"}
    /\ Helpers \in BOOLEAN
    /\ MaxFaults \in Nat

Stages == {"ExpandObjects", "EnergyPlus"}
Terminal == {"Succeeded", "Failed", "Cancelled", "TimedOut"}
States == {"Pending", "Validating", "Preparing", "ExpandingObjects",
           "RunningEnergyPlus", "CollectingResults"} \cup Terminal
Steps == {"call", "validate", "probe", "mkdir", "mark", "prepare", "expand",
          "spawn", "start", "race", "kill", "await", "drain", "reported",
          "collect", "judge", "cleanup", "remove", "done"}

VARIABLES
    state,      \* EnergyPlusRunState of the last transition
    pc,         \* where RunAsync stands
    policy,     \* EnergyPlusRunRequest.CleanupPolicy
    cancelled,  \* the caller's token
    expired,    \* the timer's token
    attempt,    \* attempts to find a directory
    candidate,  \* the identifier of the current attempt
    dir,        \* runDirectory
    exists,     \* the directories there are under the root
    marker,     \* who wrote the marker in a directory
    stage,      \* the child process the run is at
    child,      \* that process
    helper,     \* a descendant of it is alive and holds its output pipes
    reason,     \* ProcessTerminationReason
    report,     \* the results of the two processes
    collected,  \* the result files were read
    retained,   \* WorkDirectoryRetained, as returned to the caller
    faults

tokens == <<cancelled, expired>>
folder == <<attempt, candidate, dir, exists, marker>>
process == <<stage, child, helper, reason>>
vars == <<state, pc, policy, tokens, folder, process, report, collected,
          retained, faults>>

Init ==
    /\ state = [r \in Runs |-> "Pending"]
    /\ pc = [r \in Runs |-> "call"]
    /\ policy \in [Runs -> Policies]
    /\ cancelled = [r \in Runs |-> FALSE]
    /\ expired = [r \in Runs |-> FALSE]
    /\ attempt = [r \in Runs |-> 0]
    /\ candidate = [r \in Runs |-> NoId]
    /\ dir = [r \in Runs |-> NoId]
    /\ exists = {}
    /\ marker = [i \in Ids |-> NoRun]
    /\ stage = [r \in Runs |-> "ExpandObjects"]
    /\ child = [r \in Runs |-> "none"]
    /\ helper = [r \in Runs |-> FALSE]
    /\ reason = [r \in Runs |-> "Exited"]
    /\ report = [r \in Runs |-> [s \in Stages |-> "none"]]
    /\ collected = [r \in Runs |-> FALSE]
    /\ retained = [r \in Runs |-> FALSE]
    /\ faults = 0

Fault == faults < MaxFaults /\ faults' = faults + 1
NoFault == UNCHANGED faults

Goto(r, s) == pc' = [pc EXCEPT ![r] = s]
Enter(r, s) == state' = [state EXCEPT ![r] = s]

(* Finish makes the terminal transition and goes on to clean up.           *)
Finish(r, s) == s \in Terminal /\ Enter(r, s) /\ Goto(r, "cleanup")
Fail(r) == Finish(r, "Failed")

(* The linked token, and CancellationOrTimeoutResult: the caller's         *)
(* cancellation counts before the timeout.                                 *)
Told(r) == cancelled[r] \/ expired[r]
Stop(r) == Finish(r, IF cancelled[r] THEN "Cancelled" ELSE "TimedOut")

-----------------------------------------------------------------------------
(* The environment.                                                        *)

Cancel(r) ==
    /\ pc[r] # "done" /\ ~cancelled[r]
    /\ cancelled' = [cancelled EXCEPT ![r] = TRUE]
    /\ UNCHANGED <<state, pc, policy, expired, folder, process, report,
                   collected, retained, faults>>

(* The timer is set once the request was found valid.                      *)
Expire(r) ==
    /\ r \in Timed /\ ~expired[r]
    /\ pc[r] \notin {"call", "validate", "cleanup", "remove", "done"}
    /\ expired' = [expired EXCEPT ![r] = TRUE]
    /\ UNCHANGED <<state, pc, policy, cancelled, folder, process, report,
                   collected, retained, faults>>

ProcessOnly == UNCHANGED <<state, pc, policy, tokens, folder, stage, reason,
                           report, collected, retained, faults>>

Alive == {"running", "spared", "dying"}

(* The child ends by itself, with exit code 0 or another.                  *)
ChildEnds(r) ==
    /\ child[r] \in {"running", "spared"}
    /\ \E code \in {"zero", "nonzero"} : child' = [child EXCEPT ![r] = code]
    /\ UNCHANGED helper /\ ProcessOnly

(* A killed child disappears a moment later.                               *)
ChildDies(r) ==
    /\ child[r] = "dying"
    /\ child' = [child EXCEPT ![r] = "nonzero"]
    /\ UNCHANGED helper /\ ProcessOnly

HelperStarts(r) ==
    /\ Helpers /\ child[r] \in {"running", "spared"} /\ ~helper[r]
    /\ helper' = [helper EXCEPT ![r] = TRUE]
    /\ UNCHANGED child /\ ProcessOnly

HelperEnds(r) ==
    /\ helper[r]
    /\ helper' = [helper EXCEPT ![r] = FALSE]
    /\ UNCHANGED child /\ ProcessOnly

-----------------------------------------------------------------------------
(* Validation and the private directory.                                   *)

Quiet == UNCHANGED <<policy, tokens, process, report, collected, retained>>

Call(r) ==
    /\ pc[r] = "call"
    /\ Enter(r, "Validating") /\ Goto(r, "validate")
    /\ UNCHANGED folder /\ Quiet /\ NoFault

(* A request that is not valid fails, a caller who has cancelled already   *)
(* is told so; neither has a directory.                                    *)
Validate(r) ==
    /\ pc[r] = "validate"
    /\ \/ Fail(r)
       \/ cancelled[r] /\ Finish(r, "Cancelled")
       \/ ~cancelled[r] /\ Enter(r, "Preparing") /\ Goto(r, "probe")
    /\ UNCHANGED folder /\ Quiet /\ NoFault

(* SafeRunDirectory.Create draws an identifier, at most MaxAttempts times, *)
(* and passes over one whose directory is there.  Its root may be          *)
(* unusable.                                                               *)
Retry(r) ==
    /\ attempt' = [attempt EXCEPT ![r] = @ + 1]
    /\ Goto(r, "probe") /\ UNCHANGED state

Probe(r) ==
    /\ pc[r] = "probe"
    /\ \/ /\ attempt[r] < MaxAttempts
          /\ \E i \in Ids :
                \/ i \in exists /\ Retry(r) /\ UNCHANGED candidate
                \/ /\ i \notin exists
                   /\ candidate' = [candidate EXCEPT ![r] = i]
                   /\ Goto(r, "mkdir") /\ UNCHANGED <<state, attempt>>
          /\ NoFault
       \/ attempt[r] = MaxAttempts /\ Fail(r) /\ NoFault
             /\ UNCHANGED <<attempt, candidate>>
       \/ attempt[r] = 0 /\ Fail(r) /\ Fault /\ UNCHANGED <<attempt, candidate>>
    /\ UNCHANGED <<dir, exists, marker>> /\ Quiet

(* Directory.CreateDirectory does not say whether the directory was there. *)
MakeDirectory(r) ==
    /\ pc[r] = "mkdir"
    /\ \/ /\ exists' = exists \cup {candidate[r]}
          /\ Goto(r, "mark") /\ UNCHANGED state /\ NoFault
       \/ Fail(r) /\ Fault /\ UNCHANGED exists
    /\ UNCHANGED <<attempt, candidate, dir, marker>> /\ Quiet

(* Mutant: the marker is written with Create, over an existing one.        *)
WriteMarkerOver(r) ==
    LET i == candidate[r] IN
    /\ pc[r] = "mark"
    /\ \/ /\ i \in exists
          /\ marker' = [marker EXCEPT ![i] = r]
          /\ dir' = [dir EXCEPT ![r] = i]
          /\ Goto(r, "prepare") /\ UNCHANGED <<state, attempt>> /\ NoFault
       \/ i \notin exists /\ Retry(r) /\ UNCHANGED <<dir, marker>> /\ NoFault
    /\ UNCHANGED <<candidate, exists>> /\ Quiet

(* The marker is created with CreateNew.  When that or the writing fails   *)
(* with an IOException the next attempt follows, and the directory, with a *)
(* marker of nobody's or with none, stays; when access is denied the run   *)
(* fails.                                                                  *)
WriteMarker(r) ==
    LET i == candidate[r]
        free == i \in exists /\ marker[i] = NoRun
    IN
    /\ pc[r] = "mark"
    /\ \/ /\ free
          /\ marker' = [marker EXCEPT ![i] = r]
          /\ dir' = [dir EXCEPT ![r] = i]
          /\ Goto(r, "prepare") /\ UNCHANGED <<state, attempt>> /\ NoFault
       \/ ~free /\ Retry(r) /\ UNCHANGED <<dir, marker>> /\ NoFault
       \/ /\ free /\ Retry(r) /\ Fault /\ UNCHANGED dir
          /\ marker' \in {marker, [marker EXCEPT ![i] = Stray]}
       \/ Fail(r) /\ Fault /\ UNCHANGED <<attempt, dir, marker>>
    /\ UNCHANGED <<candidate, exists>> /\ Quiet

(* The inputs are copied into the directory.                               *)
Prepare(r) ==
    /\ pc[r] = "prepare"
    /\ \/ Told(r) /\ Stop(r) /\ NoFault
       \/ ~Told(r) /\ Goto(r, "expand") /\ UNCHANGED state /\ NoFault
       \/ ~Told(r) /\ Fail(r) /\ Fault
    /\ UNCHANGED folder /\ Quiet

-----------------------------------------------------------------------------
(* The child processes.                                                    *)

Begin(r, s, entered) ==
    /\ stage' = [stage EXCEPT ![r] = s]
    /\ Enter(r, entered) /\ Goto(r, "spawn")

Expand(r) ==
    /\ pc[r] = "expand"
    /\ \/ Told(r) /\ Stop(r) /\ UNCHANGED stage
       \/ ~Told(r) /\ Begin(r, "ExpandObjects", "ExpandingObjects")
    /\ UNCHANGED <<policy, tokens, folder, child, helper, reason, report,
                   collected, retained, faults>>

Reported(r, result) ==
    /\ report' = [report EXCEPT ![r][stage[r]] = result]
    /\ Goto(r, "reported")

(* ProcessExecutor.RunAsync starts no process for a cancelled token.       *)
Spawn(r) ==
    /\ pc[r] = "spawn"
    /\ \/ Told(r) /\ Reported(r, "cancelled")
       \/ ~Told(r) /\ Goto(r, "start") /\ UNCHANGED report
    /\ UNCHANGED <<state, policy, tokens, folder, process, collected,
                   retained, faults>>

(* Process.Start.  A cancellation may have come since the token was read.  *)
Start(r) ==
    /\ pc[r] = "start"
    /\ \/ /\ child' = [child EXCEPT ![r] = "running"]
          /\ reason' = [reason EXCEPT ![r] = "Exited"]
          /\ Goto(r, "race") /\ UNCHANGED state /\ NoFault
       \/ Fail(r) /\ Fault /\ UNCHANGED <<child, reason>>
    /\ UNCHANGED <<policy, tokens, folder, stage, helper, report, collected,
                   retained>>

Executor(r) == UNCHANGED <<state, policy, tokens, folder, stage, collected,
                           retained, faults>>

Gone(r) == child[r] \in {"zero", "nonzero"}

(* Task.WhenAny returned because the process has exited ...                *)
SeeExit(r) ==
    /\ pc[r] = "race" /\ Gone(r)
    /\ Goto(r, "drain")
    /\ UNCHANGED <<child, helper, reason, report>> /\ Executor(r)

(* ... or because the token was cancelled and the Exited event has not     *)
(* been raised, which it may be a while after the exit.                    *)
Interrupt(r) ==
    /\ pc[r] = "race" /\ Told(r)
    /\ reason' = [reason EXCEPT ![r] = "Cancelled"]
    /\ Goto(r, "kill")
    /\ UNCHANGED <<child, helper, report>> /\ Executor(r)

(* Mutant: a cancelled run waits for its child instead of killing it.      *)
KillNever(r) ==
    /\ pc[r] = "kill"
    /\ Goto(r, "await")
    /\ UNCHANGED <<child, helper, reason, report>> /\ Executor(r)

(* TryKillProcessTree ends the tree, or the child alone, or nothing.  The  *)
(* net8 build kills the tree by one call, which may end a part of it and   *)
(* throw an AggregateException: no clause there expects it, so nothing is  *)
(* waited for and the run fails over whatever is still alive.              *)
Kill(r) ==
    /\ pc[r] = "kill"
    /\ \/ /\ \/ /\ child[r] = "running" /\ "tree" \in KillOutcomes
                /\ child' = [child EXCEPT ![r] = "dying"]
                /\ helper' = [helper EXCEPT ![r] = FALSE]
             \/ /\ child[r] = "running" /\ "child" \in KillOutcomes
                /\ child' = [child EXCEPT ![r] = "dying"]
                /\ UNCHANGED helper
             \/ /\ child[r] = "running" /\ "nothing" \in KillOutcomes
                /\ child' = [child EXCEPT ![r] = "spared"]
                /\ UNCHANGED helper
             \/ Gone(r) /\ UNCHANGED <<child, helper>>
          /\ Goto(r, "await") /\ UNCHANGED state
       \/ /\ child[r] = "running" /\ "throws" \in KillOutcomes
          /\ \E left \in {"spared", "dying"} : child' = [child EXCEPT ![r] = left]
          /\ helper' \in {helper, [helper EXCEPT ![r] = FALSE]}
          /\ Fail(r)
    /\ UNCHANGED <<policy, tokens, folder, stage, reason, report, collected,
                   retained, faults>>

(* Mutant: the exit of a killed child is not awaited.                      *)
AwaitNothing(r) ==
    /\ pc[r] = "await"
    /\ Goto(r, "drain")
    /\ UNCHANGED <<child, helper, reason, report>> /\ Executor(r)

AwaitExit(r) ==
    /\ pc[r] = "await" /\ Gone(r)
    /\ Goto(r, "drain")
    /\ UNCHANGED <<child, helper, reason, report>> /\ Executor(r)

(* The output is complete when every holder of the pipes has gone.         *)
Drain(r) ==
    /\ pc[r] = "drain" /\ ~helper[r]
    /\ Reported(r, IF reason[r] = "Cancelled" THEN "cancelled" ELSE child[r])
    /\ UNCHANGED <<child, helper, reason>> /\ Executor(r)

(* What RunAsync does with the result of ExpandObjects: a failure counts   *)
(* before a cancellation that came too late to interrupt it.               *)
AfterExpand(r) ==
    LET result == report[r]["ExpandObjects"] IN
    /\ pc[r] = "reported" /\ stage[r] = "ExpandObjects"
    /\ \/ result = "cancelled" /\ Stop(r) /\ UNCHANGED stage
       \/ result = "nonzero" /\ Fail(r) /\ UNCHANGED stage
       \/ result = "zero" /\ Told(r) /\ Stop(r) /\ UNCHANGED stage
       \/ result = "zero" /\ ~Told(r)
             /\ Begin(r, "EnergyPlus", "RunningEnergyPlus")
    /\ UNCHANGED <<policy, tokens, folder, child, helper, reason, report,
                   collected, retained, faults>>

AfterEnergyPlus(r) ==
    /\ pc[r] = "reported" /\ stage[r] = "EnergyPlus"
    /\ Enter(r, "CollectingResults") /\ Goto(r, "collect")
    /\ UNCHANGED folder /\ Quiet /\ NoFault

-----------------------------------------------------------------------------
(* The result.                                                             *)

(* The result files are read whatever became of EnergyPlus, and without    *)
(* regard to the token.                                                    *)
Collect(r) ==
    /\ pc[r] = "collect"
    /\ \/ /\ collected' = [collected EXCEPT ![r] = TRUE]
          /\ Goto(r, "judge") /\ UNCHANGED state /\ NoFault
       \/ Fail(r) /\ Fault /\ UNCHANGED collected
    /\ UNCHANGED <<policy, tokens, folder, process, report, retained>>

(* Mutant: the exit code of EnergyPlus is not looked at.                   *)
JudgeByToken(r) ==
    /\ pc[r] = "judge"
    /\ \/ Told(r) /\ Stop(r)
       \/ ~Told(r) /\ Finish(r, "Succeeded")
    /\ UNCHANGED folder /\ Quiet /\ NoFault

(* A cancellation discards even the results of a run that ended well.      *)
Judge(r) ==
    LET result == report[r]["EnergyPlus"] IN
    /\ pc[r] = "judge"
    /\ \/ (Told(r) \/ result = "cancelled") /\ Stop(r)
       \/ ~Told(r) /\ result = "nonzero" /\ Fail(r)
       \/ ~Told(r) /\ result = "zero" /\ Finish(r, "Succeeded")
    /\ UNCHANGED folder /\ Quiet /\ NoFault

ShouldDelete(r) ==
    \/ policy[r] = "DeleteAlways"
    \/ policy[r] = "DeleteOnSuccess" /\ state[r] = "Succeeded"

(* Mutant: the policy, not the disk, says whether the directory remains.   *)
ReturnByPolicy(r) ==
    /\ retained' = [retained EXCEPT ![r] = dir[r] # NoId /\ ~ShouldDelete(r)]
    /\ Goto(r, "done")

Return(r) ==
    /\ retained' = [retained EXCEPT ![r] = dir[r] # NoId /\ dir[r] \in exists']
    /\ Goto(r, "done")

Settled == UNCHANGED <<state, policy, tokens, attempt, candidate, dir,
                       process, report, collected>>

Keep(r) ==
    /\ pc[r] = "cleanup" /\ (dir[r] = NoId \/ ~ShouldDelete(r))
    /\ UNCHANGED exists /\ Return(r)
    /\ UNCHANGED marker /\ NoFault /\ Settled

(* A process that is still alive works in the directory.                   *)
Occupied(r) == child[r] \in Alive \/ helper[r]

(* SafeRunDirectory.Delete refuses a directory without a marker.  Its      *)
(* contents go first; when one of them cannot be deleted, as under a       *)
(* process that holds them, the directory stays, with or without the       *)
(* marker.                                                                 *)
Empty(r) ==
    LET i == dir[r]
        emptied == [marker EXCEPT ![i] = NoRun]
    IN
    /\ pc[r] = "cleanup" /\ i # NoId /\ ShouldDelete(r)
    /\ \/ /\ marker[i] # NoRun /\ marker' = emptied
          /\ Goto(r, "remove") /\ UNCHANGED <<exists, retained>> /\ NoFault
       \/ /\ marker[i] # NoRun /\ marker' \in {marker, emptied}
          /\ UNCHANGED exists /\ Return(r)
          /\ Fault \/ (Occupied(r) /\ NoFault)
       \/ /\ marker[i] = NoRun
          /\ UNCHANGED <<exists, marker>> /\ Return(r) /\ NoFault
    /\ Settled

(* The directory follows, unless somebody else's marker has come into it.  *)
Remove(r) ==
    /\ pc[r] = "remove"
    /\ exists' = IF marker[dir[r]] = NoRun THEN exists \ {dir[r]} ELSE exists
    /\ Return(r)
    /\ UNCHANGED marker /\ NoFault /\ Settled

-----------------------------------------------------------------------------
Own(r) ==
    \/ Call(r) \/ Validate(r)
    \/ Probe(r) \/ MakeDirectory(r) \/ WriteMarker(r) \/ Prepare(r)
    \/ Expand(r) \/ Spawn(r) \/ Start(r)
    \/ SeeExit(r) \/ Interrupt(r) \/ Kill(r) \/ AwaitExit(r) \/ Drain(r)
    \/ AfterExpand(r) \/ AfterEnergyPlus(r)
    \/ Collect(r) \/ Judge(r) \/ Keep(r) \/ Empty(r) \/ Remove(r)

Environment(r) ==
    \/ Cancel(r) \/ Expire(r)
    \/ ChildEnds(r) \/ ChildDies(r) \/ HelperStarts(r) \/ HelperEnds(r)

Ended == (\A r \in Runs : pc[r] = "done") /\ UNCHANGED vars

Next == (\E r \in Runs : Own(r) \/ Environment(r)) \/ Ended

Spec == Init /\ [][Next]_vars

(* The scheduler runs every call on; a timer runs out and a killed child   *)
(* disappears.  Nothing says that a child ends by itself.                  *)
Fairness == \A r \in Runs :
    WF_vars(Own(r)) /\ WF_vars(Expire(r)) /\ WF_vars(ChildDies(r))

FairSpec == Spec /\ Fairness

-----------------------------------------------------------------------------
(* The type of every variable.                                             *)
RunsTyped ==
    /\ state \in [Runs -> States]
    /\ pc \in [Runs -> Steps]
    /\ policy \in [Runs -> Policies]
    /\ collected \in [Runs -> BOOLEAN] /\ retained \in [Runs -> BOOLEAN]
TokensTyped ==
    cancelled \in [Runs -> BOOLEAN] /\ expired \in [Runs -> BOOLEAN]
FolderTyped ==
    /\ attempt \in [Runs -> 0..MaxAttempts]
    /\ candidate \in [Runs -> Ids \cup {NoId}] /\ dir \in [Runs -> Ids \cup {NoId}]
    /\ exists \subseteq Ids
    /\ marker \in [Ids -> Runs \cup {NoRun, Stray}]
ProcessTyped ==
    /\ stage \in [Runs -> Stages]
    /\ child \in [Runs -> Alive \cup {"none", "zero", "nonzero"}]
    /\ helper \in [Runs -> BOOLEAN]
    /\ reason \in [Runs -> {"Exited", "Cancelled"}]
    /\ report \in [Runs -> [Stages -> {"none", "zero", "nonzero", "cancelled"}]]
TypeOK ==
    RunsTyped /\ TokensTyped /\ FolderTyped /\ ProcessTyped /\ faults \in 0..MaxFaults

(* The terminal state says what happened (EnergyPlusRunner.RunAsync): both *)
(* processes ended well and their results were read, or the caller did     *)
(* cancel, or the timer of this run did run out.                           *)
VerdictEarned == \A r \in Runs :
    /\ state[r] = "Succeeded" =>
         collected[r] /\ \A s \in Stages : report[r][s] = "zero"
    /\ state[r] = "Cancelled" => cancelled[r]
    /\ state[r] = "TimedOut" => expired[r] /\ r \in Timed

(* The killing of the child threw: the executor left without a result.     *)
KillThrew(r) ==
    state[r] = "Failed" /\ reason[r] = "Cancelled" /\ report[r][stage[r]] = "none"

(* No process of a run, nor a descendant that writes to its pipes, is      *)
(* alive once the run has a terminal state: RunAsync neither returns nor   *)
(* cleans up over a running simulation, but for one way, a failure in      *)
(* which the killing of the tree itself threw (TryKillProcessTree).  A run *)
(* told to be Succeeded, Cancelled or TimedOut has left nothing.           *)
NothingLeftRunning == \A r \in Runs :
    state[r] \in Terminal => ~Occupied(r) \/ KillThrew(r)

(* From the moment SafeRunDirectory.Create returns until the run deletes   *)
(* it, the directory of a run is there and carries that run's marker, also *)
(* when others draw the same identifier or delete theirs meanwhile.        *)
HoldsItsDirectory == \A r \in Runs :
    dir[r] # NoId /\ pc[r] \notin {"remove", "done"} =>
        dir[r] \in exists /\ marker[dir[r]] = r

(* Every variable keeps its type - no more attempts than MaxAttempts are   *)
(* made to find a directory - and a run keeps the directory it marked      *)
(* (SafeRunDirectory.Create).                                              *)
DirectoriesSound == TypeOK /\ HoldsItsDirectory

(* A marked directory is the workplace of a run in progress, or the caller *)
(* of its run was told that it was retained: cleanup loses none.           *)
MarkersAccountedFor == \A i \in Ids : \A r \in Runs :
    marker[i] = r =>
        /\ dir[r] = i
        /\ pc[r] = "done" => retained[r]

(* What can hold a run up for ever: the wait for the exit of a child that  *)
(* could not be killed, or for the output that a descendant keeps open.    *)
HeldUp(r) ==
    (pc[r] = "await" /\ child[r] = "spared") \/ (pc[r] = "drain" /\ helper[r])

(* A run that was cancelled or whose time is up ends, whatever its child   *)
(* processes do, unless one of them holds it up again and again (the wait  *)
(* of ProcessExecutor.RunAsync for the exit and the output).               *)
StopsWhenTold == \A r \in Runs :
    <>[]~HeldUp(r) => ((pc[r] # "call" /\ Told(r)) ~> pc[r] = "done")

(* A run with a timeout ends, on the same condition (CancelAfter).         *)
TimedRunEnds == \A r \in Timed :
    <>[]~HeldUp(r) => (pc[r] # "call" ~> pc[r] = "done")

(* A run ends when its caller cancels and when its time is up, unless a    *)
(* process that cannot be killed holds it up (ProcessExecutor.RunAsync).   *)
RunsEnd == StopsWhenTold /\ TimedRunEnds

=============================================================================
