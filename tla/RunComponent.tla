----------------------------- MODULE RunComponent ----------------------------
(***************************************************************************)
(* The Grasshopper component Run SimpleDragon.  The document solves it on  *)
(* the UI thread, over and over: whenever an input changes, a Button is    *)
(* pressed or released, or something upstream is recomputed.  A rising     *)
(* edge of Run starts a background task, at most one at a time, that       *)
(* simulates the model or saves the result it has already.  The task tells *)
(* its progress by changing a state text and asking for another solution;  *)
(* a gate keeps at most one such request under way.  The component may be  *)
(* removed from the document and restored while its task runs.             *)
(*                                                                         *)
(* A model with everything else a result depends on is a key, as in the    *)
(* code's run key.  What is done under _sync is one step; between the      *)
(* steps of a solution the task goes on.                                   *)
(***************************************************************************)
EXTENDS Integers

CONSTANTS
    Keys,           \* run keys: model, timeout, weather and runtime identity
    NoKey,          \* no model connected, no result
    Paths,          \* what GRR Path may hold: "blank", "file", "bad"
    MaxPresses,     \* bound on presses of the Run button
    MaxEdits,       \* bound on changes of the inputs
    MaxRemovals,    \* bound on removals of the component
    MaxFaults       \* bound on file operations that fail

ASSUME ComponentAssumption ==
    /\ NoKey \notin Keys
    /\ Paths \subseteq {"blank", "file", "bad"}
    /\ MaxPresses \in Nat /\ MaxEdits \in Nat
    /\ MaxRemovals \in Nat /\ MaxFaults \in Nat

(* Stages of a task, as they are shown to the user.                        *)
Preparations == {"Validating Model", "Preparing Weather", "Resolving Runtime",
                 "Preparing Runtime"}
Executions == {"Preparing Simulation", "Running Simulation",
               "Processing Results"}
Verdicts == {"Succeeded", "Failed", "Cancelled", "Timed Out"}
Stages == Preparations \cup Executions \cup Verdicts \cup {"Saving GRR"}
EndStates == Verdicts \cup {"Cached", "GRR Save Failed"}

(* RunOutcome: basis is the key its GRR was computed for, saved tells that *)
(* a path was given.                                                       *)
Outcome(s, success, basis, saved) ==
    [state |-> s, success |-> success, basis |-> basis, saved |-> saved]
Outcomes == [state : EndStates \cup {"none"}, success : BOOLEAN,
             basis : Keys \cup {NoKey}, saved : BOOLEAN]
Without(s) == Outcome(s, FALSE, NoKey, FALSE)
NoOutcome == Without("none")

VARIABLES
    key, path, force,   \* the inputs
    run, cancel,        \* the two Buttons
    observed, lastRun, lastCancel,  \* ExplicitRunTriggerGate
    present,            \* the component is in the document
    ui,                 \* where the solution under way stands
    pulse,              \* a run is to be started by this solution
    active,             \* _activeTask is not null
    token,              \* _activeCancellation was cancelled
    job,                \* what the task does
    stage,              \* how far it is
    worker,             \* where the task stands within the stage
    ending,             \* its outcome
    outcome,            \* _lastOutcome
    lastKey,            \* _lastRunKey
    state,              \* _state
    requested,          \* SolutionScheduleGate._requested
    posted,             \* an action was given to the UI thread
    scheduled,          \* a solution was scheduled with the document
    announcing,         \* completed tasks that have yet to ask for a solution
    shown,              \* what the last solution put out
    file,               \* the GRR file, by the key of its content
    schema,             \* the executor's Lazy<IddSchema>
    presses, starts,    \* how often Run was pressed, and a task started
    edits, removals, faults

inputs == <<key, path, force>>
buttons == <<run, cancel, presses>>
gate == <<observed, lastRun, lastCancel>>
task == <<active, token, job, stage, worker, ending>>
result == <<outcome, lastKey>>
schedule == <<requested, posted, scheduled, announcing>>
disk == <<file, schema, faults>>
vars == <<inputs, buttons, gate, present, ui, pulse, task, starts, result,
          state, schedule, shown, disk, edits, removals>>

NoJob == [kind |-> "none", key |-> NoKey, path |-> "blank", basis |-> NoKey]
Nothing == [ended |-> FALSE, state |-> "", result |-> NoKey]

Init ==
    /\ key \in Keys \cup {NoKey} /\ path \in Paths /\ force = FALSE
    /\ run \in BOOLEAN /\ cancel = FALSE
    /\ observed = FALSE /\ lastRun = FALSE /\ lastCancel = FALSE
    /\ present = TRUE /\ ui = "observe" /\ pulse = FALSE
    /\ active = FALSE /\ token = FALSE /\ job = NoJob
    /\ stage = "Validating Model" /\ worker = "idle" /\ ending = NoOutcome
    /\ outcome = NoOutcome /\ lastKey = NoKey /\ state = "Idle"
    /\ requested = FALSE /\ posted = FALSE /\ scheduled = FALSE
    /\ announcing = 0 /\ shown = Nothing
    /\ file = "absent" /\ schema = "none"
    /\ presses = 0 /\ starts = 0
    /\ edits = 0 /\ removals = 0 /\ faults = 0

Fault == faults < MaxFaults /\ faults' = faults + 1
NoFault == UNCHANGED faults

-----------------------------------------------------------------------------
(* The user, at a moment when the UI thread is idle.  Everything the user  *)
(* does to the component makes the document solve it.                      *)

Solvable == present /\ ui = "idle"
ByUser == UNCHANGED <<gate, pulse, task, starts, result, state, schedule,
                      shown, disk>>

Press ==
    /\ Solvable /\ ~run /\ presses < MaxPresses
    /\ run' = TRUE /\ presses' = presses + 1 /\ ui' = "observe"
    /\ UNCHANGED <<inputs, cancel, present, edits, removals>> /\ ByUser

Release ==
    /\ Solvable /\ run
    /\ run' = FALSE /\ ui' = "observe"
    /\ UNCHANGED <<inputs, cancel, presses, present, edits, removals>> /\ ByUser

ToggleCancel ==
    /\ Solvable
    /\ cancel' = ~cancel /\ ui' = "observe"
    /\ UNCHANGED <<inputs, run, presses, present, edits, removals>> /\ ByUser

Edit ==
    /\ Solvable /\ edits < MaxEdits /\ edits' = edits + 1
    /\ \/ key' \in (Keys \cup {NoKey}) \ {key} /\ UNCHANGED <<path, force>>
       \/ path' \in Paths \ {path} /\ UNCHANGED <<key, force>>
       \/ force' = ~force /\ UNCHANGED <<key, path>>
    /\ ui' = "observe"
    /\ UNCHANGED <<buttons, present, removals>> /\ ByUser

Recompute ==
    /\ Solvable /\ ui' = "observe"
    /\ UNCHANGED <<inputs, buttons, present, edits, removals>> /\ ByUser

(* RemovedFromDocument cancels the task.                                   *)
Remove ==
    /\ Solvable /\ removals < MaxRemovals /\ removals' = removals + 1
    /\ present' = FALSE
    /\ token' = (token \/ active)
    /\ UNCHANGED <<inputs, buttons, gate, ui, pulse, active, job, stage,
                   worker, ending, starts, result, state, schedule, shown,
                   disk, edits>>

(* AddedToDocument forgets what the Buttons were.                          *)
Restore ==
    /\ ~present
    /\ present' = TRUE /\ ui' = "observe"
    /\ observed' = FALSE /\ lastRun' = FALSE /\ lastCancel' = FALSE
    /\ UNCHANGED <<inputs, buttons, pulse, task, starts, result, state,
                   schedule, shown, disk, edits, removals>>

-----------------------------------------------------------------------------
(* A solution: Solve.                                                      *)

BySolution == UNCHANGED <<inputs, buttons, present, schedule, disk, edits,
                          removals>>

(* Mutant: Run is a level, not an edge.                                    *)
ObserveLevel ==
    LET canceling == observed /\ cancel /\ ~lastCancel IN
    /\ ui = "observe"
    /\ observed' = TRUE /\ lastRun' = FALSE /\ lastCancel' = cancel
    /\ IF canceling /\ active
       THEN state' = "Cancelling" /\ token' = TRUE
       ELSE UNCHANGED <<state, token>>
    /\ IF key = NoKey
       THEN ui' = "idle" /\ shown' = Nothing /\ UNCHANGED pulse
       ELSE /\ pulse' = (observed /\ run /\ ~lastRun /\ ~canceling)
            /\ ui' = "start" /\ UNCHANGED shown
    /\ UNCHANGED <<active, job, stage, worker, ending, starts, outcome, lastKey>>
    /\ BySolution

(* ExplicitRunTriggerGate.Observe, then CancelActiveRun.  The first        *)
(* solution only learns where the Buttons are, and without a model the     *)
(* solution ends here, whatever was pressed.                               *)
Observe ==
    LET canceling == observed /\ cancel /\ ~lastCancel IN
    /\ ui = "observe"
    /\ observed' = TRUE /\ lastRun' = run /\ lastCancel' = cancel
    /\ IF canceling /\ active
       THEN state' = "Cancelling" /\ token' = TRUE
       ELSE UNCHANGED <<state, token>>
    /\ IF key = NoKey
       THEN ui' = "idle" /\ shown' = Nothing /\ UNCHANGED pulse
       ELSE /\ pulse' = (observed /\ run /\ ~lastRun /\ ~canceling)
            /\ ui' = "start" /\ UNCHANGED shown
    /\ UNCHANGED <<active, job, stage, worker, ending, starts, outcome, lastKey>>
    /\ BySolution

(* Which finished outcome a run with these inputs need not repeat.         *)
CanReuseLastOutcome == ~force /\ outcome.success /\ lastKey = key

Launch(kind, first) ==
    /\ active' = TRUE /\ token' = FALSE /\ starts' = starts + 1
    /\ job' = [kind |-> kind, key |-> key, path |-> path,
               basis |-> IF kind = "save" THEN outcome.basis ELSE key]
    /\ worker' = "queued" /\ state' = first
    /\ UNCHANGED <<stage, ending, outcome, shown>>

Idle == UNCHANGED <<task, starts, state, outcome>>

(* StartRun: nothing without a pulse, nor while a task is active; a result *)
(* that is there already is shown or saved, another is computed.  A path   *)
(* that is no path ends the solution.                                      *)
StartRun ==
    /\ ui = "start"
    /\ \/ ~pulse /\ ui' = "show" /\ Idle /\ UNCHANGED shown
       \/ pulse /\ path = "bad" /\ ui' = "idle" /\ shown' = Nothing /\ Idle
       \/ /\ pulse /\ path # "bad" /\ ui' = "show"
          /\ \/ active /\ Idle /\ UNCHANGED shown
             \/ ~active /\ ~CanReuseLastOutcome
                   /\ Launch("simulate", "Validating Model")
             \/ ~active /\ CanReuseLastOutcome /\ path = "file"
                   /\ Launch("save", "Saving GRR")
             \/ /\ ~active /\ CanReuseLastOutcome /\ path = "blank"
                /\ outcome' = Outcome("Cached", TRUE, outcome.basis, FALSE)
                /\ state' = "Cached"
                /\ UNCHANGED <<task, starts, shown>>
    /\ UNCHANGED <<gate, pulse, lastKey>> /\ BySolution

(* ClassifyOutcome and VisibleState: the result of other inputs is hidden, *)
(* and any result while a task is active.                                  *)
View ==
    LET foreign == outcome # NoOutcome /\ ~active /\ lastKey # key
        current == outcome # NoOutcome /\ ~active /\ lastKey = key
    IN  [ended |-> TRUE,
         state |-> IF foreign THEN "Inputs Changed" ELSE state,
         result |-> IF current /\ outcome.success THEN outcome.basis ELSE NoKey]

Show ==
    /\ ui = "show" /\ ui' = "idle"
    /\ shown' = View
    /\ UNCHANGED <<gate, pulse, task, starts, outcome, lastKey, state>>
    /\ BySolution

-----------------------------------------------------------------------------
(* ScheduleSolution: a request goes to the UI thread, from there to the    *)
(* document, and comes back as a solution.                                 *)

ByScheduler == UNCHANGED <<inputs, buttons, gate, pulse, task, starts, result,
                           state, shown, disk, edits, removals, present>>

Request ==
    IF requested THEN UNCHANGED <<requested, posted>>
                 ELSE requested' = TRUE /\ posted' = TRUE

HandOff ==
    /\ posted /\ ui = "idle" /\ posted' = FALSE
    /\ \/ present /\ scheduled' = TRUE /\ UNCHANGED requested
       \/ ~present /\ requested' = FALSE /\ UNCHANGED scheduled
    /\ UNCHANGED <<ui, announcing>> /\ ByScheduler

(* The gate is released first: a state that changes from here on asks for  *)
(* another solution.                                                       *)
Callback ==
    /\ scheduled /\ ui = "idle"
    /\ scheduled' = FALSE /\ requested' = FALSE
    /\ ui' = IF present THEN "observe" ELSE "idle"
    /\ UNCHANGED <<posted, announcing>> /\ ByScheduler

-----------------------------------------------------------------------------
(* The task.                                                               *)

ByWorker == UNCHANGED <<inputs, buttons, gate, present, ui, pulse, starts,
                        shown, edits, removals>>
Calm == UNCHANGED <<active, token, job>>
Quiet == UNCHANGED <<result, state, schedule>>

At(s) == worker = "work" /\ stage = s
Enter(s) == stage' = s /\ worker' = "update" /\ UNCHANGED ending
End(o) == worker' = "ended" /\ ending' = o /\ UNCHANGED stage
Cancelled == End(Without("Cancelled"))

(* Mutant: nobody completes a task that was cancelled before it began.     *)
BeginOrVanish ==
    /\ worker = "queued"
    /\ \/ token /\ worker' = "idle" /\ UNCHANGED <<stage, ending>>
       \/ ~token /\ job.kind = "simulate" /\ Enter("Validating Model")
       \/ ~token /\ job.kind = "save"
             /\ stage' = "Saving GRR" /\ worker' = "work" /\ UNCHANGED ending
    /\ Calm /\ Quiet /\ UNCHANGED disk /\ ByWorker

(* A task whose token is cancelled before it begins never runs.            *)
Begin ==
    /\ worker = "queued"
    /\ \/ token /\ Cancelled
       \/ ~token /\ job.kind = "simulate" /\ Enter("Validating Model")
       \/ ~token /\ job.kind = "save"
             /\ stage' = "Saving GRR" /\ worker' = "work" /\ UNCHANGED ending
    /\ Calm /\ Quiet /\ UNCHANGED disk /\ ByWorker

(* UpdateState: no solution for a state that is there already.             *)
Update ==
    /\ worker = "update"
    /\ worker' = IF state = stage THEN "work" ELSE "request"
    /\ state' = stage
    /\ UNCHANGED <<stage, ending, result, schedule, disk>> /\ Calm /\ ByWorker

Ask ==
    /\ worker = "request" /\ worker' = "work"
    /\ Request
    /\ UNCHANGED <<stage, ending, result, state, scheduled, announcing, disk>>
    /\ Calm /\ ByWorker

(* ExecuteAsync up to the simulation: the token is looked at after each    *)
(* stage, before its failure is.                                           *)
Following(s) ==
    CASE s = "Validating Model" -> {"Preparing Weather"}
      [] s = "Preparing Weather" -> {"Resolving Runtime"}
      [] s = "Resolving Runtime" -> {"Preparing Runtime", "Preparing Simulation"}
      [] s = "Preparing Runtime" -> {"Preparing Simulation"}

Prepare ==
    /\ \E s \in Preparations :
          /\ At(s)
          /\ \/ token /\ Cancelled
             \/ ~token /\ End(Without("Failed"))
             \/ ~token /\ \E next \in Following(s) : Enter(next)
    /\ Calm /\ Quiet /\ UNCHANGED disk /\ ByWorker

(* SimpleDragonSimulationExecutor.ExecuteAsync converts the model again,   *)
(* loads the IDD and writes the IDF; the first and the last may fail, too. *)
(* The IDD is loaded by a Lazy that keeps what its first evaluation gave,  *)
(* an exception too.                                                       *)
Compile ==
    /\ At("Preparing Simulation")
    /\ \/ token /\ Enter("Cancelled") /\ NoFault /\ UNCHANGED schema
       \/ ~token /\ schema # "broken" /\ schema' = "loaded"
             /\ (Enter("Running Simulation") \/ Enter("Failed")) /\ NoFault
       \/ ~token /\ schema = "none" /\ schema' = "broken"
             /\ Enter("Failed") /\ Fault
       \/ ~token /\ Enter("Failed") /\ NoFault /\ UNCHANGED schema
    /\ UNCHANGED file /\ Calm /\ Quiet /\ ByWorker

(* EnergyPlusRunner.RunAsync, whose verdict the token need not decide.     *)
Simulate ==
    /\ At("Running Simulation")
    /\ \/ token /\ Enter("Cancelled")
       \/ \E s \in {"Failed", "Timed Out", "Processing Results"} : Enter(s)
    /\ Calm /\ Quiet /\ UNCHANGED disk /\ ByWorker

Process ==
    /\ At("Processing Results")
    /\ \/ token /\ Enter("Cancelled")
       \/ ~token /\ \E s \in {"Succeeded", "Failed"} : Enter(s)
    /\ Calm /\ Quiet /\ UNCHANGED disk /\ ByWorker

(* The executor's last transition has been shown; PersistResult follows a  *)
(* success.                                                                *)
Conclude ==
    /\ \E s \in Verdicts :
          /\ At(s)
          /\ \/ s # "Succeeded" /\ End(Without(s))
             \/ s = "Succeeded" /\ job.path = "file" /\ Enter("Saving GRR")
             \/ s = "Succeeded" /\ job.path = "blank"
                   /\ End(Outcome(s, TRUE, job.basis, FALSE))
    /\ Calm /\ Quiet /\ UNCHANGED disk /\ ByWorker

SavedState == IF job.kind = "save" THEN "Cached" ELSE "Succeeded"
Broken == "broken"

(* Mutant: a failure to write is not noticed.                              *)
SaveBlindly ==
    /\ At("Saving GRR")
    /\ \/ token /\ Cancelled /\ UNCHANGED file /\ NoFault
       \/ /\ ~token /\ End(Outcome(SavedState, TRUE, job.basis, TRUE))
          /\ \/ file' = job.basis /\ NoFault
             \/ file' \in {file, Broken} /\ Fault
    /\ UNCHANGED schema /\ Calm /\ Quiet /\ ByWorker

(* PersistResult.  The file is written in place: a failure leaves the old  *)
(* content or part of the new one.  A cancelled save throws the result     *)
(* away with the outcome.                                                  *)
Save ==
    /\ At("Saving GRR")
    /\ \/ token /\ Cancelled /\ UNCHANGED file /\ NoFault
       \/ ~token /\ End(Outcome(SavedState, TRUE, job.basis, TRUE))
             /\ file' = job.basis /\ NoFault
       \/ ~token /\ End(Outcome("GRR Save Failed", TRUE, job.basis, TRUE))
             /\ file' \in {file, Broken} /\ Fault
    /\ UNCHANGED schema /\ Calm /\ Quiet /\ ByWorker

Finished ==
    /\ worker = "ended" /\ worker' = "idle"
    /\ active' = FALSE /\ outcome' = ending /\ state' = ending.state
    /\ UNCHANGED <<token, job, stage, ending, requested, posted, scheduled, disk>>
    /\ ByWorker

(* Mutant: the outcome is filed under the inputs there are now.            *)
CompleteForCurrentInputs ==
    /\ Finished
    /\ lastKey' = key
    /\ announcing' = IF present THEN announcing + 1 ELSE announcing

(* Mutant: the end of a task asks for no solution.                         *)
CompleteSilently ==
    /\ Finished
    /\ lastKey' = job.key /\ UNCHANGED announcing

(* CompleteRun.  Only a component in a document asks for a solution.       *)
Complete ==
    /\ Finished
    /\ lastKey' = job.key
    /\ announcing' = IF present THEN announcing + 1 ELSE announcing

(* Its request is made outside the lock: another task may run by then.     *)
Announce ==
    /\ announcing > 0 /\ announcing' = announcing - 1
    /\ Request
    /\ UNCHANGED <<task, result, state, scheduled, disk>> /\ ByWorker

-----------------------------------------------------------------------------
User == Press \/ Release \/ ToggleCancel \/ Edit \/ Recompute \/ Remove \/ Restore
Solution == Observe \/ StartRun \/ Show
Scheduler == HandOff \/ Callback
Worker == Begin \/ Update \/ Ask \/ Prepare \/ Compile \/ Simulate \/ Process
            \/ Conclude \/ Save \/ Complete

Next == User \/ Solution \/ Scheduler \/ Worker \/ Announce

Spec == Init /\ [][Next]_vars

(* The UI thread solves and serves its queue, the thread pool runs tasks,  *)
(* and a stage ends; a simulation, though, need not end unless it is told. *)
Fairness ==
    /\ WF_vars(Solution)
    /\ SF_vars(HandOff) /\ SF_vars(Callback)
    /\ WF_vars(Announce)
    /\ WF_vars(Worker /\ (token \/ ~At("Running Simulation")))

FairSpec == Spec /\ Fairness

-----------------------------------------------------------------------------
InputsTyped ==
    /\ key \in Keys \cup {NoKey} /\ path \in Paths /\ force \in BOOLEAN
    /\ run \in BOOLEAN /\ cancel \in BOOLEAN
    /\ observed \in BOOLEAN /\ lastRun \in BOOLEAN /\ lastCancel \in BOOLEAN
    /\ present \in BOOLEAN /\ pulse \in BOOLEAN
    /\ ui \in {"idle", "observe", "start", "show"}

TaskTyped ==
    /\ active \in BOOLEAN /\ token \in BOOLEAN
    /\ job \in {NoJob} \cup [kind : {"simulate", "save"}, key : Keys,
                             path : {"blank", "file"}, basis : Keys]
    /\ stage \in Stages
    /\ worker \in {"idle", "queued", "update", "request", "work", "ended"}
    /\ ending \in Outcomes

ResultTyped ==
    /\ outcome \in Outcomes
    /\ lastKey \in Keys \cup {NoKey}
    /\ state \in Stages \cup EndStates \cup {"Idle", "Cancelling"}
    /\ shown \in [ended : BOOLEAN, result : Keys \cup {NoKey},
                  state : Stages \cup EndStates
                              \cup {"", "Idle", "Cancelling", "Inputs Changed"}]

ScheduleTyped ==
    /\ requested \in BOOLEAN /\ posted \in BOOLEAN /\ scheduled \in BOOLEAN
    /\ announcing \in 0..MaxPresses

DiskTyped ==
    /\ file \in Keys \cup {"absent", Broken}
    /\ schema \in {"none", "loaded", "broken"}

CountersTyped ==
    /\ presses \in 0..MaxPresses /\ starts \in Nat
    /\ edits \in 0..MaxEdits /\ removals \in 0..MaxRemovals
    /\ faults \in 0..MaxFaults

(* The type of every variable.                                             *)
TypeOK ==
    /\ InputsTyped /\ TaskTyped /\ ResultTyped
    /\ ScheduleTyped /\ DiskTyped /\ CountersTyped

(* The GRR on the output was computed for the inputs that are connected,   *)
(* although the inputs may change while the task runs, and none is there   *)
(* while another is being computed (CompleteRun, ClassifyOutcome and the   *)
(* order of StartRun and the reading in Solve).                            *)
ShownForTheseInputs ==
    ui = "idle" => \/ shown.result = NoKey
                   \/ shown.result = key /\ ~(present /\ active)

(* No change of state is lost on the way to the user: when nobody is about *)
(* to ask for a solution and none is under way, what is shown is what a    *)
(* new solution would show (UpdateState, CompleteRun, ScheduleSolution).   *)
DisplayUpToDate ==
    present /\ ui = "idle" /\ ~requested /\ announcing = 0
        /\ worker # "request" /\ shown.ended
    => shown = View

(* Every variable keeps its type, and what is shown is up to date whenever *)
(* no solution is on its way (UpdateState, ScheduleSolution).              *)
DisplaySound == TypeOK /\ DisplayUpToDate

(* However often the document is solved while Run is held down, however    *)
(* often the component is restored or the definition opened with Run at    *)
(* True, each press starts at most one task (ExplicitRunTriggerGate).      *)
OnePressOneRun == starts <= presses

(* When the state says that a run with a path is finished, the file holds  *)
(* exactly its result (PersistResult).                                     *)
SavedWhenSaid ==
    ~active /\ outcome.saved /\ outcome.state \in {"Succeeded", "Cached"}
        => file = outcome.basis

(* A cancelled task ends (CancelActiveRun, RemovedFromDocument).           *)
CancelTakesEffect == (active /\ token) ~> ~active

(* A request for a solution always gives the gate back, so that the next   *)
(* change can ask again, also when the component is removed meanwhile      *)
(* (ScheduleSolution).                                                     *)
GateReleased == requested ~> ~requested

(* The component comes to rest: a cancelled task ends, and a request for a *)
(* solution gives the gate back (CancelActiveRun, ScheduleSolution).       *)
Settles == CancelTakesEffect /\ GateReleased

=============================================================================
