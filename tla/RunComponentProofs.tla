-------------------------- MODULE RunComponentProofs -------------------------
(***************************************************************************)
(* Theorems about the component Run SimpleDragon, for any keys and paths   *)
(* and any number of presses, edits, removals and failing writes.          *)
(***************************************************************************)
EXTENDS RunComponent, TLAPS

(* A task is active exactly while it stands somewhere, it has a job, and   *)
(* it ends in an end state.                                                *)
TaskSound ==
    /\ active = (worker # "idle")
    /\ active => job.kind # "none"
    /\ worker = "ended" => ending.state \in EndStates

(* A successful outcome was computed for the key it is filed under: the    *)
(* job of a save takes its basis from an outcome whose key is the one that *)
(* is connected.                                                           *)
KeysAgree ==
    /\ ui \in {"start", "show"} => key \in Keys
    /\ job.basis = job.key
    /\ outcome.success => outcome.basis = lastKey /\ lastKey \in Keys
    /\ worker = "ended" /\ ending.success => ending.basis = job.key

(* A press is used up by one start: it is still ahead (the Button is down  *)
(* and not yet seen), it is a pulse, or it has started a task.  A task     *)
(* asks for a solution once, after it was started.                         *)
CountsAgree ==
    /\ starts + (IF ui = "start" /\ pulse THEN 1 ELSE 0)
              + (IF observed /\ run /\ ~lastRun THEN 1 ELSE 0) <= presses
    /\ announcing + (IF active THEN 1 ELSE 0) <= starts

(* What a task is about to report of the file is true when it says so.     *)
FileSound ==
    /\ SavedWhenSaid
    /\ worker = "ended" /\ ending.saved /\ ending.state \in {"Succeeded", "Cached"}
          => file = ending.basis

(* No task is started while the UI thread is idle.                         *)
ShownSound ==
    ui = "idle" => shown.result = NoKey \/ (shown.result = key /\ ~active)

IInv ==
    TypeOK /\ TaskSound /\ KeysAgree /\ CountsAgree /\ FileSound /\ ShownSound
        /\ DisplayUpToDate

(* Outcomes are outcomes.                                                  *)
LEMMA OutcomeTypes ==
    /\ \A s \in EndStates, a \in BOOLEAN, k \in Keys \cup {NoKey}, b \in BOOLEAN :
           /\ Outcome(s, a, k, b) \in Outcomes
           /\ Outcome(s, a, k, b).state = s /\ Outcome(s, a, k, b).success = a
           /\ Outcome(s, a, k, b).basis = k /\ Outcome(s, a, k, b).saved = b
    /\ \A s \in EndStates :
           /\ Without(s) \in Outcomes /\ Without(s).state = s
           /\ Without(s).success = FALSE /\ Without(s).saved = FALSE
    /\ {"Succeeded", "Failed", "Cancelled", "Timed Out", "Cached",
        "GRR Save Failed"} = EndStates
  BY DEF Outcome, Without, Outcomes, EndStates, Verdicts

(* What a solution puts out is what can be shown.                          *)
LEMMA ShownTypes ==
    /\ Nothing.ended = FALSE /\ Nothing.result = NoKey
    /\ Nothing \in [ended : BOOLEAN, result : Keys \cup {NoKey},
                    state : Stages \cup EndStates
                              \cup {"", "Idle", "Cancelling", "Inputs Changed"}]
    /\ View.result = IF outcome # NoOutcome /\ ~active /\ lastKey = key
                         /\ outcome.success
                     THEN outcome.basis ELSE NoKey
    /\ ResultTyped => View \in [ended : BOOLEAN, result : Keys \cup {NoKey},
                    state : Stages \cup EndStates
                              \cup {"", "Idle", "Cancelling", "Inputs Changed"}]
  BY DEF Nothing, View, ResultTyped, Outcomes

(* A task that stands somewhere has a job.                                 *)
LEMMA JobTypes ==
    ASSUME TaskTyped, TaskSound, worker # "idle"
    PROVE  active = TRUE /\ job.key \in Keys /\ job.basis \in Keys
  <1>1. active = TRUE /\ job.kind # "none"
    BY DEF TaskSound, TaskTyped
  <1>2. job # NoJob
    BY <1>1 DEF NoJob
  <1> QED
    BY <1>1, <1>2 DEF TaskTyped

(* What a step of the task that does not complete it may do: go on, end    *)
(* without a result, or end with the result of its job, and a claim that   *)
(* this is saved is true.                                                  *)
TaskMoves == Begin \/ Update \/ Ask \/ Prepare \/ Compile \/ Simulate
                \/ Process \/ Conclude \/ Save

GoesOn ==
    /\ worker' \in {"update", "request", "work"} /\ stage' \in Stages
    /\ UNCHANGED <<ending, file>>

EndsWithout ==
    /\ worker' = "ended" /\ UNCHANGED <<stage, file>>
    /\ \E s \in EndStates : ending' = Without(s)

EndsWith ==
    /\ worker' = "ended" /\ UNCHANGED stage
    /\ file' \in {file, job.basis, Broken}
    /\ \E s \in EndStates, saved \in BOOLEAN :
          /\ ending' = Outcome(s, TRUE, job.basis, saved)
          /\ saved /\ s \in {"Succeeded", "Cached"} => file' = job.basis

LEMMA TaskEffects ==
    ASSUME TaskTyped, TaskMoves
    PROVE  /\ worker \notin {"idle", "ended"}
           /\ UNCHANGED <<active, token, job, outcome, lastKey, announcing>>
           /\ ByWorker
           /\ GoesOn \/ EndsWithout \/ EndsWith
  <1>1. UNCHANGED <<active, token, job, outcome, lastKey, announcing>> /\ ByWorker
    <2>1. ByWorker /\ Calm
      BY DEF TaskMoves, Begin, Update, Ask, Prepare, Compile, Simulate, Process,
         Conclude, Save
    <2>2. UNCHANGED <<outcome, lastKey, announcing>>
      BY DEF TaskMoves, Begin, Update, Ask, Prepare, Compile, Simulate, Process,
         Conclude, Save, Quiet, result, schedule
    <2> QED
      BY <2>1, <2>2 DEF Calm
  <1>2. worker \notin {"idle", "ended"}
    BY DEF TaskMoves, Begin, Update, Ask, Prepare, Compile, Simulate, Process,
       Conclude, Save, At
  <1> SUFFICES GoesOn \/ EndsWithout \/ EndsWith
    BY <1>1, <1>2
  <1>3. ASSUME NEW s \in Stages, Enter(s), UNCHANGED file
        PROVE  GoesOn
    BY <1>3 DEF Enter, GoesOn
  <1>4. ASSUME NEW s \in EndStates, End(Without(s)), UNCHANGED file
        PROVE  EndsWithout
    BY <1>4 DEF End, EndsWithout
  <1>5. /\ "Cancelled" \in EndStates /\ "Failed" \in EndStates
        /\ Verdicts \subseteq EndStates
        /\ "Validating Model" \in Stages /\ "Saving GRR" \in Stages
    BY DEF EndStates, Verdicts, Stages, Preparations
  <1>6. CASE Begin
    <2>1. UNCHANGED file
      BY <1>6 DEF Begin, disk
    <2>2. Enter("Validating Model") \/ Cancelled
             \/ (stage' = "Saving GRR" /\ worker' = "work" /\ UNCHANGED ending)
      BY <1>6 DEF Begin
    <2> QED
      BY <2>1, <2>2, <1>3, <1>4, <1>5 DEF Cancelled, GoesOn
  <1>7. CASE Update \/ Ask
    BY <1>7 DEF Update, Ask, TaskTyped, GoesOn, disk
  <1>8. CASE Prepare
    <2>1. UNCHANGED file
      BY <1>8 DEF Prepare, disk
    <2>2. Cancelled \/ End(Without("Failed"))
             \/ (\E s \in Preparations : \E next \in Following(s) : Enter(next))
      BY <1>8 DEF Prepare
    <2>3. \A s \in Preparations : Following(s) \subseteq Stages
      BY DEF Following, Stages, Preparations, Executions
    <2> QED
      BY <2>1, <2>2, <2>3, <1>3, <1>4, <1>5 DEF Cancelled
  <1>9. CASE Compile \/ Simulate \/ Process
    <2>1. UNCHANGED file
      BY <1>9 DEF Compile, Simulate, Process, disk
    <2>2. \E s \in {"Cancelled", "Running Simulation", "Failed", "Timed Out",
                    "Processing Results", "Succeeded"} : Enter(s)
      BY <1>9 DEF Compile, Simulate, Process
    <2>3. {"Cancelled", "Running Simulation", "Failed", "Timed Out",
           "Processing Results", "Succeeded"} \subseteq Stages
      BY DEF Stages, Executions, Verdicts
    <2> QED
      BY <2>1, <2>2, <2>3, <1>3
  <1>10. CASE Conclude
    <2>1. UNCHANGED file
      BY <1>10 DEF Conclude, disk
    <2>2. PICK s \in Verdicts :
              \/ End(Without(s)) \/ Enter("Saving GRR")
              \/ End(Outcome(s, TRUE, job.basis, FALSE))
      BY <1>10 DEF Conclude
    <2>3. CASE End(Outcome(s, TRUE, job.basis, FALSE))
      BY <2>1, <2>3, <1>5 DEF End, EndsWith
    <2> QED
      BY <2>1, <2>2, <2>3, <1>3, <1>4, <1>5
  <1>11. CASE Save
    <2>1. CASE Cancelled /\ UNCHANGED file
      BY <2>1, <1>4, <1>5 DEF Cancelled
    <2>2. CASE End(Outcome(SavedState, TRUE, job.basis, TRUE)) /\ file' = job.basis
      <3>1. SavedState \in EndStates
        BY DEF SavedState, EndStates, Verdicts
      <3> QED
        BY <2>2, <3>1 DEF End, EndsWith
    <2>3. CASE End(Outcome("GRR Save Failed", TRUE, job.basis, TRUE))
                  /\ file' \in {file, Broken}
      <3>1. "GRR Save Failed" \in EndStates
        BY DEF EndStates
      <3> QED
        BY <2>3, <3>1 DEF End, EndsWith
    <2> QED
      BY <1>11, <2>1, <2>2, <2>3 DEF Save
  <1> QED
    BY <1>1, <1>2, <1>6, <1>7, <1>8, <1>9, <1>10, <1>11 DEF TaskMoves

(* What such a step does besides: it may show the stage, and then asks for *)
(* a solution next, load the schema, and meet a failing file operation.    *)
LEMMA TaskSideEffects ==
    ASSUME TaskTyped, ScheduleTyped, TaskMoves
    PROVE  /\ state' = state \/ (state' = stage /\ worker' = "request")
           /\ \/ worker # "request" /\ UNCHANGED <<requested, posted>>
              \/ requested' = TRUE /\ posted' \in {posted, TRUE}
           /\ UNCHANGED scheduled
           /\ schema' \in {schema, "loaded", "broken"}
           /\ Fault \/ NoFault
  <1>1. state' = state \/ (state' = stage /\ worker' = "request")
    BY DEF TaskMoves, Begin, Update, Ask, Prepare, Compile, Simulate, Process,
       Conclude, Save, Quiet
  <1>2. \/ worker # "request" /\ UNCHANGED <<requested, posted>>
        \/ requested' = TRUE /\ posted' \in {posted, TRUE}
    BY DEF TaskMoves, Begin, Update, Ask, Prepare, Compile, Simulate, Process,
       Conclude, Save, Quiet, schedule, At, Request, ScheduleTyped
  <1>3. UNCHANGED scheduled
    BY DEF TaskMoves, Begin, Update, Ask, Prepare, Compile, Simulate, Process,
       Conclude, Save, Quiet, schedule
  <1>4. schema' \in {schema, "loaded", "broken"}
    BY DEF TaskMoves, Begin, Update, Ask, Prepare, Compile, Simulate, Process,
       Conclude, Save, disk
  <1>5. Fault \/ NoFault
    BY DEF TaskMoves, Begin, Update, Ask, Prepare, Compile, Simulate, Process,
       Conclude, Save, disk, NoFault
  <1> QED
    BY <1>1, <1>2, <1>3, <1>4, <1>5

(* What StartRun may do: start a task, or not.                             *)
Launched ==
    /\ pulse /\ path # "bad" /\ active = FALSE
    /\ ui' = "show" /\ active' = TRUE /\ worker' = "queued"
    /\ starts' = starts + 1 /\ UNCHANGED <<stage, ending, outcome, shown>>
    /\ token' = FALSE /\ state' \in {"Validating Model", "Saving GRR"}
    /\ \E kind \in {"simulate", "save"}, basis \in {key, outcome.basis} :
          /\ job' = [kind |-> kind, key |-> key, path |-> path, basis |-> basis]
          /\ basis # key => outcome.success /\ lastKey = key

NotLaunched ==
    /\ UNCHANGED <<task, starts>>
    /\ \/ UNCHANGED <<outcome, state>>
       \/ /\ ~active /\ ui' = "show" /\ state' = "Cached"
          /\ outcome.success /\ lastKey = key
          /\ outcome' = Outcome("Cached", TRUE, outcome.basis, FALSE)
    /\ \/ ui' = "show" /\ UNCHANGED shown
       \/ ui' = "idle" /\ shown' = Nothing

LEMMA StartRunEffects ==
    ASSUME TaskTyped, StartRun
    PROVE  /\ ui = "start" /\ UNCHANGED <<gate, pulse, lastKey>> /\ BySolution
           /\ Launched \/ NotLaunched
  <1>1. CASE ~pulse /\ ui' = "show" /\ Idle /\ UNCHANGED shown
    BY <1>1 DEF StartRun, Idle, NotLaunched
  <1>2. CASE pulse /\ path = "bad" /\ ui' = "idle" /\ shown' = Nothing /\ Idle
    BY <1>2 DEF StartRun, Idle, NotLaunched
  <1>3. CASE pulse /\ path # "bad" /\ ui' = "show"
    <2>1. CASE active /\ Idle /\ UNCHANGED shown
      BY <1>3, <2>1 DEF StartRun, Idle, NotLaunched
    <2>2. CASE ~active /\ Launch("simulate", "Validating Model")
      BY <1>3, <2>2 DEF StartRun, Launch, Launched, TaskTyped
    <2>3. CASE ~active /\ CanReuseLastOutcome /\ Launch("save", "Saving GRR")
      BY <1>3, <2>3 DEF StartRun, Launch, Launched, CanReuseLastOutcome,
         TaskTyped
    <2>4. CASE /\ ~active /\ CanReuseLastOutcome /\ state' = "Cached"
               /\ outcome' = Outcome("Cached", TRUE, outcome.basis, FALSE)
               /\ UNCHANGED <<task, starts, shown>>
      BY <1>3, <2>4 DEF StartRun, NotLaunched, CanReuseLastOutcome
    <2> QED
      BY <1>3, <2>1, <2>2, <2>3, <2>4 DEF StartRun
  <1> QED
    BY <1>1, <1>2, <1>3 DEF StartRun

(* How the outcome of a task comes about.                                  *)
LEMMA EndingEffects ==
    ASSUME TaskTyped, TaskSound, ScheduleTyped, TaskMoves
    PROVE  /\ active = TRUE /\ active' = TRUE /\ job' = job
           /\ worker # "idle" /\ worker # "ended" /\ worker' # "idle"
           /\ ending' \in Outcomes
           /\ worker' = "ended" =>
                 /\ ending'.state \in EndStates
                 /\ ending'.success => ending'.basis = job.basis
                 /\ ending'.saved /\ ending'.state \in {"Succeeded", "Cached"}
                       => file' = ending'.basis
  <1>1. active = TRUE /\ active' = TRUE /\ job' = job /\ worker # "idle"
           /\ worker # "ended" /\ job.basis \in Keys
    BY TaskEffects, JobTypes
  <1>2. CASE GoesOn
    BY <1>1, <1>2 DEF GoesOn, TaskTyped
  <1>3. CASE EndsWithout
    <2>1. PICK s \in EndStates : ending' = Without(s)
      BY <1>3 DEF EndsWithout
    <2>2. /\ ending' \in Outcomes /\ ending'.state = s
          /\ ending'.success = FALSE /\ ending'.saved = FALSE
      BY <2>1, OutcomeTypes
    <2> QED
      BY <1>1, <1>3, <2>2 DEF EndsWithout
  <1>4. CASE EndsWith
    <2>1. PICK s \in EndStates, saved \in BOOLEAN :
              /\ ending' = Outcome(s, TRUE, job.basis, saved)
              /\ saved /\ s \in {"Succeeded", "Cached"} => file' = job.basis
      BY <1>4 DEF EndsWith
    <2>2. /\ ending' \in Outcomes /\ ending'.state = s
          /\ ending'.basis = job.basis /\ ending'.saved = saved
      <3>1. job.basis \in Keys \cup {NoKey} /\ TRUE \in BOOLEAN
        BY <1>1
      <3> QED
        BY <2>1, <3>1 DEF Outcome, Outcomes
    <2> QED
      BY <1>1, <1>4, <2>1, <2>2 DEF EndsWith
  <1> QED
    BY <1>2, <1>3, <1>4, TaskEffects

(* What a task is launched with.                                           *)
LEMMA LaunchEffects ==
    ASSUME InputsTyped, KeysAgree, ui = "start", Launched
    PROVE  /\ active = FALSE /\ active' = TRUE /\ worker' = "queued"
           /\ job' \in [kind : {"simulate", "save"}, key : Keys,
                        path : {"blank", "file"}, basis : Keys]
           /\ job'.kind # "none" /\ job'.key = key /\ job'.basis = key
  <1>1. key \in Keys /\ path \in {"blank", "file"}
    BY ComponentAssumption DEF KeysAgree, InputsTyped, Launched
  <1>2. PICK kind \in {"simulate", "save"} :
            job' = [kind |-> kind, key |-> key, path |-> path, basis |-> key]
    BY DEF Launched, KeysAgree
  <1> QED
    BY <1>1, <1>2 DEF Launched

(* The invariant holds in the initial states.                              *)
LEMMA InitSound ==
    Init => IInv
  <1> SUFFICES ASSUME Init
               PROVE  IInv
    OBVIOUS
  <1>1. InputsTyped /\ TaskTyped
    BY DEF Init, InputsTyped, TaskTyped, NoJob, NoOutcome, Without, Outcome,
       Outcomes, Stages, Preparations
  <1>2. ResultTyped
    BY ShownTypes DEF Init, ResultTyped, NoOutcome, Without, Outcome, Outcomes
  <1>3. ScheduleTyped /\ DiskTyped
    <2>1. requested \in BOOLEAN /\ posted \in BOOLEAN /\ scheduled \in BOOLEAN
      BY DEF Init
    <2>2. announcing = 0
      BY DEF Init
    <2>3. announcing \in 0..MaxPresses
      BY <2>2, ComponentAssumption
    <2>4. DiskTyped
      BY DEF Init, DiskTyped
    <2> QED
      BY <2>1, <2>3, <2>4 DEF ScheduleTyped
  <1>4. CountersTyped /\ CountsAgree
    <2>1. /\ presses = 0 /\ starts = 0 /\ edits = 0 /\ removals = 0
          /\ faults = 0 /\ announcing = 0
          /\ active = FALSE /\ observed = FALSE /\ ui = "observe"
      BY DEF Init
    <2> QED
      BY <2>1, ComponentAssumption DEF CountersTyped, CountsAgree
  <1>5. TaskSound /\ KeysAgree
    BY DEF Init, TaskSound, KeysAgree, NoJob, NoOutcome, Without, Outcome
  <1>6. FileSound
    BY DEF Init, FileSound, SavedWhenSaid, NoOutcome, Without, Outcome
  <1>7. ShownSound /\ DisplayUpToDate
    BY DEF Init, ShownSound, DisplayUpToDate
  <1> QED
    BY <1>1, <1>2, <1>3, <1>4, <1>5, <1>6, <1>7 DEF IInv, TypeOK

(* The inputs and the solution under way keep their types.                 *)
LEMMA InputsStayTyped ==
    InputsTyped /\ TaskTyped /\ [Next]_vars => InputsTyped'
  <1> SUFFICES ASSUME InputsTyped, TaskTyped, [Next]_vars
               PROVE  InputsTyped'
    OBVIOUS
  <1>1. CASE User
    BY <1>1 DEF User, Press, Release, ToggleCancel, Edit, Recompute, Remove,
       Restore, Solvable, ByUser, inputs, buttons, gate, InputsTyped
  <1>2. CASE Observe
    BY <1>2 DEF Observe, BySolution, inputs, buttons, gate, InputsTyped
  <1>3. CASE StartRun
    BY <1>3, StartRunEffects DEF Launched, NotLaunched, BySolution, inputs,
       buttons, gate, InputsTyped
  <1>4. CASE Show
    BY <1>4 DEF Show, BySolution, inputs, buttons, gate, InputsTyped
  <1>5. CASE Scheduler
    BY <1>5 DEF Scheduler, HandOff, Callback, ByScheduler, inputs, buttons,
       gate, InputsTyped
  <1>6. CASE TaskMoves
    BY <1>6, TaskEffects DEF GoesOn, EndsWithout, EndsWith, ByWorker, inputs,
       buttons, gate, InputsTyped
  <1>7. CASE Complete
    BY <1>7 DEF Complete, Finished, ByWorker, inputs, buttons, gate,
       InputsTyped
  <1>8. CASE Announce
    BY <1>8 DEF Announce, Request, ByWorker, inputs, buttons, gate,
       InputsTyped
  <1>9. CASE UNCHANGED vars
    BY <1>9 DEF vars, inputs, buttons, gate, InputsTyped
  <1> QED
    BY <1>1, <1>2, <1>3, <1>4, <1>5, <1>6, <1>7, <1>8, <1>9 DEF Next, User,
       Solution, Worker, TaskMoves

(* The task keeps its types: a run is started with a model and a path.     *)
LEMMA TaskStaysTyped ==
    InputsTyped /\ TaskTyped /\ ResultTyped /\ ScheduleTyped /\ TaskSound
        /\ KeysAgree /\ [Next]_vars => TaskTyped'
  <1> SUFFICES ASSUME InputsTyped, TaskTyped, ResultTyped, ScheduleTyped,
                      TaskSound, KeysAgree, [Next]_vars
               PROVE  TaskTyped'
    OBVIOUS
  <1>1. CASE User
    BY <1>1 DEF User, Press, Release, ToggleCancel, Edit, Recompute, Remove,
       Restore, Solvable, ByUser, task, TaskTyped
  <1>2. CASE Observe
    BY <1>2 DEF Observe, BySolution, task, TaskTyped
  <1>3. CASE StartRun
    <2>1. CASE Launched
      BY <1>3, <2>1, StartRunEffects, LaunchEffects DEF Launched, TaskTyped
    <2>2. CASE NotLaunched
      BY <1>3, <2>2 DEF NotLaunched, task, TaskTyped
    <2> QED
      BY <1>3, <2>1, <2>2, StartRunEffects
  <1>4. CASE Show
    BY <1>4 DEF Show, BySolution, task, TaskTyped
  <1>5. CASE Scheduler
    BY <1>5 DEF Scheduler, HandOff, Callback, ByScheduler, task, TaskTyped
  <1>6. CASE TaskMoves
    <2>1. UNCHANGED <<active, token, job>> /\ ending' \in Outcomes
      BY <1>6, TaskEffects, EndingEffects
    <2>2. stage' \in Stages
             /\ worker' \in {"update", "request", "work", "ended"}
      BY <1>6, TaskEffects DEF GoesOn, EndsWithout, EndsWith, TaskTyped
    <2> QED
      BY <2>1, <2>2 DEF TaskTyped
  <1>7. CASE Complete
    BY <1>7 DEF Complete, Finished, ByWorker, task, TaskTyped
  <1>8. CASE Announce
    BY <1>8 DEF Announce, Request, ByWorker, task, TaskTyped
  <1>9. CASE UNCHANGED vars
    BY <1>9 DEF vars, task, TaskTyped
  <1> QED
    BY <1>1, <1>2, <1>3, <1>4, <1>5, <1>6, <1>7, <1>8, <1>9 DEF Next, User,
       Solution, Worker, TaskMoves

(* The result and what is shown of it keep their types.                    *)
LEMMA ResultStaysTyped ==
    InputsTyped /\ TaskTyped /\ ResultTyped /\ ScheduleTyped /\ TaskSound
        /\ KeysAgree /\ [Next]_vars => ResultTyped'
  <1> SUFFICES ASSUME InputsTyped, TaskTyped, ResultTyped, ScheduleTyped,
                      TaskSound, KeysAgree, [Next]_vars
               PROVE  ResultTyped'
    OBVIOUS
  <1>1. CASE User
    BY <1>1 DEF User, Press, Release, ToggleCancel, Edit, Recompute, Remove,
       Restore, Solvable, ByUser, result, ResultTyped
  <1>2. CASE Observe
    BY <1>2, ShownTypes DEF Observe, BySolution, result, ResultTyped
  <1>3. CASE StartRun
    <2>1. outcome' \in Outcomes /\ lastKey' = lastKey
      <3>1. ASSUME outcome.success, lastKey = key
            PROVE  Outcome("Cached", TRUE, outcome.basis, FALSE) \in Outcomes
        BY <3>1, OutcomeTypes DEF ResultTyped, Outcomes
      <3> QED
        BY <1>3, <3>1, StartRunEffects DEF Launched, NotLaunched, ResultTyped
    <2>2. state' \in {state, "Validating Model", "Saving GRR", "Cached"}
             /\ shown' \in {shown, Nothing}
      BY <1>3, StartRunEffects DEF Launched, NotLaunched
    <2>3. {"Validating Model", "Saving GRR", "Cached"} \subseteq Stages \cup EndStates
      BY DEF Stages, Preparations, EndStates
    <2> QED
      BY <2>1, <2>2, <2>3, ShownTypes DEF ResultTyped
  <1>4. CASE Show
    BY <1>4, ShownTypes DEF Show, BySolution, result, ResultTyped
  <1>5. CASE Scheduler
    BY <1>5 DEF Scheduler, HandOff, Callback, ByScheduler, result, ResultTyped
  <1>6. CASE TaskMoves
    <2>1. state' \in Stages \cup EndStates \cup {"Idle", "Cancelling"}
      BY <1>6, TaskSideEffects DEF TaskTyped, ResultTyped
    <2> QED
      BY <1>6, <2>1, TaskEffects DEF ByWorker, ResultTyped
  <1>7. CASE Complete
    <2>1. lastKey' \in Keys \cup {NoKey} /\ outcome' \in Outcomes
      BY <1>7 DEF Complete, Finished, TaskTyped, NoJob
    <2>2. state' \in EndStates /\ UNCHANGED shown
      BY <1>7 DEF Complete, Finished, TaskSound, ByWorker
    <2> QED
      BY <1>7, <2>1, <2>2 DEF ResultTyped
  <1>8. CASE Announce
    BY <1>8 DEF Announce, Request, ByWorker, result, ResultTyped
  <1>9. CASE UNCHANGED vars
    BY <1>9 DEF vars, result, ResultTyped
  <1> QED
    BY <1>1, <1>2, <1>3, <1>4, <1>5, <1>6, <1>7, <1>8, <1>9 DEF Next, User,
       Solution, Worker, TaskMoves

(* No more tasks have to ask for a solution than were started.             *)
LEMMA ScheduleStaysTyped ==
    TaskTyped /\ ScheduleTyped /\ CountersTyped /\ TaskSound /\ CountsAgree
        /\ [Next]_vars => ScheduleTyped'
  <1> SUFFICES ASSUME TaskTyped, ScheduleTyped, CountersTyped, TaskSound,
                      CountsAgree, [Next]_vars
               PROVE  ScheduleTyped'
    OBVIOUS
  <1>1. CASE User
    BY <1>1 DEF User, Press, Release, ToggleCancel, Edit, Recompute, Remove,
       Restore, Solvable, ByUser, schedule, ScheduleTyped
  <1>2. CASE Observe
    BY <1>2 DEF Observe, BySolution, schedule, ScheduleTyped
  <1>3. CASE StartRun
    BY <1>3, StartRunEffects DEF Launched, NotLaunched, BySolution, schedule,
       ScheduleTyped
  <1>4. CASE Show
    BY <1>4 DEF Show, BySolution, schedule, ScheduleTyped
  <1>5. CASE Scheduler
    BY <1>5 DEF Scheduler, HandOff, Callback, ByScheduler, schedule,
       ScheduleTyped
  <1>6. CASE TaskMoves
    BY <1>6, TaskEffects, TaskSideEffects DEF ScheduleTyped
  <1>7. CASE Complete
    <2>1. /\ active = TRUE /\ announcing' \in {announcing, announcing + 1}
          /\ UNCHANGED <<requested, posted, scheduled>>
      BY <1>7 DEF Complete, Finished, TaskTyped, TaskSound
    <2>2. announcing + 1 <= starts /\ starts <= presses
      BY <2>1 DEF CountsAgree, CountersTyped, ScheduleTyped
    <2>3. announcing' \in 0..MaxPresses
      BY <2>1, <2>2, ComponentAssumption DEF CountersTyped, ScheduleTyped
    <2> QED
      BY <2>1, <2>3 DEF ScheduleTyped
  <1>8. CASE Announce
    <2>1. announcing' \in 0..MaxPresses
      BY <1>8, ComponentAssumption DEF Announce, ScheduleTyped
    <2>2. requested' \in BOOLEAN /\ posted' \in BOOLEAN /\ UNCHANGED scheduled
      BY <1>8 DEF Announce, Request, ScheduleTyped
    <2> QED
      BY <2>1, <2>2 DEF ScheduleTyped
  <1>9. CASE UNCHANGED vars
    BY <1>9 DEF vars, schedule, ScheduleTyped
  <1> QED
    BY <1>1, <1>2, <1>3, <1>4, <1>5, <1>6, <1>7, <1>8, <1>9 DEF Next, User,
       Solution, Worker, TaskMoves

(* The file holds a result, is absent or is broken.                        *)
LEMMA DiskStaysTyped ==
    TaskTyped /\ ScheduleTyped /\ DiskTyped /\ TaskSound
        /\ [Next]_vars => DiskTyped'
  <1> SUFFICES ASSUME TaskTyped, ScheduleTyped, DiskTyped, TaskSound,
                      [Next]_vars
               PROVE  DiskTyped'
    OBVIOUS
  <1>1. CASE User
    BY <1>1 DEF User, Press, Release, ToggleCancel, Edit, Recompute, Remove,
       Restore, Solvable, ByUser, disk, DiskTyped
  <1>2. CASE Observe
    BY <1>2 DEF Observe, BySolution, disk, DiskTyped
  <1>3. CASE StartRun
    BY <1>3, StartRunEffects DEF Launched, NotLaunched, BySolution, disk,
       DiskTyped
  <1>4. CASE Show
    BY <1>4 DEF Show, BySolution, disk, DiskTyped
  <1>5. CASE Scheduler
    BY <1>5 DEF Scheduler, HandOff, Callback, ByScheduler, disk, DiskTyped
  <1>6. CASE TaskMoves
    <2>1. job.basis \in Keys
      BY <1>6, TaskEffects, JobTypes
    <2> QED
      BY <1>6, <2>1, TaskEffects, TaskSideEffects
         DEF GoesOn, EndsWithout, EndsWith, DiskTyped
  <1>7. CASE Complete
    BY <1>7 DEF Complete, Finished, ByWorker, disk, DiskTyped
  <1>8. CASE Announce
    BY <1>8 DEF Announce, Request, ByWorker, disk, DiskTyped
  <1>9. CASE UNCHANGED vars
    BY <1>9 DEF vars, disk, DiskTyped
  <1> QED
    BY <1>1, <1>2, <1>3, <1>4, <1>5, <1>6, <1>7, <1>8, <1>9 DEF Next, User,
       Solution, Worker, TaskMoves

(* Counters stay within their bounds.                                      *)
LEMMA CountersStayTyped ==
    TaskTyped /\ ScheduleTyped /\ CountersTyped
        /\ [Next]_vars => CountersTyped'
  <1> SUFFICES ASSUME TaskTyped, ScheduleTyped, CountersTyped, [Next]_vars
               PROVE  CountersTyped'
    OBVIOUS
  <1>1. CASE User
    BY <1>1, ComponentAssumption DEF User, Press, Release, ToggleCancel, Edit,
       Recompute, Remove, Restore, Solvable, ByUser, buttons, disk,
       CountersTyped
  <1>2. CASE Observe
    BY <1>2 DEF Observe, BySolution, buttons, disk, CountersTyped
  <1>3. CASE StartRun
    <2>1. starts' \in {starts, starts + 1}
      BY <1>3, StartRunEffects DEF Launched, NotLaunched
    <2>2. UNCHANGED <<presses, edits, removals, faults>>
      BY <1>3, StartRunEffects DEF BySolution, buttons, disk
    <2> QED
      BY <2>1, <2>2 DEF CountersTyped
  <1>4. CASE Show
    BY <1>4 DEF Show, BySolution, buttons, disk, CountersTyped
  <1>5. CASE Scheduler
    BY <1>5 DEF Scheduler, HandOff, Callback, ByScheduler, buttons, disk,
       CountersTyped
  <1>6. CASE TaskMoves
    <2>1. UNCHANGED <<presses, starts, edits, removals>>
      BY <1>6, TaskEffects DEF ByWorker, buttons
    <2>2. faults' = faults \/ (faults < MaxFaults /\ faults' = faults + 1)
      BY <1>6, TaskSideEffects DEF Fault, NoFault
    <2> QED
      BY <2>1, <2>2, ComponentAssumption DEF CountersTyped
  <1>7. CASE Complete
    BY <1>7 DEF Complete, Finished, ByWorker, buttons, disk, CountersTyped
  <1>8. CASE Announce
    BY <1>8 DEF Announce, Request, ByWorker, buttons, disk, CountersTyped
  <1>9. CASE UNCHANGED vars
    BY <1>9 DEF vars, buttons, disk, CountersTyped
  <1> QED
    BY <1>1, <1>2, <1>3, <1>4, <1>5, <1>6, <1>7, <1>8, <1>9 DEF Next, User,
       Solution, Worker, TaskMoves

(* Only the completion of an ended task leaves none.                       *)
LEMMA TaskStaysSound ==
    InputsTyped /\ TaskTyped /\ TaskTyped' /\ ScheduleTyped /\ TaskSound
        /\ KeysAgree /\ [Next]_vars => TaskSound'
  <1> SUFFICES ASSUME InputsTyped, TaskTyped, TaskTyped', ScheduleTyped,
                      TaskSound, KeysAgree, [Next]_vars
               PROVE  TaskSound'
    OBVIOUS
  <1>1. CASE User
    BY <1>1 DEF User, Press, Release, ToggleCancel, Edit, Recompute, Remove,
       Restore, Solvable, ByUser, task, TaskSound
  <1>2. CASE Observe
    BY <1>2 DEF Observe, BySolution, task, TaskSound
  <1>3. CASE StartRun
    <2>1. CASE Launched
      BY <1>3, <2>1, StartRunEffects, LaunchEffects DEF TaskSound
    <2>2. CASE NotLaunched
      BY <1>3, <2>2 DEF NotLaunched, task, TaskSound
    <2> QED
      BY <1>3, <2>1, <2>2, StartRunEffects
  <1>4. CASE Show
    BY <1>4 DEF Show, BySolution, task, TaskSound
  <1>5. CASE Scheduler
    BY <1>5 DEF Scheduler, HandOff, Callback, ByScheduler, task, TaskSound
  <1>6. CASE TaskMoves
    BY <1>6, TaskEffects, EndingEffects DEF TaskSound
  <1>7. CASE Complete
    BY <1>7 DEF Complete, Finished, ByWorker, task, TaskSound
  <1>8. CASE Announce
    BY <1>8 DEF Announce, Request, ByWorker, task, TaskSound
  <1>9. CASE UNCHANGED vars
    BY <1>9 DEF vars, task, TaskSound
  <1> QED
    BY <1>1, <1>2, <1>3, <1>4, <1>5, <1>6, <1>7, <1>8, <1>9 DEF Next, User,
       Solution, Worker, TaskMoves

(* The inputs change only while the UI thread is idle, a task keeps its    *)
(* job, and its outcome is filed under the job's key.                      *)
LEMMA KeysStayAgreed ==
    InputsTyped /\ TaskTyped /\ TaskTyped' /\ ResultTyped /\ ScheduleTyped
        /\ TaskSound /\ KeysAgree /\ [Next]_vars => KeysAgree'
  <1> SUFFICES ASSUME InputsTyped, TaskTyped, TaskTyped', ResultTyped,
                      ScheduleTyped, TaskSound, KeysAgree, [Next]_vars
               PROVE  KeysAgree'
    OBVIOUS
  <1>1. CASE User
    BY <1>1 DEF User, Press, Release, ToggleCancel, Edit, Recompute, Remove,
       Restore, Solvable, ByUser, inputs, task, result, KeysAgree
  <1>2. CASE Observe
    BY <1>2 DEF Observe, BySolution, InputsTyped, inputs, task, result,
       KeysAgree
  <1>3. CASE StartRun
    <2>1. ui' \in {"show", "idle"} /\ UNCHANGED <<key, lastKey>> /\ ui = "start"
      BY <1>3, StartRunEffects DEF Launched, NotLaunched, BySolution, inputs
    <2>2. (job'.basis = job'.key /\ worker' # "ended") \/ UNCHANGED task
      BY <1>3, <2>1, StartRunEffects, LaunchEffects DEF NotLaunched
    <2>3. outcome'.success => outcome.success /\ outcome'.basis = outcome.basis
      <3>1. ASSUME outcome' = Outcome("Cached", TRUE, outcome.basis, FALSE)
            PROVE  outcome'.basis = outcome.basis
        BY <3>1 DEF Outcome
      <3> QED
        BY <1>3, <3>1, StartRunEffects DEF Launched, NotLaunched
    <2> QED
      BY <2>1, <2>2, <2>3 DEF KeysAgree, task
  <1>4. CASE Show
    BY <1>4 DEF Show, BySolution, inputs, task, result, KeysAgree
  <1>5. CASE Scheduler
    BY <1>5 DEF Scheduler, HandOff, Callback, ByScheduler, inputs, task,
       result, KeysAgree
  <1>6. CASE TaskMoves
    <2>1. UNCHANGED <<ui, key, lastKey, outcome, job>>
      BY <1>6, TaskEffects DEF ByWorker, inputs
    <2> QED
      BY <1>6, <2>1, EndingEffects DEF KeysAgree
  <1>7. CASE Complete
    <2>1. UNCHANGED <<ui, key, job>> /\ worker' = "idle"
             /\ lastKey' = job.key /\ outcome' = ending /\ worker = "ended"
      BY <1>7 DEF Complete, Finished, ByWorker, inputs
    <2>2. job.key \in Keys
      BY <2>1, JobTypes
    <2> QED
      BY <2>1, <2>2 DEF KeysAgree
  <1>8. CASE Announce
    BY <1>8 DEF Announce, Request, ByWorker, inputs, task, result, KeysAgree
  <1>9. CASE UNCHANGED vars
    BY <1>9 DEF vars, inputs, task, result, KeysAgree
  <1> QED
    BY <1>1, <1>2, <1>3, <1>4, <1>5, <1>6, <1>7, <1>8, <1>9 DEF Next, User,
       Solution, Worker, TaskMoves

(* The edge of a press is seen once, and starts one task.                  *)
LEMMA CountsStayAgreed ==
    InputsTyped /\ InputsTyped' /\ TaskTyped /\ ScheduleTyped
        /\ CountersTyped /\ TaskSound /\ CountsAgree
        /\ [Next]_vars => CountsAgree'
  <1> SUFFICES ASSUME InputsTyped, InputsTyped', TaskTyped, ScheduleTyped,
                      CountersTyped, TaskSound, CountsAgree, [Next]_vars
               PROVE  CountsAgree'
    OBVIOUS
  <1>1. CASE Press
    BY <1>1 DEF Press, Solvable, ByUser, buttons, gate, schedule, task,
       CountsAgree, InputsTyped, CountersTyped
  <1>2. CASE Release
    BY <1>2 DEF Release, Solvable, ByUser, buttons, gate, schedule, task,
       CountsAgree, InputsTyped, CountersTyped
  <1>3. CASE ToggleCancel
    BY <1>3 DEF ToggleCancel, Solvable, ByUser, buttons, gate, schedule, task,
       CountsAgree, InputsTyped, CountersTyped
  <1>4. CASE Edit
    BY <1>4 DEF Edit, Solvable, ByUser, buttons, gate, schedule, task,
       CountsAgree, InputsTyped, CountersTyped
  <1>5. CASE Recompute
    BY <1>5 DEF Recompute, Solvable, ByUser, buttons, gate, schedule, task,
       CountsAgree, InputsTyped, CountersTyped
  <1>6. CASE Remove
    BY <1>6 DEF Remove, Solvable, ByUser, buttons, gate, schedule, task,
       CountsAgree, InputsTyped, CountersTyped
  <1>7. CASE Restore
    BY <1>7 DEF Restore, Solvable, ByUser, buttons, gate, schedule, task,
       CountsAgree, InputsTyped, CountersTyped
  <1>8. CASE Observe
    BY <1>8 DEF Observe, BySolution, buttons, gate, schedule, task,
       CountsAgree, InputsTyped, CountersTyped
  <1>9. CASE StartRun
    <2>1. /\ ui = "start" /\ ui' # "start"
          /\ UNCHANGED <<presses, observed, run, lastRun, announcing>>
      BY <1>9, StartRunEffects
         DEF Launched, NotLaunched, BySolution, buttons, gate, schedule
    <2>2. CASE Launched
      <3>1. pulse = TRUE /\ active = FALSE /\ active' = TRUE /\ starts' = starts + 1
        BY <2>2 DEF Launched, InputsTyped
      <3> QED
        BY <2>1, <3>1 DEF CountsAgree, InputsTyped, CountersTyped, ScheduleTyped
    <2>3. CASE NotLaunched
      <3>1. UNCHANGED <<active, starts>>
        BY <2>3 DEF NotLaunched, task
      <3> QED
        BY <2>1, <3>1 DEF CountsAgree, InputsTyped, CountersTyped, ScheduleTyped
    <2> QED
      BY <1>9, <2>2, <2>3, StartRunEffects
  <1>10. CASE Show
    BY <1>10 DEF Show, BySolution, buttons, gate, schedule, task, CountsAgree,
       InputsTyped, CountersTyped
  <1>11. CASE Scheduler
    BY <1>11 DEF Scheduler, HandOff, Callback, ByScheduler, buttons, gate,
       schedule, task, CountsAgree, InputsTyped, CountersTyped
  <1>12. CASE TaskMoves
    BY <1>12, TaskEffects DEF GoesOn, EndsWithout, EndsWith, ByWorker,
       buttons, gate, schedule, task, CountsAgree, InputsTyped, CountersTyped
  <1>13. CASE Complete
    BY <1>13 DEF Complete, Finished, ByWorker, TaskSound, ScheduleTyped,
       buttons, gate, schedule, task, CountsAgree, InputsTyped, CountersTyped
  <1>14. CASE Announce
    BY <1>14 DEF Announce, Request, ByWorker, ScheduleTyped, buttons, gate,
       schedule, task, CountsAgree, InputsTyped, CountersTyped
  <1>15. CASE UNCHANGED vars
    BY <1>15 DEF vars, buttons, gate, schedule, task, CountsAgree,
       InputsTyped, CountersTyped
  <1> QED
    BY <1>1, <1>2, <1>3, <1>4, <1>5, <1>6, <1>7, <1>8, <1>9, <1>10, <1>11,
       <1>12, <1>13, <1>14, <1>15 DEF Next, User, Solution, Worker, TaskMoves

(* The file is written by a task, and only where it ends.                  *)
LEMMA FileStaysSound ==
    InputsTyped /\ TaskTyped /\ TaskTyped' /\ ResultTyped /\ ScheduleTyped
        /\ TaskSound /\ KeysAgree /\ FileSound /\ [Next]_vars => FileSound'
  <1> SUFFICES ASSUME InputsTyped, TaskTyped, TaskTyped', ResultTyped,
                      ScheduleTyped, TaskSound, KeysAgree, FileSound, [Next]_vars
               PROVE  FileSound'
    OBVIOUS
  <1>1. CASE User
    BY <1>1 DEF User, Press, Release, ToggleCancel, Edit, Recompute, Remove,
       Restore, Solvable, ByUser, task, result, disk, FileSound, SavedWhenSaid
  <1>2. CASE Observe
    BY <1>2 DEF Observe, BySolution, task, result, disk, FileSound,
       SavedWhenSaid
  <1>3. CASE StartRun
    <2>1. UNCHANGED file /\ ui = "start"
      BY <1>3, StartRunEffects DEF BySolution, disk
    <2>2. CASE Launched
      BY <2>1, <2>2, LaunchEffects DEF FileSound, SavedWhenSaid
    <2>3. CASE NotLaunched
      <3>1. outcome'.saved => outcome' = outcome
        <4>1. Outcome("Cached", TRUE, outcome.basis, FALSE).saved = FALSE
          BY DEF Outcome
        <4> QED
          BY <2>3, <4>1 DEF NotLaunched
      <3>2. UNCHANGED <<active, worker, ending>>
        BY <2>3 DEF NotLaunched, task
      <3> QED
        BY <2>1, <3>1, <3>2 DEF FileSound, SavedWhenSaid
    <2> QED
      BY <1>3, <2>2, <2>3, StartRunEffects
  <1>4. CASE Show
    BY <1>4 DEF Show, BySolution, task, result, disk, FileSound, SavedWhenSaid
  <1>5. CASE Scheduler
    BY <1>5 DEF Scheduler, HandOff, Callback, ByScheduler, task, result, disk,
       FileSound, SavedWhenSaid
  <1>6. CASE TaskMoves
    BY <1>6, EndingEffects DEF FileSound, SavedWhenSaid
  <1>7. CASE Complete
    BY <1>7 DEF Complete, Finished, ByWorker, TaskSound, task, result, disk,
       FileSound, SavedWhenSaid
  <1>8. CASE Announce
    BY <1>8 DEF Announce, Request, ByWorker, task, result, disk, FileSound,
       SavedWhenSaid
  <1>9. CASE UNCHANGED vars
    BY <1>9 DEF vars, task, result, disk, FileSound, SavedWhenSaid
  <1> QED
    BY <1>1, <1>2, <1>3, <1>4, <1>5, <1>6, <1>7, <1>8, <1>9 DEF Next, User,
       Solution, Worker, TaskMoves

(* What is shown is replaced by every solution.                            *)
LEMMA ShownStaysSound ==
    InputsTyped /\ TaskTyped /\ ResultTyped' /\ KeysAgree /\ ShownSound
        /\ [Next]_vars => ShownSound'
  <1> SUFFICES ASSUME InputsTyped, TaskTyped, ResultTyped', KeysAgree,
                      ShownSound, [Next]_vars
               PROVE  ShownSound'
    OBVIOUS
  <1>1. CASE User
    BY <1>1 DEF User, Press, Release, ToggleCancel, Edit, Recompute, Remove,
       Restore, Solvable, ByUser, inputs, task, ShownSound
  <1>2. CASE Observe
    BY <1>2, ShownTypes DEF Observe, BySolution, inputs, task, ShownSound
  <1>3. CASE StartRun
    BY <1>3, StartRunEffects, ShownTypes DEF Launched, NotLaunched,
       BySolution, inputs, task, ShownSound
  <1>4. CASE Show
    BY <1>4, ShownTypes DEF Show, BySolution, KeysAgree, inputs, task,
       ShownSound
  <1>5. CASE Scheduler
    BY <1>5 DEF Scheduler, HandOff, Callback, ByScheduler, inputs, task,
       ShownSound
  <1>6. CASE TaskMoves
    BY <1>6, TaskEffects DEF GoesOn, EndsWithout, EndsWith, ByWorker, inputs,
       task, ShownSound
  <1>7. CASE Complete
    BY <1>7 DEF Complete, Finished, ByWorker, inputs, task, ShownSound
  <1>8. CASE Announce
    BY <1>8 DEF Announce, Request, ByWorker, inputs, task, ShownSound
  <1>9. CASE UNCHANGED vars
    BY <1>9 DEF vars, inputs, task, ShownSound
  <1> QED
    BY <1>1, <1>2, <1>3, <1>4, <1>5, <1>6, <1>7, <1>8, <1>9 DEF Next, User,
       Solution, Worker, TaskMoves

(* Whoever changes the state asks for a solution, or is about to.          *)
LEMMA DisplayStaysUpToDate ==
    InputsTyped /\ TaskTyped /\ ScheduleTyped /\ DisplayUpToDate
        /\ [Next]_vars => DisplayUpToDate'
  <1> SUFFICES ASSUME InputsTyped, TaskTyped, ScheduleTyped,
                      DisplayUpToDate, [Next]_vars
               PROVE  DisplayUpToDate'
    OBVIOUS
  <1>1. CASE Press
    BY <1>1 DEF Press, Solvable, ByUser, inputs, task, result, schedule,
       DisplayUpToDate, View
  <1>2. CASE Release
    BY <1>2 DEF Release, Solvable, ByUser, inputs, task, result, schedule,
       DisplayUpToDate, View
  <1>3. CASE ToggleCancel
    BY <1>3 DEF ToggleCancel, Solvable, ByUser, inputs, task, result,
       schedule, DisplayUpToDate, View
  <1>4. CASE Edit
    BY <1>4 DEF Edit, Solvable, ByUser, inputs, task, result, schedule,
       DisplayUpToDate, View
  <1>5. CASE Recompute
    BY <1>5 DEF Recompute, Solvable, ByUser, inputs, task, result, schedule,
       DisplayUpToDate, View
  <1>6. CASE Remove
    BY <1>6 DEF Remove, Solvable, ByUser, inputs, task, result, schedule,
       DisplayUpToDate, View
  <1>7. CASE Restore
    BY <1>7 DEF Restore, Solvable, ByUser, inputs, task, result, schedule,
       DisplayUpToDate, View
  <1>8. CASE Observe
    BY <1>8, ShownTypes DEF Observe, BySolution, inputs, task, result,
       schedule, DisplayUpToDate
  <1>9. CASE StartRun
    BY <1>9, StartRunEffects, ShownTypes DEF Launched, NotLaunched,
       BySolution, inputs, task, result, schedule, DisplayUpToDate
  <1>10. CASE Show
    BY <1>10 DEF Show, BySolution, inputs, task, result, schedule,
       DisplayUpToDate, View
  <1>11. CASE Scheduler
    <2>1. UNCHANGED <<key, outcome, active, lastKey, state, shown, announcing,
                     worker>>
      BY <1>11 DEF Scheduler, HandOff, Callback, ByScheduler, inputs, task, result
    <2>2. View' = View
      BY <2>1 DEF View
    <2>3. CASE HandOff
      BY <2>1, <2>2, <2>3 DEF HandOff, ByScheduler, ScheduleTyped, InputsTyped,
         DisplayUpToDate
    <2>4. CASE Callback
      BY <2>1, <2>2, <2>4 DEF Callback, ByScheduler, InputsTyped, DisplayUpToDate
    <2> QED
      BY <1>11, <2>3, <2>4 DEF Scheduler
  <1>12. CASE TaskMoves
    <2>1. UNCHANGED <<present, ui, shown, announcing>>
             /\ UNCHANGED <<outcome, active, lastKey, key>>
      BY <1>12, TaskEffects DEF ByWorker, inputs
    <2>2. state' = state => View' = View
      BY <2>1 DEF View
    <2>3. \/ worker' = "request" \/ requested' = TRUE
          \/ state' = state /\ requested' = requested /\ worker # "request"
      BY <1>12, TaskSideEffects
    <2> QED
      BY <2>1, <2>2, <2>3 DEF DisplayUpToDate
  <1>13. CASE Complete
    <2>1. present => announcing' = announcing + 1
      BY <1>13 DEF Complete
    <2>2. UNCHANGED present
      BY <1>13 DEF Complete, Finished, ByWorker
    <2>3. announcing + 1 # 0
      BY DEF ScheduleTyped
    <2> QED
      BY <2>1, <2>2, <2>3 DEF DisplayUpToDate
  <1>14. CASE Announce
    BY <1>14 DEF Announce, Request, ByWorker, inputs, task, result, schedule,
       DisplayUpToDate, View
  <1>15. CASE UNCHANGED vars
    BY <1>15 DEF vars, inputs, task, result, schedule, DisplayUpToDate, View
  <1> QED
    BY <1>1, <1>2, <1>3, <1>4, <1>5, <1>6, <1>7, <1>8, <1>9, <1>10, <1>11,
       <1>12, <1>13, <1>14, <1>15 DEF Next, User, Solution, Worker, TaskMoves


(* Each part of the invariant is kept; together they are inductive.        *)
LEMMA StepSound ==
    IInv /\ [Next]_vars => IInv'
  <1> SUFFICES ASSUME IInv, [Next]_vars
               PROVE  IInv'
    OBVIOUS
  <1>1. /\ InputsTyped /\ TaskTyped /\ ResultTyped /\ ScheduleTyped
        /\ DiskTyped /\ CountersTyped
    BY DEF IInv, TypeOK
  <1>2. TypeOK'
    BY <1>1, InputsStayTyped, TaskStaysTyped, ResultStaysTyped,
       ScheduleStaysTyped, DiskStaysTyped, CountersStayTyped DEF IInv, TypeOK
  <1>3. InputsTyped' /\ TaskTyped' /\ ResultTyped'
    BY <1>2 DEF TypeOK
  <1>4. TaskSound' /\ KeysAgree' /\ CountsAgree'
    BY <1>1, <1>3, TaskStaysSound, KeysStayAgreed, CountsStayAgreed DEF IInv
  <1>5. FileSound' /\ ShownSound' /\ DisplayUpToDate'
    BY <1>1, <1>3, FileStaysSound, ShownStaysSound, DisplayStaysUpToDate
       DEF IInv
  <1> QED
    BY <1>2, <1>4, <1>5 DEF IInv

(* The invariant holds throughout.                                         *)
LEMMA AlwaysSound ==
    Spec => []IInv
  BY InitSound, StepSound, PTL DEF Spec

(* Every variable keeps its type, and no change of the component's state   *)
(* is lost on the way to the user: with any interleaving of the task, its  *)
(* requests and the document's solutions, what is shown is what a solution *)
(* would show, unless one is still to come (UpdateState, CompleteRun,      *)
(* ScheduleSolution).                                                      *)
THEOREM DisplayCorrect ==
    Spec => []DisplaySound
  <1>1. IInv => DisplaySound
    BY DEF IInv, DisplaySound
  <1> QED
    BY <1>1, AlwaysSound, PTL

(* What is on the output was computed for the inputs that are connected,   *)
(* for any number of keys and edits while a task runs (CompleteRun,        *)
(* ClassifyOutcome).                                                       *)
THEOREM ResultsMatchInputs ==
    Spec => []ShownForTheseInputs
  <1>1. IInv => ShownForTheseInputs
    BY DEF IInv, ShownSound, ShownForTheseInputs
  <1> QED
    BY <1>1, AlwaysSound, PTL

(* However many presses, solutions, removals and restorations there are,   *)
(* no press starts two tasks (ExplicitRunTriggerGate).                     *)
THEOREM PressesStartRuns ==
    Spec => []OnePressOneRun
  <1>1. IInv => OnePressOneRun
    BY DEF IInv, TypeOK, CountersTyped, CountsAgree, OnePressOneRun
  <1> QED
    BY <1>1, AlwaysSound, PTL

(* Whatever writes fail and whenever a save is cancelled, a run that says  *)
(* it saved its result has left exactly that result in the file            *)
(* (PersistResult).                                                        *)
THEOREM SavesAreSaid ==
    Spec => []SavedWhenSaid
  <1>1. IInv => SavedWhenSaid
    BY DEF IInv, FileSound
  <1> QED
    BY <1>1, AlwaysSound, PTL

=============================================================================
