# A verification of the Dragons plug-ins: InvisibleDragon and SimpleDragon

The repository holds two Grasshopper plug-ins for building energy simulation.
*InvisibleDragon* builds EnergyPlus models; *SimpleDragon* evaluates green-retrofit
models through it. Both bring their own copy of EnergyPlus 24.2, install it on demand
into a directory that all Rhino processes of a user share, run it as a child process,
and show the results in a Grasshopper definition. Both are ports of a Python project;
two developer tools keep them true to it. The *reference pipeline*
(`scripts/reference.ps1`, `tools/python-reference`) runs the pinned upstream source and
records what it does as oracles. The *upstream tracker* (`tools/upstream-tracker`) records
which upstream symbols the port covers, and passes only if tests executed on the committed
sources say so.

This directory holds TLA+ modules for the parts of that code where concurrency, failure
and ordering decide whether it is right, TLC configurations that check them on small
instances, and proofs that the TLA+ proof system checks. `PROJECT.json` lists the runs,
the definitions with the source lines they stand for, the hazards and the theorems.

## The system

    Grasshopper document (one UI thread)
      |  solves components, again and again
      v
    RunSimpleDragonComponent        ManagedRunSimpleDragonBatchComponent   ManagedRunEnergyPlusComponent
      |  one background task          |                                       |
      v                               v                                       |
    SimpleDragonSimulationExecutor  BatchRunner (workers, cache, outputs)     |
      |        \                      |  each case through an executor        |
      |         \_____________________|                                       |
      |  convert, write IDF           |                                       |
      v                               v                                       v
    RuntimeResolver, EnergyPlusRuntimeBootstrapper (one target directory, many processes)
      |
      v
    EnergyPlusRunner (private directory per run) -> ProcessExecutor -> ExpandObjects, EnergyPlus

    developer's repository
      |  reference.ps1: generators, one process each -> output -> tracked baseline (oracles)
      |  tracker: apply-safe-scope -> decisions.json, matrix.json (scope integration)
      |  tracker: gate -> collection session -> isolated child -> dotnet test
      v
    report, console, exit code

| Part (sources) | State | Operations | What is hard | What makes it correct |
|---|---|---|---|---|
| Runtime bootstrapper (`EnergyPlus.Runtime/EnergyPlusRuntimeBootstrapper.cs`, extractor, downloader) | the target directory, a lock file, private archive, staging and displaced directories | `EnsureInstalledAsync` | several processes, failing file operations, crashes, cancellation, stalled transfers | a runtime once reported stays; a user's directory is never lost; cancelled calls return |
| Runtime resolver | none | `ResolveAsync` | candidates change while they are looked at | only a verified runtime is returned |
| EnergyPlus runner and process executor (`EnergyPlusRunner.cs`, `ProcessExecution.cs`, `RuntimeFileSystem.cs`) | run state, private directory, child process | `RunAsync` | cancellation, timeout and exit in any order; kills that fail; descendants holding pipes; colliding identifiers | an earned verdict, no process left behind, directories kept apart and accounted for |
| Batch runner (`SimpleDragon.Core/Batch`) | case results, progress counters, cache, output directories | `RunAsync`, workers, `BatchCache` | workers, several runs on one cache, damaged entries, cancellation | one final result per case, only successes cached, hits have an origin, the run ends |
| Run SimpleDragon component and simulation executor (`RunSimpleDragonComponent.cs`, `SimpleDragonSimulation.cs`) | active task, last outcome, state text, gate of scheduled solutions, button history, loaded IDD | solve, cancel, removal, task stages | the UI thread and a task interleave; inputs change meanwhile; removal and restoration | what is shown belongs to the inputs; no change stays unshown; one press, one run; cancel ends the task |
| Weather pack resolver (`SimpleDragonWeatherPack.cs`) | per-user cache, lock file | `ResolveMany` | several processes, cancellation, damaged cache files | only verified weather is handed out |
| IDD parser, schema and cache (`InvisibleDragon.Core/Idd`) | cache file | `Write`, `TryRead` | the file is written in place | a partial file counts as none |
| IDF documents (`Core/Idf`), energy model (`Core/Model`), HVAC (`Core/Hvac`), schedules (`Core/Profile`), shapes (`Core/Shape`), results (`Core/Results`) | immutable values | pure functions | references, order and names over many cases | the translation is complete and its references resolve |
| GRM, GRR, conversion and result building (`SimpleDragon.Core`) | immutable values | pure functions | defaulting, references between sections | round trips; totals are sums of their parts |
| Contracts | immutable values | identifiers, ordered maps, canonical JSON | ordering and equality | deterministic output |
| Run InvisibleDragon and batch components | as the SimpleDragon component | the same | the same | the same |
| Authoring components, Grasshopper types, Rhino extraction | none between solutions | build values | geometry | - |
| Trusted evidence collection (`upstream-tracker/.../trusted_collector.py`) | a session: snapshot, copy of the committed files, plan, the child's claims, the sealed result | snapshot, copy, plan, child, re-parse, seal | the user commits, edits and checks out meanwhile; tests leave processes behind; the child runs a file of the repository | what is sealed was executed on the one tree it names |
| Compatibility gate (`cli.py`, `compatibility.py`, `evidence.py`) | loaded registries, receipt, evaluated evidence, three verdicts | load, inspect, collect, evaluate, report, print, exit | the same verdict is computed three times, each time by some ten reads of files that may change between them | a pass was seen and earned since the look for it began; the gate ends |
| Scope integration (`cli.py`, `scope_policy.py`, `atomic_io.py`) | decisions and matrix on disk | plan, check, replace two files one after the other | failures and deaths between the two, readers in between, uncommitted work | a command works only with pairs that agreed; no uncommitted work is overwritten |
| Python reference generators (`python-reference/generate_*.py`, 58 of them) | what a process loaded, the facts it recorded, one oracle | load, compare with a pin, observe, write | a file is hashed by one read and run by another; modules are imported twice; siblings are loaded | the pins an oracle names are of the bytes that ran, its facts are the reviewed ones |
| Python reference pipeline (`scripts/reference.ps1`, `reference-source.ps1`) | checkout, output directory, tracked baseline | generate, update, verify | a command ends in the middle of an update; oracles name one another | a baseline that verifies is whole and consistent |
| Source diff, test and compatibility runners, documentation, release and smoke tools | files | - | - | - |

Tests, fixtures and examples are not part of a running program.

## Modules

| Module | Models | Extends or uses |
|---|---|---|
| `RuntimeBootstrap` | the bootstrapper, several processes on one target | instances `RuntimeSlot` |
| `RuntimeSlot` | what the bootstrapper promises of the directory | - |
| `RuntimeBootstrapProofs` | eight theorems | `RuntimeBootstrap`, `TLAPS` |
| `BatchRunner` | the batch runner, several runs on one cache | instances `BatchBoard` |
| `BatchBoard` | what a batch promises of its results | - |
| `BatchRunnerProofs` | six theorems | `BatchRunner`, `TLAPS` |
| `EnergyPlusRun` | the runner and the process executor, several runs in one temporary root | - |
| `EnergyPlusRunProofs` | four theorems | `EnergyPlusRun`, `TLAPS` |
| `RunComponent` | the Run SimpleDragon component with the executor's stages | - |
| `RunComponentProofs` | four theorems | `RunComponent`, `TLAPS` |
| `WeatherPack` | the weather pack resolver, several processes on one cache | - |
| `WeatherPackProofs` | three theorems | `WeatherPack`, `TLAPS` |
| `ScheduleTypes` | types of schedules, operations on values, when they are defined | - |
| `ScheduleAlgebra` | day schedules, rule sets, annual schedules, their operations, windows and exports | `ScheduleTypes`; instances `ScheduleYear` |
| `ScheduleYear` | what an annual schedule promises: operations point by point | `ScheduleTypes` |
| `ScheduleProofs` | seven theorems | `ScheduleAlgebra`, `TLAPS`, `WellFoundedInduction`, `FiniteSetTheorems` |
| `EvidenceCollection` | one collection session in a repository the user works in | - |
| `CompatibilityGate` | the gate around a session, with the specification of both | `EvidenceCollection` |
| `ScopeIntegration` | tracker commands on the registries, with failures, deaths and the user | - |
| `ScopeIntegrationProofs` | three theorems | `ScopeIntegration`, `TLAPS` |
| `ReferenceSteps` | the steps generators are made of, the versions a file may have | - |
| `ProfileGenerators`, `CommonGenerators`, `DragonModelGenerators`, `DragonHvacGenerators`, `DragonShapeGenerators`, `EpsimpleGenerators`, `ImugiGenerators` | every generator as a program of these steps, function by function | `ReferenceSteps`, and each other where a generator loads a sibling |
| `ReferenceDiscipline` | what can be said of a generator's program without running it | `ReferenceSteps` |
| `ReferencePipeline` | the command that runs them, the baseline, the developer | the generators, `ReferenceDiscipline` |
| `UpstreamProofs` | three theorems on the gate, four on the pipeline | `CompatibilityGate`, `ReferencePipeline`, `TLAPS`, `FiniteSetTheorems` |
| `MC...` | symmetry sets and inputs for TLC | the module of that name |

### RuntimeBootstrap

A directory is abstracted to what the resolver can tell of it and to its owner: nothing,
a file, a reparse point, a directory of somebody's (`foreign`), what an interrupted
operation leaves (`remnant`), the verified `runtime`. Each file operation is a step that
may fail while the budget of faults lasts. `pc[p]` names the place within
`EnsureInstalledAsync` and `InstallUnderLockAsync`; `Return` is the common way out, which
closes the lock file, and `Cleanup` the finally block of the installation. The first look
at the target (`Check`, `Gate`) takes no lock, as in the code; under the lock it is
repeated (`Recheck`, `Regate`). The promotion is `DisplaceTarget`, `PublishCandidate`,
`ConfirmPromoted`, with `DeletePromoted` and `RestoreDisplaced` for the rollback and
`DiscardDisplaced` for the end. `Crash` closes the lock file and leaves everything else.

`RuntimeSlot` is the promise: one slot and at most one directory set aside from it, which
is put back, left beside the slot, or deleted only while the runtime is in the slot. The
refinement maps the backup to the displaced directory of the lock's holder.

### BatchRunner

`Prepare` computes keys from the weather file as it is then; the workers `Claim` cases
from a shared counter, `Look` for a cache entry and `Read` it, execute (`BeginExecution`,
`EndExecution`), and publish a success under a private name (`WritePrivate`) that is then
exchanged with, or moved to, the entry (`Publish`), as in `AtomicFile`. The code hashes
the weather file for each case in a loop (`BatchRunner.cs:233-241`); the model takes the
hashes together, before any worker starts: an edit in that loop gives the cases before and
after it keys of different weather, as an edit before or after the loop does for all. `Complete` stores
the result under the tracker's lock. When all workers have left, `Gather` fills the cases
nobody took and the two output files are written the same way (`ProbeOutput`,
`PublishOutput`); `Rethrow` ends a run with a worker's exception. A run may be cancelled at
any moment, cache entries damaged, and file operations fail. A damaged entry that parses
but holds a number that does not fit ends its worker with an exception nobody catches there.

`BatchBoard` is the promise: each case is filled once, and is left to the final sweep or
filled with `Cancelled` only in a run somebody cancelled.

### EnergyPlusRun

`pc[r]` names the place in `EnergyPlusRunner.RunAsync`, in `SafeRunDirectory.Create` and
`Delete` (`probe`, `mkdir`, `mark`, `cleanup`, `remove`) and in `ProcessExecutor.RunAsync`
(`spawn` to `drain`), which runs twice, for ExpandObjects and for EnergyPlus. The linked
token of the caller and the timer is `Told`. A cancelled child is killed with its tree,
alone, or not at all (`spared`), its exit is awaited and then the end of its output, which
a descendant may keep open. On .NET 8 the kill of a tree can also throw after a part of it
(`KillThrew`): nothing is awaited then and the run fails, cleaning up over what is still
alive (`Occupied`), whose directory need not go. `Judge` is the order of tests after the results were read.
Deleting a directory takes two steps, its contents with the marker first. The code draws
up to twenty identifiers, the model up to `MaxAttempts`.

### RunComponent

`ui` is the place in a solution: `Observe` reads the Buttons, `StartRun` starts a task,
`Show` classifies the last outcome and puts it out; between these the task goes on,
because only the bodies of the locks are atomic in the code. A task has a `stage`, and
reports it by `Update` (under the lock) and `Ask` (a request for a solution outside it).
A request goes through the gate (`Request`), the queue of the UI thread (`HandOff`) and
the document (`Callback`), which gives the gate back before it solves. `Complete` files
the outcome under the key the task was started for. `Preparing Simulation` stands for the
executor's ConvertingModel and CompilingIdf, `Processing Results` for its parsing and
building; `schema` is the executor's `Lazy<IddSchema>`. `file` is the GRR file, by the
key of its content: it is written in place, so a failure may leave part of it. The
conversion and the writing of the IDF may fail as well as the schema (`Compile`), and leave
nothing behind.

### WeatherPack

A cached file is abstracted to its content: none, the archive's, something else, a reparse
point. A call of `ResolveMany` goes from `Start` through the lock (`Acquire`, `GiveUp` at the
deadline or the token), the archive (`VerifyArchive`) and the selections (`NextSelection`,
`Probe`); a file that does not match is extracted in two steps (`Extract`), verified
(`CheckPartial`) and put in place by one move or by the two halves of a replacement
(`Place`, `Swap`). `Leave` is an exception, which goes through the finally block (`Clean`) if
there is one and makes the outcome of all selections. Others may damage the cache at any
moment. `handed` and `damaged` record what was promised and what others undid.

### ScheduleAlgebra

A day schedule is a sequence of values of a type, a rule set two default days and eight
optional ones, an annual schedule a rule set object for each date, told apart by `id` as
the code does by reference. The state is the schedule a caller works on; each action is an
operation, done the way the code does it: on the periods of one rule set (`Periods`), on
those of several schedules cut at all their boundaries (`Unified`), slot by slot, with an
override where an operand has one. A schedule has no minimum or maximum with a number, as a
rule set has (`Schedule.cs:601`); a bound of `ClipDay` that the caller leaves out is one no
value reaches. An operation that the code refuses with an exception is
not taken. `ScheduleYear` knows only the value at each step of each kind of day on each
date; the refinement maps a schedule to that. `RuleSetFields`, `LegacyFields` and
`ModelFields` are the three places that write a Schedule:Compact object, and `Read` is
what EnergyPlus makes of one. `IsAnnual` is what the constructors let through, and
`OperandAssumption` says it of the caller's schedules: an `id` stands for one rule set
object, and the objects that an operation makes (their `id` is the first date of their
period) are none of the caller's.

### EvidenceCollection and CompatibilityGate

A file is known by its version; four stand for the tracked files the session tells apart:
the collector itself, the evidence registry, the matrix and the tests with their sources.
`trees` are the commits, `work` the working directory. A snapshot is two steps (`ReadHead`,
`ReadTree`), as its git commands are separate processes, and is taken six times: by the
parent at the start, after the child and at the end, by the child before and after its work.
Between them the session reads and re-reads the manifests, copies the committed files one by
one (`CopyFile`), evaluates the projects and hashes the inputs (`MakePlan`), starts the child
from the repository's collector file (`LaunchChild`), and runs one project after the other.
A project is two steps: `dotnet test` ends with an exit code and leaves its report and records
(`RunTests`), and then, when its output has been written to the session, the child parses what
is there by that time (`ParseProject`). The parent parses every artifact again (`Reparse`) and
seals (`Seal`). A child that runs another version of the collector may skip its checks and
misreport; the parent then still has its own. Every check is a guard, and `Refuse` is every
way a session ends without a result. `Stray` is a process left behind by a test, altering
reports or the copy at any moment from the end of its tests on. `ran` records what each test
really came to, and `spoiled` the projects whose artifacts such a process rewrote before they
were parsed for the first time (`trusted_collector.py:998-1037`): the code has nothing to tell
that by, and `SealedAsRun` says of those projects only that a pass had their exit code.

The gate loads the matrix and the evidence, issues a receipt that both were files of the
commit, inspects the upstream clone (once before the session and three times for the report:
its identity, the inventory, the symbols), takes results from a session, from files, or from
nowhere (the two latter have no authority), and computes its verdict three times: for the
report, the console and the exit code. Each time it looks at the repository again, one read
after the other in the order of `Reads`: the tree of the commit, the manifests against it,
each manifest as it is loaded, the tree again, the tests, and the manifests against a third
listing. A look is a step per read (`Look`), so the user can edit, commit or check out between
any two of them and between the last one and the verdict (`WriteReport`, `PrintSummary`,
`Exit`). The load at the beginning (`Loaded`) is the last part of the same look.
`past` is a history of what there was to see since the look for the next verdict began, which
`Watch` extends by each move of the user.

`PassIsEarned` therefore does not say that the repository is good at the moment a verdict is
given. It says what the look must have seen: each manifest in memory on disk, the commit's
version of it on disk, and the tests the registry names, all since that look began; of one
moment, if the repository changed at most once meanwhile. That the clone was at the pin is
what the three inspections found (`pin`), and is part of it.

### ScopeIntegration

The registries are three sets: decided symbols, classes of symbols, and symbols with
evidence. A command loads them in three steps, aligns them, plans, and - for `apply-safe-scope`
that writes - checks the commit twice and replaces decisions and matrix, each by a temporary
file and a move (`WriteTemp`, `Replace`). Every write may fail (`FailWrite`), every command may
die (`Die`). The user prepares evidence, promotes a symbol, commits and restores.

The code has no lock, so the properties except exactly the windows in which the user or
another command can come between. `since` records which commands have not checked since the
user's last change. `disturbed` records which have not checked since a writer that was itself
overtaken by the user replaced a file: such a writer puts decisions beside a matrix they were
not planned for, and a third command that loads the two files around it sees a pair that was
never whole. `unsaved` says that the disk holds work of the user's that no commit holds.

### ReferenceSteps, the generators and ReferencePipeline

A generator is a straight-line program: it loads files, compares what it loaded, or what the
file says now, with a value pinned in its source, runs the loaded code, compares the facts it
recorded, and writes one oracle. A function of a generator that reads, checks, runs or writes
is a definition, a sequence of such steps in the order of the code, with the functions it calls
in the place of the calls - by name, or written out when they are a step or two; loops over files of one unit are one step. The bytes belong
to units (the target source, the other upstream sources, packages, interpreter, inventory,
IDD, reviewed C# sources, siblings, fixtures). One behaviour follows one unit, the *subject*:
edits of another could only make more checks fail, and a property about two units is about
their siblings' chain, which is a unit itself. What may stand in a file is what the checks can
tell apart: a comment changes the bytes and not the behaviour, a quirk passes the checks
written in code and not the pinned facts, a leak differs in what it prints of addresses, a
change is refused by every check; an inventory may be laid out anew, edited, generated anew or
retargeted.

`ReferencePipeline` is the command: it renews or refuses what is not pinned (`Begins`,
`IsRefused`: the reference tests run first and may refuse anything unreviewed), empties the
output, runs the generators in the order of the script, and leaves the output, compares it with
the baseline, or empties the baseline and refills it item by item. The mutex of the script
keeps a second command out. The developer edits the subject at any step that reads it, kills
the command, and restores the baseline. `-WhatIf` and downloads are left out; an update cannot
be combined with a verification, as the script refuses both switches.

The properties are about stale state and reproducibility. The digest of a source names its
bytes; of the packages and the interpreter the code compares version strings
(`importlib.metadata.version`), so a file patched under the same version (`SameVersion`) runs
and passes, and `NamedBytesRan` claims the version. `NamedBytesRan` leaves out the
seventeen pairs of `CheckedOnlyBefore`, where the code compares a file before it loads it and
never afterwards, so that one edit in between is not noticed; `FactsAreReviewed` leaves out the
generators that pin no facts (`UnpinnedFacts`). Both sets are as small as TLC allows: without
any member the properties fail. `BaselineHoldsTogether` leaves out five oracles right after an
update (`NamedByOracleOnly`, below), and then also oracles with unpinned facts when the files
of an installed version were patched (`LeftBehind`).

`ReferenceDiscipline` reads a program instead of running it: which load is compared later, in
the copy or as what the process holds (`LoadsAreCompared`), which observation is compared as a
fact or copied from one that is (`FactsAreCompared`), which programs refuse which version of
a file (`Refuses`). `ReferencePipeline` ends with the five statements the proofs take from the
plans and the programs (`PlansAssumption`, `ProgramsAssumption`, `LoadsAssumption`,
`FactsAssumption`, `FixturesAssumption`), for every generator and every unit; TLC evaluates them
of the programs as they are before run `references` explores a state.

## Runs

| Run | Instance | What it shows |
|---|---|---|
| `bootstrap` | 2 processes, 2 calls, every initial target, 2 faults, 1 crash, 1 intruder | the safety, refinement and liveness properties of the bootstrapper |
| `batch_shared` | 2 runs, 2 cases, 1 worker each, 1 damaged entry | the cache between runs; every run ends |
| `batch_whole` | 1 run, 3 cases, 3 workers, 1 fault, 2 weathers, 1 edit | counters, final results, refinement of the board |
| `run_alone` | 1 run, timer, helpers, kills that fail or throw, 2 faults | `VerdictEarned`, `NothingLeftRunning`, `RunsEnd`: the verdict, no process left unless the killing threw, the ending of cancelled and timed runs |
| `run_directories` | 2 runs, 2 identifiers, 2 attempts, 1 fault | `DirectoriesSound`, `MarkersAccountedFor`: directories kept apart and accounted for |
| `component_safety` | 2 keys, 2 presses, 1 edit, 1 fault | `ShownForTheseInputs`, `OnePressOneRun`, `SavedWhenSaid`: what is shown, started and saved |
| `component_liveness` | 1 key, 1 press, bad path, 1 removal, 1 fault | `DisplaySound`, `Settles`: display, cancel and gate with removal |
| `schedules` | 3 dates, 2 steps, 5 kinds of day, 4 schedules, 2 operations | operations are pointwise, exports read back, windows agree |
| `weather` | 2 processes, one may freeze, 2 calls, every initial cache and archive, 1 fault, 1 crash, 1 damage | what was handed out stays, nothing is littered, calls end |
| `evidence` | 2 assertions in 2 projects, 2 moves of the user, 1 stray write, a matrix version that is undecided | `SealedSound`, `SealedAsRun`, `PassIsEarned`, `GateEnds`, with a move between any two reads of the gate and a stray write before or after the first parse; 1.5 million states |
| `scope` | 2 commands, 3 symbols, 3 edits, 1 death | `WholePairsOnly`, `NoEditLost`, `RerunIsStable` |
| `references` | every generator alone with each unit it touches, and a chain of four oracles updated and then verified; 2 edits, 1 kill | `NamedBytesRan`, `FactsAreReviewed`, `BaselineHoldsTogether` |

**Bounds.** Two processes or runs suffice for every conflict on a lock, a marker, a cache
entry or a displaced directory; a third would only repeat the second's part. Two calls
are the least at which one can harm what an earlier one reported; two faults the least at
which a promotion and its rollback both fail. A third worker on three cases
may find none, and a fast one takes two. Two identifiers make two runs collide and let one draw again. Two
keys tell the inputs of a task from those connected when it ends, and two presses let a
result meet a later run. Three dates give a schedule a middle period that another one cuts,
two kinds of weekday and weekend an overridden one beside one that is not, and two
operations a schedule whose overrides come from both operands and is operated on again.
Two moves of the user are an edit and its undoing, or an edit and its commit, between two
checks of the session or two reads of one look; a project that was tested before another one lets a left-over process write while the
second runs. Three edits are evidence, promotion and commit of a symbol between the steps of
an integration; two commands are a reader between two replacements, or two integrations at once.
Two edits of a file are one that passes unnoticed and one that hides it; the chain has a
generator that loads a sibling, one that pins an oracle of the old baseline, and the manifest.
All counters of environment events (`MaxCalls`, `MaxFaults`,
`MaxCrashes`, `MaxIntrusions`, `MaxEdits`, `MaxCorruptions`, `MaxPresses`, `MaxRemovals`,
`MaxAttempts`, `MaxDamages`, `MaxOperations`, `MaxMoves`, `MaxStrays`, `MaxKills`) are bounds of the model and guards of the environment's actions only,
except `MaxAttempts`, which is the code's constant 20.

**Stopping.** `CHECK_DEADLOCK FALSE` is set for the bootstrapper, the batch and the weather pack, which have
nothing to do once their calls are used up, and for the schedules, on which nobody has to
operate again; for the gate, the tracker commands and the pipeline, which end. A finished `EnergyPlusRun` stutters by `Ended`;
the component can always be solved again.

**Fairness.** *RuntimeBootstrap*: the steps of a call are fair, the transfer (which has no
timeout) is not. *BatchRunner*: workers and runs are fair; an execution ends, since the
executor has a timeout. *EnergyPlusRun*: the code's own steps, the timer and the death of
a killed child; nothing says that a child ends by itself, so the liveness properties speak
of cancelled and timed runs, and except a run that is held up for ever by a process that
could not be killed or by a descendant that keeps its output open. *RunComponent*: the UI
thread finishes its solutions; hand-overs and callbacks are strongly fair, since the UI
thread serves its queue in order however often the user interrupts; stages end, except
that a simulation need not end until its token is cancelled - that it does then is what
`RunsEnd` and `CallsEnd` show of the parts below.
*WeatherPack*: the steps of one process are fair, and the deadline of its wait passes; the
other may freeze with the lock in its hands. *CompatibilityGate*: the steps of the gate and
of its session are fair, since every command they start ends by itself or at a timeout; the
user and left-over processes owe nothing. *ScopeIntegration*, *ReferencePipeline* and
*ScheduleAlgebra*: safety only, no fairness.

## Observations

What the models show of the code that a reader may not expect. The first four are
behaviours of the models, and no property claims otherwise.

- *A kill that throws leaves the run early.* `Process.Kill(entireProcessTree: true)`
  (`ProcessExecution.cs:255`, the .NET 8 build) reports a tree it could only partly end by an
  `AggregateException`. Neither clause there catches it; the executor leaves without waiting
  for the exit or the output, and `EnergyPlusRunner.cs:258` makes of a cancelled or timed-out
  run a `Failed` one, `RUN_INTERNAL_ERROR`, with a process possibly alive in the directory it
  then cleans up. It is the one exception of `NothingLeftRunning`.
- *Preparations need not converge.* The first look at the target (`EnergyPlusRuntimeBootstrapper.cs:87`)
  follows a resolution that may be stale by the time its result is judged (line 111), so a
  caller that overlaps the promotion of another can be told that the target is an invalid
  runtime although a valid one has just been installed. The concurrent test
  (`RuntimeBootstrapperTests.cs:195`) expects both callers to succeed.
- *A success is not always reused.* Only the last outcome is looked at
  (`RunSimpleDragonComponent.cs:840`): a cancelled save replaces the success it was to save, and
  the next run simulates again, where the guide (`02-in-out-reference.md:2474`) speaks of the
  last success.
- *A failure outlives its cause.* The executor's `Lazy<IddSchema>`
  (`SimpleDragonSimulation.cs:353`) keeps the exception of a failed load, so that runs fail
  until the component is made anew.
- *A pass is a matter of the past.* The verdict of the gate is given after its last read, and
  the reads of one look are of different moments. With two changes within one look - a manifest
  replaced and put back around one of its reads - a verdict may pass although the manifests in memory were
  not the commit's at any single moment; with one change it may not (`SeenInCommit`). The
  report holds, beside the verdict, a line on the coverage of the registry, for which the
  repository is looked at once more (`exact_registry_coverage`); the two may differ. That
  line is left out of the model.
- *Reports rewritten before the first parse are believed.* Between the end of `dotnet test` and
  the child's first look at the report and the records, the code writes the output of the
  tests (`trusted_collector.py:998-1037`). A process that outlives its tests may rewrite both
  there, and what it wrote is sealed; only the exit code is the tests' own.
- *The hash of the tests is the registry's.* The sealed result carries the test hash its
  receipts name (`trusted_collector.py:2902`); that these are the tests of the commit is what
  the gate checked when it loaded the registry, and `PassIsEarned` holds because the loads
  after the session check it again.
- *The weather file of a batch is hashed before the workers start and read again by each
  execution* (`BatchRunner.cs:241`): an edit in between caches metrics under the key of other
  weather.
- *The two output files of a batch are replaced one after the other* (`BatchRunner.cs:70`), and
  concurrent runs with one fingerprint may leave the table of one beside the manifest of the
  other.
- *The IDD cache is written in place* (`IddSchemaCache.cs:26`), without a lock; a reader that
  meets part of a file treats it as none. Not modelled.
- *An update of the baseline pins the old baseline.* A generator that names a sibling's oracle
  reads it in the tracked baseline, not in the output of the same command. An undisturbed
  update leaves oracles that agree all the same (`BaselineHoldsTogether`), with five
  exceptions; after one during which a file was edited a verification has to tell.
- *Five oracles are named by what they say alone* (`NamedByOracleOnly`). When the script that
  writes the named oracle was edited before an update, so that it says something else, no
  generator of that command notices: the name is compared with the old oracle, and the new
  one is put beside it. The verification that follows refuses the baseline. The supply core
  (`generate_dragon_hvac_supply_core_oracle.py:567`) names three such, the miscellaneous
  systems the photovoltaic one, the IDF objects the small reference.
- *One overtaken writer disturbs the others.* With four commands and four edits a reader can
  load a pair of registries that was never on disk together although the user did nothing
  since it began: a writer whose check the user overtook finishes in between (`disturbed`).
- *Seventeen pairs of generator and file* (`CheckedOnlyBefore`) leave a moment between the
  comparison and the load in which one edit is not noticed. One is the `model.py` of the
  numeric constants: its hash is compared
  (`generate_epsimple_constants_numeric_oracle.py:693`), it is read again (695), a method of it
  is run (745), and the oracle names the hash as its observation dependency (985).
- *An installed version is a string.* A package or interpreter patched without a new version
  passes every comparison and shows in the facts alone. For the nineteen generators that pin
  none, and for the IDD schema under another interpreter, it shows in the oracle.

## Proofs

All theorems hold for every value of the constants that satisfies the named assumption of
the module (`BootstrapAssumption`, `BatchAssumption`, `RunAssumption`, `ComponentAssumption`,
`WeatherAssumption`, `ScheduleAssumption`, `CollectionAssumption`, `GateAssumption`,
`ScopeAssumption`, and those of the pipeline above) and of `OperandAssumption` for the caller's
schedules: any number of processes, calls, faults, runs, cases, workers, files, plans,
commands, symbols, assertions, dates, steps, kinds of day and schedules. The assumptions say that numbers are
numbers, that the values standing for "none" are none of the others, and what a policy file
guarantees (a test belongs to a project, the baseline decisions are part of the reviewed ones).

`RuntimeBootstrapProofs`
- `TypeCorrect`: `TypeOK`, which is inductive since it says that a call in its finally block
  knows its result.
- `LockSerialises`: `LockDiscipline`, inductive with the type: exactly the process between
  acquiring and returning holds the lock, others own no private paths, and what a promoter
  verifies, rolls back or discards at the target is its own candidate.
- `SuccessIsDurable`: `SuccessDurable` is not inductive; `PromotesOverInvalid` strengthens it
  by what a call that passed the second check knows until it returns.
- `ConsentIsRespected`, `ForeignIsNeverLost`: action properties from the two invariants; two
  lemmas say which actions change the target and a displaced directory.
- `OnlyRightfulFilesStay`: what is left beside the target was there before. `NoOwnRemnant`
  strengthens it: without faults and crashes no remnant is at the target or set aside that
  was not there in the beginning.
- `InstallationsSurvive`: two faults do not take an installed runtime away. `Surviving` counts
  them: one to mistake the runtime under the lock, a second to fail after it was set aside, a
  third not to move it back.
- `BootstrapImplementsSlot`: every step is a step or a stutter of `RuntimeSlot`, action by
  action.

`BatchRunnerProofs`
- `TypeCorrect`: the types of files, runs, workers.
- `ResultsAreFinal`: the inductive invariant `Claims` says that a claimed case is below the
  counter, is held by one worker, and has no result; so no report overwrites one.
- `OnlySuccessesAreCached`: an entry's writer reports the case from the moment of publication
  until, and after, the result is stored.
- `HitsAreRepeats`: a cached result has an `Origin`, another run with the same key that
  executed the case. `ComingHits` and `StoredHits` carry it from the read of the entry to the
  stored result, and no step takes an origin away (`OriginStays`).
- `TalliesAreCorrect`: the counters are cardinalities (`Counted`): of the cases with a status,
  of the hits, of the busy workers. Each step adds one element to such a set, takes one away
  or leaves it, so the proof rests on the library's theorems on finite sets.
- `BatchImplementsBoard`: from `Claims`, each report fills an empty slot and the final sweep
  fills slots only in a cancelled run.

`EnergyPlusRunProofs`, on one inductive invariant
- `VerdictsAreEarned`: `Earned` remembers where a cancelled or timed-out result comes from and
  what a run has behind it when it judges: a report "zero" of each stage, and its results read.
- `NothingOutlivesItsRun`: `Watched` says that a process is alive only while the executor
  watches it or after its killing threw; the terminal states come after. `Unreported` says
  that the executor has reported nothing of a process it is not done with, and kills only for
  a cancellation: that is how a run whose killing threw is told from any other.
- `DirectoriesAreKept`, `NoMarkerIsLost`: `Searching` says that a run has no directory before
  its search ends, and `MarkersSound` that a marker belongs to the run that has the directory
  and is gone when that is removed. Without the former, a run that draws again could hold two.

`RunComponentProofs`, on one inductive invariant
- `DisplayCorrect`: `DisplaySound`. Its part `DisplayUpToDate` is inductive with the types: a
  step that changes what should be shown ends the conditions under which it must be shown.
- `ResultsMatchInputs`: `ShownForTheseInputs` needs `KeysAgree`: an outcome was computed for
  the key it is filed under, also when a save repeats an earlier one.
- `PressesStartRuns`: `OnePressOneRun` needs `CountsAgree`: a press is ahead, a pulse, or used
  up by a start, and a task asks for at most one solution when it ends.
- `SavesAreSaid`: `SavedWhenSaid` needs `FileSound`: what an ending task is about to claim of
  the file is true already, and no other task can write in between.

`WeatherPackProofs`
- `TypeCorrect`: `TypeOK` is the types (`Typed`) and what goes with the place of a call
  (`Disciplined`): the lock file, the temporary files, the index within the selections. The
  types need the discipline, because the index decides which file a call writes.
- `HandedOutIsKept`: `HandedOutStays` is not inductive. `Knowledge` strengthens it by what the
  holder of the lock knows: the files it resolved are whole unless damaged, the one it
  replaces is not handed out to anybody, and what it puts in place is whole.
- `NothingIsLittered`: `NoLitter`, inductive with the type.

`UpstreamProofs`, on one inductive invariant over the session and the gate
- `SealsAreOfOneTree`: `SealedSound`. The copy grows file by file and is complete before
  anything runs (`CopySound`); what the parent pinned in its first snapshot is compared with
  every later one (`PinnedTyped`, `SealFacts`).
- `SealsAreTrue`: `SealedAsRun`. A file of the copy that is still the one of the snapshot was
  so when each test ran, because the copy is only ever disturbed away from it (`RanSound`).
  What a project left on disk is what its tests came to until a stray write, and what was
  parsed is what was there (`RanAs`, `LeftAs`, `ClaimedAs`): a rewrite after the parse leaves
  the claim as it is, one before it makes the project `spoiled`. Of a child of another version
  the parent's own reading speaks (`BelievedSound`). That the order of files names each of them once (`NextFile`) is a lemma on
  cardinalities.
- `PassesAreEarned`: `PassIsEarned`, for any number of moves between any two reads. Demanded
  evidence counts as executed only from a sealed session whose registry is the one in memory
  (`ExecutionSound`). Of a look the state keeps its place, the tree read last and what was
  loaded; the invariant says which entries of `past` those came from and in which order
  (`LookSound`): each read so far saw an entry not before the one the read before it saw
  (`Chain`, `TestsChain`), the last entry is the present (`PastSound`), and a move of the user
  only appends to it (`LookStaysSound`). A verdict that passes has seen
  all ten reads (`LookHasSeen`), and the entries they saw are the witnesses of `Earned`.

`UpstreamProofs`, on the inductive invariant `PipelineInv` of the pipeline (`PipelineHistory`)
- None of the three properties is inductive: each speaks of a generator that has finished, and
  what it did is no longer in the state. `History` reads it back from the program: whatever the
  process used was loaded by a step already executed (`EveryUseWasLoaded`), whatever its facts
  show was observed by one (`EveryFactWasObserved`), and every comparison between that step and
  the present place has been met - of the file as long as nobody edited it since (`CalmLoads`,
  `CalmFiles`, `CalmFacts`), of the copy, which nobody edits, and of what the process holds, as
  long as nothing was loaded over it (`CopyIsCompared`, `HeldIsCompared`). A step adds one
  place to each (`HistoryStays`); an edit ends the calm and leaves the rest (`HistorySurvivesEdits`).
- `OraclesNameWhatRan`: `NamedBytesRan`. At the end of the program the history meets
  `LoadsAssumption`: the load was compared, later or in the copy or as held.
- `PinnedFactsAreReviewed`: `FactsAreReviewed`, from the history and `FactsAssumption`, for any
  number of edits.
- `BaselineIsConsistent`: `BaselineHoldsTogether`. `CommandInv` says of every generator before
  the running one that its oracle is whole and that it refuses nothing the file says
  (`IsDone`), so by `FixturesAssumption` an oracle that another one names cannot differ;
  `UpdateInv` says what an update has removed and placed so far.

`ScopeIntegrationProofs`, on one inductive invariant
- `PairsAreWhole`: `WholePairsOnly`. A command has loaded one file, then the other; until then
  either the first is unchanged, or it was replaced when the decisions were the policy's
  already (`HalfLoaded`), which holds because a writer moves the decisions first (`HalfWritten`).
- `RerunsAreStable`: `RerunIsStable`: what is planned follows from registries that agree
  (`PlanSound`), and evidence is never taken away (`EvidenceKept`), so the plan of a completed
  integration is what it wrote.
- `EditsAreSafe`: the action property `NoEditLost`: with uncommitted work on disk, every
  command that still writes has not checked since (`UnsavedSound`).

`ScheduleProofs`, about the operators
- `CombinesEveryKind`: a kind of day overridden in both operands, one or neither gets the
  operation on the days they have for it. It rests on the fact that an operation makes a day
  or a refusal, never the absence of an override (`ZipIsDay`).
- `RuleSetExported`, `LegacyExported`, `ModelExported`: every kind of day has an entry, and
  every entry tells what the rule set has for its kinds. The first two share the lemma that
  grouped entries, the holiday and AllOtherDays complete each other, of which the difficult
  case is a holiday without an override (`OthersTell`).

`ScheduleProofs`, about whatever a caller makes of schedules, on the inductive invariant `IInv`:
a schedule is what the constructors let through, dates with one `id` have one rule set, and an
`id` is a date exactly for what an operation made
- `OperationsImplementYear`: `ImplementsYear`, the refinement. The periods of a schedule, and
  the common periods of several, split the year: they cover it without overlap and each has one
  rule set of every schedule (`PeriodsSplit`, `UnifiedSplit`, `UnifiedFinds`; they rest on the
  least-number principle, which the library states for sets). An operation that is not refused
  therefore works date by date, then kind by kind and step by step (`CombinePointwise`,
  `MapDaysPointwise`, `NumberPointwise`, `WherePointwise`), and each action is the action of
  `ScheduleYear` (`CombineRefines` to `OverwriteRefines`).
- `SchedulesAreSound`: `ScheduleSound`. The first "Through" not before a date is that of its
  period (`PeriodRead`), the first "Until" not before a step has its value (`SegmentRead`), and
  no export names a kind of day twice (`RuleSetAlone`, `LegacyAlone`, `ModelAlone`); with the
  three theorems above the exports read back.
- `WindowConstructorsAgree`: the two constructors from windows agree on any number of windows,
  of any dates and schedules, and refuse the same ones. What the windows at some places make of
  a year has a closed form (`LaidYear`), in which the window at the last place decides
  (`OneMoreWindow`), so it satisfies the equation the fold is defined by; that the fold is this
  year for the first k windows is shown by the least k for which it would not be (`FoldedYear`).

`LockDiscipline` and `ResultsFinal` are proved and no run lists them: they are what the other
proofs stand on.

**What the proofs corrected.** Four statements that TLC had accepted on the runs' instances
are false on larger ones; the attempt to prove them showed where, TLC confirmed each with a
counterexample, and the models now say what is true for all values.
- `NoEditLost` with three commands: one command may put back the committed registries over
  the user's, after which nothing is unsaved; `unsaved` did not notice.
- `WholePairsOnly` with four commands and four edits: the window that `disturbed` now names.
- `OnlyCallerFilesStay` when the target holds an old remnant to begin with: that one may be
  set aside and stay, like a directory of somebody's.
- `BaselineHoldsTogether` when the script of a named oracle is edited before an update: the
  five pairs of `NamedByOracleOnly`. One of them is now a plan of run `references`.

**Only model-checked.** Liveness (`CallsEnd`, `RunEnds`, `RunsEnd`, `Settles`, `ResolveEnds`,
`GateEnds`): the prover handles neither fairness nor `ENABLED`. Every other property of every
run is a theorem. The assumptions on the programs of the generators are evaluated, not proved:
they are statements about some sixty concrete sequences, each of which TLC reads once.

## Not modelled

Contents of files, hashes and formats, command lines, messages and diagnostics; validation
of arguments that precedes any state. Of the reference generators, the construction of the
cases and the facts they record: an observation is the behaviour of the units it ran. Of the
collector, the shape of manifests, reports and records beyond what a test came to. Components
listed in `PROJECT.json` as not modelled are immutable values and pure translations, tools
that read and print, or wait in the plan below.

## Plan

1. Bootstrapper, batch runner, runner, run component, weather pack, schedules, evidence
   collection and gate, scope integration, reference generators and pipeline: modelled and
   checked; every safety property and every refinement is proved.
2. The IDD cache.
3. The tracker's comparison of two inventories as an operator against a reference definition.
4. The two sibling components (Run InvisibleDragon, batch) as instances of the same
   mechanism.
5. Pure algorithms as operators against reference definitions: ordered maps and identifiers,
   surface adjacency, IDF assembly and validation, plant loops, GRM references, conversion,
   aggregation of results; lemmas about their operators.
