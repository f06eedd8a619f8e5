---------------------------- MODULE BatchRunner -----------------------------
(***************************************************************************)
(* SimpleDragon's batch: BatchRunner.RunAsync executes an ordered list of  *)
(* model alternatives on a few worker tasks.  The workers take the next    *)
(* case from a shared counter, look for it in a cache on disk, execute it  *)
(* otherwise, and publish a success in the cache.  When they have all      *)
(* ended, the cases nobody took are reported as cancelled and a combined   *)
(* table and a manifest are written to a directory named after the run's   *)
(* fingerprint.                                                            *)
(*                                                                         *)
(* Several runs of the same batch (two Grasshopper components, two Rhino   *)
(* processes, a rerun) share the cache and, when their fingerprints agree, *)
(* the output directory.  A fingerprint and a cache key differ between     *)
(* runs only in the hash of the weather file, taken by Prepare; the        *)
(* executor opens that file again, later.  A file is written under a       *)
(* private name and then moved to its place, or exchanged with the file    *)
(* that was seen there; the exchange fails while somebody reads that file. *)
(***************************************************************************)
EXTENDS Integers, FiniteSets

CONSTANTS
    Runs,           \* calls of RunAsync
    NoRun,          \* no run
    NumCases,       \* cases in the batch
    Parallelism,    \* MaxDegreeOfParallelism
    Weathers,       \* contents the weather file may have
    NoWeather,      \* no metrics
    UseCache,       \* BatchRunOptions.UseCache
    WriteOutputs,   \* BatchRunOptions.WriteOutputs
    MaxEdits,       \* bound on changes of the weather file
    MaxFaults,      \* bound on file operations that fail
    MaxCorruptions  \* bound on cache entries damaged by others

ASSUME BatchAssumption ==
    /\ NoRun \notin Runs
    /\ NumCases \in Nat
    /\ Parallelism \in Nat \ {0}
    /\ NoWeather \notin Weathers
    /\ UseCache \in BOOLEAN /\ WriteOutputs \in BOOLEAN
    /\ MaxEdits \in Nat /\ MaxFaults \in Nat /\ MaxCorruptions \in Nat

Cases == 0..(NumCases - 1)
NoCase == NumCases

(* Math.Min(MaxDegreeOfParallelism, Math.Max(1, prepared.Length))          *)
WorkerCount ==
    LET wanted == IF NumCases = 0 THEN 1 ELSE NumCases
    IN  IF Parallelism < wanted THEN Parallelism ELSE wanted
Workers == Runs \X (1..WorkerCount)
RunOf(w) == w[1]

Statuses == {"Succeeded", "Failed", "Cancelled"}

(* A case's result: hit tells a cached one, warned one whose cache write   *)
(* failed, basis the weather its metrics were computed from.               *)
Verdict == [status : Statuses \cup {"none"}, hit : BOOLEAN, warned : BOOLEAN,
            basis : Weathers \cup {NoWeather}]
Result(s, hit, warned, b) ==
    [status |-> s, hit |-> hit, warned |-> warned, basis |-> b]
Blank(s) == Result(s, FALSE, FALSE, NoWeather)
NoVerdict == Blank("none")
Empty(v) == v.status = "none"
Success(b) == Result("Succeeded", FALSE, FALSE, b)
Hit(b) == Result("Succeeded", TRUE, FALSE, b)
Warned(v) == Result(v.status, v.hit, TRUE, v.basis)

(* Files of the cache and of the output directories.                       *)
EntryPaths == [type : {"entry"}, case : Cases, hash : Weathers]
OutputPaths == [type : {"csv", "manifest"}, case : {NoCase}, hash : Weathers]
Paths == EntryPaths \cup OutputPaths
Entry(c, h) == [type |-> "entry", case |-> c, hash |-> h]
Output(t, h) == [type |-> t, case |-> NoCase, hash |-> h]

(* A file is whole and was written by a run, or it was damaged: "garbage"  *)
(* does not parse, "misfit" parses but holds a number that does not fit.   *)
FileKinds == {"none", "whole", "garbage", "misfit"}
FileStates == [kind : FileKinds, run : Runs \cup {NoRun},
               basis : Weathers \cup {NoWeather}]
Without(k) == [kind |-> k, run |-> NoRun, basis |-> NoWeather]
NoFile == Without("none")
Whole(r, b) == [kind |-> "whole", run |-> r, basis |-> b]

VARIABLES
    weather,    \* content of the weather file
    files,      \* what is at each path
    phase,      \* where each RunAsync stands
    step,       \* within the writing of one output file
    hash,       \* the weather each run's keys were computed from
    cancelled,  \* the run's token
    nextCase,   \* index of the next case to take
    results,    \* results[r][c], "none" where the array holds null
    tally,      \* the ProgressTracker's counters
    pc,         \* where each worker stands
    held,       \* the case a worker is at
    verdict,    \* the result a worker is about to store
    edits, faults, corruptions

vars == <<weather, files, phase, step, hash, cancelled, nextCase, results,
          tally, pc, held, verdict, edits, faults, corruptions>>

budgets == <<edits, faults, corruptions>>
board == <<phase, step, hash, nextCase, results, tally>>

Counters == {"started", "completed", "hits", "active"} \cup Statuses
Tally == [Counters -> Nat]

Busy == {"look", "reading", "execute", "executing", "write", "replace",
         "move", "report"}
WorkerSteps == Busy \cup {"loop", "claimed", "left", "faulted"}

OutputPhases == {"csv", "manifest"}
Phases == {"new", "running", "done", "threw"} \cup OutputPhases

Init ==
    /\ weather \in Weathers
    /\ files = [p \in Paths |-> NoFile]
    /\ phase = [r \in Runs |-> "new"]
    /\ step = [r \in Runs |-> "probe"]
    /\ hash = [r \in Runs |-> NoWeather]
    /\ cancelled = [r \in Runs |-> FALSE]
    /\ nextCase = [r \in Runs |-> 0]
    /\ results = [r \in Runs |-> [c \in Cases |-> NoVerdict]]
    /\ tally = [r \in Runs |-> [k \in Counters |-> 0]]
    /\ pc = [w \in Workers |-> "loop"]
    /\ held = [w \in Workers |-> NoCase]
    /\ verdict = [w \in Workers |-> NoVerdict]
    /\ edits = 0 /\ faults = 0 /\ corruptions = 0

Fault == faults < MaxFaults /\ faults' = faults + 1
NoFault == UNCHANGED faults

-----------------------------------------------------------------------------
(* The shared files.                                                       *)

Present(p) == files[p].kind # "none"

(* File.ReadAllText opens a cache entry without letting others delete it.  *)
BeingRead(p) == \E w \in Workers :
    pc[w] = "reading" /\ p = Entry(held[w], hash[RunOf(w)])

(* File.Move finds the place taken: the file that is there stays.          *)
MoveTo(p, f) == files' = IF Present(p) THEN files ELSE [files EXCEPT ![p] = f]

(* File.Replace needs the old file to itself.                              *)
ReplaceWith(p, f) == ~BeingRead(p) /\ files' = [files EXCEPT ![p] = f]

-----------------------------------------------------------------------------
(* The environment.                                                        *)

(* Somebody saves other content to the weather file.                       *)
EditWeather ==
    /\ edits < MaxEdits
    /\ edits' = edits + 1
    /\ \E w \in Weathers : w # weather /\ weather' = w
    /\ UNCHANGED <<files, board, cancelled, pc, held, verdict, faults,
                   corruptions>>

(* A cache entry is damaged; nobody holds it open.                         *)
DamageEntry(p) ==
    /\ corruptions < MaxCorruptions
    /\ corruptions' = corruptions + 1
    /\ files[p].kind = "whole" /\ ~BeingRead(p)
    /\ \E k \in {"garbage", "misfit"} :
           files' = [files EXCEPT ![p] = Without(k)]
    /\ UNCHANGED <<weather, board, cancelled, pc, held, verdict, edits, faults>>

(* The caller cancels; the token stays cancelled.                          *)
Cancel(r) ==
    /\ ~cancelled[r] /\ phase[r] \notin {"done", "threw"}
    /\ cancelled' = [cancelled EXCEPT ![r] = TRUE]
    /\ UNCHANGED <<weather, files, board, pc, held, verdict, budgets>>

-----------------------------------------------------------------------------
(* The counters, changed under the tracker's lock.                         *)

CountStart(t) ==
    [k \in Counters |-> IF k \in {"started", "active"} THEN t[k] + 1 ELSE t[k]]

CountEnd(t, v) ==
    LET up == {"completed", v.status} \cup (IF v.hit THEN {"hits"} ELSE {})
    IN  [k \in Counters |->
            IF k \in up THEN t[k] + 1
            ELSE IF k = "active" /\ t[k] > 0 THEN t[k] - 1 ELSE t[k]]

-----------------------------------------------------------------------------
(* A run begins: the cases get their keys, the workers are started.  The   *)
(* code hashes the weather file for one case after the other; the model    *)
(* takes these hashes together.                                            *)

Prepare(r) ==
    /\ phase[r] = "new"
    /\ phase' = [phase EXCEPT ![r] = "running"]
    /\ hash' = [hash EXCEPT ![r] = weather]
    /\ UNCHANGED <<weather, files, step, cancelled, nextCase, results, tally,
                   pc, held, verdict, budgets>>

-----------------------------------------------------------------------------
(* The workers.                                                            *)

Running(w, at) == phase[RunOf(w)] = "running" /\ pc[w] = at
Goto(w, at) == pc' = [pc EXCEPT ![w] = at]

(* The worker has its case's result.                                       *)
Conclude(w, v) ==
    /\ Goto(w, "report")
    /\ verdict' = [verdict EXCEPT ![w] = v]

(* Mutant: index > prepared.Length ends the loop.                          *)
ClaimPastEnd(w) ==
    /\ Running(w, "loop") /\ ~cancelled[RunOf(w)]
    /\ nextCase[RunOf(w)] <= NumCases
    /\ nextCase' = [nextCase EXCEPT ![RunOf(w)] = @ + 1]
    /\ held' = [held EXCEPT ![w] = nextCase[RunOf(w)]]
    /\ Goto(w, "claimed")
    /\ UNCHANGED <<weather, files, phase, step, hash, cancelled, results, tally,
                   verdict, budgets>>

(* Interlocked.Increment hands out an index.                               *)
Claim(w) ==
    /\ Running(w, "loop") /\ ~cancelled[RunOf(w)]
    /\ nextCase[RunOf(w)] < NumCases
    /\ nextCase' = [nextCase EXCEPT ![RunOf(w)] = @ + 1]
    /\ held' = [held EXCEPT ![w] = nextCase[RunOf(w)]]
    /\ Goto(w, "claimed")
    /\ UNCHANGED <<weather, files, phase, step, hash, cancelled, results, tally,
                   verdict, budgets>>

(* Mutant: the loop does not look at the token and claims nothing more.    *)
LeaveAtEndOnly(w) ==
    /\ Running(w, "loop") /\ ~cancelled[RunOf(w)]
    /\ nextCase[RunOf(w)] >= NumCases
    /\ nextCase' = [nextCase EXCEPT ![RunOf(w)] = @ + 1]
    /\ Goto(w, "left")
    /\ UNCHANGED <<weather, files, phase, step, hash, cancelled, results, tally,
                   held, verdict, budgets>>

(* The token is cancelled, or the index handed out is past the end.        *)
Leave(w) ==
    /\ Running(w, "loop")
    /\ \/ cancelled[RunOf(w)] /\ UNCHANGED nextCase
       \/ /\ ~cancelled[RunOf(w)] /\ nextCase[RunOf(w)] >= NumCases
          /\ nextCase' = [nextCase EXCEPT ![RunOf(w)] = @ + 1]
    /\ Goto(w, "left")
    /\ UNCHANGED <<weather, files, phase, step, hash, cancelled, results, tally,
                   held, verdict, budgets>>

(* tracker.Started                                                         *)
Start(w) ==
    /\ Running(w, "claimed")
    /\ tally' = [tally EXCEPT ![RunOf(w)] = CountStart(@)]
    /\ Goto(w, "look")
    /\ UNCHANGED <<weather, files, phase, step, hash, cancelled, nextCase, results,
                   held, verdict, budgets>>

(* RunCaseAsync: a cancelled token, an absent entry, or an entry to read.  *)
Look(w) ==
    /\ Running(w, "look")
    /\ \/ cancelled[RunOf(w)] /\ Conclude(w, Blank("Cancelled"))
       \/ /\ ~cancelled[RunOf(w)]
          /\ Goto(w, IF UseCache /\ Present(Entry(held[w], hash[RunOf(w)]))
                     THEN "reading" ELSE "execute")
          /\ UNCHANGED verdict
    /\ UNCHANGED <<weather, files, board, cancelled, held, budgets>>

(* Mutant: what is at the entry's place is used as it is.                  *)
ReadUnvalidated(w) ==
    LET f == files[Entry(held[w], hash[RunOf(w)])]
    IN  /\ Running(w, "reading")
        /\ \/ NoFault /\ Conclude(w, Hit(f.basis))
           \/ Fault /\ Goto(w, "execute") /\ UNCHANGED verdict
        /\ UNCHANGED <<weather, files, board, cancelled, held, edits,
                       corruptions>>

(* BatchCache.TryRead: a whole entry is a hit; one that cannot be read or  *)
(* does not parse is a miss; a number out of range escapes the catch       *)
(* clause, and the worker task ends with the exception.                    *)
Read(w) ==
    LET f == files[Entry(held[w], hash[RunOf(w)])]
    IN  /\ Running(w, "reading")
        /\ \/ /\ f.kind = "whole" /\ NoFault
              /\ Conclude(w, Hit(f.basis))
           \/ /\ f.kind = "garbage" /\ NoFault
              /\ Goto(w, "execute") /\ UNCHANGED verdict
           \/ /\ f.kind = "misfit" /\ NoFault
              /\ Goto(w, "faulted") /\ UNCHANGED verdict
           \/ Fault /\ Goto(w, "execute") /\ UNCHANGED verdict
        /\ UNCHANGED <<weather, files, board, cancelled, held, edits,
                       corruptions>>

(* The executor is called; it opens the weather file itself.               *)
BeginExecution(w) ==
    /\ Running(w, "execute")
    /\ \/ cancelled[RunOf(w)] /\ Conclude(w, Blank("Cancelled"))
       \/ /\ ~cancelled[RunOf(w)]
          /\ Goto(w, "executing")
          /\ verdict' = [verdict EXCEPT ![w] = Success(weather)]
    /\ UNCHANGED <<weather, files, board, cancelled, held, budgets>>

(* The executor returns or throws.  A cancelled token overrides what it    *)
(* returned, but not an exception of its own.                              *)
EndExecution(w) ==
    /\ Running(w, "executing")
    /\ \/ Conclude(w, Blank("Failed"))
       \/ cancelled[RunOf(w)] /\ Conclude(w, Blank("Cancelled"))
       \/ /\ ~cancelled[RunOf(w)]
          /\ Goto(w, IF UseCache THEN "write" ELSE "report")
          /\ UNCHANGED verdict
    /\ UNCHANGED <<weather, files, board, cancelled, held, budgets>>

(* The entry could not be written: the success is kept, with a warning.    *)
Warn(w) == Conclude(w, Warned(verdict[w]))

(* BatchCache.Write up to File.Exists.  The token is looked at on both     *)
(* sides of the writing of the private file.                               *)
WritePrivate(w) ==
    /\ Running(w, "write")
    /\ \/ NoFault /\ cancelled[RunOf(w)] /\ Conclude(w, Blank("Cancelled"))
       \/ /\ NoFault /\ ~cancelled[RunOf(w)]
          /\ Goto(w, IF Present(Entry(held[w], hash[RunOf(w)]))
                     THEN "replace" ELSE "move")
          /\ UNCHANGED verdict
       \/ Fault /\ Warn(w)
    /\ UNCHANGED <<weather, files, board, cancelled, held, edits, corruptions>>

(* Mutant: the token is looked at once more after the entry is published.  *)
PublishThenCheck(w) ==
    LET p == Entry(held[w], hash[RunOf(w)])
        f == Whole(RunOf(w), verdict[w].basis)
        end == IF cancelled[RunOf(w)] THEN Blank("Cancelled") ELSE verdict[w]
    IN  /\ \/ Running(w, "move") /\ NoFault /\ MoveTo(p, f) /\ Conclude(w, end)
           \/ /\ Running(w, "replace") /\ NoFault
              /\ ReplaceWith(p, f) /\ Conclude(w, end)
           \/ /\ Running(w, "replace") /\ NoFault /\ BeingRead(p)
              /\ UNCHANGED files /\ Warn(w)
           \/ /\ Running(w, "replace") \/ Running(w, "move")
              /\ Fault /\ UNCHANGED files /\ Warn(w)
        /\ UNCHANGED <<weather, board, cancelled, held, edits, corruptions>>

(* The private file takes the entry's place.                               *)
Publish(w) ==
    LET p == Entry(held[w], hash[RunOf(w)])
        f == Whole(RunOf(w), verdict[w].basis)
    IN  /\ \/ /\ Running(w, "move") /\ NoFault
              /\ MoveTo(p, f) /\ Conclude(w, verdict[w])
           \/ /\ Running(w, "replace") /\ NoFault
              /\ ReplaceWith(p, f) /\ Conclude(w, verdict[w])
           \/ /\ Running(w, "replace") /\ NoFault /\ BeingRead(p)
              /\ UNCHANGED files /\ Warn(w)
           \/ /\ Running(w, "replace") \/ Running(w, "move")
              /\ Fault /\ UNCHANGED files /\ Warn(w)
        /\ UNCHANGED <<weather, board, cancelled, held, edits, corruptions>>

(* The result is stored and counted.                                       *)
Complete(w) ==
    LET r == RunOf(w)
    IN  /\ Running(w, "report")
        /\ results' = [results EXCEPT ![r][held[w]] = verdict[w]]
        /\ tally' = [tally EXCEPT ![r] = CountEnd(@, verdict[w])]
        /\ Goto(w, "loop")
        /\ held' = [held EXCEPT ![w] = NoCase]
        /\ verdict' = [verdict EXCEPT ![w] = NoVerdict]
        /\ UNCHANGED <<weather, files, phase, step, hash, cancelled, nextCase,
                       budgets>>

-----------------------------------------------------------------------------
(* The end of a run.                                                       *)

Mine(r) == {w \in Workers : RunOf(w) = r}
Unfilled(r) == {c \in Cases : Empty(results[r][c])}

(* Mutant: the first worker to end ends the run.                           *)
AnyEnded(r) == \E w \in Mine(r) : pc[w] \in {"left", "faulted"}

(* Task.WhenAll                                                            *)
AllEnded(r) == \A w \in Mine(r) : pc[w] \in {"left", "faulted"}

Faulted(r) == \E w \in Mine(r) : pc[w] = "faulted"

(* tracker.Completed for n cancelled cases.                                *)
CountCancelled(t, n) ==
    [k \in Counters |->
        IF k \in {"completed", "Cancelled"} THEN t[k] + n
        ELSE IF k = "active" THEN IF t[k] > n THEN t[k] - n ELSE 0
        ELSE t[k]]

(* Mutant: the cases filled in are not counted.                            *)
GatherUncounted(r) ==
    /\ phase[r] = "running" /\ AllEnded(r) /\ ~Faulted(r)
    /\ results' = [results EXCEPT ![r] = [c \in Cases |->
           IF Empty(@[c]) THEN Blank("Cancelled") ELSE @[c]]]
    /\ phase' = [phase EXCEPT ![r] = IF WriteOutputs THEN "csv" ELSE "done"]
    /\ UNCHANGED <<weather, files, step, hash, cancelled, nextCase, tally, pc,
                   held, verdict, budgets>>

(* All workers have left: the cases nobody took count as cancelled.        *)
Gather(r) ==
    /\ phase[r] = "running" /\ AllEnded(r) /\ ~Faulted(r)
    /\ results' = [results EXCEPT ![r] = [c \in Cases |->
           IF Empty(@[c]) THEN Blank("Cancelled") ELSE @[c]]]
    /\ tally' = [tally EXCEPT
           ![r] = CountCancelled(@, Cardinality(Unfilled(r)))]
    /\ phase' = [phase EXCEPT ![r] = IF WriteOutputs THEN "csv" ELSE "done"]
    /\ UNCHANGED <<weather, files, step, hash, cancelled, nextCase, pc, held,
                   verdict, budgets>>

(* A worker's exception reaches the caller once all workers have ended.    *)
Rethrow(r) ==
    /\ phase[r] = "running" /\ AllEnded(r) /\ Faulted(r)
    /\ phase' = [phase EXCEPT ![r] = "threw"]
    /\ UNCHANGED <<weather, files, step, hash, cancelled, nextCase, results,
                   tally, pc, held, verdict, budgets>>

(* The table is written first, then the manifest.                          *)
After(t) == IF t = "csv" THEN "manifest" ELSE "done"

(* AtomicFile.WriteAllText of an output file up to File.Exists             *)
ProbeOutput(r) ==
    /\ phase[r] \in OutputPhases /\ step[r] = "probe"
    /\ \/ /\ NoFault /\ UNCHANGED phase
          /\ step' = [step EXCEPT ![r] =
                 IF Present(Output(phase[r], hash[r])) THEN "replace"
                 ELSE "move"]
       \/ Fault /\ phase' = [phase EXCEPT ![r] = "threw"] /\ UNCHANGED step
    /\ UNCHANGED <<weather, files, hash, cancelled, nextCase, results, tally,
                   pc, held, verdict, edits, corruptions>>

(* The private file takes the output file's place; an error throws the     *)
(* results away.                                                           *)
PublishOutput(r) ==
    LET p == Output(phase[r], hash[r])
        f == Whole(r, NoWeather)
    IN  /\ phase[r] \in OutputPhases /\ step[r] # "probe"
        /\ \/ /\ NoFault
              /\ IF step[r] = "move" THEN MoveTo(p, f) ELSE ReplaceWith(p, f)
              /\ phase' = [phase EXCEPT ![r] = After(@)]
           \/ /\ Fault /\ UNCHANGED files
              /\ phase' = [phase EXCEPT ![r] = "threw"]
        /\ step' = [step EXCEPT ![r] = "probe"]
        /\ UNCHANGED <<weather, hash, cancelled, nextCase, results, tally, pc,
                       held, verdict, edits, corruptions>>

-----------------------------------------------------------------------------
WorkerStep(w) ==
    \/ Claim(w) \/ Leave(w) \/ Start(w) \/ Look(w) \/ Read(w)
    \/ BeginExecution(w) \/ EndExecution(w)
    \/ WritePrivate(w) \/ Publish(w) \/ Complete(w)

RunStep(r) == Gather(r) \/ Rethrow(r) \/ ProbeOutput(r) \/ PublishOutput(r)

Next ==
    \/ EditWeather
    \/ \E p \in EntryPaths : DamageEntry(p)
    \/ \E r \in Runs : Prepare(r) \/ Cancel(r) \/ RunStep(r)
    \/ \E w \in Workers : WorkerStep(w)

Spec == Init /\ [][Next]_vars

(* The tasks of a run are scheduled, and an execution ends: EnergyPlus has *)
(* a time limit of its own.                                                *)
FairSpec ==
    /\ Spec
    /\ \A w \in Workers : WF_vars(WorkerStep(w))
    /\ \A r \in Runs : WF_vars(RunStep(r))

-----------------------------------------------------------------------------
(* Properties.                                                             *)

FilesTyped ==
    /\ weather \in Weathers
    /\ files \in [Paths -> FileStates]

RunsTyped ==
    /\ phase \in [Runs -> Phases]
    /\ step \in [Runs -> {"probe", "replace", "move"}]
    /\ hash \in [Runs -> Weathers \cup {NoWeather}]
    /\ \A r \in Runs : phase[r] # "new" => hash[r] \in Weathers
    /\ cancelled \in [Runs -> BOOLEAN]
    /\ nextCase \in [Runs -> Nat]
    /\ results \in [Runs -> [Cases -> Verdict]]
    /\ tally \in [Runs -> Tally]

WorkersTyped ==
    /\ pc \in [Workers -> WorkerSteps]
    /\ held \in [Workers -> Cases \cup {NoCase}]
    /\ verdict \in [Workers -> Verdict]
    /\ \A w \in Workers :
           /\ held[w] = NoCase <=> pc[w] \in {"loop", "left"}
           /\ pc[w] = "report" => ~Empty(verdict[w])
           /\ pc[w] \in {"executing", "write", "replace", "move"} =>
                  verdict[w].status = "Succeeded" /\ ~verdict[w].hit

BudgetsTyped == edits \in Nat /\ faults \in Nat /\ corruptions \in Nat

(* Every variable keeps its type; a worker holds a case exactly from the   *)
(* claim to the report, and has a result to report.                        *)
TypeOK == FilesTyped /\ RunsTyped /\ WorkersTyped /\ BudgetsTyped

(* What r has stored or is about to store for c.                           *)
Reports(r, c, s, b) ==
    \/ results[r][c].status = s /\ results[r][c].basis = b
       /\ ~results[r][c].hit
    \/ \E w \in Mine(r) : /\ pc[w] = "report" /\ held[w] = c
                          /\ verdict[w].status = s /\ verdict[w].basis = b
                          /\ ~verdict[w].hit

(* A case's result, once stored, is never overwritten: the workers of a    *)
(* run never take the same case, and the final sweep touches only cases    *)
(* nobody took.                                                            *)
ResultsFinal ==
    [][\A r \in Runs, c \in Cases :
           ~Empty(results[r][c]) => results'[r][c] = results[r][c]]_vars

(* A cache entry belongs to a case its writer reports as succeeded, with   *)
(* the same metrics: cancelled and failed cases are never cached.          *)
CachedBySuccess ==
    \A p \in EntryPaths :
        files[p].kind = "whole" =>
            /\ files[p].run \in Runs /\ hash[files[p].run] = p.hash
            /\ Reports(files[p].run, p.case, "Succeeded", files[p].basis)

(* A cache hit repeats what another run with the same key executed.        *)
HitsHaveAnOrigin ==
    \A r \in Runs, c \in Cases :
        results[r][c].hit =>
            \E q \in Runs \ {r} :
                /\ hash[q] = hash[r]
                /\ Reports(q, c, "Succeeded", results[r][c].basis)

(* The counters progress snapshots are made of agree with the results and  *)
(* with the workers; at the end nothing is active and all is completed.    *)
TallyCorrect ==
    \A r \in Runs :
        LET t == tally[r]
        IN  /\ \A s \in Statuses :
                   t[s] = Cardinality({c \in Cases : results[r][c].status = s})
            /\ t["hits"] = Cardinality({c \in Cases : results[r][c].hit})
            /\ t["completed"] = t["Succeeded"] + t["Failed"] + t["Cancelled"]
            /\ t["active"] = Cardinality({w \in Mine(r) :
                                  pc[w] \in Busy \cup {"faulted"}})
            /\ phase[r] \in OutputPhases \cup {"done"} =>
                   t["completed"] = NumCases /\ t["active"] = 0

(* Each run fills its slots once and, unless it was cancelled, leaves none *)
(* to the final sweep.                                                     *)
BoardState(r) == CASE phase[r] \in {"new", "running"} -> "open"
                   [] phase[r] = "threw" -> "threw"
                   [] OTHER -> "closed"
Board == INSTANCE BatchBoard WITH
    slots <- [r \in Runs |-> [c \in Cases |-> results[r][c].status]],
    asked <- cancelled,
    state <- [r \in Runs |-> BoardState(r)]
ImplementsBoard == Board!Spec

(* A run that was started ends, cancelled or not.                          *)
RunEnds ==
    \A r \in Runs : phase[r] = "running" ~> phase[r] \in {"done", "threw"}

=============================================================================
