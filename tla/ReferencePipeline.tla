-------------------------- MODULE ReferencePipeline --------------------------
(***************************************************************************)
(* The Python reference pipeline (src/scripts/reference.ps1): one command   *)
(* prepares the upstream checkout and the packages, empties the output      *)
(* directory, runs every generator as a process of its own, and then leaves *)
(* the output, replaces the tracked baseline with it, or compares the two.  *)
(* The first failure ends the command.  Around it are the developer, who    *)
(* may edit a file while the command runs, end the command at any point,    *)
(* and restore the baseline from the repository.                            *)
(*                                                                          *)
(* A behaviour follows the edits of one unit, the subject.  Files of other  *)
(* units stay as they were reviewed: an edit of theirs could only make more *)
(* checks fail.  The steps that cannot depend on the subject are left out   *)
(* of the programs.                                                         *)
(***************************************************************************)
EXTENDS Integers, FiniteSets, ReferenceSteps, ReferenceDiscipline, CommonGenerators,
        DragonHvacGenerators, DragonShapeGenerators, EpsimpleGenerators, ImugiGenerators

CONSTANTS
  Plans,     \* what is asked: an order of generators, a sequence of purposes, a subject
  MaxEdits,  \* edits of the subject in a behaviour
  MaxKills   \* commands ended from outside

ASSUME BoundsAssumption == MaxEdits \in Nat /\ MaxKills \in Nat

Programs ==
  ProfilePrograms @@ CommonPrograms @@ DragonModelPrograms @@ DragonHvacPrograms
    @@ DragonShapePrograms @@ EpsimplePrograms @@ ImugiPrograms
NamesOf ==
  ProfileNames @@ CommonNames @@ DragonModelNames @@ DragonHvacNames
    @@ DragonShapeNames @@ EpsimpleNames @@ ImugiNames
Generators == DOMAIN Programs

Touched(generator) ==
  {step.unit : step \in {s \in Range(Programs[generator]) :
                           s.op \in {"use", "use too", "copy", "glance", "expect", "held"}}}
Units == UNION {Touched(g) : g \in Generators} \cup Generators \cup {"interpreter"}

VARIABLES
  asked,     \* the plan of this behaviour
  file,      \* what the subject's file says now
  edits,     \* how often it was edited, before the first command too
  kills,
  todo,      \* the purposes still to come
  purpose,   \* the purpose of the command that runs, or of the last one
  phase,     \* "idle", "generating", "clearing", "copying"
  outcome,   \* "none", or how the last command ended
  calm,      \* no edit since the command began
  at,        \* the place in the order of the generator that runs
  pc,        \* its next step
  held,      \* versions of the subject its process holds
  used,      \* versions it ran or read in full
  copied,    \* what its private copy of the subject says
  seen,      \* behaviours in its facts, for the first place and for the copy
  output,    \* the output directory
  baseline   \* the tracked baseline

command == <<todo, purpose, phase, outcome, calm>>
process == <<at, pc, held, used, copied, seen>>
developer == <<file, edits, kills>>
referenceVars == <<asked, developer, command, process, output, baseline>>

Order == asked.order
Subject == asked.subject
Items == {Order[i] : i \in DOMAIN Order}
Running == Order[at]

(***************************************************************************)
(* A directory of oracles: each is absent, torn, as reviewed or something   *)
(* else, and the manifest lists what the others were when it was written.   *)
(***************************************************************************)
NoFiles == [f \in Items |-> "absent"]
Listing(files) == [f \in Items \ {"reference"} |-> files[f]]
Directory(files, manifest) == [files |-> files, manifest |-> manifest]
Empty == Directory(NoFiles, Listing(NoFiles))
Reviewed == LET files == [f \in Items |-> "reviewed"] IN Directory(files, Listing(files))

(***************************************************************************)
(* The program of a generator: the interpreter starts, reads the script,    *)
(* and runs it.                                                             *)
(***************************************************************************)
ProgramOn(generator, unit) ==
  StepsOn(Use("root", "interpreter") \o Use("root", generator) \o Programs[generator], unit)
Program(generator) == ProgramOn(generator, Subject)
Step == Program(Running)[pc]

FreshProcess ==
  /\ pc' = 1
  /\ held' = {} /\ used' = {} /\ copied' = "none"
  /\ seen' = [slot \in {"primary", "relocated"} |-> {}]

ReferenceInit ==
  /\ asked \in Plans
  /\ \/ file = "pinned" /\ edits = 0
     \/ file \in VersionsOf(asked.subject) \ {"pinned"} /\ edits = 1
  /\ kills = 0
  /\ todo = asked.purposes /\ purpose = "none" /\ phase = "idle" /\ outcome = "none"
  /\ calm = TRUE
  /\ at = 0
  /\ pc = 1
  /\ held = {} /\ used = {} /\ copied = "none"
  /\ seen = [slot \in {"primary", "relocated"} |-> {}]
  /\ output = Empty
  /\ baseline = Reviewed

(***************************************************************************)
(* A command begins.  A checkout that is not byte-exact at the pinned       *)
(* commit is made anew when the script manages it and refused when the      *)
(* developer named it; packages that are not the locked closure, by their   *)
(* declared versions, are installed anew or refused; an interpreter of      *)
(* another version and another IDD are refused.  The reference tests run    *)
(* next and may refuse whatever was not reviewed.                           *)
(***************************************************************************)
Renewable == {"target", "rest", "packages"}
Guarded == Renewable \cup {"interpreter", "idd"}
AsReviewed == IF Subject \in Installed THEN SameVersion ELSE {"pinned"}

Begins ==
  /\ phase = "idle" /\ todo # <<>>
  /\ purpose' = Head(todo) /\ todo' = Tail(todo)
  /\ \/ Subject \in Renewable /\ file' = "pinned"
     \/ Subject \in Guarded /\ file \in AsReviewed /\ file' = file
     \/ Subject \notin Guarded /\ file' = file
  /\ phase' = "generating" /\ outcome' = "none" /\ calm' = TRUE
  /\ output' = Empty
  /\ at' = 1 /\ FreshProcess
  /\ UNCHANGED <<asked, edits, kills, baseline>>

IsRefused ==
  /\ phase = "idle" /\ todo # <<>>
  /\ file # "pinned"
  /\ purpose' = Head(todo) /\ todo' = Tail(todo)
  /\ outcome' = "failed"
  /\ UNCHANGED <<asked, developer, phase, calm, process, output, baseline>>

Ends(result) ==
  /\ phase' = "idle" /\ outcome' = result
  /\ at' = 0 /\ FreshProcess
  /\ UNCHANGED <<todo, purpose, calm>>

(***************************************************************************)
(* One step of the generator that runs.                                     *)
(***************************************************************************)
Stepping == phase = "generating" /\ pc \in DOMAIN Program(Running)
VersionAt(place) == IF place = "copy" THEN copied ELSE file

Loads ==
  /\ Stepping /\ Step.op \in {"use", "use too"}
  /\ LET version == VersionAt(Step.place) IN
     /\ held' = IF Step.op = "use" THEN {version} ELSE held \cup {version}
     /\ used' = used \cup {version}
  /\ pc' = pc + 1
  /\ UNCHANGED <<asked, developer, command, at, copied, seen, output, baseline>>

Glances ==
  /\ Stepping /\ Step.op = "glance"
  /\ held' = {file}
  /\ pc' = pc + 1
  /\ UNCHANGED <<asked, developer, command, at, used, copied, seen, output, baseline>>

Copies ==
  /\ Stepping /\ Step.op = "copy"
  /\ copied' = VersionAt(Step.place)
  /\ pc' = pc + 1
  /\ UNCHANGED <<asked, developer, command, at, held, used, seen, output, baseline>>

\* A patch of a package or of the interpreter may not reach what is observed.
Observes ==
  /\ Stepping /\ Step.op = "observe"
  /\ \E shown \in {{Behaviour(v) : v \in held}} \cup
                 (IF Subject \in Installed THEN {{"pinned"}} ELSE {}) :
       seen' = [seen EXCEPT ![Step.slot] = @ \cup shown]
  /\ pc' = pc + 1
  /\ UNCHANGED <<asked, developer, command, at, held, used, copied, output, baseline>>

\* The fixture of a sibling that is not in the order is a file like any other.
(* Mutant: a file is compared before it is first loaded, and not again. *)
SaysBefore(place, versions) == used = {} => VersionAt(place) \in versions
Says(place, versions) == VersionAt(place) \in versions

(* Mutant: the facts are compared by their shape, not by their pinned digest. *)
FactsLook(behaviours) == "changed" \notin seen["primary"]
FactsShow(behaviours) == seen["primary"] \subseteq behaviours

Passes(step) ==
  CASE step.op = "expect" -> Says(step.place, step.versions)
    [] step.op = "held" -> held \subseteq step.versions
    [] step.op = "facts" -> FactsShow(step.behaviours)
    [] step.op = "alike" -> /\ seen["primary"] = seen["relocated"]
                            /\ "leaky" \notin seen["primary"]
    [] step.op = "fixture" -> IF step.of \in Items
                              THEN baseline.files[step.of] = "reviewed"
                              ELSE Subject = "fixture" => file = "pinned"
    [] step.op = "reread" -> output.files[Running] \notin {"absent", "torn"}

Checking == Stepping /\ Step.op \in {"expect", "held", "facts", "alike", "fixture", "reread"}

FindsAsPinned ==
  /\ Checking /\ Passes(Step)
  /\ pc' = pc + 1
  /\ UNCHANGED <<asked, developer, command, at, held, used, copied, seen, output, baseline>>

\* The generator exits with an error, and the script throws.
FindsDrift ==
  /\ Checking /\ ~Passes(Step)
  /\ Ends("failed")
  /\ UNCHANGED <<asked, developer, output, baseline>>

\* What the facts, and with them the bytes of the oracle, depend on.
Shown == seen["primary"] \cup IF Subject = Running THEN {Behaviour(v) : v \in held} ELSE {}
Contents == IF Shown \subseteq {"pinned"} THEN "reviewed" ELSE "other"

\* The last generator lists every other file of the output in its manifest.
Writes ==
  /\ Stepping /\ Step.op \in {"tear", "fill"}
  /\ LET files == [output.files EXCEPT ![Running] =
                     IF Step.op = "tear" THEN "torn" ELSE Contents] IN
     output' = IF Running = "reference" /\ Step.op = "fill"
               THEN Directory(files, Listing(files))
               ELSE Directory(files, output.manifest)
  /\ pc' = pc + 1
  /\ UNCHANGED <<asked, developer, command, at, held, used, copied, seen, baseline>>

(***************************************************************************)
(* The generator exits without an error and the script goes on; after the   *)
(* last one it does what the command is for.                                *)
(***************************************************************************)
Finished == phase = "generating" /\ pc = Len(Program(Running)) + 1

StartsTheNext ==
  /\ Finished /\ at < Len(Order)
  /\ at' = at + 1 /\ FreshProcess
  /\ UNCHANGED <<asked, developer, command, output, baseline>>

Generated == Finished /\ at = Len(Order)

LeavesTheOutput ==
  /\ Generated /\ purpose = "generate"
  /\ Ends("succeeded")
  /\ UNCHANGED <<asked, developer, output, baseline>>

(* Mutant: the files are compared by name only. *)
ComparesNames ==
  /\ Generated /\ purpose = "verify"
  /\ LET same(item) == output.files[item] = "absent" <=> baseline.files[item] = "absent" IN
     Ends(IF \A item \in Items : same(item) THEN "succeeded" ELSE "failed")
  /\ UNCHANGED <<asked, developer, output, baseline>>
ComparesWithBaseline ==
  /\ Generated /\ purpose = "verify"
  /\ Ends(IF output = baseline THEN "succeeded" ELSE "failed")
  /\ UNCHANGED <<asked, developer, output, baseline>>

UpdatesTheBaseline ==
  /\ Generated /\ purpose = "update"
  /\ phase' = "clearing"
  /\ at' = 0 /\ FreshProcess
  /\ UNCHANGED <<asked, developer, todo, purpose, outcome, calm, output, baseline>>

\* Item by item, first every old file goes, then every new one comes.
Placed(item, content) ==
  Directory([baseline.files EXCEPT ![item] = content],
            IF item # "reference" THEN baseline.manifest
            ELSE IF content \in {"absent", "torn"} THEN Empty.manifest
            ELSE output.manifest)

RemovesSuperseded ==
  /\ phase = "clearing"
  /\ \E item \in Items :
       /\ baseline.files[item] # "absent"
       /\ baseline' = Placed(item, "absent")
  /\ UNCHANGED <<asked, developer, command, process, output>>

StartsToCopy ==
  /\ phase = "clearing" /\ baseline.files = NoFiles
  /\ phase' = "copying"
  /\ UNCHANGED <<asked, developer, todo, purpose, outcome, calm, process, output, baseline>>

CopiesOneItem ==
  /\ phase = "copying"
  /\ \E item \in Items :
       \/ /\ baseline.files[item] = "torn"
          /\ baseline' = Placed(item, output.files[item])
       \/ /\ baseline.files[item] = "absent"
          /\ \A other \in Items : baseline.files[other] # "torn"
          /\ baseline' = Placed(item, "torn")
  /\ UNCHANGED <<asked, developer, command, process, output>>

HasUpdated ==
  /\ phase = "copying"
  /\ \A item \in Items : baseline.files[item] \notin {"absent", "torn"}
  /\ Ends("succeeded")
  /\ UNCHANGED <<asked, developer, output, baseline>>

(***************************************************************************)
(* The developer.  An edit is told from another one only where the next     *)
(* step reads the file, or between two commands.                            *)
(***************************************************************************)
ReadNext ==
  \/ phase = "idle" /\ outcome # "none" /\ todo # <<>>
  \/ /\ Stepping
     /\ Step.op \in {"use", "use too", "copy", "glance", "expect"}
     /\ Step.place = "root"

Edits ==
  /\ edits < MaxEdits /\ ReadNext
  /\ \E version \in VersionsOf(Subject) \ {file} : file' = version
  /\ edits' = edits + 1
  /\ calm' = FALSE
  /\ UNCHANGED <<asked, kills, todo, purpose, phase, outcome, process, output, baseline>>

\* The console is closed; the next command takes the abandoned mutex over.
IsKilled ==
  /\ kills < MaxKills /\ phase # "idle"
  /\ kills' = kills + 1
  /\ Ends("killed")
  /\ UNCHANGED <<asked, file, edits, output, baseline>>

\* The tracked baseline is checked out again.
RestoresBaseline ==
  /\ phase = "idle" /\ todo # <<>> /\ baseline # Reviewed
  /\ baseline' = Reviewed
  /\ UNCHANGED <<asked, developer, command, process, output>>

Generates ==
  \/ Loads \/ Glances \/ Copies \/ Observes \/ FindsAsPinned \/ FindsDrift \/ Writes
  \/ StartsTheNext
Updates ==
  UpdatesTheBaseline \/ RemovesSuperseded \/ StartsToCopy \/ CopiesOneItem \/ HasUpdated

ReferenceNext ==
  \/ Begins \/ IsRefused \/ Generates \/ LeavesTheOutput \/ ComparesWithBaseline
  \/ Updates \/ Edits \/ IsKilled \/ RestoresBaseline

ReferenceSpec == ReferenceInit /\ [][ReferenceNext]_referenceVars

(***************************************************************************)
(* What an oracle says of itself.                                           *)
(***************************************************************************)

(* Every unit whose pinned digest, or version, an oracle carries is the one
   its process ran or read.  The file may have said anything when the command
   began; and it may have been edited once since it was reviewed, at any
   moment, except for the pairs that the code compares before it loads and
   never after.  Of the packages and the interpreter the oracle names the
   version they declare: that version ran, whatever its files say. *)
Named(unit) ==
  IF unit = "inventory" THEN {"pinned", "reformatted"}
  ELSE IF unit \in Installed THEN SameVersion ELSE {"pinned"}
CheckedOnlyBefore ==
  ({"dragon_hvac_appenders_controllers", "dragon_hvac_source_tower_core",
    "epsimple_shape_core", "imugi_idd_definitions_core", "imugi_idd_schema_static_core",
    "imugi_idf_object_core", "imugi_idf_object_list_core"} \X {"packages"})
    \cup ({"dragon_hvac_misc_systems_core", "dragon_hvac_supply_core",
           "epsimple_identifier_conventions", "epsimple_shape_core"} \X {"inventory"})
    \cup ({"launcher_result_parser", "launcher_runtime"} \X {"target"})
    \cup {<<"epsimple_constants_numeric", "rest">>,
          <<"dragon_hvac_misc_systems_core", "dragon_hvac_supply_core">>,
          <<"dragon_hvac_supply_core", "dragon_model_assembly">>,
          <<"imugi_idd_schema_static_core", "imugi_idd_definitions_core">>}
Watched == calm \/ (edits <= 1 /\ <<Running, Subject>> \notin CheckedOnlyBefore)
NamedBytesRan ==
  Finished /\ Subject \in NamesOf[Running] /\ Watched => used \subseteq Named(Subject)

(* A generator that compares its facts with pinned ones writes an oracle that
   shows the reviewed behaviour only, in both places it observes, however often
   a file was edited while it ran: what is compared is what was observed.  The
   schema of the IDD is pinned by the IDD it reads, and shows the interpreter's
   reading of it. *)
UnpinnedFacts ==
  ({"day_schedule_metrics", "day_schedule_core", "day_schedule_operations", "schedule_type",
   "rule_set_core", "rule_set_operations", "schedule_core", "schedule_operations",
   "profile_residual", "usage_profile_core", "usage_profile_schedule", "common_core",
   "utils_core", "construction_equality_hash", "constants_engineering",
   "dragon_model_terrain", "launcher_result_parser", "launcher_runtime",
   "reference"} \X Units) \cup {<<"idd_schema", "interpreter">>}
FactsAreReviewed ==
  Finished /\ <<Running, Subject>> \notin UnpinnedFacts =>
    seen["primary"] \cup seen["relocated"] \subseteq {"pinned"}

(* A baseline an undisturbed update left, and one a verification found
   unchanged, is whole and consistent: the manifest lists the oracles that are
   there, and an oracle another one names is the one that was reviewed.  The
   fixtures are looked up in the old baseline, the manifest lists the new one,
   and a command may have been ended half way through an update before.  Five
   oracles are named by what they say alone: when the script that writes one is
   what was edited, the update goes through and leaves the name behind, and the
   verification that follows refuses it.  So it does for two oracles whose facts
   are not pinned, when the files of an installed version were patched. *)
FixturesOf(generator) == FixturesIn(Program(generator)) \cap Items
NamedByOracleOnly ==
  ({"dragon_hvac_supply_core"}
     \X {"dragon_hvac_supply_group_core", "dragon_hvac_supply_group_to_idf_object",
         "dragon_model_add_supply_system"})
    \cup {<<"dragon_hvac_misc_systems_core", "dragon_hvac_photovoltaic_to_idf_object">>,
          <<"imugi_idf_object_core", "reference">>}
LeftBehind(item, other) ==
  /\ purpose = "update"
  /\ \/ Subject = other /\ <<item, other>> \in NamedByOracleOnly
     \/ Subject \in Installed /\ <<other, Subject>> \in UnpinnedFacts
BaselineHoldsTogether ==
  phase = "idle" /\ outcome = "succeeded"
      /\ (purpose = "verify" \/ (purpose = "update" /\ calm)) =>
    /\ \A item \in Items : baseline.files[item] \notin {"absent", "torn"}
    /\ "reference" \in Items => baseline.manifest = Listing(baseline.files)
    /\ \A item \in Items : \A other \in FixturesOf(item) :
         baseline.files[other] = "reviewed" \/ LeftBehind(item, other)

(***************************************************************************)
(* What the proofs take from the plans and from the programs; the latter    *)
(* are what they are, and TLC evaluates all of this before it explores a    *)
(* state.  The script runs every generator once, the one that writes the    *)
(* manifest last.  A plan that replaces the baseline holds, as the script   *)
(* does, every generator whose oracle one of its oracles names.             *)
(***************************************************************************)
ASSUME PlansAssumption ==
  \A p \in Plans :
    /\ p.order \in Seq(Generators) /\ p.order # <<>>
    /\ \A i, j \in DOMAIN p.order : p.order[i] = p.order[j] => i = j
    /\ \A i \in 1..Len(p.order) - 1 : p.order[i] # "reference"
    /\ p.purposes \in Seq({"generate", "update", "verify"})
    /\ p.subject \in Units
    /\ "update" \in Range(p.purposes) =>
         \A g \in Range(p.order) : FixturesIn(ProgramOn(g, p.subject)) \subseteq Range(p.order)

\* A program copies a file before it uses the copy, and ends with a whole oracle.
ASSUME ProgramsAssumption ==
  \A g \in Generators, u \in Units :
    LET P == ProgramOn(g, u) IN IsProgram(P) /\ CopiesFirst(P) /\ IsFilled(P)

\* A unit that is named is compared where NamedBytesRan needs it.
ASSUME LoadsAssumption ==
  \A g \in Generators : \A u \in NamesOf[g] :
    IF <<g, u>> \in CheckedOnlyBefore THEN FileIsCompared(ProgramOn(g, u), Named(u))
    ELSE LoadsAreCompared(ProgramOn(g, u), Named(u))

\* Facts are compared where FactsAreReviewed needs it.
ASSUME FactsAssumption ==
  \A g \in Generators, u \in Units :
    <<g, u>> \notin UnpinnedFacts => FactsAreCompared(ProgramOn(g, u))

\* Whatever makes an oracle differ that another one names is refused by one of the two,
\* or by another oracle named there.  What is installed shows in facts alone.
ASSUME InstalledAssumption == Installed \cap Generators = {}
ASSUME FixturesAssumption ==
  \A g \in Generators, u \in Units \ Guarded : \A o \in FixturesIn(ProgramOn(g, u)) :
    \A version \in VersionsOf(u) :
      \/ Behaviour(version) = "pinned"
      \/ u # o /\ IsSilent(ProgramOn(o, u))
      \/ u = o /\ <<g, o>> \in NamedByOracleOnly
      \/ \E h \in FixturesIn(ProgramOn(g, u)) \cup {g} : Refuses(ProgramOn(h, u), version)
=============================================================================
