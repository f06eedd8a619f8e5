------------------------- MODULE EvidenceCollection -------------------------
(***************************************************************************)
(* The trusted evidence collector of the upstream tracker                  *)
(* (trusted_collector.py): one session that pins the repository, copies    *)
(* the committed files, has a child process build and run the tests that   *)
(* the evidence registry names, checks again everything the child reports, *)
(* and seals the result.  The user works in the repository meanwhile, and  *)
(* processes the tests leave behind may still write.                       *)
(*                                                                         *)
(* A file is known by its version.  A check that fails, a command that     *)
(* fails or times out, and a full disk all end the session: every step has *)
(* the check as its guard, and Refuse is possible as long as it runs.      *)
(***************************************************************************)
EXTENDS Integers, Sequences, FiniteSets

CONSTANTS
    Assertions,    \* the identifiers of the receipts
    ProjectOrder,  \* the test projects, in the order of their paths
    Owner,         \* the test project of an assertion
    Receipts,      \* the assertions a version of the evidence registry registers
    Equivalent,    \* the assertions a version of the matrix makes claims for
    BoundTests,    \* the version of the tests that a registry's receipts name
    Possible,      \* what a test case may come to
    MaxMoves,      \* bound on what the user does to the repository
    MaxStrays,     \* bound on what left-over processes write
    None

Versions == {0, 1}

Files == {"collector", "evidence", "matrix", "tests"}

(* The order in which the collector copies them, by path. *)
FileOrder == <<"tests", "collector", "matrix", "evidence">>

Projects == {ProjectOrder[i] : i \in DOMAIN ProjectOrder}

Outcomes == {"passed", "other", "failed", "skipped"}

Trees == [Files -> Versions]

(* What a session may seal.                                                *)
Sealings ==
    [tree : [head : Nat, files : Trees], evidence : Versions, tests : Versions,
     outcomes : UNION {[as -> Outcomes] : as \in SUBSET Assertions}]

ASSUME CollectionAssumption ==
    /\ ProjectOrder \in Seq(Projects) /\ None \notin Sealings
    /\ Owner \in [Assertions -> Projects]
    /\ Receipts \in [Versions -> SUBSET Assertions]
    /\ Equivalent \in [Versions -> SUBSET Assertions]
    /\ BoundTests \in [Versions -> Versions]
    /\ Possible \subseteq {"expected", "other", "failed", "skipped"}
    /\ MaxMoves \in Nat /\ MaxStrays \in Nat

VARIABLES
    trees,      \* the committed trees, oldest first
    head,       \* the commit that is checked out
    work,       \* the files in the working directory
    moves,      \* what the user has done so far
    stage,      \* where the session is
    noted,      \* the commit a running snapshot has read, or None
    snap,       \* the first snapshot: its commit and files
    memory,     \* the manifests the caller loaded
    canon,      \* the manifests read from the repository
    copy,       \* the session's copy of the committed files
    plan,       \* the project graph evaluated for the plan, and the input hashes
    childCode,  \* the version of the collector the child runs
    left,       \* how many projects are still to be tested
    disk,       \* what the tests of a project left in the session
    exits,      \* the exit codes of the tests, as the child reports them
    claims,     \* the outcomes the child reports
    ran,        \* history: the copy an assertion's tests ran on, its case, their exit code
    strays,     \* what left-over processes have written so far
    spoiled,    \* history: the projects whose artifacts were rewritten before the first parse
    sealed      \* the sealed result, or None

repository == <<trees, head, work, moves>>
findings == <<plan, childCode, left, disk, exits, claims, ran, strays, spoiled>>
session == <<stage, noted, snap, canon, copy, findings, sealed>>

(***************************************************************************)
(* The repository.                                                         *)
(***************************************************************************)
RepositoryInit ==
    /\ trees = <<[f \in Files |-> 0]>>
    /\ head = 1
    /\ work = trees[1]
    /\ moves = 0

Edit(f) ==
    /\ moves < MaxMoves
    /\ work' = [work EXCEPT ![f] = 1 - @]
    /\ moves' = moves + 1
    /\ UNCHANGED <<trees, head>>

Commit ==
    /\ moves < MaxMoves /\ work # trees[head]
    /\ trees' = Append(trees, work)
    /\ head' = Len(trees')
    /\ moves' = moves + 1
    /\ UNCHANGED work

Checkout ==
    /\ moves < MaxMoves /\ work = trees[head]
    /\ \E c \in DOMAIN trees \ {head} : head' = c /\ work' = trees[c]
    /\ moves' = moves + 1
    /\ UNCHANGED trees

(* The tracked files are those of the commit, byte for byte. *)
Clean == work = trees[head]

(***************************************************************************)
(* What the collector computes.                                            *)
(***************************************************************************)
(* The assertions behind the claims of a matrix; a claim without a receipt *)
(* is an error.                                                            *)
Closed(e, m) == Equivalent[m] \subseteq Receipts[e]

Closure(e, m) == Receipts[e] \cap Equivalent[m]

Required == Closure(canon.evidence, canon.matrix)

(* What MSBuild evaluates of a copy: its projects and the hashes of the    *)
(* files they compile.                                                     *)
Graph(c) == c["tests"]

Owned(p, as) == {a \in as : Owner[a] = p}

(* What the tests of project p may leave: what each case came to, in one   *)
(* report with the records of exactly its cases.                           *)
Artifacts(p) == [Owned(p, Required) -> Possible]

(* Parsed: a case that was not executed is skipped, and only an exit code  *)
(* of zero lets the others pass; "other" is a pass with an output that is  *)
(* not the expected one.                                                   *)
Judged(case, exit) ==
    IF case \in {"skipped", "failed"} THEN case
    ELSE IF exit # 0 THEN "failed"
    ELSE IF case = "expected" THEN "passed" ELSE "other"

Parse(artifact, exit) == [a \in DOMAIN artifact |-> Judged(artifact[a], exit)]

(* The copy has the files and hashes of the first snapshot, and no others. *)
Untouched == copy = snap.files

(* The canonical manifests are the ones the request names. *)
Bound(tree) == tree["evidence"] = canon.evidence /\ tree["matrix"] = canon.matrix

(* The child checks what the source says only if it runs that source. *)
Faithful == childCode = snap.files["collector"]

(***************************************************************************)
(* The session.                                                            *)
(***************************************************************************)
Points == {"first", "childBefore", "childAfter", "parentBefore", "parentAfter", "last"}

Stages == Points \cup
    {"idle", "compare", "canonical", "copy", "inputs", "launch", "childVerify", "projects",
     "parse", "childEnd", "reparse", "closing", "sealed", "refused"}

Active == stage \notin {"idle", "sealed", "refused"}

Following(point) ==
    CASE point = "first" -> "compare"
      [] point = "childBefore" -> "childVerify"
      [] point = "childAfter" -> "parentBefore"
      [] point = "parentBefore" -> "reparse"
      [] point = "parentAfter" -> "last"
      [] point = "last" -> "closing"

SessionInit ==
    /\ stage = "idle" /\ noted = None
    /\ snap = [head |-> None, files |-> None]
    /\ canon = [evidence |-> None, matrix |-> None]
    /\ copy = << >>
    /\ plan = [graph |-> None, inputs |-> None]
    /\ childCode = None /\ left = 0
    /\ disk = [p \in Projects |-> None]
    /\ exits = [p \in Projects |-> None]
    /\ ran = << >> /\ claims = << >>
    /\ strays = 0 /\ spoiled = {} /\ sealed = None

(* A caller with no assertion to ask for is refused. *)
Begin ==
    /\ stage = "idle"
    /\ stage' = IF Closure(memory.evidence, memory.matrix) = {} THEN "refused" ELSE "first"
    /\ UNCHANGED <<noted, snap, canon, copy, findings, sealed>>

(* Mutant: the tests run without a timeout and their failures are ignored. *)
RefuseOutsideTests ==
    /\ Active /\ stage \notin {"projects", "parse"}
    /\ stage' = "refused" /\ noted' = None
    /\ UNCHANGED <<snap, canon, copy, findings, sealed>>

(* Any command, read or write may fail, and so may any check. *)
Refuse ==
    /\ Active
    /\ stage' = "refused" /\ noted' = None
    /\ UNCHANGED <<snap, canon, copy, findings, sealed>>

(* A snapshot reads the commit with one command ... *)
ReadHead ==
    /\ stage \in Points /\ noted = None
    /\ noted' = head
    /\ UNCHANGED <<stage, snap, canon, copy, findings, sealed>>

(* ... and the status, the index and the files with others.  The later    *)
(* ones must agree with the first.                                         *)
ReadTree ==
    LET taken == [head |-> noted, files |-> work]
        checked == ~(stage \in {"childBefore", "childAfter"} /\ ~Faithful)
    IN
    /\ stage \in Points /\ noted # None
    /\ checked => Clean /\ (stage # "first" => taken = snap)
    /\ snap' = IF stage = "first" THEN taken ELSE snap
    /\ stage' = Following(stage) /\ noted' = None
    /\ UNCHANGED <<canon, copy, findings, sealed>>

(* The registry in memory is the one on disk. *)
CompareManifests ==
    /\ stage = "compare"
    /\ work["evidence"] = memory.evidence
    /\ stage' = "canonical"
    /\ UNCHANGED <<noted, snap, canon, copy, findings, sealed>>

(* The manifests are read again, with the matrix, and ask for what the    *)
(* caller asks for.                                                        *)
LoadCanonical ==
    /\ stage = "canonical"
    /\ Closed(work["evidence"], work["matrix"])
    /\ Closure(work["evidence"], work["matrix"]) = Closure(memory.evidence, memory.matrix)
    /\ canon' = [evidence |-> work["evidence"], matrix |-> work["matrix"]]
    /\ stage' = "copy"
    /\ UNCHANGED <<noted, snap, copy, findings, sealed>>

(* One file after the other is copied, each with the hash of the snapshot; *)
(* after the last one the whole copy is checked.                           *)
CopyFile ==
    LET f == FileOrder[Cardinality(DOMAIN copy) + 1] IN
    /\ stage = "copy"
    /\ work[f] = snap.files[f]
    /\ copy' = [g \in DOMAIN copy \cup {f} |-> work[g]]
    /\ stage' = IF DOMAIN copy' = Files THEN "inputs" ELSE "copy"
    /\ UNCHANGED <<noted, snap, canon, findings, sealed>>

(* The plan is made from the copy, the inputs are hashed in the           *)
(* repository, and the canonical manifests must be those of the copy.      *)
MakePlan ==
    /\ stage = "inputs"
    /\ plan' = [graph |-> Graph(copy), inputs |-> work]
    /\ Bound(copy)
    /\ left' = Cardinality({Owner[a] : a \in Required})
    /\ stage' = "launch"
    /\ UNCHANGED <<noted, snap, canon, copy, childCode, disk, exits, claims, ran, strays,
                   spoiled, sealed>>

(* The child is started from the collector's file in the repository. *)
LaunchChild ==
    /\ stage = "launch"
    /\ childCode' = work["collector"]
    /\ stage' = "childBefore"
    /\ UNCHANGED <<noted, snap, canon, copy, plan, left, disk, exits, claims, ran, strays,
                   spoiled, sealed>>

(* What both the child and the parent check of the copy. *)
InputsHold == Untouched /\ plan.inputs = copy /\ Bound(copy)

ChildVerify ==
    /\ stage = "childVerify"
    /\ Faithful => InputsHold
    /\ stage' = "projects"
    /\ UNCHANGED <<noted, snap, canon, copy, findings, sealed>>

(* The next project in order that has assertions to run. *)
Chosen(as) == SelectSeq(ProjectOrder, LAMBDA p : Owned(p, as) # {})

Turn(as, remaining) == Chosen(as)[Len(Chosen(as)) - remaining + 1]

Current == Turn(Required, left)

(* Mutant: the tests are built in the repository. *)
BuiltInPlace == work

(* What the tests are built from and run in. *)
Built == copy

(* The entries of the last project, beside those of the ones before. *)
Joined(last, before) ==
    [a \in DOMAIN last \cup DOMAIN before |->
        IF a \in DOMAIN last THEN last[a] ELSE before[a]]

(* A project is evaluated, restored, built and tested: dotnet test ends    *)
(* with an exit code and leaves its artifacts.  Another version of the     *)
(* collector may do without the evaluation.                                *)
RunTests ==
    /\ stage = "projects" /\ left > 0
    /\ Faithful => Graph(copy) = plan.graph
    /\ \E artifact \in Artifacts(Current), exit \in {0, 1} :
        /\ disk' = [disk EXCEPT ![Current] = artifact]
        /\ exits' = [exits EXCEPT ![Current] = exit]
        /\ ran' = Joined([a \in DOMAIN artifact |->
                             [files |-> Built, case |-> artifact[a], exit |-> exit]], ran)
    /\ stage' = "parse"
    /\ UNCHANGED <<noted, snap, canon, copy, plan, childCode, left, claims, strays,
                   spoiled, sealed>>

(* The output is written to the session, and then the child looks at the   *)
(* artifacts for the first time: what it parses is what is on disk by now. *)
(* Another version of the collector may make anything of it.               *)
ParseProject ==
    /\ stage = "parse"
    /\ \E told \in {0, 1}, read \in Artifacts(Current) :
          /\ Faithful => told = exits[Current] /\ read = disk[Current]
          /\ exits' = [exits EXCEPT ![Current] = told]
          /\ claims' = Joined(Parse(read, told), claims)
    /\ left' = left - 1
    /\ stage' = IF left = 1 THEN "childEnd" ELSE "projects"
    /\ UNCHANGED <<noted, snap, canon, copy, plan, childCode, disk, ran, strays, spoiled,
                   sealed>>

(* The child has collected exactly what was asked for from inputs and a    *)
(* copy nobody has touched.                                                *)
ChildEnd ==
    /\ stage = "childEnd"
    /\ Faithful => DOMAIN claims = Required /\ plan.inputs = copy /\ Untouched
    /\ stage' = "childAfter"
    /\ UNCHANGED <<noted, snap, canon, copy, findings, sealed>>

(* Mutant: the parent trusts the signature of the child. *)
ReparseTrusting ==
    /\ stage = "reparse"
    /\ InputsHold /\ Graph(copy) = plan.graph
    /\ DOMAIN claims = Required
    /\ stage' = "parentAfter"
    /\ UNCHANGED <<noted, snap, canon, copy, findings, sealed>>

(* The parent believes nothing but the exit codes: the copy, its inputs    *)
(* and its graph are checked, and every artifact is parsed again and must  *)
(* say what the child claims.                                              *)
Reparse ==
    /\ stage = "reparse"
    /\ InputsHold /\ Graph(copy) = plan.graph
    /\ DOMAIN claims = Required
    /\ \A p \in {Owner[a] : a \in Required} :
          LET read == Parse(disk[p], exits[p]) IN
          DOMAIN read = Owned(p, Required) /\ \A a \in DOMAIN read : read[a] = claims[a]
    /\ stage' = "parentAfter"
    /\ UNCHANGED <<noted, snap, canon, copy, findings, sealed>>

(* After the last snapshot the copy is checked once more, the collector is *)
(* hashed once more, and the result is sealed, never an empty one.  The    *)
(* hash of the tests is the one their receipts name.                       *)
Seal ==
    /\ stage = "closing"
    /\ Untouched /\ work["collector"] = plan.inputs["collector"]
    /\ claims # << >>
    /\ sealed' = [tree |-> snap, evidence |-> canon.evidence, outcomes |-> claims,
                  tests |-> BoundTests[canon.evidence]]
    /\ stage' = "sealed"
    /\ UNCHANGED <<noted, snap, canon, copy, findings>>

(* A process that outlives its tests alters what they left, or the copy;   *)
(* it does not undo what it did.  What it writes after the session has     *)
(* ended nobody reads.                                                     *)
Stray ==
    /\ Active /\ strays < MaxStrays /\ strays' = strays + 1
    /\ \E p \in Projects : disk[p] # None
    /\ \/ /\ \E p \in Projects :
                /\ disk[p] # None
                /\ \E artifact \in Artifacts(p) : disk' = [disk EXCEPT ![p] = artifact]
                /\ spoiled' = IF stage = "parse" /\ p = Current
                              THEN spoiled \cup {p} ELSE spoiled
          /\ UNCHANGED copy
       \/ /\ \E f \in Files : copy[f] = snap.files[f] /\ copy' = [copy EXCEPT ![f] = 1 - @]
          /\ UNCHANGED <<disk, spoiled>>
    /\ UNCHANGED <<stage, noted, snap, canon, plan, childCode, left, exits, claims, ran, sealed>>

User == (\E f \in Files : Edit(f)) \/ Commit \/ Checkout

Collector ==
    \/ ReadHead \/ ReadTree \/ CompareManifests \/ LoadCanonical \/ CopyFile \/ MakePlan
    \/ LaunchChild \/ ChildVerify \/ RunTests \/ ParseProject \/ ChildEnd \/ Reparse \/ Seal \/ Refuse

-----------------------------------------------------------------------------
(* Everything a sealed result speaks of, and nothing else, was executed in *)
(* this session on exactly the files of the commit it names.               *)
SealedRanOnOneTree ==
    sealed # None =>
        /\ DOMAIN sealed.outcomes
              = Closure(sealed.tree.files["evidence"], sealed.tree.files["matrix"])
        /\ \A a \in DOMAIN sealed.outcomes :
              a \in DOMAIN ran /\ ran[a].files = sealed.tree.files

(* The sealed outcomes are those the tests had, though a left-over process *)
(* may have written since.  Two things the collector cannot tell: what was *)
(* rewritten between the end of the tests and the first parse is sealed as *)
(* if the tests had left it, but as a pass only with their exit code; and  *)
(* a child that runs another version of the collector can be wrong about   *)
(* the exit code, which the parent takes from it, but no case is sealed as *)
(* passed that did not pass.                                               *)
SealedAsRun ==
    sealed # None =>
        \A a \in DOMAIN sealed.outcomes :
            /\ Faithful /\ Owner[a] \notin spoiled =>
                 sealed.outcomes[a] = Judged(ran[a].case, ran[a].exit)
            /\ Faithful /\ sealed.outcomes[a] = "passed" => ran[a].exit = 0
            /\ strays = 0 => \E exit \in {0, 1} : sealed.outcomes[a] = Judged(ran[a].case, exit)
=============================================================================
