-------------------------- MODULE CompatibilityGate --------------------------
(***************************************************************************)
(* The compatibility gate (cli.py, compatibility.py, evidence.py): it      *)
(* loads the manifests, inspects the clone of the upstream source, has the *)
(* evidence collected (EvidenceCollection) or reads results from files,    *)
(* evaluates it, and gives its verdict three times: in the report, on the  *)
(* console and as its exit code.                                           *)
(*                                                                         *)
(* Every time it looks at the repository again: at the tree of the commit  *)
(* (git ls-tree), at one manifest after the other, and at all of it once   *)
(* more as it loads them.  The user may move between any two of these      *)
(* reads, and between the last of them and what is done with the verdict.  *)
(***************************************************************************)
EXTENDS EvidenceCollection

CONSTANTS
    Undecided   \* the versions of the matrix with symbols that need reverification

ASSUME GateAssumption == Undecided \subseteq Versions

VARIABLES
    gate,       \* where the gate is
    mode,       \* where its evidence comes from
    look,       \* which of Reads comes next, or 0
    tip,        \* the commit whose tree was read last, or None
    loaded,     \* the manifests as the load in progress has read them
    found,      \* no read of this look has found anything wrong
    past,       \* history: what was there to see since the look for a verdict began
    receipt,    \* the loaded manifests were clean files of the commit
    clone,      \* whether the clone of the upstream source is the pinned one
    pin,        \* the report's looks at the clone have found the pinned one
    execution,  \* the evaluated evidence, or None
    report,     \* the verdict in the report file, or None
    printed,    \* the verdict on the console, or None
    code        \* the exit code, or None

looking == <<look, tip, loaded, found, past>>
verdicts == <<report, printed, code>>
known == <<mode, receipt, pin, execution>>
gateVars == <<gate, looking, known, verdicts>>
vars == <<repository, memory, session, gateVars, clone>>

Modes == {"collect", "files", "nothing"}

Verdicts == {None, TRUE, FALSE}

Manifests == {"evidence", "matrix"}

(* What a look at the repository reads, in order; loading the manifests    *)
(* begins with the fourth.                                                 *)
Reads == <<"head", "matrixClean", "evidenceClean", "matrix", "evidence", "tree", "tests",
           "tip", "matrixStill", "evidenceStill">>

FirstOfLoad == 4

Looked == Len(Reads) + 1

Unread == [f \in Manifests |-> None]

RepositoryTyped ==
    /\ trees \in Seq(Trees) /\ head \in DOMAIN trees /\ work \in Trees
    /\ moves \in 0..MaxMoves

SessionTyped ==
    /\ stage \in Stages /\ noted \in DOMAIN trees \cup {None}
    /\ (noted # None => stage \in Points)
    /\ DOMAIN copy \subseteq Files
    /\ (disk # [p \in Projects |-> None] => DOMAIN copy = Files)
    /\ left \in 0..Len(ProjectOrder)
    /\ DOMAIN claims \subseteq DOMAIN ran
    /\ strays \in 0..MaxStrays /\ spoiled \subseteq Projects

GateTyped ==
    /\ gate \in {"load", "inspect", "results", "identity", "inventory", "symbols",
                 "write", "print", "exit", "done"}
    /\ (Active => gate = "results" /\ mode = "collect")
    /\ look \in 0..Looked /\ tip \in DOMAIN trees \cup {None}
    /\ loaded \in [Manifests -> Versions \cup {None}] /\ found \in BOOLEAN
    /\ receipt \in BOOLEAN /\ clone \in BOOLEAN /\ pin \in BOOLEAN
    /\ report \in Verdicts /\ printed \in Verdicts /\ code \in {None, 0, 2, 5}

TypeOK == RepositoryTyped /\ SessionTyped /\ GateTyped

Init ==
    /\ RepositoryInit /\ SessionInit
    /\ memory = Unread
    /\ gate = "load" /\ mode \in Modes
    /\ look = FirstOfLoad /\ tip = None /\ loaded = Unread /\ found = TRUE /\ past = << >>
    /\ receipt = FALSE /\ clone = TRUE /\ pin = FALSE
    /\ execution = None /\ report = None /\ printed = None /\ code = None

-----------------------------------------------------------------------------
(* Looking at the repository.                                              *)

At(reads) == look \in 1..Len(Reads) /\ Reads[look] \in reads

(* A read that finds something wrong ends the look.                        *)
Proceed(ok) ==
    /\ look' = IF ok THEN look + 1 ELSE Looked
    /\ found' = ok
    /\ UNCHANGED <<gate, past, known, verdicts, memory, session>>

(* git ls-tree HEAD.                                                       *)
ReadCommit ==
    /\ At({"head", "tree", "tip"})
    /\ tip' = head
    /\ Proceed(TRUE) /\ UNCHANGED loaded

(* A manifest on disk has the blob that tree has.                          *)
CompareManifest ==
    /\ \/ At({"matrixClean", "matrixStill"})
             /\ Proceed(work["matrix"] = trees[tip]["matrix"])
       \/ At({"evidenceClean", "evidenceStill"})
             /\ Proceed(work["evidence"] = trees[tip]["evidence"])
    /\ UNCHANGED <<tip, loaded>>

LoadManifest ==
    /\ \E f \in Manifests : At({f}) /\ loaded' = [loaded EXCEPT ![f] = work[f]]
    /\ Proceed(TRUE) /\ UNCHANGED tip

(* The tests of a registry are files of the commit, unchanged, and the     *)
(* very ones its receipts name, and every claim of the matrix has its      *)
(* receipts.  Anything else is an error of the configuration when the gate *)
(* loads its manifests, and a reason not to pass when it reloads them.     *)
CheckLoaded ==
    LET ok == /\ work["tests"] = trees[tip]["tests"]
              /\ work["tests"] = BoundTests[loaded["evidence"]]
              /\ Closed(loaded["evidence"], loaded["matrix"])
    IN
    /\ At({"tests"})
    /\ gate = "load" => ok
    /\ Proceed(ok) /\ UNCHANGED <<tip, loaded>>

Look == ReadCommit \/ CompareManifest \/ LoadManifest \/ CheckLoaded

(* What there is to see in the repository.                                 *)
Now == [disk |-> [f \in Manifests \cup {"tests"} |-> work[f]],
        commit |-> [f \in Manifests \cup {"tests"} |-> trees[head][f]]]

(* A look for the verdict at g; there is nothing to look for when symbols  *)
(* are open or the manifests were not clean as they were loaded.           *)
BeginLook(g) ==
    LET worth == memory["matrix"] \notin Undecided /\ receipt IN
    /\ gate' = g
    /\ look' = (IF worth THEN 1 ELSE Looked) /\ found' = worth
    /\ tip' = None /\ loaded' = Unread
    /\ past' = <<Now>>

NotLooking ==
    look' = 0 /\ found' = TRUE /\ tip' = None /\ loaded' = Unread /\ past' = << >>

-----------------------------------------------------------------------------
(* The gate.                                                               *)

(* An error of the configuration, the source or a write ends it with 2. *)
Fail ==
    /\ gate # "done" /\ ~Active
    /\ gate' = "done" /\ code' = 2 /\ NotLooking
    /\ UNCHANGED <<known, report, printed, memory, session>>

(* Manifests that are not the commit's only lack the receipt.              *)
Loaded ==
    /\ gate = "load" /\ look = Looked
    /\ gate' = "inspect" /\ NotLooking
    /\ memory' = loaded /\ receipt' = found
    /\ UNCHANGED <<mode, pin, execution, verdicts, session>>

(* The gate goes on only with a clone that is clean and at the pin. *)
Inspect ==
    /\ gate = "inspect" /\ gate' = "results"
    /\ clone
    /\ UNCHANGED <<looking, known, verdicts, memory, session>>

Collect ==
    /\ gate = "results" /\ mode = "collect"
    /\ Begin \/ Collector
    /\ UNCHANGED <<gateVars, memory>>

(* What is demanded is missing, or came to something else than a pass with *)
(* the expected output of the registered tests.                            *)
Unmet(demanded, outcomes, bound) ==
    {a \in demanded : a \notin DOMAIN outcomes \/ outcomes[a] # "passed" \/ ~bound}

(* Only a result sealed by this process has authority. *)
Evaluated(outcomes, bound, authoritative) ==
    LET demanded == Closure(memory["evidence"], memory["matrix"]) IN
    Unmet(demanded, outcomes, bound) = {} /\ (demanded # {} => authoritative)

(* The tests are a file of the commit, unchanged, and the very one the     *)
(* receipts of a registry name.                                            *)
TestsBound(e) == work["tests"] = trees[head]["tests"] /\ work["tests"] = BoundTests[e]

(* Results must be about the registry in memory; the ones from files are   *)
(* whatever somebody wrote, with their tests checked against the commit.   *)
UseResults ==
    /\ gate = "results" /\ gate' = "identity"
    /\ \/ /\ mode = "collect" /\ stage = "sealed"
          /\ sealed.evidence = memory["evidence"]
          /\ execution' = Evaluated(sealed.outcomes,
                              sealed.tests = BoundTests[memory["evidence"]], TRUE)
       \/ /\ mode = "files" /\ TestsBound(memory["evidence"])
          /\ \E as \in SUBSET Receipts[memory["evidence"]] :
                \E outcomes \in [as -> Outcomes] :
                    execution' = Evaluated(outcomes, TRUE, FALSE)
       \/ mode = "nothing" /\ execution' = Evaluated(<< >>, TRUE, FALSE)
    /\ UNCHANGED <<looking, mode, receipt, pin, verdicts, memory, session>>

(* The clone is inspected again: its identity, the inventory made from it  *)
(* and the symbols in it, each read from the clone as it is by then.       *)
InspectIdentity ==
    /\ gate = "identity" /\ gate' = "inventory"
    /\ pin' = clone
    /\ UNCHANGED <<looking, mode, receipt, execution, verdicts, memory, session>>

MatchInventory ==
    /\ gate = "inventory" /\ gate' = "symbols"
    /\ pin' = (pin /\ clone)
    /\ UNCHANGED <<looking, mode, receipt, execution, verdicts, memory, session>>

BindSymbols ==
    /\ gate = "symbols" /\ BeginLook("write")
    /\ pin' = (pin /\ clone)
    /\ UNCHANGED <<mode, receipt, execution, verdicts, memory, session>>

(* What the look has found, with what was found before.                    *)
Passed == found /\ loaded = memory /\ execution /\ pin

WriteReport ==
    /\ gate = "write" /\ look = Looked
    /\ report' = Passed
    /\ BeginLook("print")
    /\ UNCHANGED <<known, printed, code, memory, session>>

(* Mutant: the console repeats what the report says.                       *)
PrintReported ==
    /\ gate = "print" /\ look = Looked
    /\ printed' = report
    /\ BeginLook("exit")
    /\ UNCHANGED <<known, report, code, memory, session>>

PrintSummary ==
    /\ gate = "print" /\ look = Looked
    /\ printed' = Passed
    /\ BeginLook("exit")
    /\ UNCHANGED <<known, report, code, memory, session>>

Exit ==
    /\ gate = "exit" /\ look = Looked
    /\ code' = IF Passed THEN 0 ELSE 5
    /\ gate' = "done" /\ NotLooking
    /\ UNCHANGED <<known, report, printed, memory, session>>

-----------------------------------------------------------------------------
MoveClone ==
    /\ moves < MaxMoves /\ moves' = moves + 1
    /\ clone' = ~clone
    /\ UNCHANGED <<trees, head, work>>

Gate ==
    \/ Look \/ Loaded \/ Inspect \/ Collect \/ UseResults
    \/ InspectIdentity \/ MatchInventory \/ BindSymbols
    \/ WriteReport \/ PrintSummary \/ Exit \/ Fail

(* The history remembers what the user makes of what a look can see.       *)
Watch ==
    past' = IF past = << >> \/ Now' = past[Len(past)] THEN past ELSE Append(past, Now')

(* What the user does after the gate has ended is another story. *)
Next ==
    \/ Gate /\ UNCHANGED <<repository, clone>>
    \/ gate # "done" /\ User /\ Watch
          /\ UNCHANGED <<memory, session, gate, look, tip, loaded, found, known, verdicts, clone>>
    \/ gate # "done" /\ MoveClone /\ UNCHANGED <<memory, session, gateVars>>
    \/ Stray /\ UNCHANGED <<repository, memory, gateVars, clone>>

(* Every command of the gate and of the collector ends, by itself or at a  *)
(* timeout.                                                                *)
Spec == Init /\ [][Next]_vars /\ WF_vars(Gate /\ UNCHANGED <<repository, clone>>)

-----------------------------------------------------------------------------
(* Every variable keeps its type - a session runs only within a gate that  *)
(* collects - and what a session seals was executed on one tree.           *)
SealedSound == TypeOK /\ SealedRanOnOneTree

(* What a look must have seen of a manifest: the version in memory, and    *)
(* the version of the commit.  The two may be of different moments only if *)
(* the repository changed twice in the course of this one look.            *)
SeenInCommit(f) ==
    /\ \E i \in DOMAIN past : past[i].disk[f] = memory[f]
    /\ \E i \in DOMAIN past : \E j \in DOMAIN past :
          i <= j /\ past[i].commit[f] = past[j].disk[f]
    /\ Len(past) <= 2 =>
          \E i \in DOMAIN past : past[i].disk[f] = memory[f] /\ past[i].commit[f] = memory[f]

(* The tests were the commit's, and the ones the registry names.           *)
TestsSeen ==
    \E i \in DOMAIN past : \E j \in DOMAIN past :
        /\ i <= j /\ past[i].commit["tests"] = past[j].disk["tests"]
        /\ past[j].disk["tests"] = BoundTests[memory["evidence"]]

(* A demanded assertion passed, on one tree, in a session that sealed it.  *)
(* It passed as the tests left it, but for what the collector cannot tell  *)
(* (SealedAsRun).                                                          *)
PassedOnOneTree(a) ==
    /\ sealed # None /\ a \in DOMAIN ran
    /\ ran[a].files = sealed.tree.files
    /\ sealed.tree.files["evidence"] = memory["evidence"]
    /\ (Faithful /\ Owner[a] \notin spoiled) \/ strays = 0 => ran[a].case = "expected"
    /\ Faithful => ran[a].exit = 0

Earned ==
    /\ memory["matrix"] \notin Undecided /\ pin
    /\ \A f \in Manifests : SeenInCommit(f)
    /\ TestsSeen
    /\ \A a \in Closure(memory["evidence"], memory["matrix"]) : PassedOnOneTree(a)

(* The gate says it passes - in the report, on the console or by its exit  *)
(* code - only when the manifests it has in memory decide every symbol and *)
(* were seen again in the repository and in its commit, with the tests     *)
(* they name, since the look for this very verdict began (not: at the      *)
(* moment the verdict is given, when the user may have moved on); when     *)
(* every look of the report at the clone found the pinned one; and when    *)
(* whatever is demanded passed on one tree in a session sealed before.     *)
PassIsEarned ==
    [][\/ report' = TRUE /\ report # TRUE
       \/ printed' = TRUE /\ printed # TRUE
       \/ code' = 0 /\ code # 0
       => Earned]_vars

(* The gate ends, whatever the user does and the tests leave behind. *)
GateEnds == <>(gate = "done")
=============================================================================
