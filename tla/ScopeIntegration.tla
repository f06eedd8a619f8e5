-------------------------- MODULE ScopeIntegration --------------------------
(***************************************************************************)
(* The scope integration of the upstream tracker (apply-safe-scope): it    *)
(* loads the registries, plans the reviewed scope decisions, and replaces  *)
(* the two canonical files that must agree, the decisions and then the     *)
(* matrix, each atomically (atomic_io.py).  Other commands read the same   *)
(* files meanwhile, a command may die between any two steps, and the user  *)
(* prepares evidence, promotes symbols, commits and restores.              *)
(***************************************************************************)
EXTENDS Integers, FiniteSets

CONSTANTS
    Commands,   \* the commands that are run
    Symbols,    \* the public symbols of the inventory
    Reviewed,   \* the ones the policy puts out of scope
    Baseline,   \* the ones decided before the policy
    Prepared,   \* the ones with evidence to begin with
    MaxEdits,   \* bound on what the user does
    MaxCrashes, \* bound on the commands that die
    None

ASSUME ScopeAssumption ==
    /\ Baseline \subseteq Reviewed /\ Reviewed \subseteq Symbols
    /\ Prepared \subseteq Symbols
    /\ MaxEdits \in Nat /\ MaxCrashes \in Nat

Classes == {"equivalent", "needs", "out"}

VARIABLES
    disk,       \* the registries: decided symbols, their classes, symbols with evidence
    committed,  \* the registries of HEAD
    pc,         \* where a command is
    kind,       \* what it was asked for: "read", "plan" or "write"
    held,       \* the registries a command has loaded
    receipt,    \* what it loaded was clean in the commit
    target,     \* the registries it has planned
    temps,      \* the commands with a temporary file beside the registries
    unsaved,    \* history: the registries hold changes of the user's that are not committed
    since,      \* history: the commands that began, or checked, before the user's last change
    disturbed,  \* history: the commands since whose beginning, or check, a writer that the
                \* user had overtaken replaced a file
    whole,      \* history: the pairs that agreed and were on disk together
    done,       \* history: the pair the last completed integration wrote, or None
    edits, crashes

commands == <<pc, kind, held, receipt, target>>
history == <<unsaved, since, disturbed, whole, done>>
bounds == <<edits, crashes>>
vars == <<disk, committed, commands, temps, history, bounds>>

Pair(r) == <<r.decisions, r.classes>>

Out(classes) == {s \in Symbols : classes[s] = "out"}

(* Mutant: decisions without their rows are taken for decisions still to   *)
(* be carried out.                                                         *)
AlignedSoFar(r) ==
    /\ r.evidence \cap Out(r.classes) = {}
    /\ {s \in Symbols : r.classes[s] = "equivalent"} \subseteq r.evidence
    /\ Out(r.classes) \subseteq r.decisions

(* The registries agree: evidence is about nothing out of scope, a claim   *)
(* of equivalence has evidence, and exactly what is out of scope has a     *)
(* decision.                                                               *)
Aligned(r) ==
    /\ r.evidence \cap Out(r.classes) = {}
    /\ {s \in Symbols : r.classes[s] = "equivalent"} \subseteq r.evidence
    /\ r.decisions = Out(r.classes)

(* The policy accepts only decisions of its own, with all the old ones,    *)
(* and a matrix that agrees with them ...                                  *)
Plannable(r) ==
    /\ Baseline \subseteq r.decisions /\ r.decisions \subseteq Reviewed
    /\ Out(r.classes) = r.decisions

(* Mutant: only the new decisions are written. *)
PlannedNewOnly(r) ==
    [r EXCEPT !.decisions = Reviewed \ @,
              !.classes = [s \in Symbols |-> IF s \in Reviewed THEN "out" ELSE @[s]]]

(* ... and puts every reviewed symbol out of scope, whatever it was.       *)
Planned(r) ==
    [r EXCEPT !.decisions = Reviewed,
              !.classes = [s \in Symbols |-> IF s \in Reviewed THEN "out" ELSE @[s]]]

Noted(r) == whole \cup IF r.decisions = Out(r.classes) THEN {Pair(r)} ELSE {}

Init ==
    /\ disk = [decisions |-> Baseline,
               classes |-> [s \in Symbols |-> IF s \in Baseline THEN "out" ELSE "needs"],
               evidence |-> Prepared \ Baseline]
    /\ committed = disk
    /\ pc = [c \in Commands |-> "matrix"]
    /\ kind \in [Commands -> {"read", "plan", "write"}]
    /\ held = [c \in Commands |-> disk] /\ target = held
    /\ receipt = [c \in Commands |-> FALSE]
    /\ temps = {} /\ unsaved = FALSE /\ since = {} /\ disturbed = {} /\ whole = {Pair(disk)} /\ done = None
    /\ edits = 0 /\ crashes = 0

Goto(c, place) == pc' = [pc EXCEPT ![c] = place]

(***************************************************************************)
(* A command.                                                              *)
(***************************************************************************)
LoadMatrix(c) ==
    /\ pc[c] = "matrix" /\ Goto(c, "evidence")
    /\ held' = [held EXCEPT ![c].classes = disk.classes]
    /\ since' = since \ {c} /\ disturbed' = disturbed \ {c}
    /\ UNCHANGED <<disk, committed, kind, receipt, target, temps, unsaved, whole, done, bounds>>

LoadEvidence(c) ==
    /\ pc[c] = "evidence" /\ Goto(c, "decisions")
    /\ held' = [held EXCEPT ![c].evidence = disk.evidence]
    /\ UNCHANGED <<disk, committed, kind, receipt, target, temps, history, bounds>>

LoadDecisions(c) ==
    /\ pc[c] = "decisions" /\ Goto(c, "align")
    /\ held' = [held EXCEPT ![c].decisions = disk.decisions]
    /\ UNCHANGED <<disk, committed, kind, receipt, target, temps, history, bounds>>

(* The loaded registries must agree; the receipt says they are the files   *)
(* of the commit.                                                          *)
IssueReceipt(c) ==
    /\ pc[c] = "align"
    /\ receipt' = [receipt EXCEPT ![c] = disk = committed]
    /\ Goto(c, IF ~Aligned(held[c]) THEN "refused"
               ELSE IF kind[c] = "read" THEN "loaded" ELSE "plan")
    /\ UNCHANGED <<disk, committed, kind, held, target, temps, history, bounds>>

(* The candidates go to the temporary directory, where nobody reads them. *)
MakePlan(c) ==
    /\ pc[c] = "plan"
    /\ target' = [target EXCEPT ![c] = Planned(held[c])]
    /\ Goto(c, IF ~Plannable(held[c]) THEN "refused"
               ELSE IF kind[c] = "write" THEN "clean" ELSE "planned")
    /\ UNCHANGED <<disk, committed, kind, held, receipt, temps, history, bounds>>

(* Before it writes, the registries must be those of the commit ... *)
CheckClean(c) ==
    /\ pc[c] = "clean"
    /\ Goto(c, IF receipt[c] /\ disk = committed THEN "same" ELSE "refused")
    /\ UNCHANGED <<disk, committed, kind, held, receipt, target, temps, history, bounds>>

(* Mutant: the registries on disk are trusted to be the ones in memory. *)
CheckSameByReceipt(c) ==
    /\ pc[c] = "same"
    /\ Goto(c, IF receipt[c] THEN "write decisions" ELSE "refused")
    /\ since' = since \ {c} /\ disturbed' = disturbed \ {c}
    /\ UNCHANGED <<disk, committed, kind, held, receipt, target, temps, unsaved, whole, done, bounds>>

(* ... and loaded once more they must be clean, and the ones in memory. *)
CheckSame(c) ==
    /\ pc[c] = "same"
    /\ Goto(c, IF disk = committed /\ disk = held[c] THEN "write decisions" ELSE "refused")
    /\ since' = since \ {c} /\ disturbed' = disturbed \ {c}
    /\ UNCHANGED <<disk, committed, kind, held, receipt, target, temps, unsaved, whole, done, bounds>>

Writing == [decisions |-> "write decisions", classes |-> "write classes"]
Moving == [decisions |-> "move decisions", classes |-> "move classes"]
After == [decisions |-> "write classes", classes |-> "written"]

(* A file is written beside its place ... *)
WriteTemp(c, file) ==
    /\ pc[c] = Writing[file] /\ Goto(c, Moving[file])
    /\ temps' = temps \cup {c}
    /\ UNCHANGED <<disk, committed, kind, held, receipt, target, history, bounds>>

(* ... and moved over it. *)
Replace(c, file) ==
    /\ pc[c] = Moving[file] /\ Goto(c, After[file])
    /\ disk' = [disk EXCEPT ![file] = target[c][file]]
    /\ temps' = temps \ {c}
    /\ whole' = Noted(disk')
    /\ done' = IF After[file] = "written" THEN Pair(target[c]) ELSE done
    /\ unsaved' = (unsaved /\ disk' # committed)
    /\ disturbed' = IF c \in since THEN Commands ELSE disturbed
    /\ UNCHANGED <<committed, kind, held, receipt, target, since, bounds>>

(* An error removes the temporary file, and what was moved stays ... *)
FailWrite(c) ==
    /\ \E file \in {"decisions", "classes"} : pc[c] \in {Writing[file], Moving[file]}
    /\ Goto(c, "failed")
    /\ temps' = temps \ {c}
    /\ UNCHANGED <<disk, committed, kind, held, receipt, target, history, bounds>>

Ended == {"refused", "failed", "loaded", "planned", "written", "dead"}

(* ... and a process that dies leaves both. *)
Die(c) ==
    /\ crashes < MaxCrashes /\ crashes' = crashes + 1
    /\ pc[c] \notin Ended /\ Goto(c, "dead")
    /\ UNCHANGED <<disk, committed, kind, held, receipt, target, temps, history, edits>>

Step(c) ==
    \/ LoadMatrix(c) \/ LoadEvidence(c) \/ LoadDecisions(c) \/ IssueReceipt(c)
    \/ MakePlan(c) \/ CheckClean(c) \/ CheckSame(c)
    \/ \E file \in {"decisions", "classes"} : WriteTemp(c, file) \/ Replace(c, file)
    \/ FailWrite(c)

(***************************************************************************)
(* The user.                                                               *)
(***************************************************************************)
UserLeaves(registries, head) ==
    /\ edits < MaxEdits /\ edits' = edits + 1
    /\ disk' = registries /\ committed' = head
    /\ since' = Commands
    /\ unsaved' = (registries # head)
    /\ whole' = Noted(registries)
    /\ UNCHANGED <<commands, temps, disturbed, done, crashes>>

(* Evidence may be prepared before the matrix claims anything. *)
PrepareEvidence(s) ==
    /\ disk.classes[s] = "needs" /\ s \notin disk.evidence
    /\ UserLeaves([disk EXCEPT !.evidence = @ \cup {s}], committed)

Promote(s) ==
    /\ disk.classes[s] = "needs" /\ s \in disk.evidence
    /\ UserLeaves([disk EXCEPT !.classes[s] = "equivalent"], committed)

Commit == disk # committed /\ UserLeaves(disk, disk)

Restore == disk # committed /\ UserLeaves(committed, committed)

User == (\E s \in Symbols : PrepareEvidence(s) \/ Promote(s)) \/ Commit \/ Restore

Next == (\E c \in Commands : Step(c) \/ Die(c)) \/ User

Spec == Init /\ [][Next]_vars

-----------------------------------------------------------------------------
(* Whatever a command works with was together on disk at some moment and   *)
(* agreed, though it reads the files one after the other while others      *)
(* replace them one after the other, fail between them, or die - as long   *)
(* as the user leaves them alone since it began or last checked them, and  *)
(* no writer replaces one that the user changed behind its own last check. *)
WholePairsOnly ==
    \A c \in Commands \ (since \cup disturbed) :
        pc[c] \notin {"matrix", "evidence", "decisions", "align", "refused", "failed", "dead"}
          => Pair(held[c]) \in whole

(* What the user has changed and not committed is overwritten only if it   *)
(* was changed after the command's last check.                             *)
NoEditLost ==
    [][\A c \in Commands, file \in {"decisions", "classes"} :
          pc[c] = Moving[file] /\ pc'[c] = After[file] /\ unsaved => c \in since]_vars

(* Run again over what an integration wrote, the command takes it, finds   *)
(* no new decision and writes the same - unless there is evidence for a    *)
(* symbol that the policy puts out of scope, which the next load refuses.  *)
RerunIsStable ==
    done # None /\ Pair(disk) = done /\ disk.evidence \cap Reviewed = {} =>
        /\ Aligned(disk) /\ Plannable(disk)
        /\ disk.decisions = Reviewed /\ Pair(Planned(disk)) = done
=============================================================================
