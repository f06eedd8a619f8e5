-------------------------- MODULE RuntimeBootstrap --------------------------
(***************************************************************************)
(* Preparation of the pinned EnergyPlus runtime by                         *)
(* EnergyPlusRuntimeBootstrapper.EnsureInstalledAsync, called by several   *)
(* Rhino processes on one target directory.  A call checks the target,     *)
(* waits for the cross-process lock file, checks again, obtains and        *)
(* extracts the archive into private paths, and promotes the extracted     *)
(* runtime: the directory in the way is moved aside, the candidate is      *)
(* moved in, hashed once more, and the old directory is deleted or, after  *)
(* a failure, moved back.                                                  *)
(*                                                                         *)
(* A directory is abstracted to what the resolver can tell of it and to    *)
(* who owns it.  File operations are the atomic steps; each may fail with  *)
(* an I/O error while the budget MaxFaults lasts.  A process may crash     *)
(* between any two steps: the system then closes its lock file and leaves  *)
(* its files where they are.                                               *)
(***************************************************************************)
EXTENDS Naturals, FiniteSets

CONSTANTS
    Procs,          \* processes that call EnsureInstalledAsync
    NoProc,         \* nobody holds the lock file
    InitialTargets, \* what may be at the target path before the first call
    AllowChoices,   \* values of allowInvalidTargetReplacement callers use
    MaxCalls,       \* bound on the number of calls
    MaxFaults,      \* bound on the number of file operations that fail
    MaxCrashes,     \* bound on the number of crashes
    MaxIntrusions   \* bound on the number of times others occupy the target

(* What a path may hold.  "foreign": a directory that is no verified       *)
(* runtime and belongs to the caller or to an older installation;          *)
(* "remnant": what an interrupted copy, extraction or recursive delete     *)
(* leaves; "link": a reparse point.                                        *)
Contents == {"none", "file", "link", "foreign", "remnant", "runtime"}

ASSUME BootstrapAssumption ==
    /\ NoProc \notin Procs
    /\ InitialTargets \subseteq Contents
    /\ AllowChoices \subseteq BOOLEAN
    /\ MaxCalls \in Nat /\ MaxFaults \in Nat
    /\ MaxCrashes \in Nat /\ MaxIntrusions \in Nat

VARIABLES
    target,     \* what is at targetRoot
    lock,       \* the process that has the lock file open, or NoProc
    pc,         \* where each call stands
    allow,      \* allowInvalidTargetReplacement of each call
    cancelled,  \* the caller has cancelled the call's token
    outcome,    \* what the call will return, once that is settled
    result,     \* what the process's latest call returned
    partial,    \* the archive at partialArchivePath: none, good or bad bytes
    staging,    \* the directory under stagingRoot
    displaced,  \* the directory at displacedRoot
    orphans,    \* directories left beside the target by ended operations
    calls, faults, crashes, intrusions

vars == <<target, lock, pc, allow, cancelled, outcome, result, partial,
          staging, displaced, orphans, calls, faults, crashes, intrusions>>

private == <<partial, staging, displaced>>
budgets == <<calls, faults, crashes, intrusions>>

Unlocked == {"idle", "check", "gate", "lockWait"}
Locked == {"recheck", "regate", "obtain", "downloading", "verify", "extract",
           "examine", "displace", "publish", "confirm", "rollback",
           "restoreFirst", "restoreLast", "discard", "cleanup"}

Successes == {"Reused", "Installed"}
Failures == {"Cancelled", "ReplacementRequired", "TargetIsFile",
             "ReparsePoint", "LockTimeout", "AcquisitionFailed",
             "IntegrityFailed", "PromotionFailed"}
Outcomes == {"none", "Crashed"} \cup Successes \cup Failures

IsDirectory(c) == c \in {"link", "foreign", "remnant", "runtime"}

(* ResolveExactAsync succeeds on a directory with the four pinned files.   *)
Verifies(c) == c = "runtime"

(* Mutant: the tests repeated under the lock are dropped.                  *)
MustKeepUntilLocked(p) == IsDirectory(target) /\ ~allow[p] /\ lock # p

(* Directory.Exists(targetRoot) && !allowInvalidTargetReplacement          *)
MustKeep(p) == IsDirectory(target) /\ ~allow[p]

Fault == faults < MaxFaults /\ faults' = faults + 1
NoFault == UNCHANGED faults

Init ==
    /\ target \in InitialTargets
    /\ lock = NoProc
    /\ pc = [p \in Procs |-> "idle"]
    /\ allow = [p \in Procs |-> FALSE]
    /\ cancelled = [p \in Procs |-> FALSE]
    /\ outcome = [p \in Procs |-> "none"]
    /\ result = [p \in Procs |-> "none"]
    /\ partial = [p \in Procs |-> "none"]
    /\ staging = [p \in Procs |-> "none"]
    /\ displaced = [p \in Procs |-> "none"]
    /\ orphans = {}
    /\ calls = 0 /\ faults = 0 /\ crashes = 0 /\ intrusions = 0

Goto(p, label) == pc' = [pc EXCEPT ![p] = label]

(* The call returns r; disposing the stream releases a held lock file.     *)
Return(p, r) ==
    /\ Goto(p, "idle")
    /\ result' = [result EXCEPT ![p] = r]
    /\ lock' = IF lock = p THEN NoProc ELSE lock

(* The installation ends with r; its finally block is still to run.        *)
Unwind(p, r) ==
    /\ Goto(p, "cleanup")
    /\ outcome' = [outcome EXCEPT ![p] = r]

Begin(p, a) ==
    /\ pc[p] = "idle" /\ calls < MaxCalls
    /\ calls' = calls + 1
    /\ Goto(p, "check")
    /\ allow' = [allow EXCEPT ![p] = a]
    /\ cancelled' = [cancelled EXCEPT ![p] = FALSE]
    /\ outcome' = [outcome EXCEPT ![p] = "none"]
    /\ result' = [result EXCEPT ![p] = "none"]
    /\ UNCHANGED <<target, lock, private, orphans, faults, crashes,
                   intrusions>>

RequestCancel(p) ==
    /\ pc[p] # "idle" /\ ~cancelled[p]
    /\ cancelled' = [cancelled EXCEPT ![p] = TRUE]
    /\ UNCHANGED <<target, lock, pc, allow, outcome, result, private, orphans,
                   budgets>>

(* The first look at the target, without the lock.                         *)
Check(p) ==
    /\ pc[p] = "check"
    /\ \/ cancelled[p] /\ Return(p, "Cancelled") /\ NoFault
       \/ /\ ~cancelled[p] /\ target = "link"
          /\ Return(p, "ReparsePoint") /\ NoFault
       \/ ~cancelled[p] /\ Verifies(target) /\ Return(p, "Reused") /\ NoFault
       \/ /\ ~cancelled[p] /\ target # "link"
          /\ IF Verifies(target) THEN Fault ELSE NoFault
          /\ Goto(p, "gate")
          /\ UNCHANGED <<lock, result>>
    /\ UNCHANGED <<target, allow, cancelled, outcome, private, orphans, calls,
                   crashes, intrusions>>

(* What follows the first look, still without the lock.                    *)
Gate(p) ==
    /\ pc[p] = "gate"
    /\ \/ cancelled[p] /\ Return(p, "Cancelled")
       \/ ~cancelled[p] /\ target = "file" /\ Return(p, "TargetIsFile")
       \/ ~cancelled[p] /\ MustKeep(p) /\ Return(p, "ReplacementRequired")
       \/ /\ ~cancelled[p] /\ target # "file" /\ ~MustKeep(p)
          /\ Goto(p, "lockWait")
          /\ UNCHANGED <<lock, result>>
    /\ UNCHANGED <<target, allow, cancelled, outcome, private, orphans,
                   budgets>>

(* Mutant: the lock file is opened with shared access.                     *)
AcquireSharedLock(p) ==
    /\ pc[p] = "lockWait" /\ lock' = p /\ Goto(p, "recheck")
    /\ UNCHANGED <<target, allow, cancelled, outcome, result, private, orphans,
                   budgets>>

(* One turn of the retry loop of AcquireInstallLockAsync.                  *)
AcquireInstallLock(p) ==
    /\ pc[p] = "lockWait"
    /\ \/ cancelled[p] /\ Return(p, "Cancelled")
       \/ ~cancelled[p] /\ lock # NoProc /\ Return(p, "LockTimeout")
       \/ /\ ~cancelled[p] /\ lock = NoProc
          /\ lock' = p
          /\ Goto(p, "recheck")
          /\ UNCHANGED result
    /\ UNCHANGED <<target, allow, cancelled, outcome, private, orphans,
                   budgets>>

(* Mutant: the target is not looked at again under the lock.               *)
SkipRecheck(p) ==
    /\ pc[p] = "recheck" /\ Goto(p, "regate")
    /\ UNCHANGED <<target, lock, allow, cancelled, outcome, result, private,
                   orphans, budgets>>

(* The second look.  A cancelled resolution is a failed one: the resolver  *)
(* returns the cancellation as a failure instead of throwing.              *)
Recheck(p) ==
    /\ pc[p] = "recheck"
    /\ \/ ~cancelled[p] /\ Verifies(target) /\ Return(p, "Reused") /\ NoFault
       \/ /\ IF Verifies(target) /\ ~cancelled[p] THEN Fault ELSE NoFault
          /\ Goto(p, "regate")
          /\ UNCHANGED <<lock, result>>
    /\ UNCHANGED <<target, allow, cancelled, outcome, private, orphans, calls,
                   crashes, intrusions>>

(* The directory test comes before the cancellation test here.             *)
Regate(p) ==
    /\ pc[p] = "regate"
    /\ \/ target = "link" /\ Return(p, "ReparsePoint")
       \/ target # "link" /\ MustKeep(p) /\ Return(p, "ReplacementRequired")
       \/ /\ target # "link" /\ ~MustKeep(p) /\ cancelled[p]
          /\ Return(p, "Cancelled")
       \/ /\ target # "link" /\ ~MustKeep(p) /\ ~cancelled[p]
          /\ Goto(p, "obtain")
          /\ UNCHANGED <<lock, result>>
    /\ UNCHANGED <<target, allow, cancelled, outcome, private, orphans,
                   budgets>>

(* The partial file exists from the first byte on.                         *)
BeginDownload(p) ==
    /\ pc[p] = "obtain"
    /\ partial' = [partial EXCEPT ![p] = "bad"]
    /\ Goto(p, "downloading")
    /\ UNCHANGED <<target, lock, allow, cancelled, outcome, result, staging,
                   displaced, orphans, budgets>>

(* The transfer ends, with the pinned bytes or others, or with an error.   *)
(* Nothing bounds the time it takes: the client has no timeout.            *)
FinishDownload(p) ==
    /\ pc[p] = "downloading"
    /\ \/ /\ \E bytes \in {"good", "bad"} :
                partial' = [partial EXCEPT ![p] = bytes]
          /\ Goto(p, "verify")
          /\ NoFault /\ UNCHANGED outcome
       \/ Fault /\ Unwind(p, "AcquisitionFailed") /\ UNCHANGED partial
    /\ UNCHANGED <<target, lock, allow, cancelled, result, staging, displaced,
                   orphans, calls, crashes, intrusions>>

(* Mutant: the transfer is not given the token.                            *)
AbortIgnored(p) == FALSE

(* Every read and write of the transfer takes the token.                   *)
AbortDownload(p) ==
    /\ pc[p] = "downloading" /\ cancelled[p]
    /\ Unwind(p, "Cancelled")
    /\ UNCHANGED <<target, lock, allow, cancelled, result, private, orphans,
                   budgets>>

VerifyArchive(p) ==
    /\ pc[p] = "verify"
    /\ \/ cancelled[p] /\ Unwind(p, "Cancelled") /\ NoFault
       \/ /\ ~cancelled[p] /\ partial[p] = "bad" /\ NoFault
          /\ Unwind(p, "IntegrityFailed")
       \/ ~cancelled[p] /\ Fault /\ Unwind(p, "AcquisitionFailed")
       \/ /\ ~cancelled[p] /\ partial[p] = "good"
          /\ Goto(p, "extract")
          /\ NoFault /\ UNCHANGED outcome
    /\ UNCHANGED <<target, lock, allow, cancelled, result, private, orphans,
                   calls, crashes, intrusions>>

(* A cancellation or an error may come after some of the entries.          *)
ExtractArchive(p) ==
    /\ pc[p] = "extract"
    /\ \/ /\ cancelled[p] /\ NoFault
          /\ Unwind(p, "Cancelled")
          /\ staging' = [staging EXCEPT ![p] = "remnant"]
       \/ /\ ~cancelled[p] /\ Fault
          /\ Unwind(p, "AcquisitionFailed")
          /\ staging' = [staging EXCEPT ![p] = "remnant"]
       \/ /\ ~cancelled[p] /\ NoFault
          /\ Goto(p, "examine")
          /\ staging' = [staging EXCEPT ![p] = "runtime"]
          /\ UNCHANGED outcome
    /\ UNCHANGED <<target, lock, allow, cancelled, result, partial, displaced,
                   orphans, calls, crashes, intrusions>>

(* FindVerifiedRuntimeAsync, and the last look at the token.               *)
FindVerifiedRuntime(p) ==
    /\ pc[p] = "examine"
    /\ \/ cancelled[p] /\ Unwind(p, "Cancelled") /\ NoFault
       \/ ~cancelled[p] /\ Fault /\ Unwind(p, "IntegrityFailed")
       \/ ~cancelled[p] /\ Goto(p, "displace") /\ NoFault /\ UNCHANGED outcome
    /\ UNCHANGED <<target, lock, allow, cancelled, result, private, orphans,
                   calls, crashes, intrusions>>

(* PromoteAsync, up to moving the directory in the way aside.              *)
DisplaceTarget(p) ==
    /\ pc[p] = "displace"
    /\ \/ /\ target \in {"link", "file"} /\ NoFault
          /\ Unwind(p, IF target = "link" THEN "ReparsePoint"
                                          ELSE "TargetIsFile")
          /\ UNCHANGED <<target, displaced>>
       \/ /\ target # "link" /\ MustKeep(p) /\ NoFault
          /\ Unwind(p, "ReplacementRequired")
          /\ UNCHANGED <<target, displaced>>
       \/ /\ target = "none" /\ NoFault
          /\ Goto(p, "publish")
          /\ UNCHANGED <<target, displaced, outcome>>
       \/ /\ target # "link" /\ IsDirectory(target) /\ ~MustKeep(p)
          /\ \/ /\ NoFault
                /\ displaced' = [displaced EXCEPT ![p] = target]
                /\ target' = "none"
                /\ Goto(p, "publish")
                /\ UNCHANGED outcome
             \/ /\ Fault
                /\ Unwind(p, "PromotionFailed")
                /\ UNCHANGED <<target, displaced>>
    /\ UNCHANGED <<lock, allow, cancelled, result, partial, staging, orphans,
                   calls, crashes, intrusions>>

(* Directory.Move(candidateRoot, targetRoot)                               *)
PublishCandidate(p) ==
    /\ pc[p] = "publish"
    /\ \/ /\ target = "none" /\ NoFault
          /\ target' = staging[p]
          /\ staging' = [staging EXCEPT ![p] = "remnant"]
          /\ Goto(p, "confirm")
       \/ /\ IF target = "none" THEN Fault ELSE NoFault
          /\ Goto(p, "restoreFirst")
          /\ UNCHANGED <<target, staging>>
    /\ UNCHANGED <<lock, allow, cancelled, outcome, result, partial, displaced,
                   orphans, calls, crashes, intrusions>>

(* The final verification; it ignores the caller's token.                  *)
ConfirmPromoted(p) ==
    /\ pc[p] = "confirm"
    /\ \/ Verifies(target) /\ NoFault /\ Goto(p, "discard")
       \/ /\ IF Verifies(target) THEN Fault ELSE NoFault
          /\ Goto(p, "rollback")
    /\ UNCHANGED <<target, lock, allow, cancelled, outcome, result, private,
                   orphans, calls, crashes, intrusions>>

(* TryDeletePromotedRuntime: a failed recursive delete may leave all of    *)
(* the directory or a part of it.                                          *)
DeletePromoted(p) ==
    /\ pc[p] = "rollback"
    /\ \/ NoFault /\ target' = "none"
       \/ Fault /\ target' \in {target, "remnant"}
    /\ Goto(p, "restoreLast")
    /\ UNCHANGED <<lock, allow, cancelled, outcome, result, private, orphans,
                   calls, crashes, intrusions>>

(* It gives up on a directory in the way; a file there makes the move fail. *)
Restorable(p) == displaced[p] # "none" /\ target = "none"

(* Mutant: the displaced directory is not moved back.                      *)
MoveBackForgotten(p) == UNCHANGED <<target, displaced>>

MoveBack(p) ==
    /\ target' = displaced[p]
    /\ displaced' = [displaced EXCEPT ![p] = "none"]

(* RestoreDisplacedRuntime.  A failed move of the candidate reaches it     *)
(* twice, in the inner and in the outer handler; a failed verification     *)
(* only once.                                                              *)
RestoreDisplaced(p) ==
    /\ pc[p] \in {"restoreFirst", "restoreLast"}
    /\ \/ Restorable(p) /\ NoFault /\ MoveBack(p)
       \/ /\ IF Restorable(p) THEN Fault ELSE NoFault
          /\ UNCHANGED <<target, displaced>>
    /\ IF pc[p] = "restoreFirst"
         THEN Goto(p, "restoreLast") /\ UNCHANGED outcome
         ELSE Unwind(p, "PromotionFailed")
    /\ UNCHANGED <<lock, allow, cancelled, result, partial, staging, orphans,
                   calls, crashes, intrusions>>

(* Mutant: the result of a completed promotion is not recorded.            *)
DiscardWithoutResult(p) ==
    /\ pc[p] = "discard" /\ Goto(p, "cleanup")
    /\ displaced' = [displaced EXCEPT ![p] = "none"]
    /\ UNCHANGED <<target, lock, allow, cancelled, outcome, result, partial,
                   staging, orphans, budgets>>

(* Best-effort deletion of the directory moved aside.                      *)
DiscardDisplaced(p) ==
    /\ pc[p] = "discard"
    /\ \/ NoFault /\ displaced' = [displaced EXCEPT ![p] = "none"]
       \/ /\ displaced[p] # "none" /\ Fault
          /\ displaced' \in {displaced, [displaced EXCEPT ![p] = "remnant"]}
    /\ Unwind(p, "Installed")
    /\ UNCHANGED <<target, lock, allow, cancelled, result, partial, staging,
                   orphans, calls, crashes, intrusions>>

(* The paths of operation p that are not empty; they outlive it unless it  *)
(* deletes them.                                                           *)
Leftovers(p) ==
    ({staging[p], displaced[p]}
        \cup (IF partial[p] = "none" THEN {} ELSE {"remnant"})) \ {"none"}

ClearPaths(p) ==
    /\ partial' = [partial EXCEPT ![p] = "none"]
    /\ staging' = [staging EXCEPT ![p] = "none"]
    /\ displaced' = [displaced EXCEPT ![p] = "none"]

(* Mutant: no finally block.                                               *)
CleanupNothing(p) ==
    /\ pc[p] = "cleanup"
    /\ orphans' = orphans \cup Leftovers(p)
    /\ ClearPaths(p) /\ Return(p, outcome[p])
    /\ UNCHANGED <<target, allow, cancelled, outcome, budgets>>

(* Mutant: the finally block deletes every path of the operation.          *)
CleanupEverything(p) ==
    /\ pc[p] = "cleanup"
    /\ ClearPaths(p) /\ Return(p, outcome[p])
    /\ UNCHANGED <<target, allow, cancelled, outcome, orphans, budgets>>

(* The finally block deletes the partial archive and the staging directory *)
(* but never a displaced directory; then the lock is released.             *)
Cleanup(p) ==
    /\ pc[p] = "cleanup"
    /\ \/ NoFault /\ orphans' = orphans \cup ({displaced[p]} \ {"none"})
       \/ Fault /\ orphans' = orphans \cup Leftovers(p)
    /\ ClearPaths(p)
    /\ Return(p, outcome[p])
    /\ UNCHANGED <<target, allow, cancelled, outcome, calls, crashes,
                   intrusions>>

(* The process dies: the lock file is closed, nothing is cleaned up, and   *)
(* the paths, named after a fresh GUID, are never looked at again.         *)
Crash(p) ==
    /\ pc[p] # "idle" /\ crashes < MaxCrashes
    /\ crashes' = crashes + 1
    /\ orphans' = orphans \cup Leftovers(p)
    /\ ClearPaths(p)
    /\ Return(p, "Crashed")
    /\ UNCHANGED <<target, allow, cancelled, outcome, calls, faults,
                   intrusions>>

(* Somebody else, a user copying files or another program, puts something  *)
(* where nothing is.                                                       *)
Intrude(c) ==
    /\ target = "none" /\ intrusions < MaxIntrusions
    /\ intrusions' = intrusions + 1
    /\ target' = c
    /\ UNCHANGED <<lock, pc, allow, cancelled, outcome, result, private, orphans,
                   calls, faults, crashes>>

(* The steps of a call that its own code takes without waiting for ever.   *)
Step(p) ==
    \/ Check(p) \/ Gate(p) \/ AcquireInstallLock(p) \/ Recheck(p) \/ Regate(p)
    \/ BeginDownload(p) \/ AbortDownload(p) \/ VerifyArchive(p)
    \/ ExtractArchive(p) \/ FindVerifiedRuntime(p) \/ DisplaceTarget(p)
    \/ PublishCandidate(p) \/ ConfirmPromoted(p) \/ DeletePromoted(p)
    \/ RestoreDisplaced(p) \/ DiscardDisplaced(p) \/ Cleanup(p)

Next ==
    \/ \E p \in Procs :
          \/ \E a \in AllowChoices : Begin(p, a)
          \/ RequestCancel(p)
          \/ Step(p)
          \/ FinishDownload(p)
          \/ Crash(p)
    \/ \E c \in {"file", "link", "foreign"} : Intrude(c)

Spec == Init /\ [][Next]_vars

(* A call that is neither crashed nor stuck in a transfer keeps running.   *)
Fairness == \A p \in Procs : WF_vars(Step(p))

FairSpec == Spec /\ Fairness
-----------------------------------------------------------------------------
(* Every variable holds a value the code can give it, and a call in its    *)
(* finally block knows what it will return.                                *)
TypeOK ==
    /\ target \in Contents
    /\ lock \in Procs \cup {NoProc}
    /\ pc \in [Procs -> Unlocked \cup Locked]
    /\ allow \in [Procs -> BOOLEAN]
    /\ cancelled \in [Procs -> BOOLEAN]
    /\ outcome \in [Procs -> Outcomes]
    /\ result \in [Procs -> Outcomes]
    /\ \A p \in Procs : pc[p] = "cleanup" => outcome[p] # "none"
    /\ partial \in [Procs -> {"none", "good", "bad"}]
    /\ staging \in [Procs -> Contents]
    /\ displaced \in [Procs -> Contents]
    /\ orphans \subseteq Contents
    /\ calls \in 0 .. MaxCalls
    /\ faults \in 0 .. MaxFaults
    /\ crashes \in 0 .. MaxCrashes
    /\ intrusions \in 0 .. MaxIntrusions

(* The lock file serialises the installations: an operation owns paths     *)
(* only while it holds the lock, has moved nothing aside before it         *)
(* promotes, and finds its own candidate at the target when it verifies,   *)
(* rolls back or discards.                                                 *)
LockDiscipline ==
    \A p \in Procs :
        /\ pc[p] \in Locked <=> lock = p
        /\ lock # p \/ pc[p] \in {"recheck", "regate", "obtain"}
              => partial[p] = "none" /\ staging[p] = "none" /\ displaced[p] = "none"
        /\ pc[p] \in {"examine", "displace", "publish"} => staging[p] = "runtime"
        /\ pc[p] \in {"recheck", "regate", "obtain", "downloading", "verify",
                      "extract", "examine", "displace"} => displaced[p] = "none"
        /\ pc[p] \in {"confirm", "rollback", "discard"} => target = "runtime"

(* Without I/O faults a promotion starts only over a target that is no     *)
(* verified runtime, so that it takes nothing from earlier callers.        *)
PromotesOverInvalid ==
    faults = 0 =>
        \A p \in Procs :
            /\ pc[p] = "regate" /\ ~cancelled[p] => target # "runtime"
            /\ pc[p] \in {"obtain", "downloading", "verify", "extract", "examine",
                          "displace", "publish", "restoreFirst", "restoreLast"}
                   => target # "runtime" /\ displaced[p] # "runtime"
            /\ pc[p] # "rollback"
            /\ outcome[p] \in Successes /\ pc[p] = "cleanup" => target = "runtime"
            /\ outcome[p] # "Reused"

(* A caller that was told "reused" or "installed" finds the runtime at the *)
(* target from then on, as long as no file operation fails: no concurrent  *)
(* preparation, cancellation, crash or intruder takes it away again        *)
(* (EnsureInstalledAsync returns the layout of the stable cache).          *)
SuccessDurable ==
    faults = 0 =>
        \A p \in Procs : result[p] \in Successes => target = "runtime"

(* An installation outlives up to two failed file operations, once no      *)
(* preparation is under way: when it looks unreadable to a later caller    *)
(* and is moved aside, it comes back if the promotion of its successor     *)
(* fails.  (Not so for "reused": the first look takes no lock, and may     *)
(* find a candidate that its promoter then rolls back.)                    *)
InstalledSurvivesTwoFaults ==
    (lock = NoProc /\ faults <= 2 /\ crashes = 0 /\ intrusions = 0) =>
        \A p \in Procs : result[p] = "Installed" => target = "runtime"

(* What a failed, cancelled or successful operation leaves beside the      *)
(* target, absent I/O faults and crashes, is at most a directory that was  *)
(* at the target before - a remnant only if one was there to begin with:   *)
(* never its own archive or staging files.                                 *)
OnlyCallerFilesStay ==
    (faults = 0 /\ crashes = 0) =>
        orphans \subseteq {"foreign"} \cup (InitialTargets \cap {"remnant"})

(* A foreign directory is moved or overwritten only by a process whose     *)
(* caller allowed replacement, also when it appears between the check      *)
(* under the lock and the promotion (ReplaceInvalidExistingTarget).        *)
ConsentRespected ==
    [][target = "foreign" /\ target' # "foreign"
          => \E p \in Procs : lock = p /\ allow[p]]_vars

(* A foreign directory taken from the target is set aside whole, and one   *)
(* set aside is deleted only while the verified runtime is at the target;  *)
(* otherwise it is put back or stays beside the target, through crashes    *)
(* and failures of any file operation.                                     *)
ForeignNeverLost ==
    [][/\ target = "foreign" /\ target' # "foreign"
             => \E p \in Procs : displaced'[p] = "foreign"
       /\ \A p \in Procs :
             displaced[p] = "foreign" /\ displaced'[p] # "foreign"
                => target = "runtime" \/ target' = "foreign"
                     \/ "foreign" \in orphans']_vars

(* A cancelled call returns, wherever the cancellation finds it, also in a *)
(* transfer that has stalled.                                              *)
CancelledCallReturns ==
    \A p \in Procs : (pc[p] # "idle" /\ cancelled[p]) ~> pc[p] = "idle"

(* A call that waits for the lock file stops waiting, although the holder  *)
(* may be stuck in a transfer without a timeout.                           *)
LockWaitEnds == \A p \in Procs : pc[p] = "lockWait" ~> pc[p] # "lockWait"

(* No call is stuck for good behind a stalled transfer: its own ends when  *)
(* its caller cancels, another's lock is given up at the deadline.         *)
CallsEnd == CancelledCallReturns /\ LockWaitEnds

(* The preparations of all processes together behave as one slot with one  *)
(* backup.                                                                 *)
Slot == INSTANCE RuntimeSlot WITH
    Initial <- InitialTargets,
    slot <- target,
    backup <- IF lock = NoProc THEN "none" ELSE displaced[lock],
    stranded <- orphans

ImplementsSlot == Slot!Spec
=============================================================================
