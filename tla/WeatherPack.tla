----------------------------- MODULE WeatherPack -----------------------------
(***************************************************************************)
(* SimpleDragonWeatherPackResolver: processes of one user share a cache    *)
(* directory of weather files that are extracted from an archive on        *)
(* demand.  A call takes the lock file of the cache for all its work,      *)
(* verifies the archive, and makes each file it was asked for either by    *)
(* finding it in the cache or by extracting it under a private name and    *)
(* putting it in place.  A crash closes the lock file and leaves the rest. *)
(***************************************************************************)
EXTENDS Integers, Sequences

CONSTANTS
    Processes,
    Running,      \* the processes that do not freeze
    NoProcess,
    Files,        \* EPW file names
    Packed,       \* those the archive has, as EPW documents
    Requests,     \* the sequences of files that are asked for in one call
    MaxCalls,     \* bound on calls
    MaxFaults,    \* bound on operations that fail
    MaxCrashes,   \* bound on crashes
    MaxDamages    \* bound on files changed by others

ASSUME WeatherAssumption ==
    /\ Running \subseteq Processes /\ NoProcess \notin Processes
    /\ Packed \subseteq Files /\ Requests \subseteq Seq(Files)
    /\ MaxCalls \in Nat /\ MaxFaults \in Nat
    /\ MaxCrashes \in Nat /\ MaxDamages \in Nat

(* What is at a path: nothing, the file of the archive, a part of it, a     *)
(* file with other content, a reparse point.                               *)
Contents == {"absent", "whole", "part", "other", "link"}

Inside == {"verify", "next", "probe", "extract", "check", "place", "swap", "clean"}
Extracting == {"extract", "check", "place", "swap"}
Places == {"idle", "start", "lock", "return"} \cup Inside
Outcomes == {"none", "resolved", "missing", "cancelled", "timeout", "integrity", "failed"}

VARIABLES
    archive,     \* the archive: absent, whole or other
    target,      \* the files of the cache
    lock,        \* who has .weather-pack.lock open
    pc,
    selections,  \* what the call was asked for
    index,       \* the selection the call is at
    byFileName,  \* the files it has resolved
    result,      \* what it will return
    told,        \* its token is cancelled
    partial,     \* its partial file
    backup,      \* its backup of the replaced file
    handed,      \* files handed out by a successful call
    damaged,     \* files changed by others and not made again since
    litter,      \* a partial or backup file whose name nobody knows any more
    excused,     \* a crash or a deletion that failed
    calls, faults, crashes, damages

call == <<selections, index, byFileName>>
temporary == <<partial, backup>>
outside == <<handed, damaged, litter, excused>>
bounds == <<calls, crashes, damages>>
vars == <<archive, target, lock, pc, call, result, told, temporary, outside, bounds, faults>>

Init ==
    /\ archive \in {"absent", "whole", "other"}
    /\ target \in [Files -> {"absent", "whole", "other", "link"}]
    /\ lock = NoProcess
    /\ pc = [p \in Processes |-> "idle"]
    /\ selections = [p \in Processes |-> <<>>]
    /\ index = [p \in Processes |-> 1]
    /\ byFileName = [p \in Processes |-> {}]
    /\ result = [p \in Processes |-> "none"]
    /\ told = [p \in Processes |-> FALSE]
    /\ partial = [p \in Processes |-> "absent"]
    /\ backup = [p \in Processes |-> "absent"]
    /\ handed = {} /\ damaged = {} /\ litter = FALSE /\ excused = FALSE
    /\ calls = 0 /\ faults = 0 /\ crashes = 0 /\ damages = 0

Goto(p, place) == pc' = [pc EXCEPT ![p] = place]

(* Mutant: no finally block.                                               *)
LeaveAtOnce(p, why) ==
    /\ result' = [result EXCEPT ![p] = why]
    /\ Goto(p, "return")

(* An exception: through the finally block of an extraction, if in one, to *)
(* the catch clause that makes the outcome of all selections.              *)
Leave(p, why) ==
    /\ result' = [result EXCEPT ![p] = why]
    /\ Goto(p, IF pc[p] \in Extracting THEN "clean" ELSE "return")

file(p) == selections[p][index[p]]

Made(p, f) ==
    /\ byFileName' = [byFileName EXCEPT ![p] = @ \cup {f}]
    /\ index' = [index EXCEPT ![p] = @ + 1]

-----------------------------------------------------------------------------
(* ResolveMany.                                                            *)

Call(p, request) ==
    /\ pc[p] = "idle" /\ calls < MaxCalls
    /\ calls' = calls + 1
    /\ selections' = [selections EXCEPT ![p] = request]
    /\ index' = [index EXCEPT ![p] = 1]
    /\ byFileName' = [byFileName EXCEPT ![p] = {}]
    /\ result' = [result EXCEPT ![p] = "none"]
    /\ told' = [told EXCEPT ![p] = FALSE]
    /\ Goto(p, "start")
    /\ UNCHANGED <<archive, target, lock, temporary, outside, crashes, damages, faults>>

Start(p) ==
    /\ pc[p] = "start"
    /\ \/ told[p] /\ Leave(p, "cancelled")
       \/ ~told[p] /\ archive = "absent" /\ Leave(p, "missing")
       \/ ~told[p] /\ archive # "absent" /\ Goto(p, "lock") /\ UNCHANGED result
    /\ UNCHANGED <<archive, target, lock, call, told, temporary, outside, bounds, faults>>

(* Mutant: the file is opened for sharing.                                 *)
AcquireShared(p) ==
    /\ pc[p] = "lock" /\ ~told[p]
    /\ lock' = p
    /\ Goto(p, "verify")
    /\ UNCHANGED <<archive, target, call, result, told, temporary, outside, bounds, faults>>

(* AcquireLock: the lock file is opened without sharing.                   *)
Acquire(p) ==
    /\ pc[p] = "lock" /\ ~told[p]
    /\ lock = NoProcess
    /\ lock' = p
    /\ Goto(p, "verify")
    /\ UNCHANGED <<archive, target, call, result, told, temporary, outside, bounds, faults>>

(* Mutant: the code tries again for as long as the file is open.            *)
GiveUpNever(p) == FALSE /\ UNCHANGED vars

(* The deadline of the wait, or the token during it.                       *)
GiveUp(p) ==
    /\ pc[p] = "lock"
    /\ \/ told[p] /\ Leave(p, "cancelled")
       \/ lock # NoProcess /\ Leave(p, "timeout")
    /\ UNCHANGED <<archive, target, lock, call, told, temporary, outside, bounds, faults>>

VerifyArchive(p) ==
    /\ pc[p] = "verify"
    /\ \/ told[p] /\ Leave(p, "cancelled")
       \/ ~told[p] /\ archive = "other" /\ Leave(p, "integrity")
       \/ ~told[p] /\ archive = "whole" /\ Goto(p, "next") /\ UNCHANGED result
    /\ UNCHANGED <<archive, target, lock, call, told, temporary, outside, bounds, faults>>

(* The loop over the selections: a file asked for twice is resolved once.   *)
NextSelection(p) ==
    /\ pc[p] = "next"
    /\ \/ /\ index[p] > Len(selections[p])
          /\ Leave(p, "resolved")
          /\ UNCHANGED call
       \/ /\ index[p] <= Len(selections[p]) /\ told[p]
          /\ Leave(p, "cancelled")
          /\ UNCHANGED call
       \/ /\ index[p] <= Len(selections[p]) /\ ~told[p]
          /\ IF file(p) \in byFileName[p]
             THEN /\ index' = [index EXCEPT ![p] = @ + 1]
                  /\ UNCHANGED <<pc, selections, byFileName>>
             ELSE Goto(p, "probe") /\ UNCHANGED call
          /\ UNCHANGED result
    /\ UNCHANGED <<archive, target, lock, told, temporary, outside, bounds, faults>>

(* File.Exists and ExistingFileMatches, by length and hash.                *)
Found(f) == target[f] = "whole"

(* ResolveVerifiedEntry up to the extraction.                              *)
Probe(p) ==
    /\ pc[p] = "probe"
    /\ LET f == file(p) IN
       \/ target[f] = "link" /\ Leave(p, "failed") /\ UNCHANGED call
       \/ target[f] # "link" /\ f \notin Packed /\ Leave(p, "integrity") /\ UNCHANGED call
       \/ /\ target[f] # "link" /\ f \in Packed /\ told[p]
          /\ Leave(p, "cancelled") /\ UNCHANGED call
       \/ /\ target[f] # "link" /\ f \in Packed /\ ~told[p] /\ Found(f)
          /\ Made(p, f) /\ Goto(p, "next") /\ UNCHANGED <<selections, result>>
       \/ /\ target[f] # "link" /\ f \in Packed /\ ~told[p] /\ ~Found(f)
          /\ Goto(p, "extract") /\ UNCHANGED <<call, result>>
    /\ UNCHANGED <<archive, target, lock, told, temporary, outside, bounds, faults>>

(* The partial file is created, and written in chunks with the token read   *)
(* before each.                                                            *)
Extract(p) ==
    /\ pc[p] = "extract"
    /\ \/ /\ partial[p] = "absent"
          /\ partial' = [partial EXCEPT ![p] = "part"]
          /\ UNCHANGED <<pc, result>>
       \/ /\ partial[p] = "part" /\ told[p]
          /\ Leave(p, "cancelled") /\ UNCHANGED partial
       \/ /\ partial[p] = "part" /\ ~told[p]
          /\ partial' = [partial EXCEPT ![p] = "whole"]
          /\ Goto(p, "check") /\ UNCHANGED result
    /\ UNCHANGED <<archive, target, lock, call, told, backup, outside, bounds, faults>>

CheckPartial(p) ==
    /\ pc[p] = "check"
    /\ \/ told[p] /\ Leave(p, "cancelled")
       \/ ~told[p] /\ Goto(p, "place") /\ UNCHANGED result
    /\ UNCHANGED <<archive, target, lock, call, told, temporary, outside, bounds, faults>>

Settle(p, f) ==
    /\ target' = [target EXCEPT ![f] = partial[p]]
    /\ partial' = [partial EXCEPT ![p] = "absent"]
    /\ damaged' = damaged \ {f}
    /\ Made(p, f)
    /\ Goto(p, "clean")

(* File.Move, or the first half of File.Replace.                           *)
Place(p) ==
    /\ pc[p] = "place"
    /\ LET f == file(p) IN
       \/ target[f] = "absent" /\ Settle(p, f) /\ UNCHANGED <<backup, selections>>
       \/ /\ target[f] # "absent"
          /\ backup' = [backup EXCEPT ![p] = target[f]]
          /\ target' = [target EXCEPT ![f] = "absent"]
          /\ Goto(p, "swap")
          /\ UNCHANGED <<partial, call, damaged>>
    /\ UNCHANGED <<archive, lock, result, told, handed, litter, excused, bounds, faults>>

(* The second half of File.Replace; it fails if the file is there again.     *)
Swap(p) ==
    /\ pc[p] = "swap"
    /\ LET f == file(p) IN
       \/ target[f] = "absent" /\ Settle(p, f) /\ UNCHANGED <<selections, result>>
       \/ /\ target[f] # "absent"
          /\ Leave(p, "failed")
          /\ UNCHANGED <<target, partial, call, damaged>>
    /\ UNCHANGED <<archive, lock, told, backup, handed, litter, excused, bounds, faults>>

Forget(p) ==
    /\ litter' = (litter \/ partial[p] # "absent" \/ backup[p] # "absent")
    /\ partial' = [partial EXCEPT ![p] = "absent"]
    /\ backup' = [backup EXCEPT ![p] = "absent"]

(* TryDeleteTemporary of both; a deletion that fails is passed over.        *)
Clean(p) ==
    /\ pc[p] = "clean"
    /\ \/ /\ partial' = [partial EXCEPT ![p] = "absent"]
          /\ backup' = [backup EXCEPT ![p] = "absent"]
          /\ UNCHANGED <<litter, excused, faults>>
       \/ /\ faults < MaxFaults /\ faults' = faults + 1
          /\ excused' = TRUE
          /\ Forget(p)
    /\ Goto(p, IF result[p] = "none" THEN "next" ELSE "return")
    /\ UNCHANGED <<archive, target, lock, call, result, told, handed, damaged, bounds>>

(* Mutant: the lock file is not closed.                                    *)
ReleaseNothing(p) == UNCHANGED lock

Release(p) == lock' = IF lock = p THEN NoProcess ELSE lock

Return(p) ==
    /\ pc[p] = "return"
    /\ Release(p)
    /\ Forget(p)
    /\ handed' = IF result[p] = "resolved" THEN handed \cup byFileName[p] ELSE handed
    /\ Goto(p, "idle")
    /\ UNCHANGED <<archive, target, call, result, told, damaged, excused, bounds, faults>>

(* Any file operation may fail before it does something.                   *)
Fault(p) ==
    /\ pc[p] \in ({"start", "lock"} \cup Inside) \ {"next", "clean"}
    /\ faults < MaxFaults /\ faults' = faults + 1
    /\ Leave(p, "failed")
    /\ UNCHANGED <<archive, target, lock, call, told, temporary, outside, bounds>>

-----------------------------------------------------------------------------
(* The environment.                                                        *)

Cancel(p) ==
    /\ pc[p] # "idle" /\ ~told[p]
    /\ told' = [told EXCEPT ![p] = TRUE]
    /\ UNCHANGED <<archive, target, lock, pc, call, result, temporary, outside, bounds, faults>>

Crash(p) ==
    /\ pc[p] # "idle" /\ crashes < MaxCrashes
    /\ crashes' = crashes + 1
    /\ Release(p)
    /\ Forget(p)
    /\ excused' = TRUE
    /\ Goto(p, "idle")
    /\ UNCHANGED <<archive, target, call, result, told, handed, damaged, calls, damages, faults>>

(* Somebody deletes or changes a file of the cache.                        *)
Damage(f) ==
    /\ damages < MaxDamages
    /\ damages' = damages + 1
    /\ \E content \in {"absent", "other"} : target' = [target EXCEPT ![f] = content]
    /\ damaged' = damaged \cup {f}
    /\ UNCHANGED <<archive, lock, pc, call, result, told, temporary, handed, litter, excused,
                   calls, crashes, faults>>

-----------------------------------------------------------------------------

Step(p) ==
    \/ Start(p) \/ Acquire(p) \/ GiveUp(p) \/ VerifyArchive(p) \/ NextSelection(p) \/ Probe(p)
    \/ Extract(p) \/ CheckPartial(p) \/ Place(p) \/ Swap(p) \/ Clean(p) \/ Return(p)

Next ==
    \/ \E p \in Processes :
          \/ \E request \in Requests : Call(p, request)
          \/ Step(p) \/ Fault(p) \/ Cancel(p) \/ Crash(p)
    \/ \E f \in Files : Damage(f)

(* A process goes on with its call unless it is frozen; the wait for the    *)
(* lock has a deadline, so that it too goes on.                            *)
Spec == Init /\ [][Next]_vars /\ \A p \in Running : WF_vars(Step(p))

-----------------------------------------------------------------------------
Typed ==
    /\ archive \in Contents /\ target \in [Files -> Contents]
    /\ lock \in Processes \cup {NoProcess}
    /\ pc \in [Processes -> Places]
    /\ selections \in [Processes -> Requests \cup {<<>>}]
    /\ index \in [Processes -> Nat \ {0}]
    /\ byFileName \in [Processes -> SUBSET Files]
    /\ result \in [Processes -> Outcomes]
    /\ told \in [Processes -> BOOLEAN]
    /\ partial \in [Processes -> Contents] /\ backup \in [Processes -> Contents]
    /\ handed \subseteq Files /\ damaged \subseteq Files
    /\ litter \in BOOLEAN /\ excused \in BOOLEAN
    /\ calls \in 0..MaxCalls /\ faults \in 0..MaxFaults
    /\ crashes \in 0..MaxCrashes /\ damages \in 0..MaxDamages

(* A call works on the cache only while it has the lock file open, and has  *)
(* temporary files only while it extracts.                                 *)
Disciplined ==
    \A p \in Processes :
        /\ pc[p] \in Inside => lock = p
        /\ lock = p => pc[p] \in Inside \cup {"return"}
        /\ pc[p] \notin Extracting \cup {"clean"} =>
              partial[p] = "absent" /\ backup[p] = "absent"
        /\ pc[p] \in {"probe"} \cup Extracting => index[p] <= Len(selections[p])

TypeOK == Typed /\ Disciplined

(* A weather file that a call has handed out keeps its content - it is     *)
(* neither replaced, nor missing for a moment, while a simulation opens it  *)
(* - whatever other calls do, unless somebody changes the cache.           *)
HandedOutStays == \A f \in handed \ damaged : target[f] = "whole"

(* Cancelled and failed calls delete their partial and backup files, whose  *)
(* names nobody knows afterwards; only a crash or a failed deletion leaves  *)
(* some behind.                                                            *)
NoLitter == litter => excused

(* A call ends with an outcome even when the lock is held by a process that *)
(* is frozen.                                                              *)
ResolveEnds == \A p \in Running : pc[p] # "idle" ~> pc[p] = "idle"
=============================================================================
