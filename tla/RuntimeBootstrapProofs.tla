----------------------- MODULE RuntimeBootstrapProofs -----------------------
(***************************************************************************)
(* Theorems about the preparation of the runtime, for any number of        *)
(* processes, calls, failing file operations, crashes and intruders.       *)
(***************************************************************************)
EXTENDS RuntimeBootstrap, TLAPS

(* Type correctness: what each step assigns has the type of its variable.  *)
LEMMA TypeOKStep == TypeOK /\ [Next]_vars => TypeOK'
  <1> SUFFICES ASSUME TypeOK, [Next]_vars PROVE TypeOK'
    OBVIOUS
  <1> USE BootstrapAssumption
  <1>1. ASSUME NEW p \in Procs, NEW a \in AllowChoices, Begin(p, a)
         PROVE  TypeOK'
    BY <1>1 DEF Begin, Goto, private, TypeOK, Contents, Unlocked, Locked,
       Outcomes, Successes, Failures
  <1>2. ASSUME NEW p \in Procs, RequestCancel(p)
        PROVE  TypeOK'
    BY <1>2 DEF RequestCancel, private, budgets, TypeOK, Contents, Unlocked,
       Locked, Outcomes, Successes, Failures
  <1>3. ASSUME NEW p \in Procs, Check(p)
        PROVE  TypeOK'
    BY <1>3 DEF Check, Return, Goto, Fault, NoFault, private, Verifies,
       TypeOK, Contents, Unlocked, Locked, Outcomes, Successes, Failures
  <1>4. ASSUME NEW p \in Procs, Gate(p)
        PROVE  TypeOK'
    BY <1>4 DEF Gate, Return, Goto, private, budgets, MustKeep, IsDirectory,
       TypeOK, Contents, Unlocked, Locked, Outcomes, Successes, Failures
  <1>5. ASSUME NEW p \in Procs, AcquireInstallLock(p)
        PROVE  TypeOK'
    BY <1>5 DEF AcquireInstallLock, Return, Goto, private, budgets, TypeOK,
       Contents, Unlocked, Locked, Outcomes, Successes, Failures
  <1>6. ASSUME NEW p \in Procs, Recheck(p)
        PROVE  TypeOK'
    BY <1>6 DEF Recheck, Return, Goto, Fault, NoFault, private, Verifies,
       TypeOK, Contents, Unlocked, Locked, Outcomes, Successes, Failures
  <1>7. ASSUME NEW p \in Procs, Regate(p)
        PROVE  TypeOK'
    BY <1>7 DEF Regate, Return, Goto, private, budgets, MustKeep, IsDirectory,
       TypeOK, Contents, Unlocked, Locked, Outcomes, Successes, Failures
  <1>8. ASSUME NEW p \in Procs, BeginDownload(p)
        PROVE  TypeOK'
    BY <1>8 DEF BeginDownload, Goto, budgets, TypeOK, Contents, Unlocked,
       Locked, Outcomes, Successes, Failures
  <1>9. ASSUME NEW p \in Procs, AbortDownload(p)
        PROVE  TypeOK'
    BY <1>9 DEF AbortDownload, Unwind, Goto, private, budgets, TypeOK,
       Contents, Unlocked, Locked, Outcomes, Successes, Failures
  <1>10. ASSUME NEW p \in Procs, VerifyArchive(p)
        PROVE  TypeOK'
    BY <1>10 DEF VerifyArchive, Unwind, Goto, Fault, NoFault, private, TypeOK,
       Contents, Unlocked, Locked, Outcomes, Successes, Failures
  <1>11. ASSUME NEW p \in Procs, ExtractArchive(p)
        PROVE  TypeOK'
    BY <1>11 DEF ExtractArchive, Unwind, Goto, Fault, NoFault, TypeOK,
       Contents, Unlocked, Locked, Outcomes, Successes, Failures
  <1>12. ASSUME NEW p \in Procs, FindVerifiedRuntime(p)
        PROVE  TypeOK'
    BY <1>12 DEF FindVerifiedRuntime, Unwind, Goto, Fault, NoFault, private,
       TypeOK, Contents, Unlocked, Locked, Outcomes, Successes, Failures
  <1>13. ASSUME NEW p \in Procs, DisplaceTarget(p)
        PROVE  TypeOK'
    BY <1>13 DEF DisplaceTarget, Unwind, Goto, Fault, NoFault, MustKeep,
       IsDirectory, TypeOK, Contents, Unlocked, Locked, Outcomes, Successes,
       Failures
  <1>14. ASSUME NEW p \in Procs, PublishCandidate(p)
        PROVE  TypeOK'
    BY <1>14 DEF PublishCandidate, Goto, Fault, NoFault, TypeOK, Contents,
       Unlocked, Locked, Outcomes, Successes, Failures
  <1>15. ASSUME NEW p \in Procs, ConfirmPromoted(p)
        PROVE  TypeOK'
    BY <1>15 DEF ConfirmPromoted, Goto, Fault, NoFault, private, Verifies,
       TypeOK, Contents, Unlocked, Locked, Outcomes, Successes, Failures
  <1>16. ASSUME NEW p \in Procs, DeletePromoted(p)
        PROVE  TypeOK'
    BY <1>16 DEF DeletePromoted, Goto, Fault, NoFault, private, TypeOK,
       Contents, Unlocked, Locked, Outcomes, Successes, Failures
  <1>17. ASSUME NEW p \in Procs, RestoreDisplaced(p)
        PROVE  TypeOK'
    BY <1>17 DEF RestoreDisplaced, Unwind, Goto, Fault, NoFault, Restorable,
       MoveBack, TypeOK, Contents, Unlocked, Locked, Outcomes, Successes,
       Failures
  <1>18. ASSUME NEW p \in Procs, DiscardDisplaced(p)
        PROVE  TypeOK'
    <2>1. displaced' \in [Procs -> Contents]
      BY <1>18 DEF DiscardDisplaced, TypeOK, Contents
    <2>2. outcome' \in [Procs -> Outcomes]
      BY <1>18 DEF DiscardDisplaced, Unwind, TypeOK, Outcomes, Successes
    <2>3. pc' \in [Procs -> Unlocked \cup Locked] /\ faults' \in 0 .. MaxFaults
      BY <1>18 DEF DiscardDisplaced, Unwind, Goto, Fault, NoFault, TypeOK, Locked
    <2>4. \A q \in Procs : pc'[q] = "cleanup" => outcome'[q] # "none"
      BY <1>18 DEF DiscardDisplaced, Unwind, Goto, TypeOK
    <2> QED
      BY <1>18, <2>1, <2>2, <2>3, <2>4 DEF DiscardDisplaced, TypeOK
  <1>19. ASSUME NEW p \in Procs, Cleanup(p)
        PROVE  TypeOK'
    <2>1. orphans' \subseteq Contents
      BY <1>19 DEF Cleanup, Leftovers, TypeOK, Contents
    <2>2. faults' \in 0 .. MaxFaults
      BY <1>19 DEF Cleanup, Fault, NoFault, TypeOK
    <2> QED
      BY <1>19, <2>1, <2>2
        DEF Cleanup, Return, Goto, ClearPaths, TypeOK, Unlocked, Contents
  <1>20. ASSUME NEW p \in Procs, FinishDownload(p)
        PROVE  TypeOK'
    BY <1>20 DEF FinishDownload, Unwind, Goto, Fault, NoFault, TypeOK,
       Contents, Unlocked, Locked, Outcomes, Successes, Failures
  <1>21. ASSUME NEW p \in Procs, Crash(p)
        PROVE  TypeOK'
    <2>1. orphans' \subseteq Contents
      BY <1>21 DEF Crash, Leftovers, TypeOK, Contents
    <2> QED
      BY <1>21, <2>1 DEF Crash, Return, Goto, ClearPaths, TypeOK, Unlocked,
         Contents, Outcomes
  <1>22. ASSUME NEW c \in {"file", "link", "foreign"}, Intrude(c)
        PROVE  TypeOK'
    BY <1>22 DEF Intrude, private, TypeOK, Contents, Unlocked, Locked,
       Outcomes, Successes, Failures
  <1>23. CASE UNCHANGED vars
    BY <1>23 DEF vars, TypeOK, Contents, Unlocked, Locked, Outcomes,
       Successes, Failures
  <1> QED
    BY <1>1, <1>2, <1>3, <1>4, <1>5, <1>6, <1>7, <1>8, <1>9, <1>10, <1>11,
       <1>12, <1>13, <1>14, <1>15, <1>16, <1>17, <1>18, <1>19, <1>20, <1>21,
       <1>22, <1>23 DEF Next, Step

(* Every variable keeps its type (TypeOK) in every execution.              *)
THEOREM TypeCorrect == Spec => []TypeOK
  <1>1. Init => TypeOK
    BY BootstrapAssumption DEF Init, TypeOK, Contents, Unlocked, Outcomes
  <1> QED
    BY <1>1, TypeOKStep, PTL DEF Spec

(* Only the holder of the lock file owns paths, and what it has promoted   *)
(* stays at the target until it has decided about it.                      *)
LEMMA LockDisciplineStep ==
    TypeOK /\ LockDiscipline /\ [Next]_vars => LockDiscipline'
  <1> SUFFICES ASSUME TypeOK, LockDiscipline, [Next]_vars PROVE LockDiscipline'
    OBVIOUS
  <1> USE BootstrapAssumption
  <1>1. ASSUME NEW p \in Procs, NEW a \in AllowChoices, Begin(p, a)
         PROVE  LockDiscipline'
    BY <1>1 DEF Begin, Goto, private, LockDiscipline, TypeOK, Locked, Unlocked
  <1>2. ASSUME NEW p \in Procs, RequestCancel(p)
        PROVE  LockDiscipline'
    BY <1>2 DEF RequestCancel, private, budgets, LockDiscipline, TypeOK,
       Locked, Unlocked
  <1>3. ASSUME NEW p \in Procs, Check(p)
        PROVE  LockDiscipline'
    <2>1. lock # p /\ lock' = lock /\ UNCHANGED <<target, private>>
      BY <1>3 DEF Check, Return, LockDiscipline, Locked, private
    <2>2. \E l \in (Unlocked \cup Locked) \ Locked : pc' = [pc EXCEPT ![p] = l]
      BY <1>3 DEF Check, Return, Goto, Unlocked, Locked
    <2> QED
      BY <2>1, <2>2 DEF LockDiscipline, TypeOK, Locked, private
  <1>4. ASSUME NEW p \in Procs, Gate(p)
        PROVE  LockDiscipline'
    <2>1. lock # p /\ lock' = lock /\ UNCHANGED <<target, private>>
      BY <1>4 DEF Gate, Return, LockDiscipline, Locked, private
    <2>2. \E l \in (Unlocked \cup Locked) \ Locked : pc' = [pc EXCEPT ![p] = l]
      BY <1>4 DEF Gate, Return, Goto, Unlocked, Locked
    <2> QED
      BY <2>1, <2>2 DEF LockDiscipline, TypeOK, Locked, private
  <1>5. ASSUME NEW p \in Procs, AcquireInstallLock(p)
        PROVE  LockDiscipline'
    BY <1>5 DEF AcquireInstallLock, Return, Goto, private, budgets,
       LockDiscipline, TypeOK, Locked, Unlocked
  <1>6. ASSUME NEW p \in Procs, Recheck(p)
        PROVE  LockDiscipline'
    BY <1>6 DEF Recheck, Return, Goto, Fault, NoFault, private, Verifies,
       LockDiscipline, TypeOK, Locked, Unlocked
  <1>7. ASSUME NEW p \in Procs, Regate(p)
        PROVE  LockDiscipline'
    BY <1>7 DEF Regate, Return, Goto, private, budgets, MustKeep, IsDirectory,
       LockDiscipline, TypeOK, Locked, Unlocked
  <1>8. ASSUME NEW p \in Procs, BeginDownload(p)
        PROVE  LockDiscipline'
    BY <1>8 DEF BeginDownload, Goto, budgets, LockDiscipline, TypeOK, Locked,
       Unlocked
  <1>9. ASSUME NEW p \in Procs, AbortDownload(p)
        PROVE  LockDiscipline'
    BY <1>9 DEF AbortDownload, Unwind, Goto, private, budgets, LockDiscipline,
       TypeOK, Locked, Unlocked
  <1>10. ASSUME NEW p \in Procs, VerifyArchive(p)
        PROVE  LockDiscipline'
    BY <1>10 DEF VerifyArchive, Unwind, Goto, Fault, NoFault, private,
       LockDiscipline, TypeOK, Locked, Unlocked
  <1>11. ASSUME NEW p \in Procs, ExtractArchive(p)
        PROVE  LockDiscipline'
    BY <1>11 DEF ExtractArchive, Unwind, Goto, Fault, NoFault, LockDiscipline,
       TypeOK, Locked, Unlocked
  <1>12. ASSUME NEW p \in Procs, FindVerifiedRuntime(p)
        PROVE  LockDiscipline'
    BY <1>12 DEF FindVerifiedRuntime, Unwind, Goto, Fault, NoFault, private,
       LockDiscipline, TypeOK, Locked, Unlocked
  <1>13. ASSUME NEW p \in Procs, DisplaceTarget(p)
        PROVE  LockDiscipline'
    BY <1>13 DEF DisplaceTarget, Unwind, Goto, Fault, NoFault, MustKeep,
       IsDirectory, LockDiscipline, TypeOK, Locked, Unlocked
  <1>14. ASSUME NEW p \in Procs, PublishCandidate(p)
        PROVE  LockDiscipline'
    BY <1>14 DEF PublishCandidate, Goto, Fault, NoFault, LockDiscipline,
       TypeOK, Locked, Unlocked
  <1>15. ASSUME NEW p \in Procs, ConfirmPromoted(p)
        PROVE  LockDiscipline'
    BY <1>15 DEF ConfirmPromoted, Goto, Fault, NoFault, private, Verifies,
       LockDiscipline, TypeOK, Locked, Unlocked
  <1>16. ASSUME NEW p \in Procs, DeletePromoted(p)
        PROVE  LockDiscipline'
    BY <1>16 DEF DeletePromoted, Goto, Fault, NoFault, private,
       LockDiscipline, TypeOK, Locked, Unlocked
  <1>17. ASSUME NEW p \in Procs, RestoreDisplaced(p)
        PROVE  LockDiscipline'
    BY <1>17 DEF RestoreDisplaced, Unwind, Goto, Fault, NoFault, Restorable,
       MoveBack, LockDiscipline, TypeOK, Locked, Unlocked
  <1>18. ASSUME NEW p \in Procs, DiscardDisplaced(p)
        PROVE  LockDiscipline'
    BY <1>18 DEF DiscardDisplaced, Unwind, Goto, Fault, NoFault,
       LockDiscipline, TypeOK, Locked, Unlocked
  <1>19. ASSUME NEW p \in Procs, Cleanup(p)
        PROVE  LockDiscipline'
    BY <1>19 DEF Cleanup, Return, Goto, Fault, NoFault, Leftovers, ClearPaths,
       LockDiscipline, TypeOK, Locked, Unlocked
  <1>20. ASSUME NEW p \in Procs, FinishDownload(p)
        PROVE  LockDiscipline'
    BY <1>20 DEF FinishDownload, Unwind, Goto, Fault, NoFault, LockDiscipline,
       TypeOK, Locked, Unlocked
  <1>21. ASSUME NEW p \in Procs, Crash(p)
        PROVE  LockDiscipline'
    BY <1>21 DEF Crash, Return, Goto, Leftovers, ClearPaths, LockDiscipline,
       TypeOK, Locked, Unlocked
  <1>22. ASSUME NEW c \in {"file", "link", "foreign"}, Intrude(c)
        PROVE  LockDiscipline'
    BY <1>22 DEF Intrude, private, LockDiscipline, TypeOK, Locked, Unlocked
  <1>23. CASE UNCHANGED vars
    BY <1>23 DEF vars, LockDiscipline, TypeOK, Locked, Unlocked
  <1> QED
    BY <1>1, <1>2, <1>3, <1>4, <1>5, <1>6, <1>7, <1>8, <1>9, <1>10, <1>11,
       <1>12, <1>13, <1>14, <1>15, <1>16, <1>17, <1>18, <1>19, <1>20, <1>21,
       <1>22, <1>23 DEF Next, Step

(* The lock file serialises the installations (LockDiscipline).            *)
THEOREM LockSerialises == Spec => []LockDiscipline
  <1>1. Init => LockDiscipline
    BY BootstrapAssumption DEF Init, LockDiscipline, Locked
  <1> QED
    BY <1>1, LockDisciplineStep, TypeCorrect, PTL DEF Spec

(* Durability of a success, by induction together with what a promotion in *)
(* progress has seen of the target.                                        *)
LEMMA DurableStep ==
    TypeOK /\ LockDiscipline /\ PromotesOverInvalid /\ SuccessDurable /\ [Next]_vars
       => PromotesOverInvalid' /\ SuccessDurable'
  <1> SUFFICES ASSUME TypeOK, LockDiscipline, PromotesOverInvalid, SuccessDurable,
                      [Next]_vars
               PROVE  PromotesOverInvalid' /\ SuccessDurable'
    OBVIOUS
  <1> USE BootstrapAssumption
  <1>1. ASSUME NEW p \in Procs, NEW a \in AllowChoices, Begin(p, a)
         PROVE  PromotesOverInvalid' /\ SuccessDurable'
    BY <1>1 DEF Begin, Goto, private, PromotesOverInvalid, SuccessDurable,
       LockDiscipline, TypeOK, Locked, Unlocked, Successes, Failures
  <1>2. ASSUME NEW p \in Procs, RequestCancel(p)
        PROVE  PromotesOverInvalid' /\ SuccessDurable'
    BY <1>2 DEF RequestCancel, private, budgets, PromotesOverInvalid,
       SuccessDurable, LockDiscipline, TypeOK, Locked, Unlocked, Successes,
       Failures
  <1>3. ASSUME NEW p \in Procs, Check(p)
        PROVE  PromotesOverInvalid' /\ SuccessDurable'
    BY <1>3 DEF Check, Return, Goto, Fault, NoFault, private, Verifies,
       PromotesOverInvalid, SuccessDurable, LockDiscipline, TypeOK, Locked,
       Unlocked, Successes, Failures
  <1>4. ASSUME NEW p \in Procs, Gate(p)
        PROVE  PromotesOverInvalid' /\ SuccessDurable'
    BY <1>4 DEF Gate, Return, Goto, private, budgets, MustKeep, IsDirectory,
       PromotesOverInvalid, SuccessDurable, LockDiscipline, TypeOK, Locked,
       Unlocked, Successes, Failures
  <1>5. ASSUME NEW p \in Procs, AcquireInstallLock(p)
        PROVE  PromotesOverInvalid' /\ SuccessDurable'
    BY <1>5 DEF AcquireInstallLock, Return, Goto, private, budgets,
       PromotesOverInvalid, SuccessDurable, LockDiscipline, TypeOK, Locked,
       Unlocked, Successes, Failures
  <1>6. ASSUME NEW p \in Procs, Recheck(p)
        PROVE  PromotesOverInvalid' /\ SuccessDurable'
    BY <1>6 DEF Recheck, Return, Goto, Fault, NoFault, private, Verifies,
       PromotesOverInvalid, SuccessDurable, LockDiscipline, TypeOK, Locked,
       Unlocked, Successes, Failures
  <1>7. ASSUME NEW p \in Procs, Regate(p)
        PROVE  PromotesOverInvalid' /\ SuccessDurable'
    BY <1>7 DEF Regate, Return, Goto, private, budgets, MustKeep, IsDirectory,
       PromotesOverInvalid, SuccessDurable, LockDiscipline, TypeOK, Locked,
       Unlocked, Successes, Failures
  <1>8. ASSUME NEW p \in Procs, BeginDownload(p)
        PROVE  PromotesOverInvalid' /\ SuccessDurable'
    BY <1>8 DEF BeginDownload, Goto, budgets, PromotesOverInvalid,
       SuccessDurable, LockDiscipline, TypeOK, Locked, Unlocked, Successes,
       Failures
  <1>9. ASSUME NEW p \in Procs, AbortDownload(p)
        PROVE  PromotesOverInvalid' /\ SuccessDurable'
    BY <1>9 DEF AbortDownload, Unwind, Goto, private, budgets,
       PromotesOverInvalid, SuccessDurable, LockDiscipline, TypeOK, Locked,
       Unlocked, Successes, Failures
  <1>10. ASSUME NEW p \in Procs, VerifyArchive(p)
        PROVE  PromotesOverInvalid' /\ SuccessDurable'
    BY <1>10 DEF VerifyArchive, Unwind, Goto, Fault, NoFault, private,
       PromotesOverInvalid, SuccessDurable, LockDiscipline, TypeOK, Locked,
       Unlocked, Successes, Failures
  <1>11. ASSUME NEW p \in Procs, ExtractArchive(p)
        PROVE  PromotesOverInvalid' /\ SuccessDurable'
    BY <1>11 DEF ExtractArchive, Unwind, Goto, Fault, NoFault,
       PromotesOverInvalid, SuccessDurable, LockDiscipline, TypeOK, Locked,
       Unlocked, Successes, Failures
  <1>12. ASSUME NEW p \in Procs, FindVerifiedRuntime(p)
        PROVE  PromotesOverInvalid' /\ SuccessDurable'
    BY <1>12 DEF FindVerifiedRuntime, Unwind, Goto, Fault, NoFault, private,
       PromotesOverInvalid, SuccessDurable, LockDiscipline, TypeOK, Locked,
       Unlocked, Successes, Failures
  <1>13. ASSUME NEW p \in Procs, DisplaceTarget(p)
        PROVE  PromotesOverInvalid' /\ SuccessDurable'
    BY <1>13 DEF DisplaceTarget, Unwind, Goto, Fault, NoFault, MustKeep,
       IsDirectory, PromotesOverInvalid, SuccessDurable, LockDiscipline,
       TypeOK, Locked, Unlocked, Successes, Failures
  <1>14. ASSUME NEW p \in Procs, PublishCandidate(p)
        PROVE  PromotesOverInvalid' /\ SuccessDurable'
    BY <1>14 DEF PublishCandidate, Goto, Fault, NoFault, PromotesOverInvalid,
       SuccessDurable, LockDiscipline, TypeOK, Locked, Unlocked, Successes,
       Failures
  <1>15. ASSUME NEW p \in Procs, ConfirmPromoted(p)
        PROVE  PromotesOverInvalid' /\ SuccessDurable'
    BY <1>15 DEF ConfirmPromoted, Goto, Fault, NoFault, private, Verifies,
       PromotesOverInvalid, SuccessDurable, LockDiscipline, TypeOK, Locked,
       Unlocked, Successes, Failures
  <1>16. ASSUME NEW p \in Procs, DeletePromoted(p)
        PROVE  PromotesOverInvalid' /\ SuccessDurable'
    BY <1>16 DEF DeletePromoted, Goto, Fault, NoFault, private,
       PromotesOverInvalid, SuccessDurable, LockDiscipline, TypeOK, Locked,
       Unlocked, Successes, Failures
  <1>17. ASSUME NEW p \in Procs, RestoreDisplaced(p)
        PROVE  PromotesOverInvalid' /\ SuccessDurable'
    BY <1>17 DEF RestoreDisplaced, Unwind, Goto, Fault, NoFault, Restorable,
       MoveBack, PromotesOverInvalid, SuccessDurable, LockDiscipline, TypeOK,
       Locked, Unlocked, Successes, Failures
  <1>18. ASSUME NEW p \in Procs, DiscardDisplaced(p)
        PROVE  PromotesOverInvalid' /\ SuccessDurable'
    BY <1>18 DEF DiscardDisplaced, Unwind, Goto, Fault, NoFault,
       PromotesOverInvalid, SuccessDurable, LockDiscipline, TypeOK, Locked,
       Unlocked, Successes, Failures
  <1>19. ASSUME NEW p \in Procs, Cleanup(p)
        PROVE  PromotesOverInvalid' /\ SuccessDurable'
    BY <1>19 DEF Cleanup, Return, Goto, Fault, NoFault, Leftovers, ClearPaths,
       PromotesOverInvalid, SuccessDurable, LockDiscipline, TypeOK, Locked,
       Unlocked, Successes, Failures
  <1>20. ASSUME NEW p \in Procs, FinishDownload(p)
        PROVE  PromotesOverInvalid' /\ SuccessDurable'
    BY <1>20 DEF FinishDownload, Unwind, Goto, Fault, NoFault,
       PromotesOverInvalid, SuccessDurable, LockDiscipline, TypeOK, Locked,
       Unlocked, Successes, Failures
  <1>21. ASSUME NEW p \in Procs, Crash(p)
        PROVE  PromotesOverInvalid' /\ SuccessDurable'
    BY <1>21 DEF Crash, Return, Goto, Leftovers, ClearPaths,
       PromotesOverInvalid, SuccessDurable, LockDiscipline, TypeOK, Locked,
       Unlocked, Successes, Failures
  <1>22. ASSUME NEW c \in {"file", "link", "foreign"}, Intrude(c)
        PROVE  PromotesOverInvalid' /\ SuccessDurable'
    BY <1>22 DEF Intrude, private, PromotesOverInvalid, SuccessDurable,
       LockDiscipline, TypeOK, Locked, Unlocked, Successes, Failures
  <1>23. CASE UNCHANGED vars
    BY <1>23 DEF vars, PromotesOverInvalid, SuccessDurable, LockDiscipline,
       TypeOK, Locked, Unlocked, Successes, Failures
  <1> QED
    BY <1>1, <1>2, <1>3, <1>4, <1>5, <1>6, <1>7, <1>8, <1>9, <1>10, <1>11,
       <1>12, <1>13, <1>14, <1>15, <1>16, <1>17, <1>18, <1>19, <1>20, <1>21,
       <1>22, <1>23 DEF Next, Step

(* As long as no file operation fails, whoever was told "reused" or        *)
(* "installed" finds the runtime at the target for ever after              *)
(* (SuccessDurable), however many others prepare it, crash or intrude.     *)
THEOREM SuccessIsDurable == Spec => [](PromotesOverInvalid /\ SuccessDurable)
  <1>1. Init => PromotesOverInvalid /\ SuccessDurable
    BY DEF Init, PromotesOverInvalid, SuccessDurable, Successes
  <1> QED
    BY <1>1, DurableStep, TypeCorrect, LockSerialises, PTL DEF Spec

(* Only promotion changes an occupied target.                              *)
LEMMA Retargeting ==
    ASSUME [Next]_vars, target # "none", target' # target
    PROVE  \E p \in Procs : \/ DisplaceTarget(p) \/ PublishCandidate(p)
                          \/ DeletePromoted(p) \/ RestoreDisplaced(p)
  BY DEF Next, Step, vars, Begin, RequestCancel, Check, Gate,
     AcquireInstallLock, Recheck, Regate, BeginDownload, AbortDownload,
     VerifyArchive, ExtractArchive, FindVerifiedRuntime, ConfirmPromoted,
     DiscardDisplaced, Cleanup, FinishDownload, Crash, Intrude

(* Only promotion and the end of an operation change what is set aside.    *)
LEMMA Redisplacing ==
    ASSUME [Next]_vars, displaced' # displaced
    PROVE  \E p \in Procs :
              \/ DisplaceTarget(p) \/ RestoreDisplaced(p)
              \/ DiscardDisplaced(p) \/ Cleanup(p) \/ Crash(p)
  BY DEF Next, Step, vars, private, Begin, RequestCancel, Check, Gate,
     AcquireInstallLock, Recheck, Regate, BeginDownload, AbortDownload,
     VerifyArchive, ExtractArchive, FindVerifiedRuntime, PublishCandidate,
     ConfirmPromoted, DeletePromoted, FinishDownload, Intrude

(* A foreign directory is moved or overwritten only with its caller's      *)
(* consent (ConsentRespected).                                             *)
THEOREM ConsentIsRespected == Spec => ConsentRespected
  <1>1. TypeOK /\ LockDiscipline /\ [Next]_vars
           => [target = "foreign" /\ target' # "foreign"
                 => \E p \in Procs : lock = p /\ allow[p]]_vars
    <2> SUFFICES ASSUME TypeOK, LockDiscipline, [Next]_vars,
                        target = "foreign", target' # "foreign"
                 PROVE  \E p \in Procs : lock = p /\ allow[p]
      OBVIOUS
    <2>1. PICK p \in Procs : \/ DisplaceTarget(p) \/ PublishCandidate(p)
                            \/ DeletePromoted(p) \/ RestoreDisplaced(p)
      BY Retargeting
    <2>2. lock = p /\ DisplaceTarget(p) /\ ~MustKeep(p)
      BY <2>1 DEF LockDiscipline, Locked, DisplaceTarget, PublishCandidate,
         DeletePromoted, RestoreDisplaced, Restorable, MoveBack
    <2> QED
      BY <2>2 DEF MustKeep, IsDirectory
  <1> QED
    BY <1>1, TypeCorrect, LockSerialises, PTL DEF Spec, ConsentRespected

(* A foreign directory is set aside whole and is deleted only while the    *)
(* runtime is at the target (ForeignNeverLost).                            *)
THEOREM ForeignIsNeverLost == Spec => ForeignNeverLost
  <1> DEFINE Moved == target = "foreign" /\ target' # "foreign"
                        => \E p \in Procs : displaced'[p] = "foreign"
             Kept(p) == displaced[p] = "foreign" /\ displaced'[p] # "foreign"
                          => \/ target = "runtime"
                             \/ target' = "foreign"
                             \/ "foreign" \in orphans'
  <1>1. TypeOK /\ LockDiscipline /\ [Next]_vars => Moved
    <2> SUFFICES ASSUME TypeOK, LockDiscipline, [Next]_vars,
                        target = "foreign", target' # "foreign"
                 PROVE  \E p \in Procs : displaced'[p] = "foreign"
      OBVIOUS
    <2>1. PICK p \in Procs : \/ DisplaceTarget(p) \/ PublishCandidate(p)
                            \/ DeletePromoted(p) \/ RestoreDisplaced(p)
      BY Retargeting
    <2>2. DisplaceTarget(p)
      BY <2>1 DEF LockDiscipline, PublishCandidate, DeletePromoted,
         RestoreDisplaced, Restorable, MoveBack
    <2> QED
      BY <2>2 DEF DisplaceTarget, TypeOK
  <1>2. TypeOK /\ LockDiscipline /\ [Next]_vars => \A p \in Procs : Kept(p)
    <2> SUFFICES ASSUME TypeOK, LockDiscipline, [Next]_vars, NEW p \in Procs,
                        displaced[p] = "foreign", displaced'[p] # "foreign"
                 PROVE  \/ target = "runtime"
                        \/ target' = "foreign"
                        \/ "foreign" \in orphans'
      OBVIOUS
    <2>1. PICK q \in Procs : \/ DisplaceTarget(q) \/ RestoreDisplaced(q)
                            \/ DiscardDisplaced(q) \/ Cleanup(q) \/ Crash(q)
      BY Redisplacing
    <2>2. q = p
      BY <2>1 DEF DisplaceTarget, RestoreDisplaced, MoveBack, DiscardDisplaced,
         Cleanup, Crash, ClearPaths, TypeOK
    <2>3. CASE DisplaceTarget(p)
      BY <2>3 DEF DisplaceTarget, LockDiscipline
    <2>4. CASE RestoreDisplaced(p)
      BY <2>4 DEF RestoreDisplaced, MoveBack
    <2>5. CASE DiscardDisplaced(p)
      BY <2>5 DEF DiscardDisplaced, LockDiscipline
    <2>6. CASE Cleanup(p)
      BY <2>6 DEF Cleanup, Leftovers
    <2>7. CASE Crash(p)
      BY <2>7 DEF Crash, Leftovers
    <2> QED
      BY <2>1, <2>2, <2>3, <2>4, <2>5, <2>6, <2>7
  <1>3. TypeOK /\ LockDiscipline /\ [Next]_vars
           => [/\ target = "foreign" /\ target' # "foreign"
                     => \E p \in Procs : displaced'[p] = "foreign"
               /\ \A p \in Procs :
                     displaced[p] = "foreign" /\ displaced'[p] # "foreign"
                        => target = "runtime" \/ target' = "foreign"
                             \/ "foreign" \in orphans']_vars
    BY <1>1, <1>2 DEF Moved, Kept
  <1> QED
    BY <1>3, TypeCorrect, LockSerialises, PTL DEF Spec, ForeignNeverLost

-----------------------------------------------------------------------------
(* What may stay beside the target, in the operations that end without     *)
(* faults and crashes.                                                     *)
Rightful == {"foreign"} \cup (InitialTargets \cap {"remnant"})

(* Without faults and crashes a remnant is at the target, or set aside,    *)
(* only if it was there in the beginning.                                  *)
NoOwnRemnant ==
    (faults = 0 /\ crashes = 0) =>
        /\ target = "remnant" => "remnant" \in InitialTargets
        /\ \A p \in Procs : displaced[p] \in {"none"} \cup Rightful
        /\ orphans \subseteq Rightful

(* An operation sets aside what it found, publishes its own candidate, and *)
(* deletes its own archive and staging directory.                          *)
LEMMA RemnantStep ==
    /\ TypeOK /\ LockDiscipline /\ PromotesOverInvalid /\ NoOwnRemnant
    /\ [Next]_vars
    => NoOwnRemnant'
  <1> SUFFICES ASSUME TypeOK, LockDiscipline, PromotesOverInvalid,
                      NoOwnRemnant, [Next]_vars
               PROVE  NoOwnRemnant'
    OBVIOUS
  <1> USE BootstrapAssumption
  <1>1. ASSUME NEW p \in Procs, NEW a \in AllowChoices, Begin(p, a)
        PROVE  NoOwnRemnant'
    BY <1>1 DEF Begin, Goto, private, NoOwnRemnant, Rightful,
       PromotesOverInvalid, LockDiscipline, TypeOK, Contents, Locked
  <1>2. ASSUME NEW p \in Procs, RequestCancel(p)
        PROVE  NoOwnRemnant'
    BY <1>2 DEF RequestCancel, private, budgets, NoOwnRemnant, Rightful,
       PromotesOverInvalid, LockDiscipline, TypeOK, Contents, Locked
  <1>3. ASSUME NEW p \in Procs, Check(p)
        PROVE  NoOwnRemnant'
    BY <1>3 DEF Check, Return, Goto, Fault, NoFault, private, Verifies,
       NoOwnRemnant, Rightful, PromotesOverInvalid, LockDiscipline, TypeOK,
       Contents, Locked
  <1>4. ASSUME NEW p \in Procs, Gate(p)
        PROVE  NoOwnRemnant'
    BY <1>4 DEF Gate, Return, Goto, private, budgets, MustKeep, IsDirectory,
       NoOwnRemnant, Rightful, PromotesOverInvalid, LockDiscipline, TypeOK,
       Contents, Locked
  <1>5. ASSUME NEW p \in Procs, AcquireInstallLock(p)
        PROVE  NoOwnRemnant'
    BY <1>5 DEF AcquireInstallLock, Return, Goto, private, budgets,
       NoOwnRemnant, Rightful, PromotesOverInvalid, LockDiscipline, TypeOK,
       Contents, Locked
  <1>6. ASSUME NEW p \in Procs, Recheck(p)
        PROVE  NoOwnRemnant'
    BY <1>6 DEF Recheck, Return, Goto, Fault, NoFault, private, Verifies,
       NoOwnRemnant, Rightful, PromotesOverInvalid, LockDiscipline, TypeOK,
       Contents, Locked
  <1>7. ASSUME NEW p \in Procs, Regate(p)
        PROVE  NoOwnRemnant'
    BY <1>7 DEF Regate, Return, Goto, private, budgets, MustKeep,
       IsDirectory, NoOwnRemnant, Rightful, PromotesOverInvalid,
       LockDiscipline, TypeOK, Contents, Locked
  <1>8. ASSUME NEW p \in Procs, BeginDownload(p)
        PROVE  NoOwnRemnant'
    BY <1>8 DEF BeginDownload, Goto, budgets, NoOwnRemnant, Rightful,
       PromotesOverInvalid, LockDiscipline, TypeOK, Contents, Locked
  <1>9. ASSUME NEW p \in Procs, AbortDownload(p)
        PROVE  NoOwnRemnant'
    BY <1>9 DEF AbortDownload, Unwind, Goto, private, budgets, NoOwnRemnant,
       Rightful, PromotesOverInvalid, LockDiscipline, TypeOK, Contents,
       Locked
  <1>10. ASSUME NEW p \in Procs, VerifyArchive(p)
        PROVE  NoOwnRemnant'
    BY <1>10 DEF VerifyArchive, Unwind, Goto, Fault, NoFault, private,
       NoOwnRemnant, Rightful, PromotesOverInvalid, LockDiscipline, TypeOK,
       Contents, Locked
  <1>11. ASSUME NEW p \in Procs, ExtractArchive(p)
        PROVE  NoOwnRemnant'
    BY <1>11 DEF ExtractArchive, Unwind, Goto, Fault, NoFault, NoOwnRemnant,
       Rightful, PromotesOverInvalid, LockDiscipline, TypeOK, Contents,
       Locked
  <1>12. ASSUME NEW p \in Procs, FindVerifiedRuntime(p)
        PROVE  NoOwnRemnant'
    BY <1>12 DEF FindVerifiedRuntime, Unwind, Goto, Fault, NoFault, private,
       NoOwnRemnant, Rightful, PromotesOverInvalid, LockDiscipline, TypeOK,
       Contents, Locked
  <1>13. ASSUME NEW p \in Procs, DisplaceTarget(p)
        PROVE  NoOwnRemnant'
    BY <1>13 DEF DisplaceTarget, Unwind, Goto, Fault, NoFault, MustKeep,
       IsDirectory, NoOwnRemnant, Rightful, PromotesOverInvalid,
       LockDiscipline, TypeOK, Contents, Locked
  <1>14. ASSUME NEW p \in Procs, PublishCandidate(p)
        PROVE  NoOwnRemnant'
    BY <1>14 DEF PublishCandidate, Goto, Fault, NoFault, NoOwnRemnant,
       Rightful, PromotesOverInvalid, LockDiscipline, TypeOK, Contents,
       Locked
  <1>15. ASSUME NEW p \in Procs, ConfirmPromoted(p)
        PROVE  NoOwnRemnant'
    BY <1>15 DEF ConfirmPromoted, Goto, Fault, NoFault, private, Verifies,
       NoOwnRemnant, Rightful, PromotesOverInvalid, LockDiscipline, TypeOK,
       Contents, Locked
  <1>16. ASSUME NEW p \in Procs, DeletePromoted(p)
        PROVE  NoOwnRemnant'
    BY <1>16 DEF DeletePromoted, Goto, Fault, NoFault, private,
       NoOwnRemnant, Rightful, PromotesOverInvalid, LockDiscipline, TypeOK,
       Contents, Locked
  <1>17. ASSUME NEW p \in Procs, RestoreDisplaced(p)
        PROVE  NoOwnRemnant'
    BY <1>17 DEF RestoreDisplaced, Unwind, Goto, Fault, NoFault, Restorable,
       MoveBack, NoOwnRemnant, Rightful, PromotesOverInvalid,
       LockDiscipline, TypeOK, Contents, Locked
  <1>18. ASSUME NEW p \in Procs, DiscardDisplaced(p)
        PROVE  NoOwnRemnant'
    BY <1>18 DEF DiscardDisplaced, Unwind, Goto, Fault, NoFault,
       NoOwnRemnant, Rightful, PromotesOverInvalid, LockDiscipline, TypeOK,
       Contents, Locked
  <1>19. ASSUME NEW p \in Procs, Cleanup(p)
        PROVE  NoOwnRemnant'
    <2>1. CASE Fault
      BY <1>19, <2>1 DEF Cleanup, Fault, NoOwnRemnant, TypeOK
    <2>2. CASE ~Fault
      <3>1. /\ orphans' = orphans \cup ({displaced[p]} \ {"none"})
            /\ displaced' = [displaced EXCEPT ![p] = "none"]
            /\ UNCHANGED <<target, faults, crashes>>
        BY <1>19, <2>2 DEF Cleanup, ClearPaths, NoFault
      <3> QED
        BY <3>1 DEF NoOwnRemnant, Rightful, TypeOK
    <2> QED
      BY <2>1, <2>2
  <1>20. ASSUME NEW p \in Procs, FinishDownload(p)
        PROVE  NoOwnRemnant'
    BY <1>20 DEF FinishDownload, Unwind, Goto, Fault, NoFault, NoOwnRemnant,
       Rightful, PromotesOverInvalid, LockDiscipline, TypeOK, Contents,
       Locked
  <1>21. ASSUME NEW p \in Procs, Crash(p)
        PROVE  NoOwnRemnant'
    BY <1>21 DEF Crash, Return, Goto, Leftovers, ClearPaths, NoOwnRemnant,
       Rightful, PromotesOverInvalid, LockDiscipline, TypeOK, Contents,
       Locked
  <1>22. ASSUME NEW c \in {"file", "link", "foreign"}, Intrude(c)
        PROVE  NoOwnRemnant'
    BY <1>22 DEF Intrude, private, NoOwnRemnant, Rightful,
       PromotesOverInvalid, LockDiscipline, TypeOK, Contents, Locked
  <1>23. CASE UNCHANGED vars
    BY <1>23 DEF vars, NoOwnRemnant, Rightful, PromotesOverInvalid,
       LockDiscipline, TypeOK, Contents, Locked
  <1> QED
    BY <1>1, <1>2, <1>3, <1>4, <1>5, <1>6, <1>7, <1>8, <1>9, <1>10, <1>11,
       <1>12, <1>13, <1>14, <1>15, <1>16, <1>17, <1>18, <1>19, <1>20, <1>21,
       <1>22, <1>23 DEF Next, Step

(* What operations leave beside the target, without faults and crashes,    *)
(* was at the target before: for any number of calls and intruders, and    *)
(* whatever is cancelled (the finally block of EnsureInstalledAsync).      *)
THEOREM OnlyRightfulFilesStay == Spec => []OnlyCallerFilesStay
  <1>1. Init => PromotesOverInvalid /\ SuccessDurable /\ NoOwnRemnant
    BY BootstrapAssumption DEF Init, PromotesOverInvalid, SuccessDurable,
       NoOwnRemnant, Rightful, Successes
  <1>2. /\ TypeOK /\ LockDiscipline /\ PromotesOverInvalid
        /\ SuccessDurable /\ NoOwnRemnant /\ [Next]_vars
        => PromotesOverInvalid' /\ SuccessDurable' /\ NoOwnRemnant'
    BY DurableStep, RemnantStep
  <1>3. NoOwnRemnant => OnlyCallerFilesStay
    BY DEF NoOwnRemnant, Rightful, OnlyCallerFilesStay
  <1> QED
    BY <1>1, <1>2, <1>3, TypeCorrect, LockSerialises, PTL DEF Spec

(* Somebody was told that the runtime is installed, and at most two file   *)
(* operations have failed.                                                 *)
Told == \E p \in Procs : result[p] = "Installed"
Undisturbed == faults <= 2 /\ crashes = 0 /\ intrusions = 0

(* The runtime is at the target, or is set aside by an operation that has  *)
(* used up a fault to get there and will put it back: it takes one fault   *)
(* to mistake the runtime under the lock, a second one to fail after that, *)
(* and a third one not to move it back.                                    *)
BeforeTaken == {"obtain", "downloading", "verify", "extract", "examine",
                "displace"}
Surviving ==
    /\ \A p \in Procs :
           pc[p] = "cleanup" /\ outcome[p] = "Installed" => target = "runtime"
    /\ Undisturbed /\ Told =>
        /\ lock = NoProc => target = "runtime"
        /\ \A p \in Procs :
            /\ pc[p] \in {"recheck", "regate", "cleanup"} \cup BeforeTaken
                   => target = "runtime"
            /\ pc[p] = "regate" /\ ~cancelled[p] => faults >= 1
            /\ pc[p] \in {"publish", "confirm"} \cup BeforeTaken => faults >= 1
            /\ pc[p] \in {"rollback", "restoreFirst", "restoreLast"}
                   => faults >= 2
            /\ pc[p] \in {"publish", "restoreFirst"} => target = "none"
            /\ pc[p] \in {"publish", "restoreFirst", "confirm", "rollback"}
                   => displaced[p] = "runtime"
            /\ pc[p] = "restoreLast"
                   => \/ target = "runtime"
                      \/ target = "none" /\ displaced[p] = "runtime"

(* The induction step: where a fault is needed, one is used up.            *)
LEMMA SurvivalStep ==
    TypeOK /\ LockDiscipline /\ Surviving /\ [Next]_vars => Surviving'
  <1> SUFFICES ASSUME TypeOK, LockDiscipline, Surviving, [Next]_vars
               PROVE  Surviving'
    OBVIOUS
  <1> USE BootstrapAssumption
  <1>1. ASSUME NEW p \in Procs, NEW a \in AllowChoices, Begin(p, a)
        PROVE  Surviving'
    BY <1>1 DEF Begin, Goto, private, Surviving, Told, Undisturbed,
       BeforeTaken, LockDiscipline, TypeOK, Contents, Locked, Unlocked
  <1>2. ASSUME NEW p \in Procs, RequestCancel(p)
        PROVE  Surviving'
    BY <1>2 DEF RequestCancel, private, budgets, Surviving, Told,
       Undisturbed, BeforeTaken, LockDiscipline, TypeOK, Contents, Locked,
       Unlocked
  <1>3. ASSUME NEW p \in Procs, Check(p)
        PROVE  Surviving'
    BY <1>3 DEF Check, Return, Goto, Fault, NoFault, private, Verifies,
       Surviving, Told, Undisturbed, BeforeTaken, LockDiscipline, TypeOK,
       Contents, Locked, Unlocked
  <1>4. ASSUME NEW p \in Procs, Gate(p)
        PROVE  Surviving'
    BY <1>4 DEF Gate, Return, Goto, private, budgets, MustKeep, IsDirectory,
       Surviving, Told, Undisturbed, BeforeTaken, LockDiscipline, TypeOK,
       Contents, Locked, Unlocked
  <1>5. ASSUME NEW p \in Procs, AcquireInstallLock(p)
        PROVE  Surviving'
    BY <1>5 DEF AcquireInstallLock, Return, Goto, private, budgets,
       Surviving, Told, Undisturbed, BeforeTaken, LockDiscipline, TypeOK,
       Contents, Locked, Unlocked
  <1>6. ASSUME NEW p \in Procs, Recheck(p)
        PROVE  Surviving'
    BY <1>6 DEF Recheck, Return, Goto, Fault, NoFault, private, Verifies,
       Surviving, Told, Undisturbed, BeforeTaken, LockDiscipline, TypeOK,
       Contents, Locked, Unlocked
  <1>7. ASSUME NEW p \in Procs, Regate(p)
        PROVE  Surviving'
    BY <1>7 DEF Regate, Return, Goto, private, budgets, MustKeep,
       IsDirectory, Surviving, Told, Undisturbed, BeforeTaken,
       LockDiscipline, TypeOK, Contents, Locked, Unlocked
  <1>8. ASSUME NEW p \in Procs, BeginDownload(p)
        PROVE  Surviving'
    BY <1>8 DEF BeginDownload, Goto, budgets, Surviving, Told, Undisturbed,
       BeforeTaken, LockDiscipline, TypeOK, Contents, Locked, Unlocked
  <1>9. ASSUME NEW p \in Procs, AbortDownload(p)
        PROVE  Surviving'
    BY <1>9 DEF AbortDownload, Unwind, Goto, private, budgets, Surviving,
       Told, Undisturbed, BeforeTaken, LockDiscipline, TypeOK, Contents,
       Locked, Unlocked
  <1>10. ASSUME NEW p \in Procs, VerifyArchive(p)
        PROVE  Surviving'
    BY <1>10 DEF VerifyArchive, Unwind, Goto, Fault, NoFault, private,
       Surviving, Told, Undisturbed, BeforeTaken, LockDiscipline, TypeOK,
       Contents, Locked, Unlocked
  <1>11. ASSUME NEW p \in Procs, ExtractArchive(p)
        PROVE  Surviving'
    BY <1>11 DEF ExtractArchive, Unwind, Goto, Fault, NoFault, Surviving,
       Told, Undisturbed, BeforeTaken, LockDiscipline, TypeOK, Contents,
       Locked, Unlocked
  <1>12. ASSUME NEW p \in Procs, FindVerifiedRuntime(p)
        PROVE  Surviving'
    BY <1>12 DEF FindVerifiedRuntime, Unwind, Goto, Fault, NoFault, private,
       Surviving, Told, Undisturbed, BeforeTaken, LockDiscipline, TypeOK,
       Contents, Locked, Unlocked
  <1>13. ASSUME NEW p \in Procs, DisplaceTarget(p)
        PROVE  Surviving'
    BY <1>13 DEF DisplaceTarget, Unwind, Goto, Fault, NoFault, MustKeep,
       IsDirectory, Surviving, Told, Undisturbed, BeforeTaken,
       LockDiscipline, TypeOK, Contents, Locked, Unlocked
  <1>14. ASSUME NEW p \in Procs, PublishCandidate(p)
        PROVE  Surviving'
    BY <1>14 DEF PublishCandidate, Goto, Fault, NoFault, Surviving, Told,
       Undisturbed, BeforeTaken, LockDiscipline, TypeOK, Contents, Locked,
       Unlocked
  <1>15. ASSUME NEW p \in Procs, ConfirmPromoted(p)
        PROVE  Surviving'
    BY <1>15 DEF ConfirmPromoted, Goto, Fault, NoFault, private, Verifies,
       Surviving, Told, Undisturbed, BeforeTaken, LockDiscipline, TypeOK,
       Contents, Locked, Unlocked
  <1>16. ASSUME NEW p \in Procs, DeletePromoted(p)
        PROVE  Surviving'
    BY <1>16 DEF DeletePromoted, Goto, Fault, NoFault, private, Surviving,
       Told, Undisturbed, BeforeTaken, LockDiscipline, TypeOK, Contents,
       Locked, Unlocked
  <1>17. ASSUME NEW p \in Procs, RestoreDisplaced(p)
        PROVE  Surviving'
    BY <1>17 DEF RestoreDisplaced, Unwind, Goto, Fault, NoFault, Restorable,
       MoveBack, Surviving, Told, Undisturbed, BeforeTaken, LockDiscipline,
       TypeOK, Contents, Locked, Unlocked
  <1>18. ASSUME NEW p \in Procs, DiscardDisplaced(p)
        PROVE  Surviving'
    BY <1>18 DEF DiscardDisplaced, Unwind, Goto, Fault, NoFault, Surviving,
       Told, Undisturbed, BeforeTaken, LockDiscipline, TypeOK, Contents,
       Locked, Unlocked
  <1>19. ASSUME NEW p \in Procs, Cleanup(p)
        PROVE  Surviving'
    BY <1>19 DEF Cleanup, Return, Goto, Fault, NoFault, Leftovers,
       ClearPaths, Surviving, Told, Undisturbed, BeforeTaken,
       LockDiscipline, TypeOK, Contents, Locked, Unlocked
  <1>20. ASSUME NEW p \in Procs, FinishDownload(p)
        PROVE  Surviving'
    BY <1>20 DEF FinishDownload, Unwind, Goto, Fault, NoFault, Surviving,
       Told, Undisturbed, BeforeTaken, LockDiscipline, TypeOK, Contents,
       Locked, Unlocked
  <1>21. ASSUME NEW p \in Procs, Crash(p)
        PROVE  Surviving'
    BY <1>21 DEF Crash, Return, Goto, Leftovers, ClearPaths, Surviving,
       Told, Undisturbed, BeforeTaken, LockDiscipline, TypeOK, Contents,
       Locked, Unlocked
  <1>22. ASSUME NEW c \in {"file", "link", "foreign"}, Intrude(c)
        PROVE  Surviving'
    BY <1>22 DEF Intrude, private, Surviving, Told, Undisturbed,
       BeforeTaken, LockDiscipline, TypeOK, Contents, Locked, Unlocked
  <1>23. CASE UNCHANGED vars
    BY <1>23 DEF vars, Surviving, Told, Undisturbed, BeforeTaken,
       LockDiscipline, TypeOK, Contents, Locked, Unlocked
  <1> QED
    BY <1>1, <1>2, <1>3, <1>4, <1>5, <1>6, <1>7, <1>8, <1>9, <1>10, <1>11,
       <1>12, <1>13, <1>14, <1>15, <1>16, <1>17, <1>18, <1>19, <1>20, <1>21,
       <1>22, <1>23 DEF Next, Step

(* An installation outlives any number of later preparations, up to two    *)
(* failing file operations, without crashes and intruders (PromoteAsync).  *)
THEOREM InstallationsSurvive == Spec => []InstalledSurvivesTwoFaults
  <1>1. Init => Surviving
    BY DEF Init, Surviving, Told
  <1>2. Surviving => InstalledSurvivesTwoFaults
    BY DEF Surviving, Told, Undisturbed, InstalledSurvivesTwoFaults
  <1> QED
    BY <1>1, <1>2, SurvivalStep, TypeCorrect, LockSerialises, PTL DEF Spec

-----------------------------------------------------------------------------
(* The step simulation behind the refinement: each action is one of the    *)
(* slot's, or leaves the slot, its backup and the stranded files alone.    *)
LEMMA SlotStep ==
    TypeOK /\ LockDiscipline /\ [Next]_vars => [Slot!Next]_(Slot!vars)
  <1> SUFFICES ASSUME TypeOK, LockDiscipline, [Next]_vars
               PROVE  [Slot!Next]_(Slot!vars)
    OBVIOUS
  <1> USE BootstrapAssumption
  <1>1. ASSUME NEW p \in Procs, NEW a \in AllowChoices, Begin(p, a)
         PROVE  [Slot!Next]_(Slot!vars)
    <2>1. UNCHANGED <<lock, target, displaced, orphans>>
      BY <1>1 DEF Begin, private
    <2> QED
      BY <2>1 DEF Slot!vars
  <1>2. ASSUME NEW p \in Procs, RequestCancel(p)
        PROVE  [Slot!Next]_(Slot!vars)
    <2>1. UNCHANGED <<lock, target, displaced, orphans>>
      BY <1>2 DEF RequestCancel, private
    <2> QED
      BY <2>1 DEF Slot!vars
  <1>3. ASSUME NEW p \in Procs, Check(p)
        PROVE  [Slot!Next]_(Slot!vars)
    <2>1. lock # p /\ lock' = lock /\ UNCHANGED <<target, displaced, orphans>>
      BY <1>3 DEF Check, Return, LockDiscipline, Locked, private
    <2> QED
      BY <2>1 DEF Slot!vars
  <1>4. ASSUME NEW p \in Procs, Gate(p)
        PROVE  [Slot!Next]_(Slot!vars)
    <2>1. lock # p /\ lock' = lock /\ UNCHANGED <<target, displaced, orphans>>
      BY <1>4 DEF Gate, Return, LockDiscipline, Locked, private
    <2> QED
      BY <2>1 DEF Slot!vars
  <1>5. ASSUME NEW p \in Procs, AcquireInstallLock(p)
        PROVE  [Slot!Next]_(Slot!vars)
    <2>1. CASE lock' = lock
      BY <1>5, <2>1 DEF AcquireInstallLock, private, Slot!vars
    <2>2. CASE lock' # lock
      <3>1. lock = NoProc /\ lock' = p /\ displaced[p] = "none"
        BY <1>5, <2>2 DEF AcquireInstallLock, Return, LockDiscipline, Locked
      <3> QED
        BY <1>5, <3>1 DEF AcquireInstallLock, private, Slot!vars
    <2> QED
      BY <2>1, <2>2
  <1>6. ASSUME NEW p \in Procs, Recheck(p)
        PROVE  [Slot!Next]_(Slot!vars)
    <2>1. lock = p /\ lock' \in {p, NoProc} /\ displaced[p] = "none"
      BY <1>6 DEF Recheck, Return, LockDiscipline, Locked
    <2>2. UNCHANGED <<target, displaced, orphans>>
      BY <1>6 DEF Recheck, private
    <2> QED
      BY <2>1, <2>2 DEF Slot!vars
  <1>7. ASSUME NEW p \in Procs, Regate(p)
        PROVE  [Slot!Next]_(Slot!vars)
    <2>1. lock = p /\ lock' \in {p, NoProc} /\ displaced[p] = "none"
      BY <1>7 DEF Regate, Return, LockDiscipline, Locked
    <2>2. UNCHANGED <<target, displaced, orphans>>
      BY <1>7 DEF Regate, private
    <2> QED
      BY <2>1, <2>2 DEF Slot!vars
  <1>8. ASSUME NEW p \in Procs, BeginDownload(p)
        PROVE  [Slot!Next]_(Slot!vars)
    <2>1. UNCHANGED <<lock, target, displaced, orphans>>
      BY <1>8 DEF BeginDownload, private
    <2> QED
      BY <2>1 DEF Slot!vars
  <1>9. ASSUME NEW p \in Procs, AbortDownload(p)
        PROVE  [Slot!Next]_(Slot!vars)
    <2>1. UNCHANGED <<lock, target, displaced, orphans>>
      BY <1>9 DEF AbortDownload, private
    <2> QED
      BY <2>1 DEF Slot!vars
  <1>10. ASSUME NEW p \in Procs, VerifyArchive(p)
        PROVE  [Slot!Next]_(Slot!vars)
    <2>1. UNCHANGED <<lock, target, displaced, orphans>>
      BY <1>10 DEF VerifyArchive, private
    <2> QED
      BY <2>1 DEF Slot!vars
  <1>11. ASSUME NEW p \in Procs, ExtractArchive(p)
        PROVE  [Slot!Next]_(Slot!vars)
    <2>1. UNCHANGED <<lock, target, displaced, orphans>>
      BY <1>11 DEF ExtractArchive, private
    <2> QED
      BY <2>1 DEF Slot!vars
  <1>12. ASSUME NEW p \in Procs, FindVerifiedRuntime(p)
        PROVE  [Slot!Next]_(Slot!vars)
    <2>1. UNCHANGED <<lock, target, displaced, orphans>>
      BY <1>12 DEF FindVerifiedRuntime, private
    <2> QED
      BY <2>1 DEF Slot!vars
  <1>13. ASSUME NEW p \in Procs, DisplaceTarget(p)
        PROVE  [Slot!Next]_(Slot!vars)
    <2>1. lock = p /\ lock # NoProc /\ lock' = lock /\ UNCHANGED orphans
      BY <1>13 DEF DisplaceTarget, LockDiscipline, Locked
    <2> QED
      BY <1>13, <2>1 DEF DisplaceTarget, IsDirectory, LockDiscipline, TypeOK,
         Contents, Slot!SetAside, Slot!Next, Slot!vars
  <1>14. ASSUME NEW p \in Procs, PublishCandidate(p)
        PROVE  [Slot!Next]_(Slot!vars)
    <2>1. lock = p /\ lock # NoProc /\ lock' = lock /\ UNCHANGED orphans
      BY <1>14 DEF PublishCandidate, LockDiscipline, Locked
    <2> QED
      BY <1>14, <2>1 DEF PublishCandidate, LockDiscipline, TypeOK,
         Contents, Slot!Publish, Slot!Next, Slot!vars
  <1>15. ASSUME NEW p \in Procs, ConfirmPromoted(p)
        PROVE  [Slot!Next]_(Slot!vars)
    <2>1. UNCHANGED <<lock, target, displaced, orphans>>
      BY <1>15 DEF ConfirmPromoted, private
    <2> QED
      BY <2>1 DEF Slot!vars
  <1>16. ASSUME NEW p \in Procs, DeletePromoted(p)
        PROVE  [Slot!Next]_(Slot!vars)
    <2>1. lock = p /\ lock # NoProc /\ lock' = lock /\ UNCHANGED orphans
      BY <1>16 DEF DeletePromoted, LockDiscipline, Locked
    <2> QED
      BY <1>16, <2>1 DEF DeletePromoted, private, LockDiscipline, TypeOK,
         Contents, Slot!Withdraw, Slot!Next, Slot!vars
  <1>17. ASSUME NEW p \in Procs, RestoreDisplaced(p)
        PROVE  [Slot!Next]_(Slot!vars)
    <2>1. lock = p /\ lock # NoProc /\ lock' = lock /\ UNCHANGED orphans
      BY <1>17 DEF RestoreDisplaced, LockDiscipline, Locked
    <2> QED
      BY <1>17, <2>1 DEF RestoreDisplaced, Restorable, MoveBack, LockDiscipline, TypeOK,
         Contents, Slot!Restore, Slot!Next, Slot!vars
  <1>18. ASSUME NEW p \in Procs, DiscardDisplaced(p)
        PROVE  [Slot!Next]_(Slot!vars)
    <2>1. lock = p /\ lock # NoProc /\ lock' = lock /\ UNCHANGED orphans
      BY <1>18 DEF DiscardDisplaced, LockDiscipline, Locked
    <2> QED
      BY <1>18, <2>1 DEF DiscardDisplaced, LockDiscipline, TypeOK,
         Contents, Slot!Discard, Slot!Next, Slot!vars
  <1>19. ASSUME NEW p \in Procs, Cleanup(p)
        PROVE  [Slot!Next]_(Slot!vars)
    <2>1. lock = p /\ lock # NoProc /\ lock' = NoProc
      BY <1>19 DEF Cleanup, Return, LockDiscipline, Locked
    <2>2. orphans \cup ({displaced[p]} \ {"none"}) \subseteq orphans'
      BY <1>19 DEF Cleanup, Leftovers
    <2>3. target' = target
      BY <1>19 DEF Cleanup
    <2> QED
      BY <2>1, <2>2, <2>3 DEF Slot!Retire, Slot!Next
  <1>20. ASSUME NEW p \in Procs, FinishDownload(p)
        PROVE  [Slot!Next]_(Slot!vars)
    <2>1. UNCHANGED <<lock, target, displaced, orphans>>
      BY <1>20 DEF FinishDownload, private
    <2> QED
      BY <2>1 DEF Slot!vars
  <1>21. ASSUME NEW p \in Procs, Crash(p)
        PROVE  [Slot!Next]_(Slot!vars)
    <2>1. target' = target /\ lock' = IF lock = p THEN NoProc ELSE lock
      BY <1>21 DEF Crash, Return
    <2>2. CASE lock = p
      <3>1. orphans \cup ({displaced[p]} \ {"none"}) \subseteq orphans'
        BY <1>21 DEF Crash, Leftovers
      <3> QED
        BY <2>1, <2>2, <3>1 DEF Slot!Retire, Slot!Next
    <2>3. CASE lock # p
      <3>1. orphans' = orphans
        BY <1>21, <2>3 DEF Crash, Leftovers, LockDiscipline
      <3>2. \A q \in Procs \ {p} : displaced'[q] = displaced[q]
        BY <1>21 DEF Crash, ClearPaths, TypeOK
      <3> QED
        BY <2>1, <2>3, <3>1, <3>2 DEF Slot!vars, TypeOK
    <2> QED
      BY <2>2, <2>3
  <1>22. ASSUME NEW c \in {"file", "link", "foreign"}, Intrude(c)
        PROVE  [Slot!Next]_(Slot!vars)
    BY <1>22 DEF Intrude, private, Slot!Occupy, Slot!Next
  <1>23. CASE UNCHANGED vars
    BY <1>23 DEF vars, Slot!vars
  <1> QED
    BY <1>1, <1>2, <1>3, <1>4, <1>5, <1>6, <1>7, <1>8, <1>9, <1>10, <1>11,
       <1>12, <1>13, <1>14, <1>15, <1>16, <1>17, <1>18, <1>19, <1>20, <1>21,
       <1>22, <1>23 DEF Next, Step

(* All processes together behave as the abstract slot (ImplementsSlot).    *)
THEOREM BootstrapImplementsSlot == Spec => ImplementsSlot
  <1>1. Init => Slot!Init
    BY DEF Init, Slot!Init
  <1> QED
    BY <1>1, SlotStep, TypeCorrect, LockSerialises, PTL
      DEF Spec, ImplementsSlot, Slot!Spec

=============================================================================
