--------------------------- MODULE UpstreamProofs ----------------------------
(***************************************************************************)
(* Theorems about the two tools that hold the port to its upstream.  First  *)
(* the compatibility gate and the evidence collection in it, for any        *)
(* assertions, projects and versions of the registries, whatever the user   *)
(* does to the repository and left-over processes write; then the reference *)
(* pipeline, for any plans, edits and ended commands.                       *)
(***************************************************************************)
EXTENDS CompatibilityGate, ReferencePipeline, FiniteSetTheorems, TLAPS

(* The stages: before the copy, before the tests, and after the parent has *)
(* believed what the child reports.                                        *)
Opening == {"idle", "first", "compare", "canonical"}
Readying == {"inputs", "launch", "childBefore", "childVerify"}
Testing == {"projects", "parse", "childEnd", "childAfter", "parentBefore", "reparse"}
Believed == {"parentAfter", "last", "closing", "sealed"}

(* What a session has pinned and read; a refused one is left as it was.    *)
PinnedTyped ==
    /\ stage \notin {"idle", "first", "refused"} => snap \in [head : Nat, files : Trees]
    /\ stage \notin Opening \cup {"refused"} =>
          canon \in [evidence : Versions, matrix : Versions]

(* The copy grows file by file, and is complete before anything runs.      *)
CopySound ==
    /\ copy \in [DOMAIN copy -> Versions]
    /\ stage \in Opening => DOMAIN copy = {}
    /\ stage = "copy" => DOMAIN copy # Files
    /\ stage \in Readying \cup Testing \cup Believed => DOMAIN copy = Files

(* What the child has run.  A file of the copy that is still the one of the *)
(* snapshot was so when the test ran.                                      *)
RanAs(a) ==
    /\ a \in Required
    /\ ran[a].files \in Trees /\ ran[a].case \in Possible /\ ran[a].exit \in {0, 1}
    /\ \A f \in Files : copy[f] = snap.files[f] => ran[a].files[f] = snap.files[f]

(* What the child says of it, and what is left of it.                      *)
ClaimedAs(a) ==
    /\ Faithful /\ Owner[a] \notin spoiled => claims[a] = Judged(ran[a].case, ran[a].exit)
    /\ Faithful /\ claims[a] = "passed" => ran[a].exit = 0
    /\ exits[Owner[a]] \in {0, 1}
    /\ strays = 0 => disk[Owner[a]][a] = ran[a].case

(* What the tests of a project have left when they end.                    *)
LeftAs(a) ==
    /\ a \in DOMAIN ran /\ exits[Current] = ran[a].exit
    /\ Current \notin spoiled => disk[Current][a] = ran[a].case
    /\ strays = 0 => disk[Current][a] = ran[a].case

(* Claims are made of what was run; the project that has just been tested  *)
(* is still to be parsed.                                                  *)
RanSound ==
    /\ DOMAIN disk = Projects /\ DOMAIN exits = Projects
    /\ claims \in [DOMAIN claims -> Outcomes]
    /\ stage \in Opening \cup {"copy"} \cup Readying =>
          DOMAIN ran = {} /\ disk = [p \in Projects |-> None]
    /\ stage # "refused" => \A a \in DOMAIN ran : RanAs(a)
    /\ stage # "refused" =>
          \A a \in DOMAIN claims : (stage = "parse" /\ Owner[a] = Current) \/ ClaimedAs(a)
    /\ stage = "parse" => left > 0 /\ \A a \in Owned(Current, Required) : LeftAs(a)

(* What the parent has checked stays so.                                   *)
BelievedSound ==
    stage \in Believed =>
        /\ Bound(snap.files) /\ DOMAIN claims = Required
        /\ strays = 0 =>
              \A a \in DOMAIN claims :
                  \E exit \in {0, 1} : claims[a] = Judged(ran[a].case, exit)

(* The seal is the last thing a session does.                              *)
SealFacts ==
    /\ sealed # None => stage = "sealed"
    /\ stage = "sealed" =>
          /\ sealed # None /\ copy = snap.files
          /\ sealed.tree = snap /\ sealed.evidence = canon.evidence
          /\ sealed.outcomes = claims

(* Evidence that meets the demand is a sealed session's.                   *)
ExecutionSound ==
    gate \in {"identity", "inventory", "symbols", "write", "print", "exit"} =>
        /\ execution \in BOOLEAN
        /\ execution = TRUE =>
              \A a \in Closure(memory["evidence"], memory["matrix"]) :
                  /\ sealed # None /\ sealed.evidence = memory["evidence"]
                  /\ a \in DOMAIN sealed.outcomes /\ sealed.outcomes[a] = "passed"

Judging == {"write", "print", "exit"}

Sights == [disk : [Manifests \cup {"tests"} -> Versions],
            commit : [Manifests \cup {"tests"} -> Versions]]

(* Where in a look the manifest f is compared with the tree of the commit,  *)
(* loaded, and compared again.                                             *)
CleanAt(f) == IF f = "matrix" THEN 2 ELSE 3
LoadAt(f) == IF f = "matrix" THEN 4 ELSE 5
StillAt(f) == IF f = "matrix" THEN 9 ELSE 10

(* The moments of a look that matter to f, in order: the first tree is      *)
(* read, f is compared with it and loaded, the last tree is read, and f is  *)
(* compared with that.                                                     *)
Chain(f, h, c, l, t, s) ==
    /\ h <= c /\ c <= l /\ l <= t /\ t <= s
    /\ look > 1 /\ look <= 6 => past[h].commit[f] = trees[tip][f]
    /\ look > CleanAt(f) => past[h].commit[f] = past[c].disk[f]
    /\ look > LoadAt(f) => past[l].disk[f] = loaded[f]
    /\ look > 8 => past[t].commit[f] = trees[tip][f]
    /\ look > StillAt(f) => past[t].commit[f] = past[s].disk[f]

Chained(f) ==
    \E h, c, l, t, s \in DOMAIN past : Chain(f, h, c, l, t, s)

(* The tests are compared with a tree of their own.                        *)
TestsChain(h, c) ==
    /\ h <= c
    /\ look = 7 => past[h].commit["tests"] = trees[tip]["tests"]
    /\ look > 7 => /\ past[h].commit["tests"] = past[c].disk["tests"]
                   /\ past[c].disk["tests"] = BoundTests[loaded["evidence"]]

TestsChained == \E h, c \in DOMAIN past : TestsChain(h, c)

(* What the look for a verdict has seen so far was there to see.           *)
PastSound ==
    gate \in Judging =>
        past \in Seq(Sights) /\ past # << >> /\ past[Len(past)] = Now

LookSound ==
    gate \in Judging =>
        /\ look \in 1..11 /\ (~found => look = 11)
        /\ found => memory["matrix"] \notin Undecided
        /\ found /\ look > 1 => tip \in DOMAIN trees
        /\ found => (\A f \in Manifests : Chained(f)) /\ TestsChained

IInv ==
    /\ TypeOK /\ PinnedTyped /\ CopySound /\ RanSound
    /\ BelievedSound /\ SealFacts /\ ExecutionSound /\ PastSound /\ LookSound

(* There is a next file to copy until all are copied.                      *)
LEMMA NextFile ==
    ASSUME NEW done \in SUBSET Files, done # Files
    PROVE  FileOrder[Cardinality(done) + 1] \in Files
  <1>1. IsFiniteSet({}) /\ Cardinality({}) = 0
    BY FS_EmptySet
  <1>2. IsFiniteSet({"collector"}) /\ Cardinality({"collector"}) = 1
    BY FS_Singleton
  <1>3. /\ IsFiniteSet({"collector"} \cup {"evidence"})
        /\ Cardinality({"collector"} \cup {"evidence"}) = 2
    BY <1>2, FS_AddElement
  <1>4. /\ IsFiniteSet({"collector"} \cup {"evidence"} \cup {"matrix"})
        /\ Cardinality({"collector"} \cup {"evidence"} \cup {"matrix"}) = 3
    BY <1>3, FS_AddElement
  <1>5. /\ IsFiniteSet({"collector"} \cup {"evidence"} \cup {"matrix"} \cup {"tests"})
        /\ Cardinality({"collector"} \cup {"evidence"} \cup {"matrix"} \cup {"tests"}) = 4
    BY <1>4, FS_AddElement
  <1>6. Files = {"collector"} \cup {"evidence"} \cup {"matrix"} \cup {"tests"}
    BY DEF Files
  <1>7. /\ IsFiniteSet(done) /\ Cardinality(done) <= 4
        /\ Cardinality(done) # 4
    BY <1>5, <1>6, FS_Subset
  <1>8. Cardinality(done) \in Nat
    BY <1>7, FS_CardinalityType
  <1>9. Cardinality(done) + 1 \in {1, 2, 3, 4}
    BY <1>7, <1>8
  <1> QED
    BY <1>9 DEF FileOrder, Files

(* No more projects have assertions to run than there are.                 *)
LEMMA ProjectsToTest ==
    ASSUME NEW owners \in SUBSET Projects
    PROVE  Cardinality(owners) \in 0..Len(ProjectOrder)
  <1>1. /\ Len(ProjectOrder) \in Nat
        /\ ProjectOrder \in [1..Len(ProjectOrder) -> Projects]
    BY CollectionAssumption
  <1>2. ProjectOrder \in Surjection(1..Len(ProjectOrder), Projects)
    BY <1>1 DEF Surjection, Projects
  <1>3. Cardinality(Projects) <= Len(ProjectOrder)
    BY <1>1, <1>2, FS_SurjCardinalityBound DEF ExistsSurjection
  <1>4. IsFiniteSet(Projects)
    <2>1. IsFiniteSet(1..Len(ProjectOrder))
      BY <1>1, FS_Interval
    <2> QED
      BY <1>2, <2>1, FS_Surjection
  <1>5. IsFiniteSet(owners) /\ Cardinality(owners) <= Cardinality(Projects)
    BY <1>4, FS_Subset
  <1> QED
    BY <1>1, <1>3, <1>4, <1>5, FS_CardinalityType

(* What the assertions are whose tests are required, and who owns them.    *)
LEMMA RequiredTypes ==
    ASSUME canon \in [evidence : Versions, matrix : Versions]
    PROVE  /\ Required \subseteq Assertions
           /\ \A a \in Required : Owner[a] \in Projects
  BY CollectionAssumption DEF Required, Closure

(* A case and an exit code give an outcome, a pass only of a case that came *)
(* to what was expected, with an exit code of zero.                        *)
LEMMA JudgedFacts ==
    ASSUME NEW case \in Possible, NEW exit \in {0, 1}
    PROVE  /\ Judged(case, exit) \in Outcomes
           /\ Judged(case, exit) = "passed" => case = "expected" /\ exit = 0
  BY CollectionAssumption DEF Judged, Outcomes

(* Evidence passes when every demanded assertion passed with authority.    *)
LEMMA EvaluatedFacts ==
    ASSUME NEW outcomes, NEW bound \in BOOLEAN, NEW authoritative \in BOOLEAN
    PROVE  /\ Evaluated(outcomes, bound, authoritative) \in BOOLEAN
           /\ Evaluated(outcomes, bound, authoritative) =>
                \A a \in Closure(memory["evidence"], memory["matrix"]) :
                    authoritative /\ a \in DOMAIN outcomes /\ outcomes[a] = "passed"
  BY DEF Evaluated, Unmet

(* A look leaves all but what it has seen alone, and so does the repository. *)
LEMMA LookSteps ==
    ASSUME Look
    PROVE  /\ UNCHANGED <<gate, past, known, verdicts, memory, session>>
           /\ look \in 1..Len(Reads)
  BY DEF Look, ReadCommit, CompareManifest, LoadManifest, CheckLoaded, At, Proceed

(* Only the collector and left-over processes touch a session.             *)
LEMMA SessionSteps ==
    ASSUME [Next]_vars
    PROVE  Collect \/ Stray \/ UNCHANGED session
  BY LookSteps DEF Next, Gate, Loaded, Inspect, UseResults, InspectIdentity,
     MatchInventory, BindSymbols, WriteReport, PrintSummary, Exit, Fail, User,
     MoveClone, vars

(* A step of the collector is one of these.                                *)
LEMMA CollectorSteps ==
    ASSUME Collect
    PROVE  \/ ReadTree \/ LoadCanonical \/ CopyFile \/ MakePlan \/ LaunchChild
           \/ RunTests \/ ParseProject \/ Reparse \/ Seal
           \/ Begin \/ Refuse \/ ReadHead \/ CompareManifests \/ ChildVerify \/ ChildEnd
  BY DEF Collect, Collector

(* The session pins what the repository has.                               *)
LEMMA PinsStayTyped ==
    SessionTyped /\ RepositoryTyped /\ PinnedTyped
        /\ [Next]_vars => PinnedTyped'
  <1> SUFFICES ASSUME SessionTyped, RepositoryTyped, PinnedTyped, [Next]_vars
               PROVE  PinnedTyped'
    OBVIOUS
  <1>1. CASE Collect
    <2>1. CASE ReadTree
      BY <2>1 DEF ReadTree, findings, Active, Stages, Points, Following,
         SessionTyped, RepositoryTyped, PinnedTyped, Opening, Readying,
         Testing, Believed
    <2>2. CASE LoadCanonical
      BY <2>2 DEF LoadCanonical, findings, Active, Stages, Points, Following,
         SessionTyped, RepositoryTyped, PinnedTyped, Opening, Readying,
         Testing, Believed, Trees, Files
    <2>3. CASE CopyFile
      BY <2>3 DEF CopyFile, findings, Active, Stages, Points, Following,
         SessionTyped, RepositoryTyped, PinnedTyped, Opening, Readying,
         Testing, Believed
    <2>4. CASE MakePlan \/ LaunchChild \/ RunTests \/ ParseProject \/ Reparse \/ Seal
      BY <2>4 DEF MakePlan, LaunchChild, RunTests, ParseProject, Reparse, Seal, findings,
         Active, Stages, Points, Following, SessionTyped, RepositoryTyped,
         PinnedTyped, Opening, Readying, Testing, Believed
    <2>5. CASE Begin \/ Refuse \/ ReadHead \/ CompareManifests \/ ChildVerify
               \/ ChildEnd
      BY <2>5 DEF Begin, Refuse, ReadHead, CompareManifests, ChildVerify,
         ChildEnd, findings, Active, Stages, Points, Following, SessionTyped,
         RepositoryTyped, PinnedTyped, Opening, Readying, Testing, Believed
    <2> QED
      BY <1>1, <2>1, <2>2, <2>3, <2>4, <2>5, CollectorSteps
  <1>2. CASE Stray
    BY <1>2 DEF Stray, findings, Active, Stages, Points, Following,
       SessionTyped, RepositoryTyped, PinnedTyped, Opening, Readying, Testing,
       Believed
  <1>3. CASE UNCHANGED session
    BY <1>3 DEF session, findings, Active, Stages, Points, Following,
       SessionTyped, RepositoryTyped, PinnedTyped, Opening, Readying, Testing,
       Believed
  <1> QED
    BY <1>1, <1>2, <1>3, SessionSteps

(* A file is copied as the repository has it; a left-over process changes  *)
(* files of a copy that is complete.                                       *)
LEMMA CopyStaysSound ==
    SessionTyped /\ RepositoryTyped /\ CopySound /\ RanSound
        /\ [Next]_vars => CopySound'
  <1> SUFFICES ASSUME SessionTyped, RepositoryTyped, CopySound, RanSound,
                      [Next]_vars
               PROVE  CopySound'
    OBVIOUS
  <1>1. CASE Collect
    <2>1. CASE LoadCanonical
      BY <2>1 DEF LoadCanonical, findings, Active, Stages, Points, Following,
         SessionTyped, RepositoryTyped, CopySound, Opening, Readying, Testing,
         Believed, Files
    <2>2. CASE CopyFile
      <3>1. /\ stage = "copy" /\ DOMAIN copy \in SUBSET Files /\ DOMAIN copy # Files
            /\ stage' = IF DOMAIN copy' = Files THEN "inputs" ELSE "copy"
        BY <2>2 DEF CopyFile, SessionTyped, CopySound
      <3>2. PICK f \in Files : copy' = [g \in DOMAIN copy \cup {f} |-> work[g]]
        BY <2>2, <3>1, NextFile DEF CopyFile
      <3>3. copy' \in [DOMAIN copy' -> Versions]
        BY <3>1, <3>2 DEF RepositoryTyped, Trees
      <3> QED
        BY <3>1, <3>3 DEF CopySound, Opening, Readying, Testing, Believed
    <2>3. CASE ReadTree \/ MakePlan \/ LaunchChild \/ RunTests
               \/ ParseProject \/ Reparse \/ Seal
      BY <2>3 DEF ReadTree, MakePlan, LaunchChild, RunTests, ParseProject, Reparse, Seal,
         findings, Active, Stages, Points, Following, SessionTyped,
         RepositoryTyped, CopySound, Opening, Readying, Testing, Believed
    <2>4. CASE Begin \/ Refuse \/ ReadHead \/ CompareManifests \/ ChildVerify
               \/ ChildEnd
      BY <2>4 DEF Begin, Refuse, ReadHead, CompareManifests, ChildVerify,
         ChildEnd, findings, Active, Stages, Points, Following, SessionTyped,
         RepositoryTyped, CopySound, Opening, Readying, Testing, Believed
    <2> QED
      BY <1>1, <2>1, <2>2, <2>3, <2>4, CollectorSteps
  <1>2. CASE Stray
    BY <1>2 DEF Stray, findings, Active, Stages, Points, Following,
       SessionTyped, RepositoryTyped, CopySound, Opening, Readying, Testing,
       Believed, RanSound, Versions
  <1>3. CASE UNCHANGED session
    BY <1>3 DEF session, findings, Active, Stages, Points, Following,
       SessionTyped, RepositoryTyped, CopySound, Opening, Readying, Testing,
       Believed
  <1> QED
    BY <1>1, <1>2, <1>3, SessionSteps

(* What was run stays as it was, and the child claims of every project     *)
(* what it made of it; a left-over process can only alter what is left.    *)
LEMMA RanStaysSound ==
    SessionTyped /\ RepositoryTyped /\ PinnedTyped /\ CopySound /\ RanSound
        /\ [Next]_vars => RanSound'
  <1> SUFFICES ASSUME SessionTyped, RepositoryTyped, PinnedTyped, CopySound,
                      RanSound, [Next]_vars
               PROVE  RanSound'
    OBVIOUS
  <1>1. CASE Collect
    <2>1. CASE ReadTree
      BY <2>1 DEF ReadTree, findings, Active, Stages, Points, Following,
         SessionTyped, RepositoryTyped, RanSound, RanAs, ClaimedAs, LeftAs, Current,
         PinnedTyped,
         CopySound, Required, Faithful, Untouched, Bound, Opening, Readying,
         Testing, Believed
    <2>2. CASE LoadCanonical
      BY <2>2 DEF LoadCanonical, findings, Active, Stages, Points, Following,
         SessionTyped, RepositoryTyped, RanSound, RanAs, ClaimedAs, LeftAs, Current,
         PinnedTyped,
         CopySound, Required, Faithful, Untouched, Bound, Opening, Readying,
         Testing, Believed
    <2>3. CASE CopyFile
      BY <2>3 DEF CopyFile, findings, Active, Stages, Points, Following,
         SessionTyped, RepositoryTyped, RanSound, RanAs, ClaimedAs, LeftAs, Current,
         PinnedTyped,
         CopySound, Required, Faithful, Untouched, Bound, Opening, Readying,
         Testing, Believed
    <2>4. CASE MakePlan
      BY <2>4 DEF MakePlan, findings, Active, Stages, Points, Following,
         SessionTyped, RepositoryTyped, RanSound, RanAs, ClaimedAs, LeftAs, Current,
         PinnedTyped,
         CopySound, Required, Faithful, Untouched, Bound, Opening, Readying,
         Testing, Believed
    <2>5. CASE LaunchChild
      BY <2>5 DEF LaunchChild, findings, Active, Stages, Points, Following,
         SessionTyped, RepositoryTyped, RanSound, RanAs, ClaimedAs, LeftAs, Current,
         PinnedTyped,
         CopySound, Required, Faithful, Untouched, Bound, Opening, Readying,
         Testing, Believed
    <2>6. CASE RunTests
      <3>1. /\ stage = "projects" /\ stage' = "parse" /\ left > 0
            /\ UNCHANGED <<snap, canon, copy, childCode, left, claims, strays, spoiled>>
        BY <2>6 DEF RunTests
      <3>2. /\ Required' = Required /\ (Faithful <=> Faithful') /\ Current' = Current
            /\ copy \in Trees
            /\ \A a \in Required : a \in Assertions /\ Owner[a] \in Projects
        BY <3>1, RequiredTypes DEF Required, Faithful, Current, PinnedTyped,
           CopySound, Opening, Testing, Trees
      <3>3. PICK artifact \in Artifacts(Current), exit \in {0, 1} :
               /\ disk' = [disk EXCEPT ![Current] = artifact]
               /\ exits' = [exits EXCEPT ![Current] = exit]
               /\ ran' = Joined([a \in DOMAIN artifact |->
                           [files |-> Built, case |-> artifact[a], exit |-> exit]], ran)
        BY <2>6 DEF RunTests
      <3> DEFINE now == Owned(Current, Required)
      <3>4. artifact \in [now -> Possible]
        BY <3>3 DEF Artifacts
      <3>5. \A a \in now : a \in Required /\ Owner[a] = Current
        BY DEF Owned
      <3>6. /\ DOMAIN ran' = now \cup DOMAIN ran
            /\ \A a \in now :
                 ran'[a] = [files |-> copy, case |-> artifact[a], exit |-> exit]
            /\ \A a \in DOMAIN ran \ now : ran'[a] = ran[a]
        BY <3>3, <3>4 DEF Joined, Built
      <3>7. DOMAIN disk' = Projects /\ DOMAIN exits' = Projects
        BY <3>3 DEF RanSound
      <3>8. ASSUME NEW a \in now
            PROVE  RanAs(a)' /\ LeftAs(a)'
        <4>1. /\ a \in Required' /\ Owner[a] = Current /\ Current \in Projects
              /\ a \in DOMAIN ran' /\ ran'[a].files = copy
              /\ ran'[a].case = artifact[a] /\ ran'[a].exit = exit
          BY <3>2, <3>5, <3>6
        <4>2. exits'[Current'] = exit /\ disk'[Current'] = artifact
          BY <3>2, <3>3, <4>1 DEF RanSound
        <4>3. ran'[a].case \in Possible
          BY <3>4, <4>1
        <4>4. \A f \in Files : copy'[f] = snap'.files[f] => ran'[a].files[f] = snap'.files[f]
          BY <3>1, <4>1
        <4>5. RanAs(a)'
          BY <3>2, <3>3, <4>1, <4>3, <4>4 DEF RanAs
        <4>6. LeftAs(a)'
          BY <4>1, <4>2 DEF LeftAs
        <4> QED
          BY <4>5, <4>6
      <3>9. ASSUME NEW a \in DOMAIN ran \ now
            PROVE  RanAs(a)'
        BY <3>1, <3>2, <3>6 DEF RanSound, RanAs
      <3>10. ASSUME NEW a \in DOMAIN claims, Owner[a] # Current
             PROVE  ClaimedAs(a)'
        <4>1. ClaimedAs(a) /\ a \in DOMAIN ran \ now /\ Owner[a] \in Projects
          BY <3>1, <3>2, <3>5, <3>10 DEF RanSound, RanAs, SessionTyped
        <4>2. /\ exits'[Owner[a]] = exits[Owner[a]] /\ disk'[Owner[a]] = disk[Owner[a]]
              /\ ran'[a] = ran[a]
          BY <3>3, <3>6, <3>10, <4>1 DEF RanSound
        <4> QED
          BY <3>1, <3>2, <4>1, <4>2 DEF ClaimedAs
      <3>11. \A a \in Owned(Current', Required') : LeftAs(a)'
        BY <3>2, <3>8
      <3>12. \A a \in DOMAIN ran' : RanAs(a)'
        BY <3>6, <3>8, <3>9
      <3>13. /\ claims' \in [DOMAIN claims' -> Outcomes]
             /\ \A a \in DOMAIN claims' : Owner[a] = Current' \/ ClaimedAs(a)'
        BY <3>1, <3>2, <3>10 DEF RanSound
      <3> HIDE DEF now
      <3> QED
        BY <3>1, <3>7, <3>11, <3>12, <3>13 DEF RanSound, Opening, Readying
    <2>10. CASE ParseProject
      <3>1. /\ stage = "parse" /\ stage' \in {"projects", "childEnd"}
            /\ UNCHANGED <<snap, canon, copy, childCode, disk, ran, strays, spoiled>>
        BY <2>10 DEF ParseProject
      <3>2. /\ Required' = Required /\ (Faithful <=> Faithful')
            /\ \A a \in Required : a \in Assertions /\ Owner[a] \in Projects
        BY <3>1, RequiredTypes DEF Required, Faithful, PinnedTyped, Opening
      <3>3. PICK told \in {0, 1}, read \in Artifacts(Current) :
               /\ Faithful => told = exits[Current] /\ read = disk[Current]
               /\ exits' = [exits EXCEPT ![Current] = told]
               /\ claims' = Joined(Parse(read, told), claims)
        BY <2>10 DEF ParseProject
      <3> DEFINE now == Owned(Current, Required)
      <3>4. read \in [now -> Possible]
        BY <3>3 DEF Artifacts
      <3>5. \A a \in now : a \in Required /\ Owner[a] = Current
        BY DEF Owned
      <3>6. /\ DOMAIN claims' = now \cup DOMAIN claims
            /\ \A a \in now : claims'[a] = Judged(read[a], told)
            /\ \A a \in DOMAIN claims \ now : claims'[a] = claims[a]
        BY <3>3, <3>4 DEF Joined, Parse
      <3>7. /\ DOMAIN disk' = Projects /\ DOMAIN exits' = Projects
            /\ \A a \in DOMAIN ran' : RanAs(a)'
        BY <3>1, <3>2, <3>3 DEF RanSound, RanAs
      <3>8. claims' \in [DOMAIN claims' -> Outcomes]
        <4>1. \A a \in now : Judged(read[a], told) \in Outcomes
          BY <3>3, <3>4, JudgedFacts
        <4>2. \A a \in DOMAIN claims' : claims'[a] \in Outcomes
          BY <3>6, <4>1 DEF RanSound
        <4> QED
          BY <3>3, <4>2 DEF Joined
      <3>9. ASSUME NEW a \in now
            PROVE  ClaimedAs(a)'
        <4>1. /\ LeftAs(a) /\ RanAs(a) /\ Owner[a] = Current /\ Current \in Projects
          BY <3>1, <3>2, <3>5 DEF RanSound, LeftAs
        <4>2. exits'[Owner[a]] = told /\ claims'[a] = Judged(read[a], told)
          BY <3>3, <3>6, <4>1 DEF RanSound
        <4>3. Faithful => told = ran[a].exit /\ read[a] = disk[Current][a]
          BY <3>3, <4>1 DEF LeftAs
        <4>4. Judged(read[a], told) = "passed" => told = 0
          BY <3>3, <3>4, JudgedFacts
        <4>5. Faithful /\ Current \notin spoiled => claims'[a] = Judged(ran[a].case, ran[a].exit)
          BY <4>1, <4>2, <4>3 DEF LeftAs
        <4>6. Faithful /\ claims'[a] = "passed" => ran[a].exit = 0
          BY <4>2, <4>3, <4>4
        <4>7. strays = 0 => disk[Owner[a]][a] = ran[a].case
          BY <4>1 DEF LeftAs
        <4> QED
          BY <3>1, <3>2, <3>3, <4>1, <4>2, <4>5, <4>6, <4>7 DEF ClaimedAs
      <3>10. ASSUME NEW a \in DOMAIN claims \ now
             PROVE  ClaimedAs(a)'
        <4>1. a \in Required /\ Owner[a] # Current
          BY <3>1 DEF RanSound, RanAs, SessionTyped, Owned
        <4>2. ClaimedAs(a) /\ claims'[a] = claims[a] /\ exits'[Owner[a]] = exits[Owner[a]]
          BY <3>1, <3>2, <3>3, <3>6, <4>1 DEF RanSound
        <4> QED
          BY <3>1, <3>2, <4>2 DEF ClaimedAs
      <3>11. \A a \in DOMAIN claims' : ClaimedAs(a)'
        BY <3>6, <3>9, <3>10
      <3> HIDE DEF now
      <3> QED
        BY <3>1, <3>7, <3>8, <3>11 DEF RanSound, Opening, Readying
    <2>7. CASE Reparse
      <3>1. /\ stage = "reparse" /\ stage' = "parentAfter"
            /\ UNCHANGED <<snap, canon, copy, findings>>
        BY <2>7 DEF Reparse
      <3>2. /\ UNCHANGED <<childCode, disk, exits, claims, ran, strays, spoiled>>
            /\ Required' = Required /\ (Faithful <=> Faithful')
        BY <3>1 DEF findings, Required, Faithful
      <3>3. \A a \in DOMAIN ran : RanAs(a)'
        BY <3>1, <3>2 DEF RanSound, RanAs
      <3>4. \A a \in DOMAIN claims : ClaimedAs(a)'
        BY <3>1, <3>2 DEF RanSound, ClaimedAs
      <3> QED
        BY <3>1, <3>2, <3>3, <3>4 DEF RanSound, Opening, Readying
    <2>8. CASE Seal
      BY <2>8 DEF Seal, findings, Active, Stages, Points, Following,
         SessionTyped, RepositoryTyped, RanSound, RanAs, ClaimedAs, LeftAs, Current,
         PinnedTyped,
         CopySound, Required, Faithful, Untouched, Bound, Opening, Readying,
         Testing, Believed
    <2>9. CASE Begin \/ Refuse \/ ReadHead \/ CompareManifests \/ ChildVerify
               \/ ChildEnd
      BY <2>9 DEF Begin, Refuse, ReadHead, CompareManifests, ChildVerify,
         ChildEnd, findings, Active, Stages, Points, Following, SessionTyped,
         RepositoryTyped, RanSound, RanAs, ClaimedAs, LeftAs, Current, PinnedTyped,
         CopySound, Required,
         Faithful, Untouched, Bound, Opening, Readying, Testing, Believed
    <2> QED
      BY <1>1, <2>1, <2>2, <2>3, <2>4, <2>5, <2>6, <2>7, <2>8, <2>9,
         <2>10, CollectorSteps
  <1>2. CASE Stray
    <2>1. /\ stage' = stage /\ stage # "refused" /\ strays \in Nat /\ strays' = strays + 1
          /\ UNCHANGED <<snap, canon, childCode, left, exits, claims, ran>>
          /\ Required' = Required /\ (Faithful <=> Faithful') /\ Current' = Current
          /\ disk # [p \in Projects |-> None]
      BY <1>2 DEF Stray, Active, SessionTyped, Required, Faithful, Current
    <2>2. /\ DOMAIN disk' = Projects /\ spoiled \subseteq spoiled'
          /\ \A f \in Files : copy'[f] = snap.files[f] => copy[f] = snap.files[f]
          /\ stage = "parse" /\ Current \notin spoiled' => disk'[Current] = disk[Current]
      <3>1. CASE /\ UNCHANGED copy
                 /\ \E p \in Projects :
                      /\ \E artifact \in Artifacts(p) : disk' = [disk EXCEPT ![p] = artifact]
                      /\ spoiled' = IF stage = "parse" /\ p = Current
                                    THEN spoiled \cup {p} ELSE spoiled
        BY <3>1 DEF RanSound
      <3>2. CASE /\ \E f \in Files : copy[f] = snap.files[f] /\ copy' = [copy EXCEPT ![f] = 1 - @]
                 /\ UNCHANGED <<disk, spoiled>>
        <4>1. PICK f \in Files : copy[f] = snap.files[f] /\ copy' = [copy EXCEPT ![f] = 1 - @]
          BY <3>2
        <4>2. DOMAIN copy = Files /\ copy[f] \in {0, 1}
          BY <2>1 DEF SessionTyped, CopySound, Versions
        <4> QED
          BY <3>2, <4>1, <4>2 DEF RanSound
      <3> QED
        BY <1>2, <3>1, <3>2 DEF Stray
    <2>3. \A a \in DOMAIN ran' : RanAs(a)'
      BY <2>1, <2>2 DEF RanSound, RanAs
    <2>4. \A a \in DOMAIN claims : ClaimedAs(a) => ClaimedAs(a)'
      BY <2>1, <2>2 DEF ClaimedAs
    <2>5. stage = "parse" => \A a : LeftAs(a) => LeftAs(a)'
      BY <2>1, <2>2 DEF LeftAs
    <2>6. \A a \in DOMAIN claims' : (stage' = "parse" /\ Owner[a] = Current') \/ ClaimedAs(a)'
      BY <2>1, <2>4 DEF RanSound
    <2>7. stage' = "parse" =>
             left' > 0 /\ \A a \in Owned(Current', Required') : LeftAs(a)'
      BY <2>1, <2>5 DEF RanSound
    <2> QED
      BY <2>1, <2>2, <2>3, <2>6, <2>7 DEF RanSound
  <1>3. CASE UNCHANGED session
    BY <1>3 DEF session, findings, Active, Stages, Points, Following,
       SessionTyped, RepositoryTyped, RanSound, RanAs, ClaimedAs, LeftAs, Current, PinnedTyped, CopySound,
       Required, Faithful, Untouched, Bound, Opening, Readying, Testing,
       Believed
  <1> QED
    BY <1>1, <1>2, <1>3, SessionSteps

(* The parent believes a child that says of every artifact what it says    *)
(* itself.                                                                 *)
LEMMA BeliefStaysSound ==
    SessionTyped /\ RepositoryTyped /\ PinnedTyped /\ RanSound
        /\ BelievedSound /\ [Next]_vars => BelievedSound'
  <1> SUFFICES ASSUME SessionTyped, RepositoryTyped, PinnedTyped, RanSound,
                      BelievedSound, [Next]_vars
               PROVE  BelievedSound'
    OBVIOUS
  <1>1. CASE Collect
    <2>1. CASE ReadTree
      BY <2>1 DEF ReadTree, findings, Active, Stages, Points, Following,
         SessionTyped, RepositoryTyped, BelievedSound, Required, Faithful,
         Untouched, Bound, Opening, Readying, Testing, Believed
    <2>2. CASE LoadCanonical
      BY <2>2 DEF LoadCanonical, findings, Active, Stages, Points, Following,
         SessionTyped, RepositoryTyped, BelievedSound, Required, Faithful,
         Untouched, Bound, Opening, Readying, Testing, Believed
    <2>3. CASE RunTests \/ ParseProject
      BY <2>3 DEF RunTests, ParseProject, findings, Active, Stages, Points, Following,
         SessionTyped, RepositoryTyped, BelievedSound, Required, Faithful,
         Untouched, Bound, Opening, Readying, Testing, Believed
    <2>4. CASE Reparse
      <3>1. /\ stage = "reparse" /\ UNCHANGED <<snap, canon, copy, findings>>
            /\ Untouched /\ Bound(copy) /\ DOMAIN claims = Required
        BY <2>4 DEF Reparse, InputsHold
      <3>2. Bound(snap.files)
        BY <3>1 DEF Untouched
      <3>3. ASSUME strays = 0, NEW a \in Required
            PROVE  \E exit \in {0, 1} : claims[a] = Judged(ran[a].case, exit)
        <4>1. ClaimedAs(a)
          BY <3>1 DEF RanSound, SessionTyped
        <4>2. a \in Owned(Owner[a], Required) /\ Owner[a] \in {Owner[b] : b \in Required}
          BY DEF Owned
        <4> DEFINE read == Parse(disk[Owner[a]], exits[Owner[a]])
        <4>3. DOMAIN read = Owned(Owner[a], Required) /\ read[a] = claims[a]
          BY <2>4, <4>2 DEF Reparse
        <4>4. read[a] = Judged(disk[Owner[a]][a], exits[Owner[a]])
          BY <4>2, <4>3 DEF Parse
        <4> QED
          BY <3>3, <4>1, <4>3, <4>4 DEF ClaimedAs
      <3> QED
        BY <3>1, <3>2, <3>3 DEF BelievedSound, Required, Bound, findings
    <2>5. CASE Seal
      BY <2>5 DEF Seal, findings, Active, Stages, Points, Following,
         SessionTyped, RepositoryTyped, BelievedSound, Required, Faithful,
         Untouched, Bound, Opening, Readying, Testing, Believed
    <2>6. CASE CopyFile \/ MakePlan \/ LaunchChild
      BY <2>6 DEF CopyFile, MakePlan, LaunchChild, findings, Active, Stages,
         Points, Following, SessionTyped, RepositoryTyped, BelievedSound,
         Required, Faithful, Untouched, Bound, Opening, Readying, Testing,
         Believed
    <2>7. CASE Begin \/ Refuse \/ ReadHead \/ CompareManifests \/ ChildVerify
               \/ ChildEnd
      BY <2>7 DEF Begin, Refuse, ReadHead, CompareManifests, ChildVerify,
         ChildEnd, findings, Active, Stages, Points, Following, SessionTyped,
         RepositoryTyped, BelievedSound, Required, Faithful, Untouched, Bound,
         Opening, Readying, Testing, Believed
    <2> QED
      BY <1>1, <2>1, <2>2, <2>3, <2>4, <2>5, <2>6, <2>7, CollectorSteps
  <1>2. CASE Stray
    BY <1>2 DEF Stray, findings, Active, Stages, Points, Following,
       SessionTyped, RepositoryTyped, BelievedSound, Required, Faithful,
       Untouched, Bound, Opening, Readying, Testing, Believed
  <1>3. CASE UNCHANGED session
    BY <1>3 DEF session, findings, Active, Stages, Points, Following,
       SessionTyped, RepositoryTyped, BelievedSound, Required, Faithful,
       Untouched, Bound, Opening, Readying, Testing, Believed
  <1> QED
    BY <1>1, <1>2, <1>3, SessionSteps

(* A session seals what the tests said of the snapshot it has copied.      *)
LEMMA SealStays ==
    SessionTyped /\ RepositoryTyped /\ PinnedTyped /\ CopySound /\ RanSound
        /\ BelievedSound /\ SealFacts /\ [Next]_vars => SealFacts'
  <1> SUFFICES ASSUME SessionTyped, RepositoryTyped, PinnedTyped, CopySound,
                      RanSound, BelievedSound, SealFacts, [Next]_vars
               PROVE  SealFacts'
    OBVIOUS
  <1>1. CASE Collect
    <2>1. CASE ReadTree
      BY <2>1 DEF ReadTree, findings, Active, Stages, Points, Following,
         SealFacts, Untouched
    <2>2. CASE Seal
      <3>1. /\ stage = "closing" /\ stage' = "sealed" /\ copy = snap.files
            /\ UNCHANGED <<snap, canon, copy, claims>>
            /\ sealed' = [tree |-> snap, evidence |-> canon.evidence,
                          outcomes |-> claims, tests |-> BoundTests[canon.evidence]]
        BY <2>2 DEF Seal, Untouched, findings
      <3>2. /\ snap \in [head : Nat, files : Trees]
            /\ canon \in [evidence : Versions, matrix : Versions]
        BY <3>1 DEF PinnedTyped, Opening
      <3>3. claims \in [DOMAIN claims -> Outcomes] /\ DOMAIN claims \in SUBSET Assertions
        BY <3>1, <3>2, RequiredTypes DEF RanSound, BelievedSound, Believed
      <3>4. sealed' # None
        <4>1. claims \in UNION {[as -> Outcomes] : as \in SUBSET Assertions}
          BY <3>3
        <4>2. BoundTests[canon.evidence] \in Versions
          BY <3>2, CollectionAssumption
        <4>3. sealed' \in Sealings
          BY <3>1, <3>2, <4>1, <4>2 DEF Sealings
        <4> QED
          BY <4>3, CollectionAssumption
      <3> QED
        BY <3>1, <3>4 DEF SealFacts
    <2>3. CASE LoadCanonical \/ CopyFile \/ MakePlan \/ LaunchChild
               \/ RunTests \/ ParseProject \/ Reparse
      BY <2>3 DEF LoadCanonical, CopyFile, MakePlan, LaunchChild, RunTests, ParseProject,
         Reparse, findings, Active, Stages, Points, Following, SealFacts,
         Untouched
    <2>4. CASE Begin \/ Refuse \/ ReadHead \/ CompareManifests \/ ChildVerify
               \/ ChildEnd
      BY <2>4 DEF Begin, Refuse, ReadHead, CompareManifests, ChildVerify,
         ChildEnd, findings, Active, Stages, Points, Following, SealFacts,
         Untouched
    <2> QED
      BY <1>1, <2>1, <2>2, <2>3, <2>4, CollectorSteps
  <1>2. CASE Stray
    BY <1>2 DEF Stray, findings, Active, Stages, Points, Following, SealFacts,
       Untouched
  <1>3. CASE UNCHANGED session
    BY <1>3 DEF session, findings, Active, Stages, Points, Following,
       SealFacts, Untouched
  <1> QED
    BY <1>1, <1>2, <1>3, SessionSteps

(* The user commits and checks out trees of the repository.                *)
LEMMA RepositoryStaysTyped ==
    RepositoryTyped /\ [Next]_vars => RepositoryTyped'
  <1> SUFFICES ASSUME RepositoryTyped, [Next]_vars
               PROVE  RepositoryTyped'
    OBVIOUS
  <1> USE CollectionAssumption
  <1>1. CASE \E f \in Files : Edit(f)
    <2>1. PICK f \in Files : Edit(f)
      BY <1>1
    <2>2. work' \in Trees
      BY <2>1 DEF Edit, RepositoryTyped, Trees, Versions
    <2> QED
      BY <2>1, <2>2 DEF Edit, RepositoryTyped
  <1>2. CASE Commit
    <2>1. trees' = Append(trees, work) /\ head' = Len(trees') /\ work' = work
      BY <1>2 DEF Commit
    <2>2. trees' \in Seq(Trees) /\ head' \in DOMAIN trees' /\ work' \in Trees
      BY <2>1 DEF RepositoryTyped
    <2>3. moves' \in 0..MaxMoves
      BY <1>2 DEF Commit, RepositoryTyped
    <2> QED
      BY <2>2, <2>3 DEF RepositoryTyped
  <1>3. CASE Checkout
    BY <1>3 DEF Checkout, RepositoryTyped
  <1>4. CASE MoveClone
    BY <1>4 DEF MoveClone, RepositoryTyped
  <1>5. CASE UNCHANGED repository
    BY <1>5 DEF repository, RepositoryTyped
  <1> QED
    BY <1>1, <1>2, <1>3, <1>4, <1>5 DEF Next, User, vars

(* Commits are never taken away or altered.                                *)
LEMMA TreesGrow ==
    ASSUME RepositoryTyped, [Next]_vars
    PROVE  /\ DOMAIN trees \subseteq DOMAIN trees'
           /\ \A c \in DOMAIN trees : trees'[c] = trees[c]
  <1>1. CASE Commit
    BY <1>1 DEF Commit, RepositoryTyped
  <1>2. CASE UNCHANGED trees
    BY <1>2
  <1> QED
    BY <1>1, <1>2 DEF Next, User, Edit, Checkout, MoveClone, repository, vars

(* A session keeps its types, and its commits stay in the repository.      *)
LEMMA SessionStaysTyped ==
    SessionTyped /\ RepositoryTyped /\ PinnedTyped /\ CopySound /\ RanSound
        /\ [Next]_vars => SessionTyped'
  <1> SUFFICES ASSUME SessionTyped, RepositoryTyped, PinnedTyped, CopySound,
                      RanSound, [Next]_vars
               PROVE  SessionTyped'
    OBVIOUS
  <1>0. DOMAIN trees \subseteq DOMAIN trees'
    BY TreesGrow
  <1>1. CASE Collect
    <2>1. CASE ReadTree
      BY <2>1, <1>0 DEF ReadTree, findings, Active, Stages, Points, Following,
         SessionTyped
    <2>2. CASE LoadCanonical
      BY <2>2, <1>0 DEF LoadCanonical, findings, Active, Stages, Points,
         Following, SessionTyped
    <2>3. CASE CopyFile
      <3>1. /\ DOMAIN copy \in SUBSET Files /\ DOMAIN copy # Files
            /\ stage' \in {"inputs", "copy"}
            /\ UNCHANGED <<noted, disk, left, claims, ran, strays, spoiled>>
            /\ disk = [p \in Projects |-> None] /\ stage \notin Points
        BY <2>3 DEF CopyFile, findings, SessionTyped, CopySound, RanSound, Points
      <3>2. PICK f \in Files : copy' = [g \in DOMAIN copy \cup {f} |-> work[g]]
        BY <2>3, <3>1, NextFile DEF CopyFile
      <3> QED
        BY <1>0, <3>1, <3>2 DEF SessionTyped, Stages
    <2>4. CASE MakePlan
      <3>1. {Owner[a] : a \in Required} \subseteq Projects
        BY <2>4, RequiredTypes DEF MakePlan, PinnedTyped, Opening
      <3>2. left' \in 0..Len(ProjectOrder)
        BY <2>4, <3>1, ProjectsToTest DEF MakePlan
      <3> QED
        BY <2>4, <1>0, <3>2 DEF MakePlan, SessionTyped, Stages, Points
    <2>5. CASE LaunchChild
      BY <2>5, <1>0 DEF LaunchChild, findings, Active, Stages, Points,
         Following, SessionTyped
    <2>6. CASE RunTests
      <3>1. /\ stage = "projects" /\ stage' = "parse"
            /\ UNCHANGED <<noted, copy, left, claims, strays, spoiled>>
        BY <2>6 DEF RunTests
      <3>2. PICK artifact \in Artifacts(Current), exit \in {0, 1} :
               ran' = Joined([a \in DOMAIN artifact |->
                         [files |-> Built, case |-> artifact[a], exit |-> exit]], ran)
        BY <2>6 DEF RunTests
      <3>3. DOMAIN ran \subseteq DOMAIN ran'
        BY <3>2 DEF Joined
      <3>4. DOMAIN copy = Files
        BY <3>1 DEF CopySound, Testing
      <3> QED
        BY <1>0, <3>1, <3>3, <3>4 DEF SessionTyped, Stages, Points
    <2>10. CASE ParseProject
      <3>1. /\ stage = "parse" /\ stage' \in {"projects", "childEnd"}
            /\ left > 0 /\ left' = left - 1
            /\ UNCHANGED <<noted, copy, disk, ran, strays, spoiled>>
        BY <2>10 DEF ParseProject, RanSound
      <3>2. PICK told \in {0, 1}, read \in Artifacts(Current) :
               claims' = Joined(Parse(read, told), claims)
        BY <2>10 DEF ParseProject
      <3>3. DOMAIN claims' = Owned(Current, Required) \cup DOMAIN claims
        BY <3>2 DEF Joined, Parse, Artifacts
      <3>4. Owned(Current, Required) \subseteq DOMAIN ran
        BY <3>1 DEF RanSound, LeftAs
      <3>5. DOMAIN claims' \subseteq DOMAIN ran'
        BY <3>1, <3>3, <3>4 DEF SessionTyped
      <3>6. left' \in 0..Len(ProjectOrder)
        BY <3>1, CollectionAssumption DEF SessionTyped
      <3> QED
        BY <1>0, <3>1, <3>5, <3>6 DEF SessionTyped, Stages, Points
    <2>7. CASE Reparse
      BY <2>7, <1>0 DEF Reparse, findings, Active, Stages, Points, Following,
         SessionTyped
    <2>8. CASE Seal
      BY <2>8, <1>0 DEF Seal, findings, Active, Stages, Points, Following,
         SessionTyped
    <2>9. CASE Begin \/ Refuse \/ ReadHead \/ CompareManifests \/ ChildVerify
               \/ ChildEnd
      BY <2>9, <1>0 DEF Begin, Refuse, ReadHead, CompareManifests,
         ChildVerify, ChildEnd, findings, Active, Stages, Points, Following,
         SessionTyped, RepositoryTyped
    <2> QED
      BY <1>1, <2>1, <2>2, <2>3, <2>4, <2>5, <2>6, <2>7, <2>8, <2>9,
         <2>10, CollectorSteps
  <1>2. CASE Stray
    <2>1. DOMAIN copy = Files /\ DOMAIN copy' = DOMAIN copy
      <3>1. stage \notin Opening \cup {"copy"} \cup Readying /\ stage # "refused"
        BY <1>2 DEF Stray, Active, RanSound
      <3> QED
        BY <1>2, <3>1 DEF Stray, CopySound, SessionTyped, Stages, Points, Opening,
           Readying, Testing, Believed
    <2>2. strays' \in 0..MaxStrays
      BY <1>2, CollectionAssumption DEF Stray, SessionTyped
    <2> QED
      BY <1>2, <1>0, <2>1, <2>2 DEF Stray, SessionTyped
  <1>3. CASE UNCHANGED session
    BY <1>3, <1>0 DEF session, findings, Active, Stages, Points, Following,
       SessionTyped
  <1> QED
    BY <1>1, <1>2, <1>3, SessionSteps

(* The ten reads of a look.                                                *)
LEMMA ReadSteps ==
    ASSUME Look
    PROVE  /\ look \in 1..10 /\ (found' => look' = look + 1) /\ (~found' => look' = 11)
           /\ found' \in BOOLEAN
           /\ look \in {1, 6, 8} => tip' = head
           /\ look \notin {1, 6, 8} => tip' = tip
           /\ look \in {2, 9} /\ found' => work["matrix"] = trees[tip]["matrix"]
           /\ look \in {3, 10} /\ found' => work["evidence"] = trees[tip]["evidence"]
           /\ look = 4 => loaded' = [loaded EXCEPT !["matrix"] = work["matrix"]]
           /\ look = 5 => loaded' = [loaded EXCEPT !["evidence"] = work["evidence"]]
           /\ look \notin {4, 5} => loaded' = loaded
           /\ look = 7 /\ found' => /\ work["tests"] = trees[tip]["tests"]
                                   /\ work["tests"] = BoundTests[loaded["evidence"]]
  <1>1. Len(Reads) = 10 /\ Looked = 11
    BY DEF Reads, Looked
  <1>2. ASSUME NEW reads, At(reads)
        PROVE  look \in 1..10 /\ Reads[look] \in reads
    BY <1>1, <1>2 DEF At
  <1>0. /\ Reads[1] = "head" /\ Reads[2] = "matrixClean" /\ Reads[3] = "evidenceClean"
        /\ Reads[4] = "matrix" /\ Reads[5] = "evidence" /\ Reads[6] = "tree"
        /\ Reads[7] = "tests" /\ Reads[8] = "tip" /\ Reads[9] = "matrixStill"
        /\ Reads[10] = "evidenceStill"
    BY DEF Reads
  <1>3. CASE ReadCommit
    <2>0. look \in 1..10 /\ Reads[look] \in {"head", "tree", "tip"}
      BY <1>2, <1>3 DEF ReadCommit
    <2>00. \/ look = 1 \/ look = 2 \/ look = 3 \/ look = 4 \/ look = 5
           \/ look = 6 \/ look = 7 \/ look = 8 \/ look = 9 \/ look = 10
      BY <2>0
    <2>1. look \in {1, 6, 8} /\ tip' = head /\ Proceed(TRUE) /\ UNCHANGED loaded
      <3>1. look \in {1, 6, 8}
        BY <1>0, <2>0, <2>00
      <3> QED
        BY <1>3, <3>1 DEF ReadCommit
    <2> QED
      BY <1>1, <2>1 DEF Proceed
  <1>4. CASE CompareManifest
    <2>1. \/ look \in {2, 9} /\ Proceed(work["matrix"] = trees[tip]["matrix"])
          \/ look \in {3, 10} /\ Proceed(work["evidence"] = trees[tip]["evidence"])
      BY <1>2, <1>4 DEF CompareManifest, Reads
    <2>2. UNCHANGED <<tip, loaded>>
      BY <1>4 DEF CompareManifest
    <2>3. CASE look \in {2, 9} /\ Proceed(work["matrix"] = trees[tip]["matrix"])
      <3>1. PICK ok \in BOOLEAN : Proceed(ok) /\ (ok => work["matrix"] = trees[tip]["matrix"])
        BY <2>3
      <3> QED
        BY <1>1, <2>2, <2>3, <3>1 DEF Proceed
    <2>4. CASE look \in {3, 10} /\ Proceed(work["evidence"] = trees[tip]["evidence"])
      <3>1. PICK ok \in BOOLEAN : Proceed(ok) /\ (ok => work["evidence"] = trees[tip]["evidence"])
        BY <2>4
      <3> QED
        BY <1>1, <2>2, <2>4, <3>1 DEF Proceed
    <2> QED
      BY <2>1, <2>3, <2>4
  <1>5. CASE LoadManifest
    <2>0. PICK f \in Manifests :
             At({f}) /\ loaded' = [loaded EXCEPT ![f] = work[f]] /\ Proceed(TRUE) /\ UNCHANGED tip
      BY <1>5 DEF LoadManifest
    <2>1. /\ \/ look = 4 /\ loaded' = [loaded EXCEPT !["matrix"] = work["matrix"]]
             \/ look = 5 /\ loaded' = [loaded EXCEPT !["evidence"] = work["evidence"]]
          /\ Proceed(TRUE) /\ UNCHANGED tip
      <3>1. look \in 1..10 /\ Reads[look] = f
        BY <1>2, <2>0
      <3> QED
        <4>1. (f = "matrix" /\ look = 4) \/ (f = "evidence" /\ look = 5)
          BY <1>0, <3>1 DEF Manifests
        <4>2. /\ f = "matrix" => loaded' = [loaded EXCEPT !["matrix"] = work["matrix"]]
              /\ f = "evidence" => loaded' = [loaded EXCEPT !["evidence"] = work["evidence"]]
          BY <2>0
        <4> QED
          BY <2>0, <4>1, <4>2
    <2> QED
      BY <1>1, <2>1 DEF Proceed
  <1>6. CASE CheckLoaded
    <2>1. PICK ok \in BOOLEAN :
             /\ ok => /\ work["tests"] = trees[tip]["tests"]
                      /\ work["tests"] = BoundTests[loaded["evidence"]]
             /\ Proceed(ok) /\ UNCHANGED <<tip, loaded>>
      BY <1>6 DEF CheckLoaded
    <2>2. look = 7
      BY <1>2, <1>6 DEF CheckLoaded, Reads
    <2> QED
      BY <1>1, <2>1, <2>2 DEF Proceed
  <1> QED
    BY <1>3, <1>4, <1>5, <1>6 DEF Look

(* A session runs only while the gate waits for it.                        *)
LEMMA GateStaysTyped ==
    GateTyped /\ RepositoryTyped /\ [Next]_vars => GateTyped'
  <1> SUFFICES ASSUME GateTyped, RepositoryTyped, [Next]_vars
               PROVE  GateTyped'
    OBVIOUS
  <1>1. DOMAIN trees \subseteq DOMAIN trees' /\ Looked = 11 /\ FirstOfLoad = 4
    BY TreesGrow DEF Looked, Reads, FirstOfLoad
  <1>2. CASE Collect /\ UNCHANGED clone
    BY <1>1, <1>2 DEF Collect, gateVars, looking, known, verdicts, GateTyped
  <1>3. CASE Stray /\ UNCHANGED <<gateVars, clone>>
    BY <1>1, <1>3 DEF Stray, gateVars, looking, known, verdicts, GateTyped, Active
  <1>4. CASE /\ UNCHANGED <<session, gate, look, tip, loaded, found, known, verdicts>>
             /\ clone' \in BOOLEAN
    BY <1>1, <1>4 DEF session, known, verdicts, GateTyped, Active
  <1>5. CASE Look /\ UNCHANGED <<repository, clone>>
    <2>1. /\ UNCHANGED <<gate, known, verdicts, session, clone, trees>>
          /\ look' \in 0..11 /\ found' \in BOOLEAN /\ tip' \in {tip, head}
      BY <1>5, LookSteps, ReadSteps DEF repository
    <2>2. loaded' \in [Manifests -> Versions \cup {None}]
      <3>1. work["matrix"] \in Versions /\ work["evidence"] \in Versions
        BY DEF RepositoryTyped, Trees, Files
      <3> QED
        BY <1>5, <3>1, ReadSteps DEF GateTyped, Manifests
    <2> QED
      BY <1>1, <2>1, <2>2 DEF GateTyped, session, known, verdicts, Active, RepositoryTyped
  <1>6. CASE /\ Loaded \/ Inspect \/ UseResults \/ InspectIdentity \/ MatchInventory \/ Fail
             /\ UNCHANGED clone
    <2>1. Unread \in [Manifests -> Versions \cup {None}]
      BY DEF Unread
    <2>2. CASE Loaded \/ Fail
      <3>1. NotLooking /\ gate' \in {"inspect", "done"} /\ UNCHANGED <<session, clone, mode, pin>>
            /\ ~Active
        BY <1>6, <2>2 DEF Loaded, Fail, known, GateTyped
      <3>2. ~Active'
        BY <3>1 DEF Active, session
      <3>3. receipt' \in BOOLEAN /\ clone' \in BOOLEAN /\ pin' \in BOOLEAN
        BY <2>2, <3>1 DEF Loaded, Fail, known, GateTyped
      <3>4. report' \in Verdicts /\ printed' \in Verdicts /\ code' \in {None, 0, 2, 5}
        BY <2>2 DEF Loaded, Fail, verdicts, GateTyped
      <3>5. look' = 0 /\ found' \in BOOLEAN /\ tip' = None
        BY <3>1 DEF NotLooking
      <3>6. loaded' \in [Manifests -> Versions \cup {None}]
        BY <2>1, <3>1 DEF NotLooking
      <3> QED
        BY <1>1, <3>1, <3>2, <3>3, <3>4, <3>5, <3>6 DEF GateTyped
    <2>3. CASE Inspect \/ UseResults \/ InspectIdentity \/ MatchInventory
      BY <1>1, <1>6, <2>3 DEF Inspect, UseResults, InspectIdentity, MatchInventory,
         looking, session, known, verdicts, GateTyped, Active
    <2> QED
      BY <1>6, <2>2, <2>3
  <1>7. CASE /\ BindSymbols \/ WriteReport \/ PrintSummary \/ Exit
             /\ UNCHANGED clone
    <2>1. /\ look' \in 0..11 /\ found' \in BOOLEAN /\ tip' = None /\ loaded' = Unread
          /\ gate' \in {"write", "print", "exit", "done"}
          /\ gate \in {"symbols", "write", "print", "exit"}
          /\ UNCHANGED session /\ receipt' \in BOOLEAN /\ pin' \in BOOLEAN
      <3>1. ASSUME NEW g \in {"write", "print", "exit"}, BeginLook(g)
            PROVE  /\ look' \in 0..11 /\ found' \in BOOLEAN /\ tip' = None /\ loaded' = Unread
                   /\ gate' = g
        BY <1>1, <3>1 DEF BeginLook, GateTyped
      <3>2. CASE BindSymbols \/ WriteReport \/ PrintSummary
        BY <1>7, <3>1, <3>2 DEF BindSymbols, WriteReport, PrintSummary, known, GateTyped
      <3>3. CASE Exit
        BY <1>7, <3>3 DEF Exit, NotLooking, known, GateTyped
      <3> QED
        BY <1>7, <3>2, <3>3
    <2>2. report' \in Verdicts /\ printed' \in Verdicts /\ code' \in {None, 0, 2, 5}
      BY <1>7 DEF BindSymbols, WriteReport, PrintSummary, Exit, Passed, Verdicts,
         verdicts, GateTyped
    <2>3. loaded' \in [Manifests -> Versions \cup {None}]
      BY <2>1 DEF Unread
    <2> QED
      BY <1>1, <1>7, <2>1, <2>2, <2>3 DEF GateTyped, session, Active
  <1> QED
    BY <1>2, <1>3, <1>4, <1>5, <1>6, <1>7 DEF Next, Gate, MoveClone, vars, GateTyped,
       gateVars, looking

(* Evidence is evaluated after the session, which does not move any more.  *)
LEMMA ExecutionStaysSound ==
    GateTyped /\ SealFacts /\ ExecutionSound /\ [Next]_vars => ExecutionSound'
  <1> SUFFICES ASSUME GateTyped, SealFacts, ExecutionSound, [Next]_vars
               PROVE  ExecutionSound'
    OBVIOUS
  <1>1. CASE Collect
    BY <1>1 DEF Collect, gateVars, ExecutionSound, GateTyped
  <1>2. CASE Stray /\ UNCHANGED <<memory, gateVars>>
    BY <1>2 DEF Stray, gateVars, known, GateTyped, ExecutionSound
  <1>3. CASE UNCHANGED <<memory, session, gate, execution>>
    BY <1>3 DEF session, ExecutionSound, Closure
  <1>4. CASE UseResults
    <2>1. CASE mode = "collect"
      <3>1. /\ stage = "sealed" /\ sealed.evidence = memory["evidence"]
            /\ execution' = Evaluated(sealed.outcomes,
                               sealed.tests = BoundTests[memory["evidence"]], TRUE)
            /\ UNCHANGED <<memory, sealed>>
        BY <1>4, <2>1 DEF UseResults, session
      <3> QED
        BY <3>1, EvaluatedFacts DEF SealFacts, ExecutionSound, Closure
    <2>2. CASE mode # "collect"
      <3>1. UNCHANGED memory
               /\ \E outcomes : execution' = Evaluated(outcomes, TRUE, FALSE)
        BY <1>4, <2>2 DEF UseResults
      <3> QED
        BY <3>1, EvaluatedFacts DEF ExecutionSound, Closure
    <2> QED
      BY <2>1, <2>2
  <1>5. CASE Loaded \/ Inspect \/ Fail
    BY <1>5 DEF Loaded, Inspect, Fail, ExecutionSound
  <1>6. CASE \/ InspectIdentity \/ MatchInventory \/ BindSymbols
             \/ WriteReport \/ PrintSummary \/ Exit
    <2>1. /\ UNCHANGED <<memory, execution, session>>
          /\ gate \in {"identity", "inventory", "symbols", "write", "print", "exit"}
      BY <1>6 DEF InspectIdentity, MatchInventory, BindSymbols, WriteReport,
         PrintSummary, Exit, known
    <2> QED
      BY <2>1 DEF ExecutionSound, Closure, session
  <1>7. Look => UNCHANGED <<memory, session, gate, execution>>
    BY LookSteps DEF known
  <1> QED
    BY <1>1, <1>2, <1>3, <1>4, <1>5, <1>6, <1>7 DEF Next, Gate, vars, gateVars, known

(* What there is to see has its type.                                      *)
LEMMA NowTyped ==
    RepositoryTyped => Now \in Sights
  BY DEF RepositoryTyped, Trees, Files, Manifests, Now, Sights

(* A look for a verdict begins with what there is to see.                  *)
LEMMA LookBegins ==
    ASSUME RepositoryTyped, NEW g \in Judging, BeginLook(g), UNCHANGED <<repository, memory>>
    PROVE  PastSound' /\ LookSound'
  <1>1. /\ gate' = g /\ past' = <<Now>> /\ Now' = Now /\ Looked = 11
        /\ found' \in BOOLEAN
        /\ found' => look' = 1 /\ memory["matrix"] \notin Undecided
        /\ ~found' => look' = 11
    <2>1. Now' = Now
      BY DEF Now, repository
    <2>2. PICK worth \in BOOLEAN :
             /\ worth => memory["matrix"] \notin Undecided
             /\ look' = (IF worth THEN 1 ELSE Looked) /\ found' = worth
             /\ gate' = g /\ past' = <<Now>>
      BY DEF BeginLook
    <2>3. Looked = 11
      BY DEF Looked, Reads
    <2> QED
      BY <2>1, <2>2, <2>3
  <1>2. past' \in Seq(Sights) /\ past' # << >> /\ past'[Len(past')] = Now' /\ 1 \in DOMAIN past'
    BY <1>1, NowTyped
  <1>3. PastSound'
    BY <1>2 DEF PastSound
  <1>4. ASSUME found', NEW f \in Manifests
        PROVE  Chained(f)'
    <2>1. Chain(f, 1, 1, 1, 1, 1)'
      BY <1>1, <1>4 DEF Chain, CleanAt, LoadAt, StillAt
    <2> QED
      BY <1>2, <2>1 DEF Chained
  <1>5. ASSUME found'
        PROVE  TestsChained'
    <2>1. TestsChain(1, 1)'
      BY <1>1, <1>5 DEF TestsChain
    <2> QED
      BY <1>2, <2>1 DEF TestsChained
  <1>6. LookSound'
    BY <1>1, <1>4, <1>5 DEF LookSound
  <1> QED
    BY <1>3, <1>6

(* A read of a look sees what is there to see now.                         *)
LEMMA LookGoesOn ==
    ASSUME RepositoryTyped, GateTyped, PastSound, LookSound, Look,
           UNCHANGED repository, gate \in Judging
    PROVE  LookSound'
  <1>1. /\ UNCHANGED <<gate, past, memory, trees, head, work>> /\ look' \in 1..11
        /\ (~found' => look' = 11)
    BY LookSteps, ReadSteps DEF repository
  <1>2. found
    BY ReadSteps DEF LookSound
  <1> DEFINE n == Len(past)
  <1>3. n \in DOMAIN past /\ DOMAIN past = 1..n /\ n \in Nat
    BY DEF PastSound
  <1>4. \A f \in Manifests \cup {"tests"} :
           past[n].disk[f] = work[f] /\ past[n].commit[f] = trees[head][f]
    BY DEF PastSound, Now
  <1> HIDE DEF n
  <1>5. found' /\ look' > 1 => tip' \in DOMAIN trees'
    BY <1>1, <1>2, ReadSteps DEF LookSound, RepositoryTyped
  <1>6. ASSUME found', NEW f \in Manifests
        PROVE  Chained(f)'
    <2>1. PICK h, c, l, t, s \in DOMAIN past : Chain(f, h, c, l, t, s)
      BY <1>2 DEF LookSound, Chained
    <2>2. /\ h \in Nat /\ c \in Nat /\ l \in Nat /\ t \in Nat /\ s \in Nat
          /\ h <= n /\ c <= n /\ l <= n /\ t <= n /\ s <= n
          /\ look \in 1..10 /\ look' = look + 1
      BY <1>3, <1>6, ReadSteps
    <2>3. /\ h <= c /\ c <= l /\ l <= t /\ t <= s
          /\ look > 1 /\ look <= 6 => past[h].commit[f] = trees[tip][f]
          /\ look > CleanAt(f) => past[h].commit[f] = past[c].disk[f]
          /\ look > LoadAt(f) => past[l].disk[f] = loaded[f]
          /\ look > 8 => past[t].commit[f] = trees[tip][f]
          /\ look > StillAt(f) => past[t].commit[f] = past[s].disk[f]
      BY <2>1 DEF Chain
    <2>4. /\ look \in {1, 6, 8} => tip' = head
          /\ look \notin {1, 6, 8} => tip' = tip
          /\ look \in {CleanAt(f), StillAt(f)} => work[f] = trees[tip][f]
          /\ loaded'[f] = IF look = LoadAt(f) THEN work[f] ELSE loaded[f]
      BY <1>6, ReadSteps DEF CleanAt, LoadAt, StillAt, Manifests, GateTyped
    <2>5. /\ CleanAt(f) \in {2, 3} /\ LoadAt(f) \in {4, 5} /\ StillAt(f) \in {9, 10}
      BY DEF CleanAt, LoadAt, StillAt
    <2>6. past[n].disk[f] = work[f] /\ past[n].commit[f] = trees[head][f]
      BY <1>4
    <2>7. PICK hh \in DOMAIN past : hh = IF look <= 1 THEN n ELSE h
      BY <1>3
    <2>8. PICK cc \in DOMAIN past : cc = IF look <= CleanAt(f) THEN n ELSE c
      BY <1>3
    <2>9. PICK ll \in DOMAIN past : ll = IF look <= LoadAt(f) THEN n ELSE l
      BY <1>3
    <2>10. PICK tt \in DOMAIN past : tt = IF look <= 8 THEN n ELSE t
      BY <1>3
    <2>11. PICK ss \in DOMAIN past : ss = IF look <= StillAt(f) THEN n ELSE s
      BY <1>3
    <2>12. hh <= cc /\ cc <= ll /\ ll <= tt /\ tt <= ss
      BY <2>2, <2>3, <2>5, <2>7, <2>8, <2>9, <2>10, <2>11, <1>3
    <2>13. look' > 1 /\ look' <= 6 => past[hh].commit[f] = trees[tip'][f]
      BY <2>2, <2>3, <2>4, <2>6, <2>7
    <2>14. look' > CleanAt(f) => past[hh].commit[f] = past[cc].disk[f]
      BY <2>2, <2>3, <2>4, <2>5, <2>6, <2>7, <2>8
    <2>15. look' > LoadAt(f) => past[ll].disk[f] = loaded'[f]
      BY <2>2, <2>3, <2>4, <2>5, <2>6, <2>9
    <2>16. look' > 8 => past[tt].commit[f] = trees[tip'][f]
      BY <2>2, <2>3, <2>4, <2>6, <2>10
    <2>17. look' > StillAt(f) => past[tt].commit[f] = past[ss].disk[f]
      BY <2>2, <2>3, <2>4, <2>5, <2>6, <2>10, <2>11
    <2>18. Chain(f, hh, cc, ll, tt, ss)'
      BY <1>1, <2>12, <2>13, <2>14, <2>15, <2>16, <2>17 DEF Chain, CleanAt, LoadAt, StillAt
    <2> QED
      BY <1>1, <2>18 DEF Chained
  <1>7. ASSUME found'
        PROVE  TestsChained'
    <2>1. PICK h, c \in DOMAIN past : TestsChain(h, c)
      BY <1>2 DEF LookSound, TestsChained
    <2>2. /\ h \in Nat /\ c \in Nat /\ h <= n /\ c <= n
          /\ look \in 1..10 /\ look' = look + 1
      BY <1>3, <1>7, ReadSteps
    <2>3. /\ look = 6 => tip' = head
          /\ look = 7 => /\ work["tests"] = trees[tip]["tests"]
                         /\ work["tests"] = BoundTests[loaded["evidence"]]
          /\ look >= 6 => loaded'["evidence"] = loaded["evidence"]
      BY <1>7, <2>2, ReadSteps
    <2>4. past[n].disk["tests"] = work["tests"] /\ past[n].commit["tests"] = trees[head]["tests"]
      BY <1>4
    <2>5. PICK hh \in DOMAIN past : hh = IF look <= 6 THEN n ELSE h
      BY <1>3
    <2>6. PICK cc \in DOMAIN past : cc = IF look <= 7 THEN n ELSE c
      BY <1>3
    <2>7. hh <= cc
      BY <1>3, <2>1, <2>2, <2>5, <2>6 DEF TestsChain
    <2>8. look' = 7 => past[hh].commit["tests"] = trees[tip']["tests"]
      BY <2>2, <2>3, <2>4, <2>5
    <2>9. look' > 7 => /\ past[hh].commit["tests"] = past[cc].disk["tests"]
                       /\ past[cc].disk["tests"] = BoundTests[loaded'["evidence"]]
      <3>1. CASE look = 7
        BY <2>1, <2>3, <2>4, <2>5, <2>6, <3>1 DEF TestsChain
      <3>2. CASE look > 7
        BY <2>1, <2>2, <2>3, <2>5, <2>6, <3>2 DEF TestsChain
      <3> QED
        BY <2>2, <3>1, <3>2
    <2>10. TestsChain(hh, cc)'
      BY <1>1, <2>7, <2>8, <2>9 DEF TestsChain
    <2> QED
      BY <1>1, <2>10 DEF TestsChained
  <1> QED
    BY <1>1, <1>2, <1>5, <1>6, <1>7 DEF LookSound

(* What the user does is seen later than what has been seen.               *)
LEMMA PastGrows ==
    ASSUME RepositoryTyped, RepositoryTyped', PastSound, Watch, gate' = gate, gate \in Judging
    PROVE  /\ PastSound' /\ DOMAIN past \subseteq DOMAIN past'
           /\ \A i \in DOMAIN past : past'[i] = past[i]
  <1>1. past \in Seq(Sights) /\ past # << >> /\ Now' \in Sights
    BY DEF PastSound, RepositoryTyped, Trees, Files, Manifests, Now, Sights
  <1> QED
    BY <1>1 DEF Watch, PastSound

(* The look of a verdict remains sound.                                    *)
LEMMA LookStaysSound ==
    RepositoryTyped /\ RepositoryTyped' /\ GateTyped /\ PastSound /\ LookSound /\ [Next]_vars
        => PastSound' /\ LookSound'
  <1> SUFFICES ASSUME RepositoryTyped, RepositoryTyped', GateTyped, PastSound, LookSound,
                      [Next]_vars
               PROVE  PastSound' /\ LookSound'
    OBVIOUS
  <1>1. CASE Look /\ UNCHANGED repository
    <2>1. UNCHANGED <<gate, past, Now>>
      BY <1>1, LookSteps DEF Now, repository
    <2> QED
      BY <1>1, <2>1, LookGoesOn DEF PastSound, LookSound
  <1>2. CASE (BindSymbols \/ WriteReport \/ PrintSummary) /\ UNCHANGED repository
    <2>1. PICK g \in Judging : BeginLook(g)
      BY <1>2 DEF BindSymbols, WriteReport, PrintSummary, Judging
    <2>2. UNCHANGED memory
      BY <1>2 DEF BindSymbols, WriteReport, PrintSummary
    <2> QED
      BY <1>2, <2>1, <2>2, LookBegins
  <1>3. CASE \/ Loaded \/ Inspect \/ UseResults \/ InspectIdentity \/ MatchInventory
             \/ Exit \/ Fail
    <2>1. gate' \notin Judging
      BY <1>3 DEF Loaded, Inspect, UseResults, InspectIdentity, MatchInventory,
         Exit, Fail, Judging
    <2> QED
      BY <2>1 DEF PastSound, LookSound
  <1>4. CASE UNCHANGED <<memory, gate, looking, trees, head, work>>
    <2>1. UNCHANGED <<memory, gate, look, tip, loaded, found, past, trees, Now>>
      BY <1>4 DEF looking, Now
    <2> QED
      BY <2>1 DEF PastSound, LookSound, Chained, Chain, TestsChained, TestsChain
  <1>5. CASE User /\ Watch /\ UNCHANGED <<memory, gate, look, tip, loaded, found>>
    <2>1. CASE gate \notin Judging
      BY <1>5, <2>1 DEF PastSound, LookSound
    <2>2. CASE gate \in Judging
      <3>1. /\ PastSound' /\ DOMAIN past \subseteq DOMAIN past'
            /\ \A i \in DOMAIN past : past'[i] = past[i]
        BY <1>5, <2>2, PastGrows
      <3>2. /\ DOMAIN trees \subseteq DOMAIN trees'
            /\ \A i \in DOMAIN trees : trees'[i] = trees[i]
        BY TreesGrow
      <3>3. look > 1 /\ found => tip \in DOMAIN trees
        BY <2>2 DEF LookSound
      <3>4. ASSUME found, NEW f \in Manifests
            PROVE  Chained(f)'
        <4>1. PICK h, c, l, t, s \in DOMAIN past : Chain(f, h, c, l, t, s)
          BY <2>2, <3>4 DEF LookSound, Chained
        <4>2. /\ past'[h] = past[h] /\ past'[c] = past[c] /\ past'[l] = past[l]
              /\ past'[t] = past[t] /\ past'[s] = past[s]
          BY <3>1
        <4>3. /\ look > 1 => trees'[tip] = trees[tip]
              /\ look > 8 => look > 1
          BY <3>2, <3>3, <3>4, <2>2 DEF LookSound
        <4>4. Chain(f, h, c, l, t, s)'
          BY <1>5, <4>1, <4>2, <4>3 DEF Chain, CleanAt, LoadAt, StillAt
        <4> QED
          BY <3>1, <4>4 DEF Chained
      <3>5. ASSUME found
            PROVE  TestsChained'
        <4>1. PICK h, c \in DOMAIN past : TestsChain(h, c)
          BY <2>2, <3>5 DEF LookSound, TestsChained
        <4>2. past'[h] = past[h] /\ past'[c] = past[c]
          BY <3>1
        <4>3. look = 7 => trees'[tip] = trees[tip]
          BY <3>2, <3>3, <3>5, <2>2 DEF LookSound
        <4>4. TestsChain(h, c)'
          BY <1>5, <4>1, <4>2, <4>3 DEF TestsChain
        <4> QED
          BY <3>1, <4>4 DEF TestsChained
      <3> QED
        BY <1>5, <2>2, <3>1, <3>2, <3>3, <3>4, <3>5 DEF LookSound
    <2> QED
      BY <2>1, <2>2
  <1> QED
    <2>1. ASSUME Collect, UNCHANGED repository
          PROVE  UNCHANGED <<memory, gate, looking, trees, head, work>>
      BY <2>1 DEF Collect, gateVars, repository
    <2>2. ASSUME Stray, UNCHANGED <<repository, memory, gateVars>>
          PROVE  UNCHANGED <<memory, gate, looking, trees, head, work>>
      BY <2>2 DEF gateVars, repository
    <2>3. ASSUME MoveClone, UNCHANGED <<memory, session, gateVars>>
          PROVE  UNCHANGED <<memory, gate, looking, trees, head, work>>
      BY <2>3 DEF MoveClone, gateVars
    <2>4. ASSUME UNCHANGED vars
          PROVE  UNCHANGED <<memory, gate, looking, trees, head, work>>
      BY <2>4 DEF vars, gateVars, repository
    <2> QED
      BY <1>1, <1>2, <1>3, <1>4, <1>5, <2>1, <2>2, <2>3, <2>4 DEF Next, Gate

(* It all holds when the gate is started.                                  *)
LEMMA InitSound ==
    Init => IInv
  <1> SUFFICES ASSUME Init
               PROVE  IInv
    OBVIOUS
  <1>1. RepositoryTyped
    <2>1. [f \in Files |-> 0] \in Trees
      BY DEF Trees, Versions
    <2> QED
      BY <2>1, CollectionAssumption DEF Init, RepositoryInit, RepositoryTyped
  <1>2. DOMAIN << >> = {} /\ Len(ProjectOrder) \in Nat
    BY CollectionAssumption
  <1>3. SessionTyped
    BY <1>2, CollectionAssumption
       DEF Init, SessionInit, SessionTyped, Stages, Points
  <1>4. GateTyped
    <2>1. Looked = 11 /\ FirstOfLoad = 4 /\ Unread \in [Manifests -> Versions \cup {None}]
      BY DEF Looked, FirstOfLoad, Reads, Unread
    <2>2. loaded \in [Manifests -> Versions \cup {None}] /\ ~Active
      BY <2>1 DEF Init, SessionInit, Active
    <2>3. report \in Verdicts /\ printed \in Verdicts /\ code \in {None, 0, 2, 5}
      BY DEF Init, Verdicts
    <2>4. /\ look = 4 /\ tip = None /\ found \in BOOLEAN /\ receipt \in BOOLEAN
          /\ clone \in BOOLEAN /\ pin \in BOOLEAN /\ gate = "load"
      BY <2>1 DEF Init
    <2> QED
      BY <2>1, <2>2, <2>3, <2>4 DEF GateTyped
  <1>5. PinnedTyped
    BY DEF Init, SessionInit, PinnedTyped, Opening
  <1>6. CopySound
    <2>1. << >> \in [DOMAIN << >> -> Versions]
      OBVIOUS
    <2> QED
      BY <1>2, <2>1
         DEF Init, SessionInit, CopySound, Opening, Readying, Testing, Believed
  <1>7. RanSound
    <2>1. << >> \in [DOMAIN << >> -> Outcomes]
      OBVIOUS
    <2> QED
      BY <1>2, <2>1 DEF Init, SessionInit, RanSound
  <1>8. BelievedSound /\ SealFacts /\ ExecutionSound /\ PastSound /\ LookSound
    BY DEF Init, SessionInit, BelievedSound, Believed, SealFacts, ExecutionSound,
       PastSound, LookSound, Judging
  <1> QED
    BY <1>1, <1>3, <1>4, <1>5, <1>6, <1>7, <1>8 DEF IInv, TypeOK

(* Every step of the gate, the collector, the user and left-over processes *)
(* keeps it.                                                               *)
LEMMA StepSound ==
    IInv /\ [Next]_vars => IInv'
  <1> SUFFICES ASSUME IInv, [Next]_vars
               PROVE  IInv'
    OBVIOUS
  <1>1. TypeOK'
    BY RepositoryStaysTyped, SessionStaysTyped, GateStaysTyped DEF IInv, TypeOK
  <1>2. PinnedTyped' /\ CopySound' /\ RanSound'
    BY PinsStayTyped, CopyStaysSound, RanStaysSound DEF IInv, TypeOK
  <1>3. BelievedSound' /\ SealFacts' /\ ExecutionSound'
    BY BeliefStaysSound, SealStays, ExecutionStaysSound DEF IInv, TypeOK
  <1>4. PastSound' /\ LookSound'
    BY <1>1, LookStaysSound DEF IInv, TypeOK
  <1> QED
    BY <1>1, <1>2, <1>3, <1>4 DEF IInv

(* The invariant holds throughout.                                         *)
LEMMA AlwaysSound ==
    Spec => []IInv
  BY InitSound, StepSound, PTL DEF Spec

(* What is sealed ran on the snapshot.                                     *)
LEMMA SealedRan ==
    IInv => SealedRanOnOneTree
  <1> SUFFICES ASSUME IInv, sealed # None
               PROVE  /\ DOMAIN sealed.outcomes
                           = Closure(sealed.tree.files["evidence"],
                                     sealed.tree.files["matrix"])
                      /\ \A a \in DOMAIN sealed.outcomes :
                           a \in DOMAIN ran /\ ran[a].files = sealed.tree.files
    BY DEF SealedRanOnOneTree
  <1>1. /\ stage = "sealed" /\ copy = snap.files
        /\ sealed.tree = snap /\ sealed.outcomes = claims
    BY DEF IInv, SealFacts
  <1>2. Bound(snap.files) /\ DOMAIN claims = Required /\ DOMAIN claims \subseteq DOMAIN ran
    BY <1>1 DEF IInv, BelievedSound, Believed, TypeOK, SessionTyped
  <1>3. snap.files \in Trees
    BY <1>1 DEF IInv, PinnedTyped
  <1>4. ASSUME NEW a \in DOMAIN ran
        PROVE  ran[a].files = snap.files
    <2>1. /\ ran[a].files \in Trees
          /\ \A f \in Files : ran[a].files[f] = snap.files[f]
      BY <1>1 DEF IInv, RanSound, RanAs
    <2> QED
      BY <1>3, <2>1 DEF Trees
  <1> QED
    BY <1>1, <1>2, <1>4 DEF Bound, Required

(* The sealed outcomes are those of the tests.                             *)
LEMMA SealedTruly ==
    IInv => SealedAsRun
  <1> SUFFICES ASSUME IInv, sealed # None, NEW a \in DOMAIN sealed.outcomes
               PROVE  /\ Faithful /\ Owner[a] \notin spoiled =>
                            sealed.outcomes[a] = Judged(ran[a].case, ran[a].exit)
                      /\ Faithful /\ sealed.outcomes[a] = "passed" => ran[a].exit = 0
                      /\ strays = 0 => \E exit \in {0, 1} :
                            sealed.outcomes[a] = Judged(ran[a].case, exit)
    BY DEF SealedAsRun
  <1>1. stage = "sealed" /\ sealed.outcomes = claims /\ a \in DOMAIN claims
    BY DEF IInv, SealFacts
  <1>2. ClaimedAs(a)
    BY <1>1 DEF IInv, RanSound
  <1>3. strays = 0 => \E exit \in {0, 1} : claims[a] = Judged(ran[a].case, exit)
    BY <1>1 DEF IInv, BelievedSound, Believed
  <1> QED
    BY <1>1, <1>2, <1>3 DEF ClaimedAs

(* Every variable keeps its type, and everything a sealed result speaks    *)
(* of, and nothing else, was executed on exactly the files of the commit   *)
(* it names, whatever the user commits, edits and checks out meanwhile     *)
(* (collect_trusted_evidence).                                             *)
THEOREM SealsAreOfOneTree ==
    Spec => []SealedSound
  <1>1. IInv => SealedSound
    BY SealedRan DEF IInv, SealedSound
  <1> QED
    BY <1>1, AlwaysSound, PTL

(* The sealed outcomes are those the tests had, whatever left-over         *)
(* processes write and however the user switches versions of the collector *)
(* (_run_project, _reparse_child_result).                                  *)
THEOREM SealsAreTrue ==
    Spec => []SealedAsRun
  BY SealedTruly, AlwaysSound, PTL

(* A verdict is given that says the gate passes.                           *)
GivesPass ==
    \/ report' = TRUE /\ report # TRUE
    \/ printed' = TRUE /\ printed # TRUE
    \/ code' = 0 /\ code # 0

(* A complete look that finds nothing wrong has seen what it must.         *)
LEMMA LookHasSeen ==
    ASSUME PastSound, LookSound, gate \in Judging, look = 11, found, loaded = memory
    PROVE  /\ memory["matrix"] \notin Undecided /\ TestsSeen
           /\ \A f \in Manifests : SeenInCommit(f)
  <1>1. DOMAIN past = 1..Len(past) /\ Len(past) \in Nat
    BY DEF PastSound
  <1>2. TestsSeen
    <2>1. PICK h, c \in DOMAIN past : TestsChain(h, c)
      BY DEF LookSound, TestsChained
    <2> QED
      BY <2>1 DEF TestsChain, TestsSeen
  <1>3. ASSUME NEW f \in Manifests
        PROVE  SeenInCommit(f)
    <2>1. PICK h, c, l, t, s \in DOMAIN past : Chain(f, h, c, l, t, s)
      BY DEF LookSound, Chained
    <2>2. /\ h <= c /\ c <= l /\ l <= t /\ t <= s
          /\ past[h].commit[f] = past[c].disk[f] /\ past[l].disk[f] = memory[f]
          /\ past[t].commit[f] = past[s].disk[f]
      BY <2>1 DEF Chain, CleanAt, LoadAt, StillAt
    <2>3. ASSUME Len(past) <= 2
          PROVE  past[l].commit[f] = memory[f]
      <3>1. /\ h \in {1, 2} /\ c \in {1, 2} /\ l \in {1, 2} /\ t \in {1, 2} /\ s \in {1, 2}
        BY <1>1, <2>3
      <3>2. l = 1 => h = l /\ c = l
        BY <2>2, <3>1
      <3>3. l = 2 => t = l /\ s = l
        BY <2>2, <3>1
      <3> QED
        BY <2>2, <3>1, <3>2, <3>3
    <2> QED
      BY <2>2, <2>3 DEF SeenInCommit
  <1> QED
    BY <1>2, <1>3 DEF LookSound

(* The gate passes - in its report, on the console and by its exit code -  *)
(* only what it has seen again, in the repository and in its commit, since *)
(* the look for that verdict began, and what has been run and has passed,  *)
(* however often the user moves between any two of its reads               *)
(* (CompatibilityReport.passed, exact_registry_coverage).                  *)
THEOREM PassesAreEarned ==
    Spec => PassIsEarned
  <1>1. ASSUME IInv, Next, GivesPass
        PROVE  Passed /\ gate \in Judging /\ look = 11
    <2>0. Looked = 11
      BY DEF Looked, Reads
    <2>1. CASE report' = TRUE /\ report # TRUE
      <3>1. WriteReport
        BY <1>1, <2>1, LookSteps DEF Next, Gate, Loaded, Inspect, Collect, UseResults,
           InspectIdentity, MatchInventory, BindSymbols, PrintSummary, Exit,
           Fail, gateVars, verdicts, Stray
      <3>2. TRUE = Passed
        BY <2>1, <3>1 DEF WriteReport
      <3> QED
        BY <2>0, <3>1, <3>2 DEF WriteReport, Judging
    <2>2. CASE printed' = TRUE /\ printed # TRUE
      <3>1. PrintSummary
        BY <1>1, <2>2, LookSteps DEF Next, Gate, Loaded, Inspect, Collect, UseResults,
           InspectIdentity, MatchInventory, BindSymbols, WriteReport, Exit,
           Fail, gateVars, verdicts, Stray
      <3>2. TRUE = Passed
        BY <2>2, <3>1 DEF PrintSummary
      <3> QED
        BY <2>0, <3>1, <3>2 DEF PrintSummary, Judging
    <2>3. CASE code' = 0 /\ code # 0
      <3>1. Exit \/ code' = code \/ code' = 2
        BY <1>1, LookSteps DEF Next, Gate, Loaded, Inspect, Collect, UseResults,
           InspectIdentity, MatchInventory, BindSymbols, WriteReport, PrintSummary,
           Fail, gateVars, verdicts, Stray
      <3>2. Exit
        BY <2>3, <3>1
      <3> QED
        BY <2>0, <2>3, <3>2 DEF Exit, Judging
    <2> QED
      BY <1>1, <2>1, <2>2, <2>3 DEF GivesPass
  <1>2. ASSUME IInv, Passed, gate \in Judging, look = 11
        PROVE  Earned
    <2>1. found /\ loaded = memory /\ execution = TRUE /\ pin
      BY <1>2 DEF Passed, IInv, ExecutionSound, Judging
    <2>2. /\ memory["matrix"] \notin Undecided /\ TestsSeen
          /\ \A f \in Manifests : SeenInCommit(f)
      BY <1>2, <2>1, LookHasSeen DEF IInv
    <2>3. ASSUME NEW a \in Closure(memory["evidence"], memory["matrix"])
          PROVE  PassedOnOneTree(a)
      <3>1. /\ sealed # None /\ sealed.evidence = memory["evidence"]
            /\ a \in DOMAIN sealed.outcomes /\ sealed.outcomes[a] = "passed"
        BY <1>2, <2>1, <2>3 DEF IInv, ExecutionSound, Judging
      <3>2. a \in DOMAIN ran /\ ran[a].files = sealed.tree.files
        BY <1>2, <3>1, SealedRan DEF SealedRanOnOneTree
      <3>3. /\ Faithful /\ Owner[a] \notin spoiled =>
                 sealed.outcomes[a] = Judged(ran[a].case, ran[a].exit)
            /\ Faithful /\ sealed.outcomes[a] = "passed" => ran[a].exit = 0
            /\ strays = 0 => \E exit \in {0, 1} :
                  sealed.outcomes[a] = Judged(ran[a].case, exit)
        BY <1>2, <3>1, SealedTruly DEF SealedAsRun
      <3>4. stage = "sealed" /\ sealed.tree = snap /\ sealed.evidence = canon.evidence
        BY <1>2, <3>1 DEF IInv, SealFacts
      <3>5. ran[a].case \in Possible /\ ran[a].exit \in {0, 1}
        BY <1>2, <3>2, <3>4 DEF IInv, RanSound, RanAs
      <3>6. /\ (Faithful /\ Owner[a] \notin spoiled) \/ strays = 0 => ran[a].case = "expected"
            /\ Faithful => ran[a].exit = 0
        BY <3>1, <3>3, <3>5, JudgedFacts
      <3>7. sealed.tree.files["evidence"] = memory["evidence"]
        BY <1>2, <3>1, <3>4 DEF IInv, BelievedSound, Believed, Bound
      <3> QED
        BY <3>1, <3>2, <3>6, <3>7 DEF PassedOnOneTree
    <2> QED
      BY <2>1, <2>2, <2>3 DEF Earned
  <1>3. IInv /\ [Next]_vars => [GivesPass => Earned]_vars
    BY <1>1, <1>2
  <1> QED
    BY <1>3, AlwaysSound, PTL DEF Spec, PassIsEarned, GivesPass

(***************************************************************************)
(* The reference pipeline.  A behaviour of the pipeline is long, and what   *)
(* can go wrong in it depends on where in a program an edit falls.  The     *)
(* invariant therefore says of every step that was executed what is known   *)
(* since: of a load, which later comparisons its version met; of an         *)
(* observation, which facts were compared after it; of a write, whether     *)
(* the oracle is whole.  P is the program that runs, so that the facts      *)
(* about one step of a program can be proved of any sequence of steps.      *)
(***************************************************************************)
Script == Program(Running)
Slots == {"primary", "relocated"}

\* What the types of the variables come to, as far as the proofs need them.
PipelineIsTyped ==
  /\ asked \in Plans
  /\ todo \in Seq(Range(asked.purposes)) /\ purpose \in Range(asked.purposes) \cup {"none"}
  /\ phase \in {"idle", "generating", "clearing", "copying"}
  /\ phase = "generating" => at \in 1..Len(Order) /\ pc \in 1..Len(Script) + 1
  /\ file \in VersionsOf(Subject) /\ edits \in Nat /\ (edits = 0 => file = "pinned")
  /\ calm \in BOOLEAN
  /\ seen = [slot \in Slots |-> seen[slot]]
  /\ output = Directory(output.files, output.manifest)
  /\ output.files = [item \in Items |-> output.files[item]]
  /\ baseline = Directory(baseline.files, baseline.manifest)
  /\ baseline.files = [item \in Items |-> baseline.files[item]]

\* A version a process has met: with no edit it is what the file says, and
\* with one it is what the file says or what was reviewed.
Known(version) == (edits <= 1 => version \in {"pinned", file}) /\ (calm => version = file)

\* What step i loaded met every comparison that was made of it since.
LoadedAt(P, i, version) ==
  /\ P[i].op \in Loading
  /\ edits <= 1 /\ version # "pinned" =>
       \A j \in i + 1..pc - 1 :
         P[j].op = "expect" /\ P[j].place = "root" => version \in P[j].versions
  /\ \A j \in i + 1..pc - 1 :
       P[j].op = "held" /\ Without(P, {"use", "glance"}, i + 1, j - 1) =>
         version \in P[j].versions
  /\ Without(P, {"use", "glance"}, i + 1, pc - 1) => version \in held
  /\ P[i].place = "copy" /\ Without(P, {"copy"}, i, pc - 1) => version = copied
  /\ P[i].place = "copy" =>
       \A j \in 1..pc - 1 :
         P[j].op = "expect" /\ P[j].place = "copy"
             /\ Without(P, {"copy"}, i, j) /\ Without(P, {"copy"}, j, i) =>
           version \in P[j].versions

\* The loads.
VersionsAreKnown(P) ==
  /\ \A version \in used \cup held : Known(version)
  /\ (\E k \in 1..pc - 1 : P[k].op = "copy") => Known(copied)
EveryUseWasLoaded(P) == \A version \in used : \E i \in 1..pc - 1 : LoadedAt(P, i, version)
CalmLoads(P) ==
  calm => \A i \in 1..pc - 1 :
            P[i].op \in Loading /\ P[i].place = "root" => LoadedAt(P, i, file)
CalmFiles(P) ==
  calm => \A j \in 1..pc - 1 :
            P[j].op = "expect" /\ P[j].place = "root" => file \in P[j].versions
CopyIsCompared(P) ==
  \A j \in 1..pc - 1 :
    P[j].op = "expect" /\ P[j].place = "copy" /\ Without(P, {"copy"}, j, pc - 1) =>
      copied \in P[j].versions

\* The observations.
Replacing == {"use", "use too", "glance"}
HeldIsCompared(P) ==
  \A j \in 1..pc - 1 :
    P[j].op = "held" /\ Without(P, Replacing, j + 1, pc - 1) => held \subseteq P[j].versions
ObservedAt(P, i, behaviour) ==
  /\ P[i].op = "observe" /\ P[i].slot = "primary"
  /\ \A j \in i + 1..pc - 1 : P[j].op = "facts" => behaviour \in P[j].behaviours
  /\ \A j \in 1..i - 1 :
       P[j].op = "held" /\ Without(P, Replacing, j + 1, i - 1) =>
         behaviour = "pinned" \/ \E version \in P[j].versions : behaviour = Behaviour(version)
RelocatedAt(P, i, behaviour) ==
  /\ P[i].op = "observe" /\ P[i].slot = "relocated"
  /\ \A j \in i + 1..pc - 1 : P[j].op = "alike" => behaviour \in seen["primary"]
EveryFactWasObserved(P) ==
  /\ \A b \in seen["primary"] : \E i \in 1..pc - 1 : ObservedAt(P, i, b)
  /\ \A b \in seen["relocated"] : \E i \in 1..pc - 1 : RelocatedAt(P, i, b)
CalmFacts == calm => seen["primary"] \subseteq {"pinned", Behaviour(file)}

\* The oracle.
IsFilledSo(P) == \E j \in 1..pc - 1 : P[j].op = "fill" /\ Without(P, {"tear"}, j + 1, pc - 1)
CannotDiffer(generator) ==
  calm /\ (Behaviour(file) = "pinned" \/ (Subject # generator /\ IsSilent(Program(generator))))
IsWritten(generator) ==
  /\ output.files[generator] \in {"reviewed", "other"}
  /\ CannotDiffer(generator) => output.files[generator] = "reviewed"
OracleIsWritten(P) ==
  /\ IsFilledSo(P) => IsWritten(Running)
  /\ Running = "reference" /\ (\E j \in 1..pc - 1 : P[j].op = "fill") =>
       output.manifest = Listing(output.files)
DifferenceIsSeen(P) ==
  IsFilledSo(P) /\ Subject # Running /\ seen["primary"] \subseteq {"pinned"} =>
    output.files[Running] = "reviewed"
FixturesWereReviewed(P) ==
  \A j \in 1..pc - 1 :
    P[j].op = "fixture" /\ P[j].of \in Items => baseline.files[P[j].of] = "reviewed"

History(P) ==
  /\ VersionsAreKnown(P) /\ EveryUseWasLoaded(P) /\ CalmLoads(P) /\ CalmFiles(P)
  /\ CopyIsCompared(P) /\ HeldIsCompared(P) /\ EveryFactWasObserved(P) /\ CalmFacts
  /\ OracleIsWritten(P) /\ DifferenceIsSeen(P) /\ FixturesWereReviewed(P)
GeneratorInv == phase = "generating" => \A P \in {Script} : History(P)

\* What a generator that has finished leaves behind.
IsPinnedByFacts(generator) ==
  Subject \in Installed /\ <<generator, Subject>> \notin UnpinnedFacts
IsDone(generator) ==
  /\ IsWritten(generator)
  /\ IsPinnedByFacts(generator) => output.files[generator] = "reviewed"
  /\ \A other \in FixturesOf(generator) : baseline.files[other] = "reviewed"
  /\ calm => ~Refuses(Program(generator), file)
CommandInv ==
  /\ phase # "idle" /\ calm /\ Subject \in Guarded \ Installed => file = "pinned"
  /\ phase = "generating" => \A i \in 1..at - 1 : IsDone(Order[i])

\* An update.
OutputHoldsTogether ==
  /\ \A item \in Items : output.files[item] \notin {"absent", "torn"}
  /\ "reference" \in Items => output.manifest = Listing(output.files)
  /\ calm => \A item \in Items : \A other \in FixturesOf(item) :
               output.files[other] = "reviewed" \/ LeftBehind(item, other)
UpdateInv ==
  /\ phase \in {"clearing", "copying"} => purpose = "update" /\ OutputHoldsTogether
  /\ phase = "copying" =>
       /\ \A item \in Items :
            baseline.files[item] \in {"absent", "torn", output.files[item]}
       /\ "reference" \in Items /\ baseline.files["reference"] \notin {"absent", "torn"} =>
            baseline.manifest = output.manifest

PipelineInv ==
  PipelineIsTyped /\ GeneratorInv /\ CommandInv /\ UpdateInv /\ BaselineHoldsTogether

(***************************************************************************)
(* What one executed step of the program P does.                            *)
(***************************************************************************)
Advances(P) ==
  /\ phase = "generating" /\ phase' = "generating"
  /\ pc \in 1..Len(P) /\ pc' = pc + 1
  /\ UNCHANGED <<asked, file, edits, todo, purpose, calm, at, baseline>>
  /\ used' = IF P[pc].op \in Loading THEN used \cup {VersionAt(P[pc].place)} ELSE used
  /\ held' = IF P[pc].op = "use" THEN {VersionAt(P[pc].place)}
             ELSE IF P[pc].op = "use too" THEN held \cup {VersionAt(P[pc].place)}
             ELSE IF P[pc].op = "glance" THEN {file} ELSE held
  /\ copied' = IF P[pc].op = "copy" THEN VersionAt(P[pc].place) ELSE copied
  /\ P[pc].op # "observe" => seen' = seen
  /\ P[pc].op = "observe" =>
       \E shown \in SUBSET ({"pinned"} \cup {Behaviour(v) : v \in held}) :
         seen' = [seen EXCEPT ![P[pc].slot] = @ \cup shown]
  /\ P[pc].op = "expect" => VersionAt(P[pc].place) \in P[pc].versions
  /\ P[pc].op = "held" => held \subseteq P[pc].versions
  /\ P[pc].op = "facts" => seen["primary"] \subseteq P[pc].behaviours
  /\ P[pc].op = "alike" => seen["primary"] = seen["relocated"]
  /\ P[pc].op = "fixture" /\ P[pc].of \in Items => baseline.files[P[pc].of] = "reviewed"
  /\ P[pc].op \notin {"tear", "fill"} => output' = output
  /\ P[pc].op = "tear" =>
       output' = Directory([output.files EXCEPT ![Running] = "torn"], output.manifest)
  /\ P[pc].op = "fill" =>
       LET files == [output.files EXCEPT ![Running] = Contents] IN
       output' = Directory(files, IF Running = "reference" THEN Listing(files)
                                  ELSE output.manifest)

\* While a generator runs its program is one of those the assumptions are about.
LEMMA ScriptIsProgram ==
  ASSUME PipelineIsTyped, phase = "generating"
  PROVE  /\ at \in DOMAIN Order /\ Running \in Items
         /\ Running \in Generators /\ Subject \in Units
         /\ IsProgram(Script) /\ CopiesFirst(Script) /\ IsFilled(Script)
<1>1. /\ asked \in Plans /\ at \in 1..Len(Order)
  BY DEF PipelineIsTyped
<1>2. /\ asked.order \in Seq(Generators) /\ asked.subject \in Units
  BY <1>1, PlansAssumption
<1>3. at \in DOMAIN Order /\ Order[at] \in Generators
  BY <1>1, <1>2 DEF Order
<1>4. QED
  BY <1>2, <1>3, ProgramsAssumption DEF Running, Script, Program, Subject, Items

\* Every step the program executes has the effect it names.
LEMMA StepAdvances ==
  ASSUME PipelineIsTyped,
         Loads \/ Glances \/ Copies \/ Observes \/ FindsAsPinned \/ Writes
  PROVE  Advances(Script)
<1>0. phase = "generating" /\ pc \in DOMAIN Script /\ Step = Script[pc]
  BY DEF Loads, Glances, Copies, Observes, FindsAsPinned, Writes, Checking, Stepping,
         Script, Step
<1>1. pc \in 1..Len(Script)
  BY <1>0, ScriptIsProgram DEF IsProgram
<1>2. CASE Loads
  BY <1>0, <1>1, <1>2 DEF Loads, Advances, command, developer, Loading, Stepping
<1>3. CASE Glances
  BY <1>0, <1>1, <1>3 DEF Glances, Advances, command, developer, Loading, Stepping
<1>4. CASE Copies
  BY <1>0, <1>1, <1>4 DEF Copies, Advances, command, developer, Loading, Stepping
<1>5. CASE Observes
  <2>1. /\ Step.op = "observe" /\ phase' = phase /\ pc' = pc + 1
        /\ UNCHANGED <<asked, file, edits, todo, purpose, calm, at, baseline, output, used,
                       held, copied>>
    BY <1>5 DEF Observes, command, developer
  <2>2. PICK shown : /\ shown \subseteq {"pinned"} \cup {Behaviour(v) : v \in held}
                     /\ seen' = [seen EXCEPT ![Step.slot] = @ \cup shown]
    BY <1>5 DEF Observes
  <2>3. QED
    BY <1>0, <1>1, <2>1, <2>2 DEF Advances, Loading
<1>6. CASE FindsAsPinned
  <2>1. Step.op \in {"expect", "held", "facts", "alike", "fixture", "reread"}
    BY <1>6 DEF FindsAsPinned, Checking
  <2>2. /\ Step.op = "expect" => VersionAt(Step.place) \in Step.versions
        /\ Step.op = "held" => held \subseteq Step.versions
        /\ Step.op = "facts" => seen["primary"] \subseteq Step.behaviours
        /\ Step.op = "alike" => seen["primary"] = seen["relocated"]
        /\ Step.op = "fixture" /\ Step.of \in Items => baseline.files[Step.of] = "reviewed"
    BY <1>6 DEF FindsAsPinned, Passes, Says, FactsShow
  <2>3. /\ phase' = phase /\ pc' = pc + 1
        /\ UNCHANGED <<asked, file, edits, todo, purpose, calm, at, baseline, output, used,
                       held, copied, seen>>
    BY <1>6 DEF FindsAsPinned, command, developer
  <2>4. QED
    BY <1>0, <1>1, <2>1, <2>2, <2>3 DEF Advances, Loading
<1>7. CASE Writes
  <2>1. Step.op \in {"tear", "fill"}
    BY <1>7 DEF Writes
  <2>2. /\ phase' = phase /\ pc' = pc + 1
        /\ UNCHANGED <<asked, file, edits, todo, purpose, calm, at, baseline, used,
                       held, copied, seen>>
    BY <1>7 DEF Writes, command, developer
  <2>3. /\ Step.op = "tear" =>
             output' = Directory([output.files EXCEPT ![Running] = "torn"], output.manifest)
        /\ Step.op = "fill" =>
             LET files == [output.files EXCEPT ![Running] = Contents] IN
             output' = Directory(files, IF Running = "reference" THEN Listing(files)
                                        ELSE output.manifest)
    BY <1>7, <2>1 DEF Writes
  <2>4. QED
    BY <1>0, <1>1, <2>1, <2>2, <2>3 DEF Advances, Loading
<1>8. QED
  BY <1>2, <1>3, <1>4, <1>5, <1>6, <1>7

\* The program that runs stays the same while it runs.
LEMMA ScriptStays ==
  ASSUME asked' = asked, at' = at
  PROVE  /\ Script' = Script /\ Running' = Running /\ Items' = Items /\ Subject' = Subject
         /\ \A generator : Program(generator)' = Program(generator)
         /\ \A generator : FixturesOf(generator)' = FixturesOf(generator)
BY DEF Script, Running, Items, Subject, Program, Order, FixturesOf


(***************************************************************************)
(* Typing.                                                                  *)
(***************************************************************************)
LEMMA PipelineStartsTyped == ReferenceInit => PipelineIsTyped
<1> SUFFICES ASSUME ReferenceInit
             PROVE  PipelineIsTyped
  OBVIOUS
<1>1. asked \in Plans /\ asked.purposes \in Seq({"generate", "update", "verify"})
  BY PlansAssumption DEF ReferenceInit
<1>2. todo \in Seq(Range(asked.purposes))
  BY <1>1 DEF ReferenceInit, Range
<1>3. "pinned" \in VersionsOf(Subject)
  BY DEF VersionsOf, InventoryVersions, PlainVersions, CodeVersions, SameVersion, Installed
<1>4. file \in VersionsOf(Subject) /\ edits \in Nat /\ (edits = 0 => file = "pinned")
  BY <1>3 DEF ReferenceInit, Subject
<1>5. seen = [slot \in Slots |-> seen[slot]]
  BY DEF ReferenceInit, Slots
<1>6. /\ output = Directory(output.files, output.manifest)
      /\ output.files = [item \in Items |-> output.files[item]]
  BY DEF ReferenceInit, Empty, Directory, NoFiles
<1>7. /\ baseline = Directory(baseline.files, baseline.manifest)
      /\ baseline.files = [item \in Items |-> baseline.files[item]]
  BY DEF ReferenceInit, Reviewed, Directory
<1>8. QED
  BY <1>1, <1>2, <1>4, <1>5, <1>6, <1>7 DEF ReferenceInit, PipelineIsTyped

\* The versions a file may have, and "pinned" is always one.
LEMMA PinnedIsAVersion == \A unit : "pinned" \in VersionsOf(unit)
BY DEF VersionsOf, InventoryVersions, PlainVersions, CodeVersions, SameVersion, Installed

\* What is left of the typing when the plan does not change.
LEMMA TypedWhilePlanStays ==
  ASSUME PipelineIsTyped, asked' = asked,
         todo' \in Seq(Range(asked.purposes)), purpose' \in Range(asked.purposes) \cup {"none"},
         phase' \in {"idle", "generating", "clearing", "copying"},
         phase' = "generating" => at' \in 1..Len(Order) /\ pc' \in 1..Len(Script') + 1,
         file' \in VersionsOf(Subject), edits' \in Nat, edits' = 0 => file' = "pinned",
         calm' \in BOOLEAN, seen' = [slot \in Slots |-> seen'[slot]],
         output' = Directory(output'.files, output'.manifest),
         output'.files = [item \in Items |-> output'.files[item]],
         baseline' = Directory(baseline'.files, baseline'.manifest),
         baseline'.files = [item \in Items |-> baseline'.files[item]]
  PROVE  PipelineIsTyped'
<1>1. Subject' = Subject /\ Items' = Items /\ Order' = Order
  BY DEF Subject, Items, Order
<1>2. QED
  BY <1>1 DEF PipelineIsTyped, Directory

\* A file of a directory is replaced.
LEMMA ReplacedFile ==
  ASSUME NEW files, files = [item \in Items |-> files[item]], NEW name, NEW content,
         NEW manifest, NEW directory,
         directory = Directory([files EXCEPT ![name] = content], manifest)
  PROVE  /\ directory = Directory(directory.files, directory.manifest)
         /\ directory.files = [item \in Items |-> directory.files[item]]
         /\ \A item \in Items :
              directory.files[item] = IF item = name THEN content ELSE files[item]
         /\ directory.manifest = manifest
<1>1. directory.files = [files EXCEPT ![name] = content] /\ directory.manifest = manifest
  BY DEF Directory
<1>2. [files EXCEPT ![name] = content]
        = [item \in Items |-> IF item = name THEN content ELSE files[item]]
  OBVIOUS
<1>3. QED
  BY <1>1, <1>2 DEF Directory

LEMMA AdvanceKeepsTypes ==
  ASSUME PipelineIsTyped, Advances(Script)
  PROVE  PipelineIsTyped'
<1>1. /\ phase = "generating" /\ phase' = "generating"
      /\ pc \in 1..Len(Script) /\ pc' = pc + 1
      /\ UNCHANGED <<asked, file, edits, todo, purpose, calm, at, baseline>>
  BY DEF Advances
<1>2. Script' = Script /\ IsProgram(Script)
  BY <1>1, ScriptIsProgram, ScriptStays
<1>3. seen' = [slot \in Slots |-> seen'[slot]]
  <2>1. seen = [slot \in Slots |-> seen[slot]]
    BY DEF PipelineIsTyped
  <2>2. CASE Script[pc].op = "observe"
    BY <2>1, <2>2 DEF Advances
  <2>3. QED
    BY <2>1, <2>2 DEF Advances
<1>4. /\ output' = Directory(output'.files, output'.manifest)
      /\ output'.files = [item \in Items |-> output'.files[item]]
  <2>1. /\ output = Directory(output.files, output.manifest)
        /\ output.files = [item \in Items |-> output.files[item]]
    BY DEF PipelineIsTyped
  <2>2. \/ output' = output
        \/ \E content, manifest :
             output' = Directory([output.files EXCEPT ![Running] = content], manifest)
    BY DEF Advances
  <2>3. CASE \E content, manifest :
               output' = Directory([output.files EXCEPT ![Running] = content], manifest)
    <3>1. PICK content, manifest :
            output' = Directory([output.files EXCEPT ![Running] = content], manifest)
      BY <2>3
    <3>2. QED
      BY ONLY <2>1, <3>1, ReplacedFile
  <2>4. QED
    BY <2>1, <2>2, <2>3
<1>5. pc' \in 1..Len(Script') + 1
  BY <1>1, <1>2 DEF IsProgram
<1>6. QED
  BY <1>1, <1>3, <1>4, <1>5, TypedWhilePlanStays DEF PipelineIsTyped


(***************************************************************************)
(* The history of one program, step by step.                                *)
(***************************************************************************)
LEMMA NextPlace ==
  ASSUME NEW P, IsProgram(P), Advances(P)
  PROVE  pc \in Nat /\ pc \in 1..Len(P) /\ Len(P) \in Nat /\ pc' = pc + 1 /\ pc' - 1 = pc
<1>1. pc \in 1..Len(P) /\ pc' = pc + 1
  BY DEF Advances
<1>2. Len(P) \in Nat
  BY DEF IsProgram
<1>3. QED
  BY <1>1, <1>2

LEMMA KnownStays ==
  ASSUME NEW P, Advances(P), NEW version
  PROVE  Known(version)' <=> Known(version)
BY DEF Advances, Known

\* What the next step finds in the checkout or in the copy is known.
LEMMA FoundIsKnown ==
  ASSUME NEW P, IsProgram(P), CopiesFirst(P), Advances(P), VersionsAreKnown(P),
         P[pc].op \in Loading \cup {"copy"}
  PROVE  Known(VersionAt(P[pc].place))
<1>1. Known(file)
  BY DEF Known
<1>2. CASE P[pc].place = "copy"
  <2>1. \E k \in 1..pc - 1 : P[k].op = "copy"
    BY <1>2 DEF CopiesFirst, Advances
  <2>2. QED
    BY <1>2, <2>1 DEF VersionsAreKnown, VersionAt
<1>3. QED
  BY <1>1, <1>2 DEF VersionAt

LEMMA VersionsStayKnown ==
  ASSUME NEW P, IsProgram(P), CopiesFirst(P), Advances(P), VersionsAreKnown(P)
  PROVE  VersionsAreKnown(P)'
<1>1. Known(file)
  BY DEF Known
<1>2. P[pc].op \in Loading \cup {"copy"} => Known(VersionAt(P[pc].place))
  BY FoundIsKnown
<1>3. ASSUME NEW version \in used' \cup held'
      PROVE  Known(version)'
  <2>1. Known(version)
    BY <1>1, <1>2, <1>3 DEF Advances, VersionsAreKnown, Loading
  <2>2. QED
    BY <2>1, KnownStays
<1>4. ASSUME \E k \in 1..pc' - 1 : P[k].op = "copy", NEW version, version = copied'
      PROVE  Known(version)'
  <2>1. pc' - 1 = pc /\ pc \in Nat
    BY NextPlace
  <2>2. CASE P[pc].op = "copy"
    <3>1. version = VersionAt(P[pc].place)
      BY <1>4, <2>2 DEF Advances
    <3>2. QED
      BY <1>2, <2>2, <3>1, KnownStays
  <2>3. CASE P[pc].op # "copy"
    <3>1. \E k \in 1..pc - 1 : P[k].op = "copy"
      BY <1>4, <2>1, <2>3
    <3>2. version = copied /\ Known(copied)
      BY <1>4, <2>3, <3>1 DEF Advances, VersionsAreKnown
    <3>3. QED
      BY <3>2, KnownStays
  <2>4. QED
    BY <2>2, <2>3
<1>5. QED
  BY <1>3, <1>4 DEF VersionsAreKnown, Known

\* The steps up to the next one are those up to this one, and this one.
LEMMA WithoutOneMore ==
  ASSUME NEW P, NEW ops, NEW a \in Nat, NEW b \in Nat
  PROVE  Without(P, ops, a, b) =>
           Without(P, ops, a, b - 1) /\ (a <= b => P[b].op \notin ops)
BY DEF Without

LEMMA LoadStays ==
  ASSUME NEW P, IsProgram(P), Advances(P), NEW i \in 1..pc - 1, NEW version,
         LoadedAt(P, i, version), Known(version)
  PROVE  LoadedAt(P, i, version)'
<1>0. pc \in Nat /\ pc' = pc + 1 /\ pc' - 1 = pc
  BY NextPlace
<1>1. /\ pc \in Nat /\ i \in Nat /\ i + 1 \in Nat /\ i < pc /\ i <= pc /\ i + 1 <= pc
      /\ pc' = pc + 1 /\ pc' - 1 = pc
  BY <1>0
<1> edits' = edits /\ file' = file
  BY DEF Advances
<1>2. P[i].op \in Loading
  BY DEF LoadedAt
<1>3. ASSUME edits <= 1, version # "pinned", NEW j \in i + 1..pc,
             P[j].op = "expect", P[j].place = "root"
      PROVE  version \in P[j].versions
  <2>1. CASE j = pc
    BY <1>3, <2>1 DEF Known, Advances, VersionAt
  <2>2. CASE j # pc
    BY <1>1, <1>3, <2>2 DEF LoadedAt
  <2>3. QED
    BY <2>1, <2>2
<1>4. Without(P, {"use", "glance"}, i + 1, pc - 1) => version \in held
  BY DEF LoadedAt
<1>5. ASSUME NEW j \in i + 1..pc,
             P[j].op = "held", Without(P, {"use", "glance"}, i + 1, j - 1)
      PROVE  version \in P[j].versions
  <2>1. CASE j = pc
    BY <1>4, <1>5, <2>1 DEF Advances
  <2>2. CASE j # pc
    BY <1>1, <1>5, <2>2 DEF LoadedAt
  <2>3. QED
    BY <2>1, <2>2
<1>6. ASSUME Without(P, {"use", "glance"}, i + 1, pc)
      PROVE  version \in held'
  <2>1. Without(P, {"use", "glance"}, i + 1, pc - 1) /\ P[pc].op \notin {"use", "glance"}
    BY <1>1, <1>6, WithoutOneMore
  <2>2. held \subseteq held'
    BY <2>1 DEF Advances
  <2>3. QED
    BY <1>4, <2>1, <2>2
<1>7. P[i].place = "copy" /\ Without(P, {"copy"}, i, pc - 1) => version = copied
  BY DEF LoadedAt
<1>8. ASSUME P[i].place = "copy", Without(P, {"copy"}, i, pc)
      PROVE  version = copied'
  <2>1. Without(P, {"copy"}, i, pc - 1) /\ P[pc].op # "copy"
    BY <1>1, <1>8, WithoutOneMore
  <2>2. QED
    BY <1>7, <1>8, <2>1 DEF Advances
<1>9. ASSUME P[i].place = "copy", NEW j \in 1..pc, P[j].op = "expect", P[j].place = "copy",
             Without(P, {"copy"}, i, j), Without(P, {"copy"}, j, i)
      PROVE  version \in P[j].versions
  <2>1. CASE j = pc
    <3>1. Without(P, {"copy"}, i, pc - 1)
      BY <1>1, <1>9, <2>1, WithoutOneMore
    <3>2. QED
      BY <1>7, <1>9, <2>1, <3>1 DEF Advances, VersionAt
  <2>2. CASE j # pc
    BY <1>1, <1>9, <2>2 DEF LoadedAt
  <2>3. QED
    BY <2>1, <2>2
<1>10. QED
  BY <1>1, <1>2, <1>3, <1>5, <1>6, <1>8, <1>9 DEF LoadedAt

\* A load that has just been made has met nothing yet, except in the copy.
LEMMA LoadBegins ==
  ASSUME NEW P, IsProgram(P), Advances(P), CopyIsCompared(P), P[pc].op \in Loading,
         NEW i, i = pc, NEW version, version = VersionAt(P[pc].place)
  PROVE  LoadedAt(P, i, version)'
<1>1. i \in Nat /\ i = pc /\ pc' - 1 = i
  BY NextPlace
<1>2. version \in held'
  BY DEF Advances, Loading
<1>3. P[pc].place = "copy" => version = copied /\ copied' = copied
  BY DEF Advances, Loading, VersionAt
<1>4. ASSUME P[pc].place = "copy", NEW j \in 1..pc, P[j].op = "expect",
             P[j].place = "copy", Without(P, {"copy"}, j, pc)
      PROVE  version \in P[j].versions
  <2>1. j # pc
    BY <1>4 DEF Loading
  <2>2. Without(P, {"copy"}, j, pc - 1)
    BY <1>1, <1>4, WithoutOneMore
  <2>3. QED
    BY <1>1, <1>3, <1>4, <2>1, <2>2 DEF CopyIsCompared
<1>5. QED
  BY <1>1, <1>2, <1>3, <1>4 DEF LoadedAt, Without

LEMMA UsesStayLoaded ==
  ASSUME NEW P, IsProgram(P), Advances(P), VersionsAreKnown(P), EveryUseWasLoaded(P),
         CopyIsCompared(P)
  PROVE  EveryUseWasLoaded(P)'
<1> pc \in Nat /\ pc \in 1..Len(P) /\ pc' - 1 = pc
  BY NextPlace
<1>1. ASSUME NEW version \in used'
      PROVE  \E i \in 1..pc' - 1 : LoadedAt(P, i, version)'
  <2>1. CASE version \in used
    <3>1. PICK i \in 1..pc - 1 : LoadedAt(P, i, version)
      BY <2>1 DEF EveryUseWasLoaded
    <3>2. Known(version)
      BY <2>1 DEF VersionsAreKnown
    <3>3. LoadedAt(P, i, version)'
      BY <3>1, <3>2, LoadStays
    <3>4. QED
      BY <3>3
  <2>2. CASE version \notin used
    <3>1. P[pc].op \in Loading /\ version = VersionAt(P[pc].place)
      BY <1>1, <2>2 DEF Advances
    <3>2. PICK i : i = pc
      OBVIOUS
    <3>3. LoadedAt(P, i, version)'
      BY <3>1, <3>2, LoadBegins
    <3>4. QED
      BY <3>2, <3>3
  <2>3. QED
    BY <2>1, <2>2
<1>2. QED
  BY <1>1 DEF EveryUseWasLoaded

LEMMA CalmLoadsStay ==
  ASSUME NEW P, IsProgram(P), Advances(P), CalmLoads(P), CopyIsCompared(P)
  PROVE  CalmLoads(P)'
<1> pc \in Nat /\ pc \in 1..Len(P) /\ pc' - 1 = pc
  BY NextPlace
<1>1. ASSUME calm, NEW i \in 1..pc, P[i].op \in Loading, P[i].place = "root",
             NEW version, version = file
      PROVE  LoadedAt(P, i, version)'
  <2>1. CASE i = pc
    <3>1. version = VersionAt(P[pc].place)
      BY <1>1, <2>1 DEF VersionAt
    <3>2. QED
      BY <1>1, <2>1, <3>1, LoadBegins
  <2>2. CASE i # pc
    <3>1. i \in 1..pc - 1
      BY <2>2
    <3>2. LoadedAt(P, i, version) /\ Known(version)
      BY <1>1, <3>1 DEF CalmLoads, Known
    <3>3. QED
      BY <3>1, <3>2, LoadStays
  <2>3. QED
    BY <2>1, <2>2
<1>2. calm' = calm /\ file' = file
  BY DEF Advances
<1>3. ASSUME calm, NEW i \in 1..pc, P[i].op \in Loading, P[i].place = "root"
      PROVE  LoadedAt(P, i, file)'
  <2>1. PICK version : version = file
    OBVIOUS
  <2>2. LoadedAt(P, i, version)'
    BY <1>3, <2>1, <1>1
  <2>3. QED
    BY <1>2, <2>1, <2>2 DEF LoadedAt
<1>4. QED
  BY <1>2, <1>3 DEF CalmLoads

LEMMA CalmFilesStay ==
  ASSUME NEW P, IsProgram(P), Advances(P), CalmFiles(P)
  PROVE  CalmFiles(P)'
<1> pc \in Nat /\ pc \in 1..Len(P) /\ pc' - 1 = pc
  BY NextPlace
<1>1. ASSUME calm, NEW j \in 1..pc, P[j].op = "expect", P[j].place = "root"
      PROVE  file \in P[j].versions
  <2>1. CASE j = pc
    BY <1>1, <2>1 DEF Advances, VersionAt
  <2>2. CASE j # pc
    BY <1>1, <2>2 DEF CalmFiles
  <2>3. QED
    BY <2>1, <2>2
<1>2. calm' = calm /\ file' = file
  BY DEF Advances
<1>3. QED
  BY <1>1, <1>2 DEF CalmFiles

LEMMA CopyStaysCompared ==
  ASSUME NEW P, IsProgram(P), Advances(P), CopyIsCompared(P)
  PROVE  CopyIsCompared(P)'
<1> pc \in Nat /\ pc \in 1..Len(P) /\ pc' - 1 = pc
  BY NextPlace
<1>1. ASSUME NEW j \in 1..pc, P[j].op = "expect", P[j].place = "copy",
             Without(P, {"copy"}, j, pc)
      PROVE  copied' \in P[j].versions
  <2>0. j \in Nat /\ j <= pc
    OBVIOUS
  <2>1. Without(P, {"copy"}, j, pc - 1) /\ P[pc].op # "copy"
    BY <1>1, <2>0, WithoutOneMore
  <2>2. copied' = copied
    BY <2>1 DEF Advances
  <2>3. CASE j = pc
    BY <1>1, <2>2, <2>3 DEF Advances, VersionAt
  <2>4. CASE j # pc
    BY <1>1, <2>1, <2>2, <2>4 DEF CopyIsCompared
  <2>5. QED
    BY <2>3, <2>4
<1>2. QED
  BY <1>1 DEF CopyIsCompared, Without

LEMMA HeldStaysCompared ==
  ASSUME NEW P, IsProgram(P), Advances(P), HeldIsCompared(P)
  PROVE  HeldIsCompared(P)'
<1> pc \in Nat /\ pc \in 1..Len(P) /\ pc' - 1 = pc
  BY NextPlace
<1>1. ASSUME NEW j \in 1..pc, P[j].op = "held", Without(P, Replacing, j + 1, pc)
      PROVE  held' \subseteq P[j].versions
  <2>1. CASE j = pc
    BY <1>1, <2>1 DEF Advances
  <2>2. CASE j # pc
    <3>1. j + 1 \in Nat /\ j + 1 <= pc
      BY <2>2
    <3>2. Without(P, Replacing, j + 1, pc - 1) /\ P[pc].op \notin Replacing
      BY <1>1, <3>1, WithoutOneMore
    <3>3. held' = held
      BY <3>2 DEF Advances, Replacing
    <3>4. QED
      BY <1>1, <2>2, <3>2, <3>3 DEF HeldIsCompared
  <2>3. QED
    BY <2>1, <2>2
<1>2. QED
  BY <1>1 DEF HeldIsCompared, Without

\* What was seen in the first place stays there.
LEMMA SeenGrows ==
  ASSUME NEW P, Advances(P), seen = [slot \in Slots |-> seen[slot]]
  PROVE  \A slot \in Slots :
           /\ seen[slot] \subseteq seen'[slot]
           /\ \A b \in seen'[slot] \ seen[slot] :
                /\ P[pc].op = "observe" /\ P[pc].slot = slot
                /\ b = "pinned" \/ \E version \in held : b = Behaviour(version)
<1>1. CASE P[pc].op = "observe"
  <2>1. PICK shown : /\ shown \subseteq {"pinned"} \cup {Behaviour(v) : v \in held}
                     /\ seen' = [seen EXCEPT ![P[pc].slot] = @ \cup shown]
    BY <1>1 DEF Advances
  <2>2. \A b \in shown : b = "pinned" \/ \E version \in held : b = Behaviour(version)
    BY <2>1
  <2>3. \A slot \in Slots :
          seen'[slot] = IF slot = P[pc].slot THEN seen[slot] \cup shown ELSE seen[slot]
    BY <2>1
  <2>4. QED
    BY <1>1, <2>2, <2>3
<1>2. CASE P[pc].op # "observe"
  BY <1>2 DEF Advances
<1>3. QED
  BY <1>1, <1>2

LEMMA FactsStayObserved ==
  ASSUME NEW P, IsProgram(P), Advances(P), EveryFactWasObserved(P), HeldIsCompared(P),
         seen = [slot \in Slots |-> seen[slot]]
  PROVE  EveryFactWasObserved(P)'
<1> pc \in Nat /\ pc \in 1..Len(P) /\ pc' - 1 = pc
  BY NextPlace
<1> "primary" \in Slots /\ "relocated" \in Slots
  BY DEF Slots
<1>1. ASSUME NEW b \in seen'["primary"]
      PROVE  \E i \in 1..pc : ObservedAt(P, i, b)'
  <2>1. CASE b \in seen["primary"]
    <3>1. PICK i \in 1..pc - 1 : ObservedAt(P, i, b)
      BY <2>1 DEF EveryFactWasObserved
    <3>2. ASSUME NEW j \in i + 1..pc, P[j].op = "facts"
          PROVE  b \in P[j].behaviours
      <4>1. CASE j = pc
        BY <2>1, <3>2, <4>1 DEF Advances
      <4>2. CASE j # pc
        BY <3>1, <3>2, <4>2 DEF ObservedAt
      <4>3. QED
        BY <4>1, <4>2
    <3>3. ObservedAt(P, i, b)'
      BY <3>1, <3>2 DEF ObservedAt
    <3>4. QED
      BY <3>3
  <2>2. CASE b \notin seen["primary"]
    <3>1. /\ P[pc].op = "observe" /\ P[pc].slot = "primary"
          /\ b = "pinned" \/ \E version \in held : b = Behaviour(version)
      BY <1>1, <2>2, SeenGrows
    <3>2. ASSUME NEW j \in 1..pc - 1, P[j].op = "held",
                 Without(P, Replacing, j + 1, pc - 1)
          PROVE  b = "pinned" \/ \E version \in P[j].versions : b = Behaviour(version)
      BY <3>1, <3>2 DEF HeldIsCompared
    <3>3. PICK i \in 1..pc : i = pc
      OBVIOUS
    <3>4. ObservedAt(P, i, b)'
      BY <3>1, <3>2, <3>3 DEF ObservedAt, Without
    <3>5. QED
      BY <3>4
  <2>3. QED
    BY <2>1, <2>2
<1>2. ASSUME NEW b \in seen'["relocated"]
      PROVE  \E i \in 1..pc : RelocatedAt(P, i, b)'
  <2>1. CASE b \in seen["relocated"]
    <3>1. PICK i \in 1..pc - 1 : RelocatedAt(P, i, b)
      BY <2>1 DEF EveryFactWasObserved
    <3>2. seen["primary"] \subseteq seen'["primary"]
      BY SeenGrows
    <3>3. ASSUME NEW j \in i + 1..pc, P[j].op = "alike"
          PROVE  b \in seen'["primary"]
      <4>1. CASE j = pc
        BY <2>1, <3>2, <3>3, <4>1 DEF Advances
      <4>2. CASE j # pc
        BY <3>1, <3>2, <3>3, <4>2 DEF RelocatedAt
      <4>3. QED
        BY <4>1, <4>2
    <3>4. RelocatedAt(P, i, b)'
      BY <3>1, <3>3 DEF RelocatedAt
    <3>5. QED
      BY <3>4
  <2>2. CASE b \notin seen["relocated"]
    <3>1. P[pc].op = "observe" /\ P[pc].slot = "relocated"
      BY <1>2, <2>2, SeenGrows
    <3>2. PICK i \in 1..pc : i = pc
      OBVIOUS
    <3>3. RelocatedAt(P, i, b)'
      BY <3>1, <3>2 DEF RelocatedAt
    <3>4. QED
      BY <3>3
  <2>3. QED
    BY <2>1, <2>2
<1>3. QED
  BY <1>1, <1>2 DEF EveryFactWasObserved

LEMMA CalmFactsStay ==
  ASSUME NEW P, Advances(P), CalmFacts, VersionsAreKnown(P),
         seen = [slot \in Slots |-> seen[slot]]
  PROVE  CalmFacts'
<1>1. calm' = calm /\ file' = file
  BY DEF Advances
<1>2. ASSUME calm, NEW b \in seen'["primary"] \ seen["primary"]
      PROVE  b \in {"pinned", Behaviour(file)}
  <2>1. b = "pinned" \/ \E version \in held : b = Behaviour(version)
    BY <1>2, SeenGrows DEF Slots
  <2>2. \A version \in held : version = file
    BY <1>2 DEF VersionsAreKnown, Known
  <2>3. QED
    BY <2>1, <2>2
<1>3. QED
  BY <1>1, <1>2 DEF CalmFacts

LEMMA FixturesStayReviewed ==
  ASSUME NEW P, IsProgram(P), Advances(P), FixturesWereReviewed(P)
  PROVE  FixturesWereReviewed(P)'
<1> pc \in Nat /\ pc \in 1..Len(P) /\ pc' - 1 = pc
  BY NextPlace
<1>1. baseline' = baseline /\ Items' = Items
  BY DEF Advances, Items, Order
<1>2. ASSUME NEW j \in 1..pc, P[j].op = "fixture", P[j].of \in Items
      PROVE  baseline.files[P[j].of] = "reviewed"
  <2>1. CASE j = pc
    BY <1>2, <2>1 DEF Advances
  <2>2. CASE j # pc
    BY <1>2, <2>2 DEF FixturesWereReviewed
  <2>3. QED
    BY <2>1, <2>2
<1>3. QED
  BY <1>1, <1>2 DEF FixturesWereReviewed

(***************************************************************************)
(* The oracle of the generator that runs.                                   *)
(***************************************************************************)
LEMMA ContentsAreReviewed ==
  ASSUME IsProgram(Script), pc \in 1..Len(Script), VersionsAreKnown(Script),
         EveryFactWasObserved(Script), CalmFacts, CannotDiffer(Running)
  PROVE  Contents = "reviewed"
<1>1. calm
  BY DEF CannotDiffer
<1>2. \A version \in held : version = file
  BY <1>1 DEF VersionsAreKnown, Known
<1>3. CASE Behaviour(file) = "pinned"
  <2>1. seen["primary"] \subseteq {"pinned"}
    BY <1>1, <1>3 DEF CalmFacts
  <2>2. {Behaviour(v) : v \in held} \subseteq {"pinned"}
    BY <1>2, <1>3
  <2>3. QED
    BY <2>1, <2>2 DEF Contents, Shown
<1>4. CASE Subject # Running /\ IsSilent(Script)
  <2>1. seen["primary"] = {}
    <3>1. ASSUME NEW b \in seen["primary"]
          PROVE  FALSE
      <4>1. PICK i \in 1..pc - 1 : ObservedAt(Script, i, b)
        BY <3>1 DEF EveryFactWasObserved
      <4>2. Script[i].op = "observe" /\ Script[i].slot = "primary"
        BY <4>1 DEF ObservedAt
      <4>3. i \in 1..Len(Script)
        BY <4>1 DEF IsProgram
      <4>4. QED
        BY <4>2, <4>3, <1>4 DEF IsSilent
    <3>2. QED
      BY <3>1
  <2>2. QED
    BY <1>4, <2>1 DEF Contents, Shown
<1>5. QED
  BY <1>3, <1>4 DEF CannotDiffer, Script

LEMMA OracleStaysWritten ==
  ASSUME PipelineIsTyped, Advances(Script), OracleIsWritten(Script),
         VersionsAreKnown(Script), EveryFactWasObserved(Script), CalmFacts,
         NEW P, P = Script
  PROVE  OracleIsWritten(P)'
<1>0. IsProgram(P) /\ Advances(P) /\ OracleIsWritten(P)
  <2>1. IsProgram(P)
    BY ScriptIsProgram DEF Advances
  <2>2. Advances(P) /\ OracleIsWritten(P)
    OBVIOUS
  <2>3. QED
    BY <2>1, <2>2
<1> pc \in Nat /\ pc \in 1..Len(P) /\ pc' - 1 = pc
  BY <1>0, NextPlace
<1>1. /\ asked' = asked /\ at' = at /\ calm' = calm /\ file' = file
      /\ Running' = Running /\ Items' = Items /\ Running \in Items
      /\ \A g : CannotDiffer(g)' <=> CannotDiffer(g)
  <2>1. asked' = asked /\ at' = at /\ calm' = calm /\ file' = file /\ phase = "generating"
    BY <1>0 DEF Advances
  <2>2. Running \in Items
    BY <2>1, ScriptIsProgram
  <2>3. QED
    BY <2>1, <2>2, ScriptStays DEF CannotDiffer
<1>2. output.files = [item \in Items |-> output.files[item]]
  BY DEF PipelineIsTyped
<1>3. CASE P[pc].op = "fill"
  <2>1. PICK content : content = Contents
    OBVIOUS
  <2>2. content \in {"reviewed", "other"}
        /\ (CannotDiffer(Running) => content = "reviewed")
    BY <1>0, <2>1, ContentsAreReviewed DEF Contents
  <2>3. PICK files : files = [output.files EXCEPT ![Running] = content]
    OBVIOUS
  <2>4. /\ output'.files = files
        /\ Running = "reference" => output'.manifest = Listing(files)
    BY <1>0, <1>3, <2>1, <2>3 DEF Advances, Directory
  <2>5. files[Running] = content
    BY <1>1, <1>2, <2>3
  <2>6. IsWritten(Running)'
    BY <1>1, <2>2, <2>4, <2>5 DEF IsWritten
  <2>7. Running = "reference" => output'.manifest = Listing(output.files)'
    BY <1>1, <2>4 DEF Listing
  <2>8. QED
    BY <1>1, <2>6, <2>7 DEF OracleIsWritten
<1>4. CASE P[pc].op = "tear"
  <2>1. ~IsFilledSo(P)'
    BY <1>4 DEF IsFilledSo, Without
  <2>2. /\ output'.files = [output.files EXCEPT ![Running] = "torn"]
        /\ output'.manifest = output.manifest
    BY <1>0, <1>4 DEF Advances, Directory
  <2>3. ASSUME Running = "reference", \E j \in 1..pc : P[j].op = "fill"
        PROVE  output'.manifest = Listing(output.files)'
    <3>1. \E j \in 1..pc - 1 : P[j].op = "fill"
      BY <1>4, <2>3
    <3>2. output.manifest = Listing(output.files)
      BY <1>0, <2>3, <3>1 DEF OracleIsWritten
    <3>3. \A f \in Items \ {"reference"} : output'.files[f] = output.files[f]
      BY <1>2, <2>2, <2>3
    <3>4. QED
      BY <1>1, <2>2, <3>2, <3>3 DEF Listing
  <2>4. QED
    BY <1>1, <2>1, <2>3 DEF OracleIsWritten
<1>5. CASE P[pc].op \notin {"fill", "tear"}
  <2>1. output' = output
    BY <1>0, <1>5 DEF Advances
  <2>2. ASSUME IsFilledSo(P)'
        PROVE  IsFilledSo(P)
    <3>1. PICK j \in 1..pc : P[j].op = "fill" /\ Without(P, {"tear"}, j + 1, pc)
      BY <2>2 DEF IsFilledSo, Without
    <3>2. j # pc
      BY <1>5, <3>1
    <3>3. j \in 1..pc - 1 /\ j + 1 \in Nat /\ j + 1 <= pc
      BY <3>2
    <3>4. Without(P, {"tear"}, j + 1, pc - 1)
      BY <3>1, <3>3, WithoutOneMore
    <3>5. QED
      BY <3>1, <3>3, <3>4 DEF IsFilledSo
  <2>3. IsFilledSo(P)' => IsWritten(Running)'
    BY <1>0, <1>1, <2>1, <2>2 DEF OracleIsWritten, IsWritten
  <2>4. (\E j \in 1..pc : P[j].op = "fill") => \E j \in 1..pc - 1 : P[j].op = "fill"
    BY <1>5
  <2>5. Running = "reference" /\ (\E j \in 1..pc : P[j].op = "fill") =>
          output'.manifest = Listing(output.files)'
    BY <1>0, <1>1, <2>1, <2>4 DEF OracleIsWritten, Listing
  <2>6. QED
    BY <1>1, <2>3, <2>5 DEF OracleIsWritten
<1>6. QED
  BY <1>3, <1>4, <1>5

\* An oracle that differs shows it in the facts of the first place.
LEMMA DifferenceStaysSeen ==
  ASSUME PipelineIsTyped, Advances(Script), DifferenceIsSeen(Script),
         NEW P, P = Script
  PROVE  DifferenceIsSeen(P)'
<1>0. IsProgram(P) /\ Advances(P) /\ DifferenceIsSeen(P)
  <2>1. phase = "generating"
    BY DEF Advances
  <2>2. IsProgram(Script)
    BY <2>1, ScriptIsProgram
  <2>3. QED
    BY <2>2
<1> pc \in Nat /\ pc \in 1..Len(P) /\ pc' - 1 = pc
  BY <1>0, NextPlace
<1>1. /\ Running' = Running /\ Subject' = Subject /\ Running \in Items
      /\ output.files = [item \in Items |-> output.files[item]]
  <2>1. asked' = asked /\ at' = at /\ phase = "generating"
    BY <1>0 DEF Advances
  <2>2. QED
    BY <2>1, ScriptIsProgram, ScriptStays DEF PipelineIsTyped
<1>2. seen["primary"] \subseteq seen'["primary"]
  BY <1>0, SeenGrows DEF PipelineIsTyped, Slots
<1>3. SUFFICES ASSUME IsFilledSo(P)', Subject # Running, seen'["primary"] \subseteq {"pinned"}
               PROVE  output'.files[Running] = "reviewed"
  BY <1>1 DEF DifferenceIsSeen
<1>4. seen["primary"] \subseteq {"pinned"}
  BY <1>2, <1>3
<1>5. CASE P[pc].op = "fill"
  <2>1. Contents = "reviewed"
    BY <1>3, <1>4 DEF Contents, Shown
  <2>2. output'.files = [output.files EXCEPT ![Running] = Contents]
    BY <1>0, <1>5 DEF Advances, Directory
  <2>3. PICK content : content = Contents
    OBVIOUS
  <2>4. QED
    BY <1>1, <2>1, <2>2, <2>3
<1>6. CASE P[pc].op = "tear"
  BY <1>3, <1>6 DEF IsFilledSo, Without
<1>7. CASE P[pc].op \notin {"fill", "tear"}
  <2>1. PICK j \in 1..pc : P[j].op = "fill" /\ Without(P, {"tear"}, j + 1, pc)
    BY <1>3 DEF IsFilledSo, Without
  <2>2. j \in 1..pc - 1 /\ j + 1 \in Nat /\ j + 1 <= pc
    BY <1>7, <2>1
  <2>3. Without(P, {"tear"}, j + 1, pc - 1)
    BY <2>1, <2>2, WithoutOneMore
  <2>4. IsFilledSo(P)
    BY <2>1, <2>2, <2>3 DEF IsFilledSo
  <2>5. output' = output
    BY <1>0, <1>7 DEF Advances
  <2>6. QED
    BY <1>0, <1>3, <1>4, <2>4, <2>5 DEF DifferenceIsSeen
<1>8. QED
  BY <1>5, <1>6, <1>7

(***************************************************************************)
(* The generator that runs: a fresh process, a step, an edit.               *)
(***************************************************************************)
LEMMA HistoryStays ==
  ASSUME PipelineIsTyped, GeneratorInv, Advances(Script)
  PROVE  GeneratorInv'
<1>1. phase = "generating" /\ asked' = asked /\ at' = at
  BY DEF Advances
<1>2. Script' = Script /\ IsProgram(Script) /\ CopiesFirst(Script)
  BY <1>1, ScriptIsProgram, ScriptStays
<1>3. History(Script) /\ seen = [slot \in Slots |-> seen[slot]]
  BY <1>1 DEF GeneratorInv, PipelineIsTyped
<1>4. PICK P : P = Script
  OBVIOUS
<1>5. /\ VersionsAreKnown(P) /\ EveryUseWasLoaded(P) /\ CalmLoads(P) /\ CalmFiles(P)
      /\ CopyIsCompared(P) /\ HeldIsCompared(P) /\ EveryFactWasObserved(P) /\ CalmFacts
      /\ OracleIsWritten(P) /\ DifferenceIsSeen(P) /\ FixturesWereReviewed(P)
  BY <1>3, <1>4 DEF History
<1>6. IsProgram(P) /\ CopiesFirst(P) /\ Advances(P)
  BY <1>2, <1>4
<1>7. VersionsAreKnown(P)' /\ EveryUseWasLoaded(P)' /\ CalmLoads(P)' /\ CalmFiles(P)'
  BY <1>5, <1>6, VersionsStayKnown, UsesStayLoaded, CalmLoadsStay, CalmFilesStay
<1>8. CopyIsCompared(P)' /\ HeldIsCompared(P)' /\ FixturesWereReviewed(P)'
  BY <1>5, <1>6, CopyStaysCompared, HeldStaysCompared, FixturesStayReviewed
<1>9. EveryFactWasObserved(P)' /\ CalmFacts'
  BY <1>3, <1>5, <1>6, FactsStayObserved, CalmFactsStay
<1>10. OracleIsWritten(P)' /\ DifferenceIsSeen(P)'
  BY <1>4, <1>5, OracleStaysWritten, DifferenceStaysSeen
<1>11. History(P)'
  BY <1>7, <1>8, <1>9, <1>10 DEF History
<1>12. QED
  BY <1>2, <1>4, <1>11 DEF GeneratorInv

\* Nothing can be said of a process that has not executed a step.
LEMMA HistoryBegins ==
  ASSUME pc' = 1, used' = {}, held' = {}, seen' = [slot \in Slots |-> {}]
  PROVE  GeneratorInv'
<1>1. ASSUME NEW P
      PROVE  History(P)'
  <2>1. VersionsAreKnown(P)' /\ EveryUseWasLoaded(P)' /\ CalmLoads(P)' /\ CalmFiles(P)'
    BY DEF VersionsAreKnown, EveryUseWasLoaded, CalmLoads, CalmFiles
  <2>2. CopyIsCompared(P)' /\ HeldIsCompared(P)' /\ FixturesWereReviewed(P)'
    BY DEF CopyIsCompared, HeldIsCompared, FixturesWereReviewed
  <2>3. /\ EveryFactWasObserved(P)' /\ CalmFacts' /\ OracleIsWritten(P)'
        /\ DifferenceIsSeen(P)'
    BY DEF EveryFactWasObserved, CalmFacts, OracleIsWritten, DifferenceIsSeen, IsFilledSo,
       Slots
  <2>4. QED
    BY <2>1, <2>2, <2>3 DEF History
<1>2. QED
  BY <1>1 DEF GeneratorInv

LEMMA HistorySurvivesEdits ==
  ASSUME PipelineIsTyped, GeneratorInv, Edits
  PROVE  GeneratorInv'
<1>1. /\ UNCHANGED <<asked, phase, at, pc, held, used, copied, seen, output, baseline>>
      /\ edits' = edits + 1 /\ calm' = FALSE
  BY DEF Edits, process
<1>2. SUFFICES ASSUME phase = "generating", NEW P, P = Script
               PROVE  History(P)'
  BY <1>1, ScriptStays DEF GeneratorInv
<1>3. History(P) /\ edits \in Nat /\ (edits = 0 => file = "pinned")
  BY <1>2 DEF GeneratorInv, PipelineIsTyped
<1>4. \A version : Known(version) => (Known(version)' /\ (edits' <= 1 => version = "pinned"))
  BY <1>1, <1>3 DEF Known
<1>5. VersionsAreKnown(P)'
  BY <1>1, <1>3, <1>4 DEF History, VersionsAreKnown
<1>6. EveryUseWasLoaded(P)'
  <2>1. ASSUME NEW version \in used, NEW i \in 1..pc - 1, LoadedAt(P, i, version)
        PROVE  LoadedAt(P, i, version)'
    <3>1. edits' <= 1 => version = "pinned"
      BY <1>3, <1>4 DEF History, VersionsAreKnown
    <3>2. QED
      BY <1>1, <2>1, <3>1 DEF LoadedAt
  <2>2. QED
    BY <1>1, <1>3, <2>1 DEF History, EveryUseWasLoaded
<1>7. CalmLoads(P)' /\ CalmFiles(P)' /\ CalmFacts'
  BY <1>1 DEF CalmLoads, CalmFiles, CalmFacts
<1>8. CopyIsCompared(P)' /\ HeldIsCompared(P)'
  BY <1>1, <1>3 DEF History, CopyIsCompared, HeldIsCompared
<1>9. EveryFactWasObserved(P)'
  BY <1>1, <1>3 DEF History, EveryFactWasObserved, ObservedAt, RelocatedAt
<1>10. OracleIsWritten(P)' /\ DifferenceIsSeen(P)' /\ FixturesWereReviewed(P)'
  <2>1. Running' = Running /\ Items' = Items /\ Subject' = Subject
    BY <1>1, ScriptStays
  <2>2. QED
    BY <1>1, <1>3, <2>1 DEF History, OracleIsWritten, DifferenceIsSeen,
         FixturesWereReviewed, IsWritten, CannotDiffer, IsFilledSo, Listing
<1>11. QED
  BY <1>5, <1>6, <1>7, <1>8, <1>9, <1>10 DEF History

(***************************************************************************)
(* What is known of a generator when it has finished.                       *)
(***************************************************************************)
LEMMA FinishedHistory ==
  ASSUME PipelineIsTyped, GeneratorInv, Finished
  PROVE  /\ phase = "generating" /\ History(Script) /\ pc - 1 = Len(Script)
         /\ Len(Script) \in Nat
         /\ IsProgram(Script) /\ IsFilled(Script)
         /\ Running \in Generators /\ Subject \in Units /\ Running \in Items
<1>1. phase = "generating" /\ pc = Len(Script) + 1
  BY DEF Finished, Script
<1>2. IsProgram(Script)
  BY <1>1, ScriptIsProgram
<1>3. Len(Script) \in Nat
  BY <1>2 DEF IsProgram
<1>4. QED
  BY <1>1, <1>2, <1>3, ScriptIsProgram DEF GeneratorInv

LEMMA NamedBytesRanInv ==
  ASSUME PipelineIsTyped, GeneratorInv
  PROVE  NamedBytesRan
<1> SUFFICES ASSUME Finished, Subject \in NamesOf[Running], Watched,
                    NEW version \in used
             PROVE  version \in Named(Subject)
  BY DEF NamedBytesRan
<1> DEFINE P == Script
           n == Len(P)
<1>1. History(P) /\ pc - 1 = n /\ n \in Nat /\ Running \in Generators
  BY FinishedHistory
<1>2. "pinned" \in Named(Subject)
  BY DEF Named, SameVersion
<1>3. Known(version)
  BY <1>1 DEF History, VersionsAreKnown
<1>4. CASE <<Running, Subject>> \in CheckedOnlyBefore
  <2>1. calm /\ version = file
    BY <1>3, <1>4 DEF Watched, Known
  <2>2. FileIsCompared(P, Named(Subject))
    BY <1>1, <1>4, LoadsAssumption DEF Script, Program
  <2>3. PICK j \in 1..n : /\ P[j].op = "expect" /\ P[j].place = "root"
                          /\ P[j].versions \subseteq Named(Subject)
    BY <1>1, <2>2 DEF FileIsCompared, ComparedLater
  <2>4. CalmFiles(P)
    BY <1>1 DEF History
  <2>5. file \in P[j].versions
    BY <1>1, <2>1, <2>3, <2>4 DEF CalmFiles
  <2>6. QED
    BY <2>1, <2>3, <2>5
<1>5. CASE <<Running, Subject>> \notin CheckedOnlyBefore
  <2>1. LoadsAreCompared(P, Named(Subject))
    BY <1>1, <1>5, LoadsAssumption DEF Script, Program
  <2>2. PICK i \in 1..n : LoadedAt(P, i, version)
    BY <1>1 DEF History, EveryUseWasLoaded
  <2>3. \/ ComparedLater(P, i, Named(Subject))
        \/ ComparedInTheCopy(P, i, Named(Subject))
        \/ ComparedAsHeld(P, i, Named(Subject))
    BY <2>1, <2>2 DEF LoadsAreCompared, LoadedAt
  <2>4. CASE ComparedLater(P, i, Named(Subject))
    <3>1. PICK j \in i + 1..n : /\ P[j].op = "expect" /\ P[j].place = "root"
                                /\ P[j].versions \subseteq Named(Subject)
      BY <2>4 DEF ComparedLater
    <3>2. CASE calm
      <4>1. CalmFiles(P)
        BY <1>1 DEF History
      <4>2. j \in 1..n
        BY <1>1, <2>2
      <4>3. version \in P[j].versions
        BY <1>1, <1>3, <3>1, <3>2, <4>1, <4>2 DEF CalmFiles, Known
      <4>4. QED
        BY <3>1, <4>3
    <3>3. CASE edits <= 1 /\ version # "pinned"
      <4>1. version \in P[j].versions
        BY <1>1, <2>2, <3>1, <3>3 DEF LoadedAt
      <4>2. QED
        BY <3>1, <4>1
    <3>4. QED
      BY <1>2, <3>2, <3>3 DEF Watched
  <2>5. CASE ComparedInTheCopy(P, i, Named(Subject))
    <3>1. PICK j \in 1..n :
            /\ P[j].op = "expect" /\ P[j].place = "copy"
            /\ P[j].versions \subseteq Named(Subject)
            /\ Without(P, {"copy"}, i, j) /\ Without(P, {"copy"}, j, i)
      BY <2>5 DEF ComparedInTheCopy
    <3>2. P[i].place = "copy"
      BY <2>5 DEF ComparedInTheCopy
    <3>3. version \in P[j].versions
      BY <1>1, <2>2, <3>1, <3>2 DEF LoadedAt
    <3>4. QED
      BY <3>1, <3>3
  <2>6. CASE ComparedAsHeld(P, i, Named(Subject))
    <3>1. PICK j \in i + 1..n :
            /\ P[j].op = "held" /\ P[j].versions \subseteq Named(Subject)
            /\ Without(P, {"use", "glance"}, i + 1, j - 1)
      BY <2>6 DEF ComparedAsHeld
    <3>2. version \in P[j].versions
      BY <1>1, <2>2, <3>1 DEF LoadedAt
    <3>3. QED
      BY <3>1, <3>2
  <2>7. QED
    BY <2>3, <2>4, <2>5, <2>6
<1>6. QED
  BY <1>4, <1>5

LEMMA FactsAreReviewedInv ==
  ASSUME PipelineIsTyped, GeneratorInv
  PROVE  FactsAreReviewed
<1> SUFFICES ASSUME Finished, <<Running, Subject>> \notin UnpinnedFacts
             PROVE  seen["primary"] \cup seen["relocated"] \subseteq {"pinned"}
  BY DEF FactsAreReviewed
<1> DEFINE P == Script
           n == Len(P)
<1>1. History(P) /\ pc - 1 = n /\ n \in Nat /\ Running \in Generators /\ Subject \in Units
  BY FinishedHistory
<1>2. FactsAreCompared(P)
  BY <1>1, FactsAssumption DEF Script, Program
<1>3. ASSUME NEW b \in seen["primary"]
      PROVE  b = "pinned"
  <2>1. PICK i \in 1..n : ObservedAt(P, i, b)
    BY <1>1, <1>3 DEF History, EveryFactWasObserved
  <2>2. P[i].op = "observe" /\ P[i].slot = "primary"
    BY <2>1 DEF ObservedAt
  <2>3. \/ \E j \in i + 1..n : P[j].op = "facts" /\ P[j].behaviours \subseteq {"pinned"}
        \/ \E j \in 1..i - 1 : /\ P[j].op = "held" /\ P[j].versions \subseteq {"pinned"}
                               /\ Without(P, Replacing, j + 1, i - 1)
    BY <1>2, <2>2 DEF FactsAreCompared, Replacing
  <2>4. CASE \E j \in i + 1..n : P[j].op = "facts" /\ P[j].behaviours \subseteq {"pinned"}
    BY <1>1, <2>1, <2>4 DEF ObservedAt
  <2>5. CASE \E j \in 1..i - 1 : /\ P[j].op = "held" /\ P[j].versions \subseteq {"pinned"}
                                 /\ Without(P, Replacing, j + 1, i - 1)
    <3>1. PICK j \in 1..i - 1 : /\ P[j].op = "held" /\ P[j].versions \subseteq {"pinned"}
                                /\ Without(P, Replacing, j + 1, i - 1)
      BY <2>5
    <3>2. b = "pinned" \/ \E version \in P[j].versions : b = Behaviour(version)
      BY <2>1, <3>1 DEF ObservedAt
    <3>3. \A version \in P[j].versions : version = "pinned"
      BY <3>1
    <3>4. QED
      BY <3>2, <3>3 DEF Behaviour
  <2>6. QED
    BY <2>3, <2>4, <2>5
<1>4. ASSUME NEW b \in seen["relocated"]
      PROVE  b = "pinned"
  <2>1. PICK i \in 1..n : RelocatedAt(P, i, b)
    BY <1>1, <1>4 DEF History, EveryFactWasObserved
  <2>2. P[i].op = "observe" /\ P[i].slot = "relocated"
    BY <2>1 DEF RelocatedAt
  <2>3. PICK j \in i + 1..n : P[j].op = "alike"
    BY <1>2, <2>2 DEF FactsAreCompared
  <2>4. b \in seen["primary"]
    BY <1>1, <2>1, <2>3 DEF RelocatedAt
  <2>5. QED
    BY <1>3, <2>4
<1>5. QED
  BY <1>3, <1>4

LEMMA FinishedIsDone ==
  ASSUME PipelineIsTyped, GeneratorInv, Finished
  PROVE  IsDone(Running)
<1> DEFINE P == Script
           n == Len(P)
<1>1. /\ History(P) /\ pc - 1 = n /\ n \in Nat /\ IsProgram(P) /\ IsFilled(P)
      /\ Running \in Items /\ Running \in Generators
  BY FinishedHistory
<1>2. IsWritten(Running)
  <2>1. IsFilledSo(P)
    BY <1>1 DEF IsFilled, IsFilledSo
  <2>2. QED
    BY <1>1, <2>1 DEF History, OracleIsWritten
<1>3. ASSUME NEW other \in FixturesOf(Running)
      PROVE  baseline.files[other] = "reviewed"
  <2>1. other \in FixturesIn(P) /\ other \in Items
    BY <1>3 DEF FixturesOf, Script
  <2>2. PICK j \in DOMAIN P : P[j].op = "fixture" /\ P[j].of = other
    BY <2>1 DEF FixturesIn, Range
  <2>3. j \in 1..n
    BY <1>1 DEF IsProgram
  <2>4. QED
    BY <1>1, <2>1, <2>2, <2>3 DEF History, FixturesWereReviewed
<1>4. ASSUME calm
      PROVE  ~Refuses(P, file)
  <2>1. ASSUME NEW j \in 1..n, P[j].op = "expect", P[j].place = "root"
        PROVE  file \in P[j].versions
    BY <1>1, <1>4, <2>1 DEF History, CalmFiles
  <2>2. ASSUME NEW j \in 1..n, NEW i \in 1..j - 1, P[j].op = "held",
               P[i].op \in Loading, P[i].place = "root",
               Without(P, {"use", "glance"}, i + 1, j - 1)
        PROVE  file \in P[j].versions
    <3>1. i \in 1..pc - 1 /\ j \in i + 1..pc - 1
      BY <1>1, <2>2
    <3>2. CalmLoads(P)
      BY <1>1 DEF History
    <3>3. LoadedAt(P, i, file)
      BY <1>4, <2>2, <3>1, <3>2 DEF CalmLoads
    <3>4. QED
      BY <2>2, <3>1, <3>3 DEF LoadedAt
  <2>3. QED
    BY <2>1, <2>2 DEF Refuses
<1>5. ASSUME IsPinnedByFacts(Running)
      PROVE  output.files[Running] = "reviewed"
  <2>1. IsFilledSo(P)
    BY <1>1 DEF IsFilled, IsFilledSo
  <2>2. seen["primary"] \subseteq {"pinned"}
    BY <1>5, FactsAreReviewedInv DEF FactsAreReviewed, IsPinnedByFacts
  <2>3. Subject # Running
    BY <1>1, <1>5, InstalledAssumption DEF IsPinnedByFacts
  <2>4. QED
    BY <1>1, <2>1, <2>2, <2>3 DEF History, DifferenceIsSeen
<1>6. QED
  BY <1>2, <1>3, <1>4, <1>5 DEF IsDone, Script

(***************************************************************************)
(* The generators that have finished.                                       *)
(***************************************************************************)
LEMMA DoneStays ==
  ASSUME asked' = asked, baseline' = baseline, calm' => calm /\ file' = file,
         NEW generator, output'.files[generator] = output.files[generator],
         IsDone(generator)
  PROVE  IsDone(generator)'
<1>1. /\ Program(generator)' = Program(generator) /\ Subject' = Subject
      /\ FixturesOf(generator)' = FixturesOf(generator)
  BY DEF Program, Subject, FixturesOf, Items, Order
<1>2. CannotDiffer(generator)' => CannotDiffer(generator)
  BY <1>1 DEF CannotDiffer
<1>3. IsWritten(generator)'
  BY <1>2 DEF IsDone, IsWritten
<1>4. \A other \in FixturesOf(generator)' : baseline'.files[other] = "reviewed"
  BY <1>1 DEF IsDone
<1>5. calm' => ~Refuses(Program(generator), file)'
  BY <1>1 DEF IsDone, Refuses
<1>6. IsPinnedByFacts(generator)' => output'.files[generator] = "reviewed"
  BY <1>1 DEF IsDone, IsPinnedByFacts
<1>7. QED
  BY <1>3, <1>4, <1>5, <1>6 DEF IsDone

\* No generator runs twice, and the one that writes the manifest runs last.
LEMMA OrderIsAsAssumed ==
  ASSUME PipelineIsTyped
  PROVE  /\ Order \in Seq(Generators) /\ Len(Order) \in Nat /\ DOMAIN Order = 1..Len(Order)
         /\ Len(Order) # 0
         /\ \A i, j \in 1..Len(Order) : Order[i] = Order[j] => i = j
         /\ \A i \in 1..Len(Order) - 1 : Order[i] # "reference"
         /\ Items \subseteq Generators /\ Items = Range(Order) /\ Subject \in Units
         /\ "update" \in Range(asked.purposes) =>
              \A g \in Items : FixturesIn(Program(g)) \subseteq Items
<1>1. asked \in Plans
  BY DEF PipelineIsTyped
<1>2. asked.order \in Seq(Generators) /\ asked.order # <<>>
  BY <1>1, PlansAssumption
<1>3. /\ \A i, j \in DOMAIN asked.order : asked.order[i] = asked.order[j] => i = j
      /\ \A i \in 1..Len(asked.order) - 1 : asked.order[i] # "reference"
      /\ asked.subject \in Units
      /\ "update" \in Range(asked.purposes) =>
           \A g \in Range(asked.order) :
             FixturesIn(ProgramOn(g, asked.subject)) \subseteq Range(asked.order)
  BY <1>1, PlansAssumption
<1>4. Items = Range(Order)
  BY DEF Items, Range
<1>5. /\ Order \in Seq(Generators) /\ Len(Order) \in Nat /\ DOMAIN Order = 1..Len(Order)
      /\ Len(Order) # 0
  BY <1>2 DEF Order
<1>6. Items \subseteq Generators
  BY <1>5 DEF Items
<1>7. QED
  BY <1>3, <1>4, <1>5, <1>6 DEF Order, Subject, Program

LEMMA AdvanceKeepsTheCommand ==
  ASSUME PipelineIsTyped, CommandInv, Advances(Script)
  PROVE  CommandInv'
<1>1. /\ phase = "generating" /\ phase' = "generating"
      /\ asked' = asked /\ at' = at /\ calm' = calm /\ file' = file /\ baseline' = baseline
  BY DEF Advances
<1>2. /\ at \in 1..Len(Order) /\ output.files = [item \in Items |-> output.files[item]]
  BY <1>1 DEF PipelineIsTyped
<1>3. Order' = Order /\ Subject' = Subject /\ Running = Order[at]
  BY <1>1 DEF Order, Subject, Running
<1>4. ASSUME NEW i \in 1..at - 1
      PROVE  IsDone(Order[i])'
  <2>1. PICK g : g = Order[i]
    OBVIOUS
  <2>2. g # Running /\ g \in Items
    BY <1>2, <1>3, <2>1, OrderIsAsAssumed DEF Items
  <2>3. output'.files[g] = output.files[g]
    <3>1. \/ output' = output
          \/ \E content, manifest :
               output' = Directory([output.files EXCEPT ![Running] = content], manifest)
      BY DEF Advances
    <3>2. CASE \E content, manifest :
                 output' = Directory([output.files EXCEPT ![Running] = content], manifest)
      <4>1. PICK content, manifest :
              output' = Directory([output.files EXCEPT ![Running] = content], manifest)
        BY <3>2
      <4>2. output'.files = [output.files EXCEPT ![Running] = content]
        BY <4>1 DEF Directory
      <4>3. QED
        BY <1>2, <2>2, <4>2
    <3>3. QED
      BY <3>1, <3>2
  <2>4. IsDone(g)
    BY <1>1, <2>1 DEF CommandInv
  <2>5. IsDone(g)'
    BY <1>1, <2>3, <2>4, DoneStays
  <2>6. QED
    BY <1>3, <2>1, <2>5 DEF IsDone, IsWritten, CannotDiffer, IsPinnedByFacts
<1>5. QED
  BY <1>1, <1>3, <1>4 DEF CommandInv

\* When the last one has finished the output is whole and consistent.
LEMMA GeneratedOutput ==
  ASSUME PipelineIsTyped, GeneratorInv, CommandInv, Generated
  PROVE  /\ \A item \in Items : IsDone(item)
         /\ \A item \in Items : output.files[item] \notin {"absent", "torn"}
         /\ "reference" \in Items => output.manifest = Listing(output.files)
         /\ purpose = "update" => OutputHoldsTogether
<1>1. /\ phase = "generating" /\ at = Len(Order) /\ Finished
  BY DEF Generated, Finished
<1>2. ASSUME NEW item \in Items
      PROVE  IsDone(item)
  <2>1. PICK i \in 1..Len(Order) : item = Order[i]
    BY OrderIsAsAssumed DEF Items
  <2>2. CASE i = at
    BY <1>1, <2>1, <2>2, FinishedIsDone DEF Running
  <2>3. CASE i # at
    BY <1>1, <2>1, <2>3, OrderIsAsAssumed DEF CommandInv
  <2>4. QED
    BY <2>2, <2>3
<1>3. \A item \in Items : output.files[item] \notin {"absent", "torn"}
  BY <1>2 DEF IsDone, IsWritten
<1>4. ASSUME "reference" \in Items
      PROVE  output.manifest = Listing(output.files)
  <2>1. PICK i \in 1..Len(Order) : "reference" = Order[i]
    BY <1>4, OrderIsAsAssumed DEF Items
  <2>2. i = at
    BY <1>1, <2>1, OrderIsAsAssumed
  <2>3. Running = "reference"
    BY <2>1, <2>2 DEF Running
  <2>4. History(Script) /\ pc - 1 = Len(Script) /\ IsFilled(Script)
    BY <1>1, FinishedHistory
  <2>5. \E j \in 1..pc - 1 : Script[j].op = "fill"
    BY <2>4 DEF IsFilled
  <2>6. QED
    BY <2>3, <2>4, <2>5 DEF History, OracleIsWritten
<1>5. ASSUME purpose = "update", calm, NEW item \in Items, NEW other \in FixturesOf(item)
      PROVE  output.files[other] = "reviewed" \/ LeftBehind(item, other)
  <2>1. other \in FixturesIn(Program(item)) /\ other \in Items
    BY <1>5 DEF FixturesOf
  <2>2. FixturesIn(Program(item)) \subseteq Items
    BY <1>5, OrderIsAsAssumed DEF PipelineIsTyped
  <2>3. item \in Generators /\ Subject \in Units /\ file \in VersionsOf(Subject)
    BY <1>5, OrderIsAsAssumed DEF PipelineIsTyped
  <2>4. IsWritten(other)
    BY <1>2, <2>1 DEF IsDone
  <2>5. CASE Behaviour(file) = "pinned"
    BY <1>5, <2>4, <2>5 DEF IsWritten, CannotDiffer
  <2>6. CASE Subject \in Guarded \ Installed
    <3>1. file = "pinned"
      BY <1>1, <1>5, <2>6 DEF CommandInv
    <3>2. QED
      BY <2>5, <3>1 DEF Behaviour
  <2>7. CASE Behaviour(file) # "pinned" /\ Subject \notin Guarded
    <3>1. \/ Subject # other /\ IsSilent(Program(other))
          \/ Subject = other /\ <<item, other>> \in NamedByOracleOnly
          \/ \E h \in FixturesIn(Program(item)) \cup {item} : Refuses(Program(h), file)
      BY <2>1, <2>3, <2>7, FixturesAssumption DEF Program
    <3>2. CASE Subject # other /\ IsSilent(Program(other))
      BY <1>5, <2>4, <3>2 DEF IsWritten, CannotDiffer
    <3>3. CASE Subject = other /\ <<item, other>> \in NamedByOracleOnly
      BY <1>5, <3>3 DEF LeftBehind
    <3>4. CASE \E h \in FixturesIn(Program(item)) \cup {item} : Refuses(Program(h), file)
      <4>1. PICK h \in Items : Refuses(Program(h), file)
        BY <2>2, <3>4
      <4>2. IsDone(h)
        BY <1>2
      <4>3. QED
        BY <1>5, <4>1, <4>2 DEF IsDone
    <3>5. QED
      BY <3>1, <3>2, <3>3, <3>4
  <2>8. CASE Subject \in Installed
    <3>1. IsDone(other)
      BY <1>2, <2>1
    <3>2. QED
      BY <1>5, <2>8, <3>1 DEF IsDone, IsPinnedByFacts, LeftBehind
  <2>9. QED
    BY <2>5, <2>6, <2>7, <2>8
<1>6. QED
  BY <1>2, <1>3, <1>4, <1>5 DEF OutputHoldsTogether

(***************************************************************************)
(* The steps of the script and of the developer.                            *)
(***************************************************************************)
\* A command that ends, however it does.
LEMMA CommandEnds ==
  ASSUME PipelineIsTyped, NEW result, Ends(result), asked' = asked,
         file' = file, edits' = edits, output' = output,
         baseline' = baseline
  PROVE  PipelineIsTyped' /\ GeneratorInv' /\ CommandInv' /\ UpdateInv'
         /\ phase' = "idle" /\ outcome' = result /\ calm' = calm /\ purpose' = purpose
<1>1. /\ phase' = "idle" /\ outcome' = result /\ UNCHANGED <<todo, purpose, calm>>
      /\ seen' = [slot \in Slots |-> {}]
  BY DEF Ends, FreshProcess, Slots
<1>2. seen' = [slot \in Slots |-> seen'[slot]]
  BY <1>1
<1>3. GeneratorInv' /\ CommandInv' /\ UpdateInv'
  BY <1>1 DEF GeneratorInv, CommandInv, UpdateInv
<1>4. PipelineIsTyped'
  BY <1>1, <1>2, TypedWhilePlanStays DEF PipelineIsTyped
<1>5. QED
  BY <1>1, <1>3, <1>4

\* What the baseline says is about the baseline, the plan and how the command ended.
LEMMA BaselineStays ==
  ASSUME BaselineHoldsTogether, asked' = asked, phase' = phase, outcome' = outcome,
         purpose' = purpose, calm' => calm, baseline' = baseline
  PROVE  BaselineHoldsTogether'
<1>1. /\ Items' = Items /\ Subject' = Subject
      /\ \A generator : FixturesOf(generator)' = FixturesOf(generator)
  BY DEF Items, Subject, FixturesOf, Program, Order
<1>2. QED
  BY <1>1 DEF BaselineHoldsTogether, Listing, LeftBehind

LEMMA BeginsStep ==
  ASSUME PipelineInv, Begins
  PROVE  PipelineInv'
<1>1. /\ phase' = "generating" /\ outcome' = "none" /\ calm' = TRUE /\ asked' = asked
      /\ edits' = edits /\ baseline' = baseline /\ output' = Empty /\ at' = 1
      /\ purpose' = Head(todo) /\ todo' = Tail(todo) /\ todo # <<>>
      /\ pc' = 1 /\ used' = {} /\ held' = {} /\ seen' = [slot \in Slots |-> {}]
  BY DEF Begins, FreshProcess, Slots
<1>2. PipelineIsTyped
  BY DEF PipelineInv
<1>3. file' \in VersionsOf(Subject) /\ (edits' = 0 => file' = "pinned")
  BY <1>1, <1>2, PinnedIsAVersion DEF Begins, PipelineIsTyped
<1>4. Subject \in Guarded \ Installed => file' = "pinned"
  BY DEF Begins, AsReviewed
<1>5. todo' \in Seq(Range(asked.purposes)) /\ purpose' \in Range(asked.purposes)
  BY <1>1, <1>2 DEF PipelineIsTyped
<1>6. Order' = Order /\ Subject' = Subject /\ Items' = Items
  BY <1>1 DEF Order, Subject, Items
<1>7. 1 \in 1..Len(Order)
  BY <1>2, OrderIsAsAssumed
<1>8. Len(Script') \in Nat
  <2>1. Order[1] \in Generators /\ Subject \in Units
    BY <1>2, <1>7, OrderIsAsAssumed
  <2>2. Script' = ProgramOn(Order[1], Subject)
    BY <1>1, <1>6 DEF Script, Program, Running
  <2>3. QED
    BY <2>1, <2>2, ProgramsAssumption DEF IsProgram
<1>9. /\ output' = Directory(output'.files, output'.manifest)
      /\ output'.files = [item \in Items |-> output'.files[item]]
  BY <1>1 DEF Empty, Directory, NoFiles
<1>10. seen' = [slot \in Slots |-> seen'[slot]]
  BY <1>1
<1>11. PipelineIsTyped'
  BY <1>1, <1>2, <1>3, <1>5, <1>7, <1>8, <1>9, <1>10, TypedWhilePlanStays DEF PipelineIsTyped
<1>12. GeneratorInv'
  BY <1>1, HistoryBegins DEF Slots
<1>13. CommandInv' /\ UpdateInv' /\ BaselineHoldsTogether'
  BY <1>1, <1>4, <1>6 DEF CommandInv, UpdateInv, BaselineHoldsTogether
<1>14. QED
  BY <1>11, <1>12, <1>13 DEF PipelineInv

LEMMA IsRefusedStep ==
  ASSUME PipelineInv, IsRefused
  PROVE  PipelineInv'
<1>1. /\ phase = "idle" /\ phase' = "idle" /\ outcome' = "failed" /\ todo # <<>>
      /\ purpose' = Head(todo) /\ todo' = Tail(todo)
      /\ UNCHANGED <<asked, file, edits, calm, at, pc, seen, output, baseline>>
  BY DEF IsRefused, developer, process
<1>2. PipelineIsTyped
  BY DEF PipelineInv
<1>3. todo' \in Seq(Range(asked.purposes)) /\ purpose' \in Range(asked.purposes)
  BY <1>1, <1>2 DEF PipelineIsTyped
<1>4. PipelineIsTyped'
  BY <1>1, <1>2, <1>3, TypedWhilePlanStays DEF PipelineIsTyped
<1>5. GeneratorInv' /\ CommandInv' /\ UpdateInv' /\ BaselineHoldsTogether'
  BY <1>1 DEF GeneratorInv, CommandInv, UpdateInv, BaselineHoldsTogether
<1>6. QED
  BY <1>4, <1>5 DEF PipelineInv

LEMMA AdvanceStep ==
  ASSUME PipelineInv, Loads \/ Glances \/ Copies \/ Observes \/ FindsAsPinned \/ Writes
  PROVE  PipelineInv'
<1>1. PipelineIsTyped /\ GeneratorInv /\ CommandInv
  BY DEF PipelineInv
<1>2. Advances(Script)
  BY <1>1, StepAdvances
<1>3. PipelineIsTyped' /\ GeneratorInv' /\ CommandInv'
  BY <1>1, <1>2, AdvanceKeepsTypes, HistoryStays, AdvanceKeepsTheCommand
<1>4. phase' = "generating"
  BY <1>2 DEF Advances
<1>5. UpdateInv' /\ BaselineHoldsTogether'
  BY <1>4 DEF UpdateInv, BaselineHoldsTogether
<1>6. QED
  BY <1>3, <1>5 DEF PipelineInv

\* A generator that finds drift, or a console that is closed, ends the command.
LEMMA FailsStep ==
  ASSUME PipelineInv, FindsDrift \/ IsKilled
  PROVE  PipelineInv'
<1>1. PICK result : /\ Ends(result) /\ result # "succeeded" /\ asked' = asked
                    /\ file' = file /\ edits' = edits
                    /\ output' = output /\ baseline' = baseline
  BY DEF FindsDrift, IsKilled, developer
<1>2. PipelineIsTyped' /\ GeneratorInv' /\ CommandInv' /\ UpdateInv' /\ outcome' = result
  BY <1>1, CommandEnds DEF PipelineInv
<1>3. BaselineHoldsTogether'
  BY <1>1, <1>2 DEF BaselineHoldsTogether
<1>4. QED
  BY <1>2, <1>3 DEF PipelineInv

LEMMA StartsTheNextStep ==
  ASSUME PipelineInv, StartsTheNext
  PROVE  PipelineInv'
<1>1. /\ phase = "generating" /\ phase' = "generating" /\ at' = at + 1 /\ at < Len(Order)
      /\ UNCHANGED <<asked, file, edits, todo, purpose, calm, output, baseline>>
      /\ Finished
      /\ pc' = 1 /\ used' = {} /\ held' = {} /\ seen' = [slot \in Slots |-> {}]
  BY DEF StartsTheNext, FreshProcess, Slots, Finished, developer, command
<1>2. PipelineIsTyped /\ GeneratorInv /\ CommandInv
  BY DEF PipelineInv
<1>3. at \in 1..Len(Order) /\ at' \in 1..Len(Order)
  BY <1>1, <1>2, OrderIsAsAssumed DEF PipelineIsTyped
<1>4. Order' = Order /\ Subject' = Subject
  BY <1>1 DEF Order, Subject
<1>5. Len(Script') \in Nat
  <2>1. Order[at'] \in Generators /\ Subject \in Units
    BY <1>2, <1>3, OrderIsAsAssumed
  <2>2. Script' = ProgramOn(Order[at'], Subject)
    BY <1>4 DEF Script, Program, Running
  <2>3. QED
    BY <2>1, <2>2, ProgramsAssumption DEF IsProgram
<1>6. seen' = [slot \in Slots |-> seen'[slot]]
  BY <1>1
<1>7. PipelineIsTyped'
  BY <1>1, <1>2, <1>3, <1>5, <1>6, TypedWhilePlanStays DEF PipelineIsTyped
<1>8. GeneratorInv'
  BY <1>1, HistoryBegins DEF Slots
<1>9. ASSUME NEW i \in 1..at
      PROVE  IsDone(Order[i])'
  <2>1. PICK g : g = Order[i]
    OBVIOUS
  <2>2. IsDone(g)
    BY <1>1, <1>2, <1>3, <2>1, FinishedIsDone DEF CommandInv, Running
  <2>3. IsDone(g)'
    BY <1>1, <2>2, DoneStays
  <2>4. QED
    BY <1>4, <2>1, <2>3 DEF IsDone, IsWritten, CannotDiffer, IsPinnedByFacts
<1>10. CommandInv'
  BY <1>1, <1>2, <1>3, <1>4, <1>9 DEF CommandInv
<1>11. UpdateInv' /\ BaselineHoldsTogether'
  BY <1>1 DEF UpdateInv, BaselineHoldsTogether
<1>12. QED
  BY <1>7, <1>8, <1>10, <1>11 DEF PipelineInv

LEMMA LeavesTheOutputStep ==
  ASSUME PipelineInv, LeavesTheOutput
  PROVE  PipelineInv'
<1>1. /\ Ends("succeeded") /\ purpose = "generate" /\ asked' = asked
      /\ file' = file /\ edits' = edits
      /\ output' = output /\ baseline' = baseline
  BY DEF LeavesTheOutput, developer
<1>2. PipelineIsTyped' /\ GeneratorInv' /\ CommandInv' /\ UpdateInv' /\ purpose' = purpose
  BY <1>1, CommandEnds DEF PipelineInv
<1>3. BaselineHoldsTogether'
  BY <1>1, <1>2 DEF BaselineHoldsTogether
<1>4. QED
  BY <1>2, <1>3 DEF PipelineInv

LEMMA ComparesWithBaselineStep ==
  ASSUME PipelineInv, ComparesWithBaseline
  PROVE  PipelineInv'
<1>1. PICK result : /\ Ends(result) /\ (result = "succeeded" => output = baseline)
                    /\ Generated /\ asked' = asked /\ file' = file /\ edits' = edits
                    /\ output' = output /\ baseline' = baseline
  BY DEF ComparesWithBaseline, developer
<1>2. PipelineIsTyped' /\ GeneratorInv' /\ CommandInv' /\ UpdateInv' /\ outcome' = result
  BY <1>1, CommandEnds DEF PipelineInv
<1>3. /\ \A item \in Items : IsDone(item)
      /\ \A item \in Items : output.files[item] \notin {"absent", "torn"}
      /\ "reference" \in Items => output.manifest = Listing(output.files)
  BY <1>1, GeneratedOutput DEF PipelineInv
<1>4. /\ Items' = Items
      /\ \A generator : FixturesOf(generator)' = FixturesOf(generator)
  BY <1>1 DEF Items, FixturesOf, Program, Order, Subject
<1>5. BaselineHoldsTogether'
  BY <1>1, <1>2, <1>3, <1>4 DEF BaselineHoldsTogether, IsDone, Listing
<1>6. QED
  BY <1>2, <1>5 DEF PipelineInv

\* The output is what it was when the last generator finished.
LEMMA OutputStays ==
  ASSUME OutputHoldsTogether, asked' = asked, output' = output, calm' => calm,
         purpose' = purpose
  PROVE  OutputHoldsTogether'
<1>1. /\ Items' = Items /\ Subject' = Subject
      /\ \A generator : FixturesOf(generator)' = FixturesOf(generator)
  BY DEF Items, Subject, FixturesOf, Program, Order
<1>2. QED
  BY <1>1 DEF OutputHoldsTogether, Listing, LeftBehind

LEMMA UpdatesTheBaselineStep ==
  ASSUME PipelineInv, UpdatesTheBaseline
  PROVE  PipelineInv'
<1>1. /\ Generated /\ purpose = "update" /\ phase = "generating" /\ phase' = "clearing"
      /\ UNCHANGED <<asked, file, edits, todo, purpose, outcome, calm, output, baseline>>
      /\ seen' = [slot \in Slots |-> {}]
  BY DEF UpdatesTheBaseline, Generated, Finished, FreshProcess, Slots, developer
<1>2. PipelineIsTyped
  BY DEF PipelineInv
<1>3. seen' = [slot \in Slots |-> seen'[slot]]
  BY <1>1
<1>4. PipelineIsTyped'
  BY <1>1, <1>2, <1>3, TypedWhilePlanStays DEF PipelineIsTyped
<1>5. OutputHoldsTogether'
  BY <1>1, GeneratedOutput, OutputStays DEF PipelineInv
<1>6. Subject' = Subject
  BY <1>1 DEF Subject
<1>7. GeneratorInv' /\ CommandInv' /\ UpdateInv' /\ BaselineHoldsTogether'
  BY <1>1, <1>5, <1>6
     DEF PipelineInv, GeneratorInv, CommandInv, UpdateInv, BaselineHoldsTogether
<1>8. QED
  BY <1>4, <1>7 DEF PipelineInv

\* A file of the baseline is placed.
LEMMA PlacedFile ==
  ASSUME PipelineIsTyped, NEW name \in Items, NEW content, baseline' = Placed(name, content)
  PROVE  /\ baseline' = Directory(baseline'.files, baseline'.manifest)
         /\ baseline'.files = [item \in Items |-> baseline'.files[item]]
         /\ \A item \in Items :
              baseline'.files[item] = IF item = name THEN content ELSE baseline.files[item]
         /\ name # "reference" => baseline'.manifest = baseline.manifest
         /\ name = "reference" /\ content \notin {"absent", "torn"} =>
              baseline'.manifest = output.manifest
<1>1. baseline.files = [item \in Items |-> baseline.files[item]]
  BY DEF PipelineIsTyped
<1>2. baseline'.files = [baseline.files EXCEPT ![name] = content]
  BY DEF Placed, Directory
<1>3. baseline' = Directory(baseline'.files, baseline'.manifest)
  BY DEF Placed, Directory
<1>4. /\ name # "reference" => baseline'.manifest = baseline.manifest
      /\ name = "reference" /\ content \notin {"absent", "torn"} =>
           baseline'.manifest = output.manifest
  BY DEF Placed, Directory
<1>5. /\ baseline'.files = [item \in Items |-> baseline'.files[item]]
      /\ \A item \in Items :
           baseline'.files[item] = IF item = name THEN content ELSE baseline.files[item]
  BY <1>1, <1>2
<1>6. QED
  BY <1>3, <1>4, <1>5

\* The steps between the removal of the first file and the placing of the last.
LEMMA UpdateGoesOn ==
  ASSUME PipelineInv, phase \in {"clearing", "copying"}, phase' \in {"clearing", "copying"},
         UNCHANGED <<asked, file, edits, todo, purpose, calm, seen, output>>,
         baseline' = Directory(baseline'.files, baseline'.manifest),
         baseline'.files = [item \in Items |-> baseline'.files[item]],
         phase' = "copying" =>
           /\ \A item \in Items :
                baseline'.files[item] \in {"absent", "torn", output.files[item]}
           /\ "reference" \in Items /\ baseline'.files["reference"] \notin {"absent", "torn"} =>
                baseline'.manifest = output.manifest
  PROVE  PipelineInv'
<1>1. PipelineIsTyped /\ OutputHoldsTogether /\ purpose = "update"
  BY DEF PipelineInv, UpdateInv
<1>2. PipelineIsTyped'
  BY <1>1, TypedWhilePlanStays DEF PipelineIsTyped
<1>3. OutputHoldsTogether'
  BY <1>1, OutputStays
<1>4. Items' = Items /\ Subject' = Subject
  BY DEF Items, Order, Subject
<1>5. CommandInv'
  BY <1>4 DEF PipelineInv, CommandInv
<1>6. UpdateInv'
  BY <1>1, <1>3, <1>4 DEF UpdateInv
<1>7. GeneratorInv' /\ BaselineHoldsTogether'
  BY DEF GeneratorInv, BaselineHoldsTogether
<1>8. QED
  BY <1>2, <1>5, <1>6, <1>7 DEF PipelineInv

LEMMA RemovesSupersededStep ==
  ASSUME PipelineInv, RemovesSuperseded
  PROVE  PipelineInv'
<1>1. PICK item \in Items : baseline' = Placed(item, "absent")
  BY DEF RemovesSuperseded
<1>2. /\ phase = "clearing" /\ phase' = "clearing"
      /\ UNCHANGED <<asked, file, edits, todo, purpose, calm, seen, output>>
  BY DEF RemovesSuperseded, developer, command, process
<1>3. /\ baseline' = Directory(baseline'.files, baseline'.manifest)
      /\ baseline'.files = [f \in Items |-> baseline'.files[f]]
  BY <1>1, PlacedFile DEF PipelineInv
<1>4. QED
  BY <1>2, <1>3, UpdateGoesOn

LEMMA StartsToCopyStep ==
  ASSUME PipelineInv, StartsToCopy
  PROVE  PipelineInv'
<1>1. /\ phase = "clearing" /\ phase' = "copying" /\ baseline.files = NoFiles
      /\ UNCHANGED <<asked, file, edits, todo, purpose, calm, seen, output, baseline>>
  BY DEF StartsToCopy, developer, process
<1>2. \A item \in Items : baseline'.files[item] = "absent"
  BY <1>1 DEF NoFiles
<1>3. /\ baseline' = Directory(baseline'.files, baseline'.manifest)
      /\ baseline'.files = [f \in Items |-> baseline'.files[f]]
  BY <1>1 DEF PipelineInv, PipelineIsTyped
<1>4. QED
  BY <1>1, <1>2, <1>3, UpdateGoesOn

LEMMA CopiesOneItemStep ==
  ASSUME PipelineInv, CopiesOneItem
  PROVE  PipelineInv'
<1>0. PICK item \in Items :
        \E content \in {"torn", output.files[item]} : baseline' = Placed(item, content)
  BY DEF CopiesOneItem
<1>1. PICK content \in {"torn", output.files[item]} : baseline' = Placed(item, content)
  BY <1>0
<1>2. /\ phase = "copying" /\ phase' = "copying"
      /\ UNCHANGED <<asked, file, edits, todo, purpose, calm, seen, output>>
  BY DEF CopiesOneItem, developer, command, process
<1>3. /\ \A f \in Items : baseline.files[f] \in {"absent", "torn", output.files[f]}
      /\ "reference" \in Items /\ baseline.files["reference"] \notin {"absent", "torn"} =>
           baseline.manifest = output.manifest
  BY <1>2 DEF PipelineInv, UpdateInv
<1>4. /\ baseline' = Directory(baseline'.files, baseline'.manifest)
      /\ baseline'.files = [f \in Items |-> baseline'.files[f]]
      /\ \A f \in Items :
           baseline'.files[f] = IF f = item THEN content ELSE baseline.files[f]
      /\ item # "reference" => baseline'.manifest = baseline.manifest
      /\ item = "reference" /\ content \notin {"absent", "torn"} =>
           baseline'.manifest = output.manifest
  BY <1>1, PlacedFile DEF PipelineInv
<1>5. /\ \A f \in Items : baseline'.files[f] \in {"absent", "torn", output.files[f]}
      /\ "reference" \in Items /\ baseline'.files["reference"] \notin {"absent", "torn"} =>
           baseline'.manifest = output.manifest
  BY <1>1, <1>3, <1>4
<1>6. QED
  BY <1>2, <1>4, <1>5, UpdateGoesOn

LEMMA HasUpdatedStep ==
  ASSUME PipelineInv, HasUpdated
  PROVE  PipelineInv'
<1>1. /\ phase = "copying" /\ Ends("succeeded") /\ asked' = asked /\ file' = file
      /\ edits' = edits /\ output' = output /\ baseline' = baseline
      /\ \A item \in Items : baseline.files[item] \notin {"absent", "torn"}
  BY DEF HasUpdated, developer
<1>2. PipelineIsTyped' /\ GeneratorInv' /\ CommandInv' /\ UpdateInv'
      /\ purpose' = purpose /\ calm' = calm
  BY <1>1, CommandEnds DEF PipelineInv
<1>3. OutputHoldsTogether
  BY <1>1 DEF PipelineInv, UpdateInv
<1>4. /\ \A item \in Items : baseline.files[item] = output.files[item]
      /\ "reference" \in Items => baseline.manifest = output.manifest
  BY <1>1 DEF PipelineInv, UpdateInv
<1>5. "reference" \in Items => baseline.manifest = Listing(baseline.files)
  BY <1>3, <1>4 DEF OutputHoldsTogether, Listing
<1>6. calm => \A item \in Items : \A other \in FixturesOf(item) :
                baseline.files[other] = "reviewed" \/ LeftBehind(item, other)
  BY <1>3, <1>4 DEF OutputHoldsTogether, FixturesOf
<1>7. /\ Items' = Items /\ Subject' = Subject
      /\ \A generator : FixturesOf(generator)' = FixturesOf(generator)
  BY <1>1 DEF Items, FixturesOf, Program, Order, Subject
<1>8. purpose = "update"
  BY <1>1 DEF PipelineInv, UpdateInv
<1>9. BaselineHoldsTogether'
  BY <1>1, <1>2, <1>5, <1>6, <1>7, <1>8 DEF BaselineHoldsTogether, Listing, LeftBehind
<1>10. QED
  BY <1>2, <1>9 DEF PipelineInv

LEMMA EditsStep ==
  ASSUME PipelineInv, Edits
  PROVE  PipelineInv'
<1>1. /\ UNCHANGED <<asked, todo, purpose, phase, outcome, at, pc, seen, output, baseline>>
      /\ file' \in VersionsOf(Subject) /\ edits' = edits + 1 /\ calm' = FALSE
      /\ phase \in {"idle", "generating"}
  BY DEF Edits, process, ReadNext, Stepping
<1>2. PipelineIsTyped /\ GeneratorInv
  BY DEF PipelineInv
<1>3. edits' \in Nat /\ edits' # 0
  BY <1>1, <1>2 DEF PipelineIsTyped
<1>4. Script' = Script /\ Order' = Order
  BY <1>1 DEF Script, Program, Running, Subject, Order
<1>5. PipelineIsTyped'
  BY <1>1, <1>2, <1>3, <1>4, TypedWhilePlanStays DEF PipelineIsTyped
<1>6. GeneratorInv'
  BY <1>2, HistorySurvivesEdits
<1>7. ASSUME phase = "generating", NEW i \in 1..at - 1
      PROVE  IsDone(Order[i])'
  <2>1. PICK g : g = Order[i]
    OBVIOUS
  <2>2. IsDone(g)
    BY <1>7, <2>1 DEF PipelineInv, CommandInv
  <2>3. IsDone(g)'
    BY <1>1, <2>2, DoneStays
  <2>4. QED
    BY <1>4, <2>1, <2>3 DEF IsDone, IsWritten, CannotDiffer, IsPinnedByFacts
<1>8. CommandInv'
  BY <1>1, <1>4, <1>7 DEF CommandInv
<1>9. UpdateInv'
  BY <1>1 DEF UpdateInv
<1>10. BaselineHoldsTogether'
  BY <1>1, BaselineStays DEF PipelineInv
<1>11. QED
  BY <1>5, <1>6, <1>8, <1>9, <1>10 DEF PipelineInv

LEMMA RestoresBaselineStep ==
  ASSUME PipelineInv, RestoresBaseline
  PROVE  PipelineInv'
<1>1. /\ phase = "idle" /\ baseline' = Reviewed
      /\ UNCHANGED <<asked, file, edits, todo, purpose, phase, outcome, calm, at, pc, seen,
                     output>>
  BY DEF RestoresBaseline, developer, command, process
<1>2. /\ Items' = Items /\ \A generator : FixturesOf(generator)' = FixturesOf(generator)
  BY <1>1 DEF Items, Order, FixturesOf, Program, Subject
<1>3. /\ baseline'.files = [item \in Items |-> "reviewed"]
      /\ baseline'.manifest = Listing(baseline'.files)
      /\ baseline' = Directory(baseline'.files, baseline'.manifest)
  BY <1>1 DEF Reviewed, Directory
<1>4. baseline'.files = [item \in Items |-> baseline'.files[item]]
  BY <1>3
<1>5. PipelineIsTyped
  BY DEF PipelineInv
<1>6. PipelineIsTyped'
  BY <1>1, <1>3, <1>4, <1>5, TypedWhilePlanStays DEF PipelineIsTyped
<1>7. GeneratorInv' /\ CommandInv' /\ UpdateInv'
  BY <1>1 DEF GeneratorInv, CommandInv, UpdateInv
<1>8. \A item \in Items : \A other \in FixturesOf(item) : baseline'.files[other] = "reviewed"
  BY <1>3 DEF FixturesOf
<1>9. BaselineHoldsTogether'
  BY <1>2, <1>3, <1>8 DEF BaselineHoldsTogether, Listing
<1>10. QED
  BY <1>6, <1>7, <1>9 DEF PipelineInv

(***************************************************************************)
(* The invariant of the pipeline, and the three properties it gives.        *)
(***************************************************************************)
LEMMA PipelineInvStarts == ReferenceInit => PipelineInv
<1> SUFFICES ASSUME ReferenceInit
             PROVE  PipelineInv
  OBVIOUS
<1>1. phase = "idle" /\ outcome = "none"
  BY DEF ReferenceInit
<1>2. GeneratorInv /\ CommandInv /\ UpdateInv /\ BaselineHoldsTogether
  BY <1>1 DEF GeneratorInv, CommandInv, UpdateInv, BaselineHoldsTogether
<1>3. QED
  BY <1>2, PipelineStartsTyped DEF PipelineInv

LEMMA PipelineInvStays == PipelineInv /\ [ReferenceNext]_referenceVars => PipelineInv'
<1> SUFFICES ASSUME PipelineInv, [ReferenceNext]_referenceVars
             PROVE  PipelineInv'
  OBVIOUS
<1>1. CASE Begins
  BY <1>1, BeginsStep
<1>2. CASE IsRefused
  BY <1>2, IsRefusedStep
<1>3. CASE Loads \/ Glances \/ Copies \/ Observes \/ FindsAsPinned \/ Writes
  BY <1>3, AdvanceStep
<1>4. CASE FindsDrift \/ IsKilled
  BY <1>4, FailsStep
<1>5. CASE StartsTheNext
  BY <1>5, StartsTheNextStep
<1>6. CASE LeavesTheOutput \/ ComparesWithBaseline
  BY <1>6, LeavesTheOutputStep, ComparesWithBaselineStep
<1>7. CASE Updates
  BY <1>7, UpdatesTheBaselineStep, RemovesSupersededStep, StartsToCopyStep,
     CopiesOneItemStep, HasUpdatedStep DEF Updates
<1>8. CASE Edits
  BY <1>8, EditsStep
<1>9. CASE RestoresBaseline
  BY <1>9, RestoresBaselineStep
<1>10. CASE UNCHANGED referenceVars
  <2>1. UNCHANGED <<asked, file, edits, todo, purpose, phase, outcome, calm, at, pc, held,
                    used, copied, seen, output, baseline>>
    BY <1>10 DEF referenceVars, developer, command, process
  <2>2. /\ Items' = Items /\ Order' = Order /\ Subject' = Subject /\ Script' = Script
        /\ Running' = Running
        /\ \A generator : Program(generator)' = Program(generator)
        /\ \A generator : FixturesOf(generator)' = FixturesOf(generator)
    BY <2>1, ScriptStays DEF Order
  <2>3. PipelineIsTyped'
    BY <2>1, <2>2 DEF PipelineInv, PipelineIsTyped
  <2>4. GeneratorInv'
    <3>1. ASSUME NEW P, History(P)
          PROVE  History(P)'
      BY <2>1, <2>2, <3>1 DEF History, VersionsAreKnown, Known, EveryUseWasLoaded,
         LoadedAt, CalmLoads, CalmFiles, CopyIsCompared, HeldIsCompared,
         EveryFactWasObserved, ObservedAt, RelocatedAt, CalmFacts, OracleIsWritten,
         DifferenceIsSeen, IsFilledSo, IsWritten, CannotDiffer, Listing,
         FixturesWereReviewed
    <3>2. QED
      BY <2>1, <2>2, <3>1 DEF PipelineInv, GeneratorInv
  <2>5. CommandInv'
    <3>1. ASSUME NEW g, IsDone(g)
          PROVE  IsDone(g)'
      BY <2>1, <3>1, DoneStays
    <3>2. ASSUME phase = "generating", NEW i \in 1..at - 1
          PROVE  IsDone(Order[i])'
      <4>1. PICK g : g = Order[i]
        OBVIOUS
      <4>2. IsDone(g)'
        BY <3>1, <3>2, <4>1 DEF PipelineInv, CommandInv
      <4>3. QED
        BY <2>2, <4>1, <4>2 DEF IsDone, IsWritten, CannotDiffer, IsPinnedByFacts
    <3>3. QED
      BY <2>1, <2>2, <3>2 DEF PipelineInv, CommandInv
  <2>6. UpdateInv'
    BY <2>1, <2>2, OutputStays DEF PipelineInv, UpdateInv
  <2>7. BaselineHoldsTogether'
    BY <2>1, BaselineStays DEF PipelineInv
  <2>8. QED
    BY <2>3, <2>4, <2>5, <2>6, <2>7 DEF PipelineInv
<1>11. QED
  BY <1>1, <1>2, <1>3, <1>4, <1>5, <1>6, <1>7, <1>8, <1>9, <1>10
     DEF ReferenceNext, Generates

\* The invariant: what is known of every step of the generator that runs, of
\* every generator before it, of an update and of the baseline it leaves.
THEOREM PipelineHistory == ReferenceSpec => []PipelineInv
<1>1. QED
  BY PipelineInvStarts, PipelineInvStays, PTL DEF ReferenceSpec

\* For every plan, and however often commands are ended: the unit that an oracle
\* names by a pinned digest is the one that its generator ran.  If nobody edits
\* it after the command began, whatever it said then, this holds of every
\* generator and every unit it names; if the reviewed file is edited once, at
\* whatever moment, of all but the seventeen pairs of
\* CheckedOnlyBefore, whose unit the code compares before it loads it and never
\* again.  Of the packages and the interpreter it is the version they declare
\* that was named and ran.
THEOREM OraclesNameWhatRan == ReferenceSpec => []NamedBytesRan
<1>1. PipelineInv => NamedBytesRan
  BY NamedBytesRanInv DEF PipelineInv
<1>2. QED
  BY <1>1, PipelineHistory, PTL

\* For every plan and any number of edits while a generator runs: an oracle
\* whose facts are compared with pinned ones shows the reviewed behaviour only.
THEOREM PinnedFactsAreReviewed == ReferenceSpec => []FactsAreReviewed
<1>1. PipelineInv => FactsAreReviewed
  BY FactsAreReviewedInv DEF PipelineInv
<1>2. QED
  BY <1>1, PipelineHistory, PTL

\* For every plan: the baseline an undisturbed update leaves, and the one a
\* verification accepts, is whole, lists what is there, and holds the reviewed
\* form of every oracle another one names.
THEOREM BaselineIsConsistent == ReferenceSpec => []BaselineHoldsTogether
<1>1. PipelineInv => BaselineHoldsTogether
  BY DEF PipelineInv
<1>2. QED
  BY <1>1, PipelineHistory, PTL
==============================================================================
