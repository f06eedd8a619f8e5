-------------------------- MODULE WeatherPackProofs --------------------------
(***************************************************************************)
(* Theorems about the weather cache, for any number of processes, files,   *)
(* requests, faults, crashes and damages.                                  *)
(***************************************************************************)
EXTENDS WeatherPack, TLAPS

(* The file a call is at is one it was asked for.                          *)
LEMMA RequestedFile ==
    ASSUME Typed, Disciplined, NEW p \in Processes,
           pc[p] \in {"probe"} \cup Extracting
    PROVE  file(p) \in Files
  <1>1. selections[p] \in Seq(Files)
    <2>1. selections[p] \in Requests \cup {<<>>}
      BY DEF Typed
    <2>2. <<>> \in Seq(Files)
      OBVIOUS
    <2> QED
      BY <2>1, <2>2, WeatherAssumption
  <1>2. index[p] \in 1..Len(selections[p])
    BY <1>1 DEF Typed, Disciplined
  <1> QED
    BY <1>1, <1>2 DEF file

(* What each step assigns has the type of its variable.                     *)
LEMMA TypedStep == Typed /\ Disciplined /\ [Next]_vars => Typed'
  <1> SUFFICES ASSUME Typed, Disciplined, [Next]_vars PROVE Typed'
    OBVIOUS
  <1> USE WeatherAssumption
  <1>1. ASSUME NEW p \in Processes, NEW r \in Requests, Call(p, r) PROVE Typed'
    BY <1>1 DEF Call, Goto, call, temporary, outside, bounds, Typed, Contents, Places,
       Inside, Extracting, Outcomes
  <1>2. ASSUME NEW p \in Processes, Start(p) PROVE Typed'
    BY <1>2 DEF Start, Leave, Goto, call, temporary, outside, bounds, Typed, Contents,
       Places, Inside, Extracting, Outcomes
  <1>3. ASSUME NEW p \in Processes, Acquire(p) PROVE Typed'
    BY <1>3 DEF Acquire, Goto, call, temporary, outside, bounds, Typed, Contents, Places,
       Inside, Extracting, Outcomes
  <1>4. ASSUME NEW p \in Processes, GiveUp(p) PROVE Typed'
    BY <1>4 DEF GiveUp, Leave, Goto, call, temporary, outside, bounds, Typed, Contents,
       Places, Inside, Extracting, Outcomes
  <1>5. ASSUME NEW p \in Processes, VerifyArchive(p) PROVE Typed'
    BY <1>5 DEF VerifyArchive, Leave, Goto, call, temporary, outside, bounds, Typed,
       Contents, Places, Inside, Extracting, Outcomes
  <1>6. ASSUME NEW p \in Processes, NextSelection(p) PROVE Typed'
    <2>1. pc' \in [Processes -> Places] /\ result' \in [Processes -> Outcomes]
      BY <1>6 DEF NextSelection, Leave, Goto, Typed, Places, Inside, Outcomes
    <2>2. index' \in [Processes -> Nat \ {0}]
      <3>1. CASE UNCHANGED index
        BY <3>1 DEF Typed
      <3>2. CASE index' = [index EXCEPT ![p] = @ + 1]
        BY <3>2 DEF Typed
      <3> QED
        BY <1>6, <3>1, <3>2 DEF NextSelection, call
    <2> QED
      BY <1>6, <2>1, <2>2 DEF NextSelection, call, temporary, outside, bounds, Typed
  <1>7. ASSUME NEW p \in Processes, Probe(p) PROVE Typed'
    <2>1. file(p) \in Files
      BY <1>7, RequestedFile DEF Probe
    <2>2. pc' \in [Processes -> Places] /\ result' \in [Processes -> Outcomes]
      BY <1>7 DEF Probe, Leave, Goto, Typed, Places, Inside, Outcomes
    <2>3. index' \in [Processes -> Nat \ {0}] /\ byFileName' \in [Processes -> SUBSET Files]
      <3>1. CASE UNCHANGED <<index, byFileName>>
        BY <3>1 DEF Typed
      <3>2. CASE Made(p, file(p))
        <4>1. index' \in [Processes -> Nat \ {0}]
          BY <3>2 DEF Made, Typed
        <4>2. byFileName[p] \cup {file(p)} \in SUBSET Files
          BY <2>1 DEF Typed
        <4>3. byFileName' \in [Processes -> SUBSET Files]
          BY <3>2, <4>2 DEF Made, Typed
        <4> QED
          BY <4>1, <4>3
      <3> QED
        BY <1>7, <3>1, <3>2 DEF Probe, call
    <2>4. selections' = selections
      BY <1>7 DEF Probe, call
    <2> QED
      BY <1>7, <2>2, <2>3, <2>4 DEF Probe, temporary, outside, bounds, Typed
  <1>8. ASSUME NEW p \in Processes, Extract(p) PROVE Typed'
    BY <1>8 DEF Extract, Leave, Goto, call, temporary, outside, bounds, Typed, Contents,
       Places, Inside, Extracting, Outcomes
  <1>9. ASSUME NEW p \in Processes, CheckPartial(p) PROVE Typed'
    BY <1>9 DEF CheckPartial, Leave, Goto, call, temporary, outside, bounds, Typed,
       Contents, Places, Inside, Extracting, Outcomes
  <1>10. ASSUME NEW p \in Processes, Place(p) PROVE Typed'
    <2>1. file(p) \in Files
      BY <1>10, RequestedFile DEF Place, Extracting
    <2>2. pc' \in [Processes -> Places]
      BY <1>10 DEF Place, Settle, Goto, Typed, Places, Inside
    <2>3. index' \in [Processes -> Nat \ {0}] /\ byFileName' \in [Processes -> SUBSET Files]
      <3>1. CASE UNCHANGED <<index, byFileName>>
        BY <3>1 DEF Typed
      <3>2. CASE Made(p, file(p))
        <4>1. index' \in [Processes -> Nat \ {0}]
          BY <3>2 DEF Made, Typed
        <4>2. byFileName[p] \cup {file(p)} \in SUBSET Files
          BY <2>1 DEF Typed
        <4>3. byFileName' \in [Processes -> SUBSET Files]
          BY <3>2, <4>2 DEF Made, Typed
        <4> QED
          BY <4>1, <4>3
      <3> QED
        BY <1>10, <3>1, <3>2 DEF Place, Settle, call
    <2>4. /\ target' \in [Files -> Contents] /\ damaged' \subseteq Files
          /\ partial' \in [Processes -> Contents]
      <3>1. CASE Settle(p, file(p))
        BY <2>1, <3>1 DEF Settle, Typed, Contents
      <3>2. CASE target' = [target EXCEPT ![file(p)] = "absent"] /\ UNCHANGED <<partial, damaged>>
        BY <2>1, <3>2 DEF Typed, Contents
      <3> QED
        BY <1>10, <3>1, <3>2 DEF Place
    <2>6. backup' \in [Processes -> Contents]
      BY <1>10, <2>1 DEF Place, Typed
    <2>5. selections' = selections
      BY <1>10 DEF Place, call
    <2> QED
      BY <1>10, <2>2, <2>3, <2>4, <2>5, <2>6 DEF Place, bounds, Typed
  <1>11. ASSUME NEW p \in Processes, Swap(p) PROVE Typed'
    <2>1. file(p) \in Files
      BY <1>11, RequestedFile DEF Swap, Extracting
    <2>2. pc' \in [Processes -> Places] /\ result' \in [Processes -> Outcomes]
      BY <1>11 DEF Swap, Settle, Leave, Goto, Typed, Places, Inside, Outcomes
    <2>3. index' \in [Processes -> Nat \ {0}] /\ byFileName' \in [Processes -> SUBSET Files]
      <3>1. CASE UNCHANGED <<index, byFileName>>
        BY <3>1 DEF Typed
      <3>2. CASE Made(p, file(p))
        <4>1. index' \in [Processes -> Nat \ {0}]
          BY <3>2 DEF Made, Typed
        <4>2. byFileName[p] \cup {file(p)} \in SUBSET Files
          BY <2>1 DEF Typed
        <4>3. byFileName' \in [Processes -> SUBSET Files]
          BY <3>2, <4>2 DEF Made, Typed
        <4> QED
          BY <4>1, <4>3
      <3> QED
        BY <1>11, <3>1, <3>2 DEF Swap, Settle, call
    <2>4. /\ target' \in [Files -> Contents] /\ damaged' \subseteq Files
          /\ partial' \in [Processes -> Contents]
      BY <1>11, <2>1 DEF Swap, Settle, Typed, Contents
    <2>5. selections' = selections
      BY <1>11 DEF Swap, call
    <2> QED
      BY <1>11, <2>2, <2>3, <2>4, <2>5 DEF Swap, bounds, Typed
  <1>12. ASSUME NEW p \in Processes, Clean(p) PROVE Typed'
    <2>1. pc' \in [Processes -> Places]
      BY <1>12 DEF Clean, Goto, Typed, Places, Inside
    <2>2. partial' \in [Processes -> Contents] /\ backup' \in [Processes -> Contents]
      BY <1>12 DEF Clean, Forget, Typed, Contents
    <2>3. litter' \in BOOLEAN /\ excused' \in BOOLEAN
      BY <1>12, Zenon DEF Clean, Forget, Typed
    <2>4. faults' \in 0..MaxFaults
      BY <1>12 DEF Clean, Typed
    <2> QED
      BY <1>12, <2>1, <2>2, <2>3, <2>4 DEF Clean, call, bounds, Typed
  <1>13. ASSUME NEW p \in Processes, Return(p) PROVE Typed'
    BY <1>13 DEF Return, Release, Forget, Goto, call, temporary, outside, bounds, Typed,
       Contents, Places, Inside, Extracting, Outcomes
  <1>14. ASSUME NEW p \in Processes, Fault(p) PROVE Typed'
    BY <1>14 DEF Fault, Leave, Goto, call, temporary, outside, bounds, Typed, Contents,
       Places, Inside, Extracting, Outcomes
  <1>15. ASSUME NEW p \in Processes, Cancel(p) PROVE Typed'
    BY <1>15 DEF Cancel, call, temporary, outside, bounds, Typed, Contents, Places, Inside,
       Extracting, Outcomes
  <1>16. ASSUME NEW p \in Processes, Crash(p) PROVE Typed'
    BY <1>16 DEF Crash, Release, Forget, Goto, call, temporary, outside, bounds, Typed,
       Contents, Places, Inside, Extracting, Outcomes
  <1>17. ASSUME NEW f \in Files, Damage(f) PROVE Typed'
    BY <1>17 DEF Damage, call, temporary, outside, bounds, Typed, Contents, Places, Inside,
       Extracting, Outcomes
  <1>18. CASE UNCHANGED vars
    BY <1>18 DEF vars, call, temporary, outside, bounds, Typed, Contents, Places, Inside,
       Extracting, Outcomes
  <1> QED
    BY <1>1, <1>2, <1>3, <1>4, <1>5, <1>6, <1>7, <1>8, <1>9, <1>10, <1>11, <1>12, <1>13,
       <1>14, <1>15, <1>16, <1>17, <1>18 DEF Next, Step

(* The lock file, the temporary files and the index go with the place of a  *)
(* call.                                                                   *)
LEMMA DisciplinedStep == Typed /\ Disciplined /\ [Next]_vars => Disciplined'
  <1> SUFFICES ASSUME Typed, Disciplined, [Next]_vars PROVE Disciplined'
    OBVIOUS
  <1> USE WeatherAssumption
  <1>1. ASSUME NEW p \in Processes, NEW r \in Requests, Call(p, r) PROVE Disciplined'
    BY <1>1 DEF Call, Goto, call, temporary, outside, bounds, Typed, Disciplined, Places,
       Inside, Extracting
  <1>2. ASSUME NEW p \in Processes, Start(p) PROVE Disciplined'
    BY <1>2 DEF Start, Leave, Goto, call, temporary, outside, bounds, Typed, Disciplined,
       Places, Inside, Extracting
  <1>3. ASSUME NEW p \in Processes, Acquire(p) PROVE Disciplined'
    BY <1>3 DEF Acquire, Goto, call, temporary, outside, bounds, Typed, Disciplined, Places,
       Inside, Extracting
  <1>4. ASSUME NEW p \in Processes, GiveUp(p) PROVE Disciplined'
    BY <1>4 DEF GiveUp, Leave, Goto, call, temporary, outside, bounds, Typed, Disciplined,
       Places, Inside, Extracting
  <1>5. ASSUME NEW p \in Processes, VerifyArchive(p) PROVE Disciplined'
    BY <1>5 DEF VerifyArchive, Leave, Goto, call, temporary, outside, bounds, Typed,
       Disciplined, Places, Inside, Extracting
  <1>6. ASSUME NEW p \in Processes, NextSelection(p) PROVE Disciplined'
    BY <1>6 DEF NextSelection, Leave, Goto, file, call, temporary, outside, bounds, Typed,
       Disciplined, Places, Inside, Extracting
  <1>7. ASSUME NEW p \in Processes, Probe(p) PROVE Disciplined'
    BY <1>7 DEF Probe, Leave, Goto, Made, Found, file, call, temporary, outside, bounds,
       Typed, Disciplined, Places, Inside, Extracting
  <1>8. ASSUME NEW p \in Processes, Extract(p) PROVE Disciplined'
    BY <1>8 DEF Extract, Leave, Goto, call, temporary, outside, bounds, Typed, Disciplined,
       Places, Inside, Extracting
  <1>9. ASSUME NEW p \in Processes, CheckPartial(p) PROVE Disciplined'
    BY <1>9 DEF CheckPartial, Leave, Goto, call, temporary, outside, bounds, Typed,
       Disciplined, Places, Inside, Extracting
  <1>10. ASSUME NEW p \in Processes, Place(p) PROVE Disciplined'
    BY <1>10 DEF Place, Settle, Made, Goto, file, call, temporary, outside, bounds, Typed,
       Disciplined, Places, Inside, Extracting
  <1>11. ASSUME NEW p \in Processes, Swap(p) PROVE Disciplined'
    BY <1>11 DEF Swap, Settle, Made, Goto, Leave, file, call, temporary, outside, bounds,
       Typed, Disciplined, Places, Inside, Extracting
  <1>12. ASSUME NEW p \in Processes, Clean(p) PROVE Disciplined'
    BY <1>12 DEF Clean, Forget, Goto, call, temporary, outside, bounds, Typed, Disciplined,
       Places, Inside, Extracting
  <1>13. ASSUME NEW p \in Processes, Return(p) PROVE Disciplined'
    BY <1>13 DEF Return, Release, Forget, Goto, call, temporary, outside, bounds, Typed,
       Disciplined, Places, Inside, Extracting
  <1>14. ASSUME NEW p \in Processes, Fault(p) PROVE Disciplined'
    BY <1>14 DEF Fault, Leave, Goto, call, temporary, outside, bounds, Typed, Disciplined,
       Places, Inside, Extracting
  <1>15. ASSUME NEW p \in Processes, Cancel(p) PROVE Disciplined'
    BY <1>15 DEF Cancel, call, temporary, outside, bounds, Typed, Disciplined, Places,
       Inside, Extracting
  <1>16. ASSUME NEW p \in Processes, Crash(p) PROVE Disciplined'
    BY <1>16 DEF Crash, Release, Forget, Goto, call, temporary, outside, bounds, Typed,
       Disciplined, Places, Inside, Extracting
  <1>17. ASSUME NEW f \in Files, Damage(f) PROVE Disciplined'
    BY <1>17 DEF Damage, call, temporary, outside, bounds, Typed, Disciplined, Places,
       Inside, Extracting
  <1>18. CASE UNCHANGED vars
    BY <1>18 DEF vars, call, temporary, outside, bounds, Typed, Disciplined, Places, Inside,
       Extracting
  <1> QED
    BY <1>1, <1>2, <1>3, <1>4, <1>5, <1>6, <1>7, <1>8, <1>9, <1>10, <1>11, <1>12, <1>13,
       <1>14, <1>15, <1>16, <1>17, <1>18 DEF Next, Step

(* Every variable keeps its type; a call works on the cache only while it   *)
(* has the lock file open.                                                 *)
THEOREM TypeCorrect == Spec => []TypeOK
  <1>1. Init => Typed
    <2> SUFFICES ASSUME Init PROVE Typed
      OBVIOUS
    <2>1. archive \in Contents /\ target \in [Files -> Contents]
      BY DEF Init, Contents
    <2>2. pc \in [Processes -> Places] /\ result \in [Processes -> Outcomes]
      BY DEF Init, Places, Outcomes
    <2>3. /\ selections \in [Processes -> Requests \cup {<<>>}]
          /\ index \in [Processes -> Nat \ {0}]
          /\ byFileName \in [Processes -> SUBSET Files]
      BY DEF Init
    <2>4. told \in [Processes -> BOOLEAN] /\ litter \in BOOLEAN /\ excused \in BOOLEAN
      BY DEF Init
    <2>5. partial \in [Processes -> Contents] /\ backup \in [Processes -> Contents]
      BY DEF Init, Contents
    <2>6. /\ calls \in 0..MaxCalls /\ faults \in 0..MaxFaults
          /\ crashes \in 0..MaxCrashes /\ damages \in 0..MaxDamages
      BY WeatherAssumption DEF Init
    <2> QED
      BY <2>1, <2>2, <2>3, <2>4, <2>5, <2>6 DEF Init, Typed
  <1>2. Init => Disciplined
    <2> SUFFICES ASSUME Init, NEW p \in Processes
                 PROVE  /\ pc[p] \notin Inside \cup {"probe"} \cup Extracting
                        /\ lock # p /\ partial[p] = "absent" /\ backup[p] = "absent"
      BY DEF Disciplined
    <2>1. pc[p] = "idle" /\ lock = NoProcess /\ partial[p] = "absent" /\ backup[p] = "absent"
      BY DEF Init
    <2> QED
      BY <2>1, WeatherAssumption DEF Inside, Extracting
  <1>3. TypeOK /\ [Next]_vars => TypeOK'
    BY TypedStep, DisciplinedStep DEF TypeOK
  <1> QED
    BY <1>1, <1>2, <1>3, PTL DEF Spec, TypeOK

-----------------------------------------------------------------------------
(* What a call knows while it has the lock file open: the files it has      *)
(* resolved are whole unless damaged, the file it extracts is not handed    *)
(* out to anybody, and what it is about to put in place is whole.           *)
Knows(p) ==
    /\ lock = p => \A f \in byFileName[p] \ damaged : target[f] = "whole"
    /\ pc[p] \in {"start", "lock"} => byFileName[p] = {}
    /\ pc[p] \in Extracting => file(p) \notin (handed \cup byFileName[p]) \ damaged
    /\ pc[p] \in {"check", "place", "swap"} => partial[p] = "whole"
    /\ pc[p] = "return" /\ result[p] = "resolved" => lock = p

Knowledge == \A p \in Processes : Knows(p)

(* Only files that are not handed out are taken away, and only whole ones   *)
(* are put in place and handed out.                                         *)
LEMMA HandedOutStep == TypeOK /\ Knowledge /\ HandedOutStays /\ [Next]_vars => HandedOutStays'
  <1> SUFFICES ASSUME Typed, Disciplined, Knowledge, HandedOutStays, [Next]_vars
               PROVE  HandedOutStays'
    BY DEF TypeOK
  <1> USE DEF Knowledge, Knows, Typed, Disciplined, Extracting, Inside
  <1>1. ASSUME NEW p \in Processes, NEW r \in Requests, Call(p, r) PROVE HandedOutStays'
    BY <1>1 DEF Call, Goto, call, temporary, outside, bounds, HandedOutStays
  <1>2. ASSUME NEW p \in Processes, Start(p) PROVE HandedOutStays'
    BY <1>2 DEF Start, Leave, Goto, call, temporary, outside, bounds, HandedOutStays
  <1>3. ASSUME NEW p \in Processes, Acquire(p) PROVE HandedOutStays'
    BY <1>3 DEF Acquire, Goto, call, temporary, outside, bounds, HandedOutStays
  <1>4. ASSUME NEW p \in Processes, GiveUp(p) PROVE HandedOutStays'
    BY <1>4 DEF GiveUp, Leave, Goto, call, temporary, outside, bounds, HandedOutStays
  <1>5. ASSUME NEW p \in Processes, VerifyArchive(p) PROVE HandedOutStays'
    BY <1>5 DEF VerifyArchive, Leave, Goto, call, temporary, outside, bounds, HandedOutStays
  <1>6. ASSUME NEW p \in Processes, NextSelection(p) PROVE HandedOutStays'
    BY <1>6 DEF NextSelection, Leave, Goto, file, call, temporary, outside, bounds, HandedOutStays
  <1>7. ASSUME NEW p \in Processes, Probe(p) PROVE HandedOutStays'
    BY <1>7 DEF Probe, Leave, Goto, Made, Found, file, call, temporary, outside, bounds,
       HandedOutStays
  <1>8. ASSUME NEW p \in Processes, Extract(p) PROVE HandedOutStays'
    BY <1>8 DEF Extract, Leave, Goto, call, temporary, outside, bounds, HandedOutStays
  <1>9. ASSUME NEW p \in Processes, CheckPartial(p) PROVE HandedOutStays'
    BY <1>9 DEF CheckPartial, Leave, Goto, call, temporary, outside, bounds, HandedOutStays
  <1>10. ASSUME NEW p \in Processes, Place(p) PROVE HandedOutStays'
    BY <1>10 DEF Place, Settle, Made, Goto, file, call, temporary, outside, bounds, HandedOutStays
  <1>11. ASSUME NEW p \in Processes, Swap(p) PROVE HandedOutStays'
    BY <1>11 DEF Swap, Settle, Made, Goto, Leave, file, call, temporary, outside, bounds,
       HandedOutStays
  <1>12. ASSUME NEW p \in Processes, Clean(p) PROVE HandedOutStays'
    BY <1>12 DEF Clean, Forget, Goto, call, temporary, outside, bounds, HandedOutStays
  <1>13. ASSUME NEW p \in Processes, Return(p) PROVE HandedOutStays'
    BY <1>13 DEF Return, Release, Forget, Goto, call, temporary, outside, bounds, HandedOutStays
  <1>14. ASSUME NEW p \in Processes, Fault(p) PROVE HandedOutStays'
    BY <1>14 DEF Fault, Leave, Goto, call, temporary, outside, bounds, HandedOutStays
  <1>15. ASSUME NEW p \in Processes, Cancel(p) PROVE HandedOutStays'
    BY <1>15 DEF Cancel, call, temporary, outside, bounds, HandedOutStays
  <1>16. ASSUME NEW p \in Processes, Crash(p) PROVE HandedOutStays'
    BY <1>16 DEF Crash, Release, Forget, Goto, call, temporary, outside, bounds, HandedOutStays
  <1>17. ASSUME NEW f \in Files, Damage(f) PROVE HandedOutStays'
    BY <1>17 DEF Damage, call, temporary, outside, bounds, HandedOutStays
  <1>18. CASE UNCHANGED vars
    BY <1>18 DEF vars, call, temporary, outside, bounds, HandedOutStays
  <1> QED
    BY <1>1, <1>2, <1>3, <1>4, <1>5, <1>6, <1>7, <1>8, <1>9, <1>10, <1>11, <1>12, <1>13,
       <1>14, <1>15, <1>16, <1>17, <1>18 DEF Next, Step

(* What a call knows stays true while others and the world go on, because    *)
(* what they may change is behind the lock, handed out or damaged.         *)
LEMMA KnowledgeStep == TypeOK /\ Knowledge /\ HandedOutStays /\ [Next]_vars => Knowledge'
  <1> SUFFICES ASSUME Typed, Disciplined, Knowledge, HandedOutStays, [Next]_vars
               PROVE  Knowledge'
    BY DEF TypeOK
  <1> USE WeatherAssumption DEF HandedOutStays, Knowledge, Knows, Typed, Disciplined, Extracting, Inside
  <1>1. ASSUME NEW p \in Processes, NEW r \in Requests, Call(p, r) PROVE Knowledge'
    BY <1>1 DEF Call, Goto, call, temporary, outside, bounds, file
  <1>2. ASSUME NEW p \in Processes, Start(p) PROVE Knowledge'
    <2> SUFFICES ASSUME NEW q \in Processes PROVE Knows(q)'
      OBVIOUS
    <2>1. file(q)' = file(q)
      BY <1>2 DEF Start, call, file
    <2>2. CASE q # p
      BY <1>2, <2>1, <2>2 DEF Start, Leave, Goto, call, temporary, outside
    <2>3. CASE q = p
      <3>1. /\ pc'[p] \in {"lock", "return"} /\ lock' # p
            /\ (byFileName'[p] = {} /\ result'[p] # "resolved") \/ pc'[p] = "lock"
        BY <1>2 DEF Start, Leave, Goto, call
      <3>2. pc'[p] = "lock" => byFileName'[p] = {}
        BY <1>2 DEF Start, call
      <3> QED
        BY <2>3, <3>1, <3>2
    <2> QED
      BY <2>2, <2>3
  <1>3. ASSUME NEW p \in Processes, Acquire(p) PROVE Knowledge'
    BY <1>3 DEF Acquire, Goto, call, temporary, outside, bounds, file
  <1>4. ASSUME NEW p \in Processes, GiveUp(p) PROVE Knowledge'
    <2> SUFFICES ASSUME NEW q \in Processes PROVE Knows(q)'
      OBVIOUS
    <2>1. file(q)' = file(q)
      BY <1>4 DEF GiveUp, call, file
    <2>2. CASE q # p
      BY <1>4, <2>1, <2>2 DEF GiveUp, Leave, Goto, call, temporary, outside
    <2>3. CASE q = p
      <3>1. pc'[p] = "return" /\ lock' # p /\ result'[p] # "resolved"
        BY <1>4 DEF GiveUp, Leave, Goto
      <3> QED
        BY <2>3, <3>1
    <2> QED
      BY <2>2, <2>3
  <1>5. ASSUME NEW p \in Processes, VerifyArchive(p) PROVE Knowledge'
    BY <1>5 DEF VerifyArchive, Leave, Goto, call, temporary, outside, bounds, file
  <1>6. ASSUME NEW p \in Processes, NextSelection(p) PROVE Knowledge'
    BY <1>6 DEF NextSelection, Leave, Goto, file, call, temporary, outside, bounds
  <1>7. ASSUME NEW p \in Processes, Probe(p) PROVE Knowledge'
    BY <1>7 DEF Probe, Leave, Goto, Made, Found, file, call, temporary, outside, bounds
  <1>8. ASSUME NEW p \in Processes, Extract(p) PROVE Knowledge'
    BY <1>8 DEF Extract, Leave, Goto, call, temporary, outside, bounds, file
  <1>9. ASSUME NEW p \in Processes, CheckPartial(p) PROVE Knowledge'
    BY <1>9 DEF CheckPartial, Leave, Goto, call, temporary, outside, bounds, file
  <1>10. ASSUME NEW p \in Processes, Place(p) PROVE Knowledge'
    BY <1>10 DEF Place, Settle, Made, Goto, file, call, temporary, outside, bounds
  <1>11. ASSUME NEW p \in Processes, Swap(p) PROVE Knowledge'
    BY <1>11 DEF Swap, Settle, Made, Goto, Leave, file, call, temporary, outside, bounds
  <1>12. ASSUME NEW p \in Processes, Clean(p) PROVE Knowledge'
    BY <1>12 DEF Clean, Forget, Goto, call, temporary, outside, bounds, file
  <1>13. ASSUME NEW p \in Processes, Return(p) PROVE Knowledge'
    BY <1>13 DEF Return, Release, Forget, Goto, call, temporary, outside, bounds, file
  <1>14. ASSUME NEW p \in Processes, Fault(p) PROVE Knowledge'
    BY <1>14 DEF Fault, Leave, Goto, call, temporary, outside, bounds, file
  <1>15. ASSUME NEW p \in Processes, Cancel(p) PROVE Knowledge'
    BY <1>15 DEF Cancel, call, temporary, outside, bounds, file
  <1>16. ASSUME NEW p \in Processes, Crash(p) PROVE Knowledge'
    BY <1>16 DEF Crash, Release, Forget, Goto, call, temporary, outside, bounds, file
  <1>17. ASSUME NEW f \in Files, Damage(f) PROVE Knowledge'
    BY <1>17 DEF Damage, call, temporary, outside, bounds, file
  <1>18. CASE UNCHANGED vars
    BY <1>18 DEF vars, call, temporary, outside, bounds, file
  <1> QED
    BY <1>1, <1>2, <1>3, <1>4, <1>5, <1>6, <1>7, <1>8, <1>9, <1>10, <1>11, <1>12, <1>13,
       <1>14, <1>15, <1>16, <1>17, <1>18 DEF Next, Step

(* A weather file that was handed out is whole and stays in place, for any  *)
(* number of processes, until somebody else changes the cache.              *)
THEOREM HandedOutIsKept == Spec => []HandedOutStays
  <1>1. Init => Knowledge /\ HandedOutStays
    BY WeatherAssumption DEF Init, Knowledge, Knows, HandedOutStays, Extracting
  <1>2. TypeOK /\ Knowledge /\ HandedOutStays /\ [Next]_vars
        => (Knowledge /\ HandedOutStays)'
    BY HandedOutStep, KnowledgeStep
  <1> QED
    BY <1>1, <1>2, TypeCorrect, PTL DEF Spec

(* A call forgets the names of its temporary files when they are deleted or *)
(* moved, and otherwise only in a crash or after a deletion that failed.   *)
LEMMA LitterStep == TypeOK /\ NoLitter /\ [Next]_vars => NoLitter'
  <1> SUFFICES ASSUME Typed, Disciplined, NoLitter, [Next]_vars PROVE NoLitter'
    BY DEF TypeOK
  <1> USE DEF Typed, Disciplined, Extracting
  <1>1. ASSUME NEW p \in Processes, NEW r \in Requests, Call(p, r) PROVE NoLitter'
    BY <1>1 DEF Call, Goto, call, temporary, outside, bounds, NoLitter
  <1>2. ASSUME NEW p \in Processes, Start(p) PROVE NoLitter'
    BY <1>2 DEF Start, Leave, Goto, call, temporary, outside, bounds, NoLitter
  <1>3. ASSUME NEW p \in Processes, Acquire(p) PROVE NoLitter'
    BY <1>3 DEF Acquire, Goto, call, temporary, outside, bounds, NoLitter
  <1>4. ASSUME NEW p \in Processes, GiveUp(p) PROVE NoLitter'
    BY <1>4 DEF GiveUp, Leave, Goto, call, temporary, outside, bounds, NoLitter
  <1>5. ASSUME NEW p \in Processes, VerifyArchive(p) PROVE NoLitter'
    BY <1>5 DEF VerifyArchive, Leave, Goto, call, temporary, outside, bounds, NoLitter
  <1>6. ASSUME NEW p \in Processes, NextSelection(p) PROVE NoLitter'
    BY <1>6 DEF NextSelection, Leave, Goto, file, call, temporary, outside, bounds, NoLitter
  <1>7. ASSUME NEW p \in Processes, Probe(p) PROVE NoLitter'
    BY <1>7 DEF Probe, Leave, Goto, Made, Found, file, call, temporary, outside, bounds, NoLitter
  <1>8. ASSUME NEW p \in Processes, Extract(p) PROVE NoLitter'
    BY <1>8 DEF Extract, Leave, Goto, call, temporary, outside, bounds, NoLitter
  <1>9. ASSUME NEW p \in Processes, CheckPartial(p) PROVE NoLitter'
    BY <1>9 DEF CheckPartial, Leave, Goto, call, temporary, outside, bounds, NoLitter
  <1>10. ASSUME NEW p \in Processes, Place(p) PROVE NoLitter'
    BY <1>10 DEF Place, Settle, Made, Goto, file, call, temporary, outside, bounds, NoLitter
  <1>11. ASSUME NEW p \in Processes, Swap(p) PROVE NoLitter'
    BY <1>11 DEF Swap, Settle, Made, Goto, Leave, file, call, temporary, outside, bounds, NoLitter
  <1>12. ASSUME NEW p \in Processes, Clean(p) PROVE NoLitter'
    BY <1>12 DEF Clean, Forget, Goto, call, temporary, outside, bounds, NoLitter
  <1>13. ASSUME NEW p \in Processes, Return(p) PROVE NoLitter'
    BY <1>13 DEF Return, Release, Forget, Goto, call, temporary, outside, bounds, NoLitter
  <1>14. ASSUME NEW p \in Processes, Fault(p) PROVE NoLitter'
    BY <1>14 DEF Fault, Leave, Goto, call, temporary, outside, bounds, NoLitter
  <1>15. ASSUME NEW p \in Processes, Cancel(p) PROVE NoLitter'
    BY <1>15 DEF Cancel, call, temporary, outside, bounds, NoLitter
  <1>16. ASSUME NEW p \in Processes, Crash(p) PROVE NoLitter'
    BY <1>16 DEF Crash, Release, Forget, Goto, call, temporary, outside, bounds, NoLitter
  <1>17. ASSUME NEW f \in Files, Damage(f) PROVE NoLitter'
    BY <1>17 DEF Damage, call, temporary, outside, bounds, NoLitter
  <1>18. CASE UNCHANGED vars
    BY <1>18 DEF vars, call, temporary, outside, bounds, NoLitter
  <1> QED
    BY <1>1, <1>2, <1>3, <1>4, <1>5, <1>6, <1>7, <1>8, <1>9, <1>10, <1>11, <1>12, <1>13,
       <1>14, <1>15, <1>16, <1>17, <1>18 DEF Next, Step

(* Partial and backup files are left under forgotten names only after a     *)
(* crash or a deletion that failed.                                         *)
THEOREM NothingIsLittered == Spec => []NoLitter
  <1>1. Init => NoLitter
    BY DEF Init, NoLitter
  <1>2. TypeOK /\ NoLitter /\ [Next]_vars => NoLitter'
    BY LitterStep
  <1> QED
    BY <1>1, <1>2, TypeCorrect, PTL DEF Spec
=============================================================================
