----------------------------- MODULE BatchBoard -----------------------------
(* What a batch promises: every case of a run gets one result and keeps    *)
(* it, and results are missing or cancelled only at somebody's request.    *)
EXTENDS Naturals

CONSTANTS Runs, NumCases
VARIABLES
    slots,  \* the status of each case, "none" while it has no result
    asked,  \* cancellation was requested
    state   \* open, closed with results, or ended by an exception

Cases == 0..(NumCases - 1)
vars == <<slots, asked, state>>

Init ==
    /\ slots = [r \in Runs |-> [c \in Cases |-> "none"]]
    /\ asked = [r \in Runs |-> FALSE]
    /\ state = [r \in Runs |-> "open"]

Ask(r) ==
    /\ asked' = [asked EXCEPT ![r] = TRUE]
    /\ UNCHANGED <<slots, state>>

(* A case gets its result.                                                 *)
Fill(r, c, s) ==
    /\ state[r] = "open" /\ slots[r][c] = "none"
    /\ s = "Cancelled" => asked[r]
    /\ slots' = [slots EXCEPT ![r][c] = s]
    /\ UNCHANGED <<asked, state>>

(* The run returns.                                                        *)
Close(r) ==
    /\ state[r] = "open"
    /\ asked[r] \/ \A c \in Cases : slots[r][c] # "none"
    /\ slots' = [slots EXCEPT ![r] = [c \in Cases |->
           IF @[c] = "none" THEN "Cancelled" ELSE @[c]]]
    /\ state' = [state EXCEPT ![r] = "closed"]
    /\ UNCHANGED asked

Throw(r) ==
    /\ state[r] # "threw"
    /\ state' = [state EXCEPT ![r] = "threw"]
    /\ UNCHANGED <<slots, asked>>

Next == \E r \in Runs :
    \/ Ask(r) \/ Close(r) \/ Throw(r)
    \/ \E c \in Cases, s \in {"Succeeded", "Failed", "Cancelled"} : Fill(r, c, s)

Spec == Init /\ [][Next]_vars
=============================================================================
