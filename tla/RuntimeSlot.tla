---------------------------- MODULE RuntimeSlot ----------------------------
(***************************************************************************)
(* What the preparation of the runtime promises about the files of the     *)
(* cache, whoever runs it and however many do: there is one slot and at    *)
(* most one directory set aside from it.  A directory leaves the slot only *)
(* to be set aside or, when it is the verified runtime, to be withdrawn;   *)
(* what was set aside is put back, is left beside the slot, or is deleted  *)
(* while a verified runtime occupies the slot.                             *)
(***************************************************************************)
CONSTANT Initial    \* what the slot may hold at first

VARIABLES
    slot,       \* what the slot holds
    backup,     \* the directory set aside, or "none"
    stranded    \* directories left beside the slot

vars == <<slot, backup, stranded>>

Init == slot \in Initial /\ backup = "none" /\ stranded = {}

Occupy ==
    /\ slot = "none" /\ slot' \in {"file", "link", "foreign"}
    /\ UNCHANGED <<backup, stranded>>

SetAside ==
    /\ slot \in {"foreign", "remnant", "runtime"} /\ backup = "none"
    /\ backup' = slot /\ slot' = "none"
    /\ UNCHANGED stranded

Publish ==
    /\ slot = "none" /\ slot' = "runtime"
    /\ UNCHANGED <<backup, stranded>>

Withdraw ==
    /\ slot = "runtime" /\ slot' \in {"none", "remnant"}
    /\ UNCHANGED <<backup, stranded>>

Restore ==
    /\ slot = "none" /\ backup # "none"
    /\ slot' = backup /\ backup' = "none"
    /\ UNCHANGED stranded

Discard ==
    /\ slot = "runtime" /\ backup # "none"
    /\ backup' \in {"none", "remnant"}
    /\ UNCHANGED <<slot, stranded>>

(* An operation ends; what it had set aside stays beside the slot.         *)
Retire ==
    /\ stranded \cup ({backup} \ {"none"}) \subseteq stranded'
    /\ backup' = "none"
    /\ UNCHANGED slot

Next == Occupy \/ SetAside \/ Publish \/ Withdraw \/ Restore \/ Discard \/ Retire

Spec == Init /\ [][Next]_vars
=============================================================================
