------------------------- MODULE AssignmentManager --------------------------
(***************************************************************************)
(* What the convergence pass takes the Azure client to do for one service  *)
(* principal (the interface AzureGroupManager of                           *)
(* internal/controller/reconcile_state.go): listing returns exactly the    *)
(* principals that hold the controller's role, a call that reports success *)
(* has had its effect on one principal and on nothing else, and a call     *)
(* that reports an error has had its effect or none.                       *)
(***************************************************************************)
CONSTANTS
    Principal,  \* whoever can hold a role
    Managed     \* the principals the controller asks for: groups

VARIABLES
    assigned,   \* SUBSET Principal, holders of the controller's role
    want,       \* SUBSET Managed, the desired set
    adding,     \* principals the pass is about to assign
    removing,   \* principals the pass is about to remove
    report      \* what the last call that writes reported

vars == <<assigned, want, adding, removing, report>>

Init ==
    /\ assigned \in SUBSET Principal
    /\ want \in SUBSET Managed
    /\ adding = {}
    /\ removing = {}
    /\ report = "none"

ListManagedAssignments ==
    /\ adding' = want \ assigned
    /\ removing' = assigned \ want
    /\ UNCHANGED <<assigned, want, report>>

(* A call that is to leave assigned as S: done, or failed with or without  *)
(* having had its effect.                                                  *)
Call(S) ==
    \/ report' = "success" /\ assigned' = S
    \/ report' = "error" /\ assigned' \in {assigned, S}

AssignGroup(p) ==
    /\ p \in adding
    /\ adding' = adding \ {p}
    /\ Call(assigned \cup {p})
    /\ UNCHANGED <<want, removing>>

RemoveGroup(p) ==
    /\ p \in removing
    /\ removing' = removing \ {p}
    /\ Call(assigned \ {p})
    /\ UNCHANGED <<want, adding>>

(* The pass is over, or the process is. *)
Forget ==
    /\ adding' = {}
    /\ removing' = {}
    /\ UNCHANGED <<assigned, want, report>>

WantChanges ==
    /\ adding = {} /\ removing = {}
    /\ want' \in SUBSET Managed
    /\ UNCHANGED <<assigned, adding, removing, report>>

OutsideChange ==
    /\ assigned' \in SUBSET Principal
    /\ UNCHANGED <<want, adding, removing, report>>

Next ==
    \/ ListManagedAssignments
    \/ \E p \in Principal : AssignGroup(p) \/ RemoveGroup(p)
    \/ Forget
    \/ WantChanges
    \/ OutsideChange

Spec == Init /\ [][Next]_vars
=============================================================================
