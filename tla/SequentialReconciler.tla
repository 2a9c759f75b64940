------------------------ MODULE SequentialReconciler ------------------------
(***************************************************************************)
(* What the shared full-state convergence pass promises, whoever runs it:  *)
(* one controller at a time has a goal, every write moves one service      *)
(* principal one group closer to that goal, and a pass that reports        *)
(* success leaves no difference behind except on the pairs it has a reason *)
(* to doubt (a call that failed, a change somebody else made meanwhile).   *)
(*                                                                         *)
(* The comment on StateReconciler (internal/controller/reconcile_state.go) *)
(* promises the first part in words; StateReconciler.tla is shown to       *)
(* implement all of it.                                                    *)
(***************************************************************************)
CONSTANTS
    Controller,  \* the controllers that run passes
    SP,          \* the configured service principals
    Group        \* Entra group object IDs

VARIABLES
    assigned,    \* [SP -> SUBSET Group], the managed assignments held by Entra
    goal,        \* the groups wanted everywhere, by the controller that acts
    doubt,       \* [SP -> SUBSET Group], what the acting pass cannot vouch for
    result       \* what was last reported

vars == <<assigned, goal, doubt, result>>

Acting == DOMAIN goal
NoGoal == [c \in {} |-> {}]
NoDoubt == [sp \in SP |-> {}]

(* g's assignment to sp becomes what the goal of c calls for. *)
Moved(c, sp, g) ==
    [assigned EXCEPT ![sp] = IF g \in goal[c] THEN @ \cup {g} ELSE @ \ {g}]

Init ==
    /\ assigned \in [SP -> SUBSET Group]
    /\ goal = NoGoal
    /\ doubt = NoDoubt
    /\ result = "none"

(* A pass fixes its goal; nobody else is acting. *)
Adopt(c) ==
    /\ Acting = {}
    /\ goal' \in [{c} -> SUBSET Group]
    /\ doubt' = NoDoubt
    /\ UNCHANGED <<assigned, result>>

(* A write that succeeds. *)
Approach(c, sp, g) ==
    /\ c \in Acting
    /\ assigned' = Moved(c, sp, g)
    /\ UNCHANGED <<goal, doubt, result>>

(* A write that reports an error may or may not have moved sp. *)
FailedWrite(c, sp, g) ==
    /\ c \in Acting
    /\ doubt' = [doubt EXCEPT ![sp] = @ \cup {g}]
    /\ assigned' \in {assigned, Moved(c, sp, g)}
    /\ UNCHANGED <<goal, result>>

(* The pass reads sp and makes up its mind about its pairs. *)
Read(c, sp) ==
    /\ c \in Acting
    /\ doubt' = [doubt EXCEPT ![sp] = {}]
    /\ UNCHANGED <<assigned, goal, result>>

Report(c, outcome) ==
    /\ goal' = NoGoal
    /\ doubt' = NoDoubt
    /\ result' = outcome
    /\ UNCHANGED assigned

(* Success is reported only when nothing but doubted pairs differs. *)
ReportSuccess(c) ==
    /\ c \in Acting
    /\ \A sp \in SP, g \in Group :
          g \notin doubt[sp] => (g \in assigned[sp] <=> g \in goal[c])
    /\ Report(c, "success")

(* An error promises nothing; it is not reported over another's goal. *)
ReportError(c) ==
    /\ Acting \subseteq {c}
    /\ Report(c, "error")

(* Entra changes for reasons of its own, on any set of pairs. *)
OutsideChange ==
    /\ assigned' \in [SP -> SUBSET Group]
    /\ doubt' = IF Acting = {}
                THEN NoDoubt
                ELSE [sp \in SP |-> doubt[sp] \cup {g \in Group :
                        (g \in assigned[sp]) # (g \in assigned'[sp])}]
    /\ UNCHANGED <<goal, result>>

(* The process dies and its successor starts from nothing. *)
Restart ==
    /\ goal' = NoGoal
    /\ doubt' = NoDoubt
    /\ result' = "none"
    /\ UNCHANGED assigned

Next ==
    \/ \E c \in Controller :
          \/ Adopt(c)
          \/ \E sp \in SP, g \in Group : Approach(c, sp, g) \/ FailedWrite(c, sp, g)
          \/ \E sp \in SP : Read(c, sp)
          \/ ReportSuccess(c)
          \/ ReportError(c)
    \/ OutsideChange
    \/ Restart

Spec == Init /\ [][Next]_vars
=============================================================================
