---------------------------- MODULE GraphClient -----------------------------
(***************************************************************************)
(* The Azure client of internal/azure/client.go, one Graph request a step: *)
(* how the calls of the convergence pass come out of requests on the list  *)
(* of app role assignments of one service principal.                       *)
(*                                                                         *)
(* A Client value serves one target: its service principals and one app    *)
(* role.  Targets may share a service principal, so several clients, each  *)
(* used by one pass at a time, work on the list together with whoever else *)
(* assigns roles on that application.                                      *)
(*                                                                         *)
(* External, modelled from how the client uses it: Microsoft Graph.  The   *)
(* list comes in Graph's own order and a page at a time; a principal holds *)
(* a role at most once, and asking for it again is answered with "already  *)
(* exists"; a request that fails may have had its effect.  Assignments are *)
(* known by principal and role: one that was deleted and granted anew has  *)
(* a new ID, so a request that still has the old one fails.                *)
(*                                                                         *)
(* The caller's part is the diff of reconcileDesiredState: StateReconciler *)
(* has the whole pass, this module only its calls.                         *)
(***************************************************************************)
EXTENDS Naturals, FiniteSets

CONSTANTS
    Client,     \* one per reconciliation target
    Role,       \* app roles of the application
    RoleOf,     \* [Client -> Role], appRoleID
    MayWant,    \* [Client -> set of groups], what a client may be asked for
    Principal,  \* whoever holds roles: groups, and users or others
    Foreign,    \* assignments that somebody else may grant
    Place,      \* [Assignment -> Nat], Graph's order of the list
    PageSize,   \* assignments in the first page
    Observed,   \* the client whose contract is examined: any of them
    Nothing     \* no principal, no assignment with a known ID

Group == UNION {MayWant[c] : c \in Client}
Assignment == [principal : Principal, role : Role]

ASSUME ClientAssumption == RoleOf \in [Client -> Role]
ASSUME GroupAssumption == MayWant \in [Client -> SUBSET Principal]
ASSUME ObservedAssumption == Observed \in Client
ASSUME NothingAssumption == Nothing \notin Principal \cup Assignment
ASSUME ForeignAssumption == Foreign \subseteq Assignment
ASSUME PageAssumption ==
    /\ PageSize \in Nat \ {0}
    /\ Place \in [Assignment -> Nat]
    /\ \A a, b \in Assignment : Place[a] = Place[b] => a = b

VARIABLES
    granted,    \* SUBSET Assignment, what Graph holds
    want,       \* [Client -> SUBSET Group], the desired set of the current pass
    pc,         \* [Client -> ...]: idle, or between which requests
    adding,     \* [Client -> SUBSET Principal], calls the pass has yet to make
    removing,
    target,     \* [Client -> ...], whom a removal is for, and what it will delete
    report,     \* [Client -> ...], how the last call that writes ended
    settled     \* from here on nobody else changes anything and no call fails

vars == <<granted, want, pc, adding, removing, target, report, settled>>
clientVars == <<want, pc, adding, removing, target, report>>

Own(c, p) == [principal |-> p, role |-> RoleOf[c]]
NoTarget == [for |-> Nothing, id |-> Nothing]
HoldersOf(S, r) == {a.principal : a \in {x \in S : x.role = r}}

(* One assignment asked for. *)
TopOne == {a \in granted : \A b \in granted : Place[a] <= Place[b]}

(* The request without $top and without following nextLink returns the     *)
(* first page.                                                             *)
FirstPage ==
    {a \in granted : Cardinality({b \in granted : Place[b] < Place[a]}) < PageSize}

Init ==
    /\ granted \in SUBSET (Foreign \cup UNION {{Own(c, g) : g \in MayWant[c]} : c \in Client})
    /\ want \in {w \in [Client -> SUBSET Group] : \A c \in Client : w[c] \subseteq MayWant[c]}
    /\ pc = [c \in Client |-> "idle"]
    /\ adding = [c \in Client |-> {}]
    /\ removing = [c \in Client |-> {}]
    /\ target = [c \in Client |-> NoTarget]
    /\ report = [c \in Client |-> "none"]
    /\ settled = FALSE

-----------------------------------------------------------------------------
(* The calls.                                                              *)

(* A list that forgets to compare the app role. *)
ListEveryRole(c) ==
    /\ pc[c] = "idle"
    /\ LET listed == {a.principal : a \in FirstPage} IN
       /\ adding' = [adding EXCEPT ![c] = want[c] \ listed]
       /\ removing' = [removing EXCEPT ![c] = listed \ want[c]]
    /\ pc' = [pc EXCEPT ![c] = "apply"]
    /\ UNCHANGED <<granted, want, target, report, settled>>

(* ListManagedAssignments, and the caller's difference.  When it fails the *)
(* pass is over before it began.                                           *)
ListManagedAssignments(c) ==
    /\ pc[c] = "idle"
    /\ LET listed == HoldersOf(FirstPage, RoleOf[c]) IN
       /\ adding' = [adding EXCEPT ![c] = want[c] \ listed]
       /\ removing' = [removing EXCEPT ![c] = listed \ want[c]]
    /\ pc' = [pc EXCEPT ![c] = "apply"]
    /\ UNCHANGED <<granted, want, target, report, settled>>

(* AssignGroupToServicePrincipal posts the assignment; "already exists"    *)
(* is success.  The groups asked for exist in Entra.                       *)
AssignGroup(c, g) ==
    /\ pc[c] = "apply"
    /\ g \in adding[c]
    /\ adding' = [adding EXCEPT ![c] = @ \ {g}]
    /\ \/ /\ granted' = granted \cup {Own(c, g)}
          /\ report' = [report EXCEPT ![c] = "success"]
       \/ /\ ~settled
          /\ granted' \in {granted, granted \cup {Own(c, g)}}
          /\ report' = [report EXCEPT ![c] = "error"]
    /\ UNCHANGED <<want, pc, removing, target, settled>>

(* removeGroupFromServicePrincipal, first request: the first assignment of *)
(* the principal in the first page, whatever its role.                     *)
IsFirst(a, S) == a \in S /\ \A b \in S : Place[a] <= Place[b]

(* The principal's ID taken for the assignment's. *)
FindPrincipal(c, p, a) ==
    /\ pc[c] = "apply"
    /\ adding[c] = {}
    /\ p \in removing[c]
    /\ IsFirst(a, {b \in FirstPage : b.principal = p})
    /\ target' = [target EXCEPT ![c] = [for |-> p, id |-> p]]
    /\ pc' = [pc EXCEPT ![c] = "delete"]
    /\ UNCHANGED <<granted, want, adding, removing, report, settled>>

FindAssignment(c, p, a) ==
    /\ pc[c] = "apply"
    /\ adding[c] = {}
    /\ p \in removing[c]
    /\ IsFirst(a, {b \in FirstPage : b.principal = p})
    /\ target' = [target EXCEPT ![c] = [for |-> p, id |-> a]]
    /\ pc' = [pc EXCEPT ![c] = "delete"]
    /\ UNCHANGED <<granted, want, adding, removing, report, settled>>

(* Nothing found is success: the assignment may have been removed already. *)
FindNothing(c, p) ==
    /\ pc[c] = "apply"
    /\ adding[c] = {}
    /\ p \in removing[c]
    /\ \A a \in FirstPage : a.principal # p
    /\ removing' = [removing EXCEPT ![c] = @ \ {p}]
    /\ report' = [report EXCEPT ![c] = "success"]
    /\ UNCHANGED <<granted, want, pc, adding, target, settled>>

FindFails(c, p) ==
    /\ pc[c] = "apply"
    /\ ~settled
    /\ adding[c] = {}
    /\ p \in removing[c]
    /\ removing' = [removing EXCEPT ![c] = @ \ {p}]
    /\ report' = [report EXCEPT ![c] = "error"]
    /\ UNCHANGED <<granted, want, pc, adding, target, settled>>

(* What becomes of the targets of the clients in C when A is deleted. *)
Lose(A, C) ==
    [d \in Client |-> IF d \in C /\ target[d].id \in A
                      THEN [target[d] EXCEPT !.id = Nothing]
                      ELSE target[d]]

(* Second request: delete by assignment ID. *)
DeleteAssignment(c) ==
    /\ pc[c] = "delete"
    /\ removing' = [removing EXCEPT ![c] = @ \ {target[c].for}]
    /\ pc' = [pc EXCEPT ![c] = "apply"]
    /\ \/ /\ target[c].id # Nothing
          /\ granted' = granted \ {target[c].id}
          /\ report' = [report EXCEPT ![c] = "success"]
       \/ /\ target[c].id = Nothing \/ ~settled
          /\ granted' \in {granted, granted \ {target[c].id}}
          /\ report' = [report EXCEPT ![c] = "error"]
    /\ target' = [Lose(granted \ granted', Client \ {c}) EXCEPT ![c] = NoTarget]
    /\ UNCHANGED <<want, adding, settled>>

(* The caller's loops are done. *)
Finish(c) ==
    /\ pc[c] = "apply"
    /\ adding[c] = {}
    /\ removing[c] = {}
    /\ pc' = [pc EXCEPT ![c] = "idle"]
    /\ UNCHANGED <<granted, want, adding, removing, target, report, settled>>

ClientStep(c) ==
    \/ ListManagedAssignments(c)
    \/ \E g \in Group : AssignGroup(c, g)
    \/ \E p \in Principal : FindNothing(c, p) \/ FindFails(c, p)
    \/ \E p \in Principal, a \in Assignment : FindAssignment(c, p, a)
    \/ DeleteAssignment(c)
    \/ Finish(c)

-----------------------------------------------------------------------------
(* Everybody else.                                                         *)

(* The references a target is built from change between passes. *)
WantChanges(c) ==
    /\ ~settled
    /\ pc[c] = "idle"
    /\ \E S \in SUBSET MayWant[c] : want' = [want EXCEPT ![c] = S]
    /\ UNCHANGED <<granted, pc, adding, removing, target, report, settled>>

GrantedByOthers(a) ==
    /\ ~settled
    /\ a \in Foreign \ granted
    /\ granted' = granted \cup {a}
    /\ UNCHANGED <<clientVars, settled>>

DeletedByOthers(a) ==
    /\ ~settled
    /\ a \in granted
    /\ granted' = granted \ {a}
    /\ target' = Lose({a}, Client)
    /\ UNCHANGED <<want, pc, adding, removing, report, settled>>

(* The process dies between two requests. *)
Restart ==
    /\ ~settled
    /\ pc' = [c \in Client |-> "idle"]
    /\ adding' = [c \in Client |-> {}]
    /\ removing' = [c \in Client |-> {}]
    /\ target' = [c \in Client |-> NoTarget]
    /\ UNCHANGED <<granted, want, report, settled>>

Settle ==
    /\ ~settled
    /\ settled' = TRUE
    /\ UNCHANGED <<granted, clientVars>>

Next ==
    \/ \E c \in Client : ClientStep(c) \/ WantChanges(c)
    \/ \E a \in Assignment : GrantedByOthers(a) \/ DeletedByOthers(a)
    \/ Restart
    \/ Settle

Spec == Init /\ [][Next]_vars

(* The resync timer starts passes for ever and a request is answered.      *)
FairSpec == Spec /\ \A c \in Client : WF_vars(ClientStep(c))

-----------------------------------------------------------------------------
(* Properties.                                                             *)
TypeOK ==
    /\ granted \in SUBSET Assignment
    /\ want \in [Client -> SUBSET Group]
    /\ pc \in [Client -> {"idle", "apply", "delete"}]
    /\ adding \in [Client -> SUBSET Group]
    /\ removing \in [Client -> SUBSET Principal]
    /\ target \in [Client -> [for : Principal \cup {Nothing},
                              id : Assignment \cup {Nothing}]]
    /\ report \in [Client -> {"none", "success", "error"}]
    /\ settled \in BOOLEAN

(* A client's calls keep the contract the convergence pass relies on,      *)
(* although a removal is two requests between which others get in: whatever *)
(* the other clients and the rest of the world do looks like an outside    *)
(* change.                                                                 *)
Manager == INSTANCE AssignmentManager WITH
    Managed  <- MayWant[Observed],
    assigned <- HoldersOf(granted, RoleOf[Observed]),
    want     <- want[Observed],
    adding   <- adding[Observed],
    removing <- removing[Observed],
    report   <- report[Observed]

KeepsContract == Manager!Spec

(* Once others leave the application alone and calls stop failing, every   *)
(* target's role is held by exactly the groups it wants.                   *)
Converges ==
    <>[](settled => \A c \in Client : HoldersOf(granted, RoleOf[c]) = want[c])

(* docs/ARCHITECTURE.md:111: "Removal is restricted to assignments created *)
(* with the controller's configured app role, so assignments made by other *)
(* means are never touched."                                               *)
RemovesOwnRoleOnly ==
    [][\A c \in Client, a \in granted \ granted' :
          DeleteAssignment(c) => a.role = RoleOf[c]]_vars

(* docs/ARCHITECTURE.md:111: "assignments whose bindings disappeared while *)
(* the controller was down are also reconciled away on the next pass,      *)
(* preventing cloud-side orphaning".                                       *)
OrphansRemoved ==
    <>[](settled => \A c \in Client : HoldersOf(granted, RoleOf[c]) \subseteq want[c])
=============================================================================
