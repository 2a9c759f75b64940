-------------------------- MODULE StateReconciler --------------------------
(***************************************************************************)
(* The full-state convergence pass of internal/controller, shared by the   *)
(* RoleBinding and ClusterRoleBinding controllers.                         *)
(*                                                                         *)
(* A pass holds the mutex from before it reads the bindings until it       *)
(* returns.  It lists the RoleBindings, lists the ClusterRoleBindings,     *)
(* resolves every name it found against Entra, lists the assignments of    *)
(* every service principal and then writes the difference, one Graph call  *)
(* at a time.  Every one of these reads and calls is a step of its own     *)
(* here, so that binding changes, changes made in Entra, failing calls and *)
(* restarts of the process can fall between any two of them.               *)
(*                                                                         *)
(* Abstracted: a binding list is the set of group names its live bindings  *)
(* mention (which bindings those are, and the filtering of subjects, belong *)
(* to the binding side); a service principal's place in sort.Strings order *)
(* is its number; a Graph error is a failure whatever its status.  The     *)
(* gauges and counters the pass sets and its log lines are left out.       *)
(***************************************************************************)
EXTENDS Naturals

CONSTANTS
    Controller,  \* the controllers sharing this reconciler
    Name,        \* UUID spellings that bindings may carry
    Group,       \* Entra group object IDs
    ObjectId,    \* [Name -> Group], the group Entra answers with for a name
    NumSP,       \* how many service principals are configured
    Free         \* the mutex is not held

ASSUME ObjectIdAssumption == ObjectId \in [Name -> Group]
ASSUME NumSPAssumption == NumSP \in Nat \ {0}
ASSUME FreeAssumption == Free \notin Controller

SP == 1..NumSP
Kind == {"rolebinding", "clusterrolebinding"}

VARIABLES
    view,        \* [Kind -> SUBSET Name], names the informer cache's live bindings mention
    exists,      \* groups that exist in Entra
    assigned,    \* [SP -> SUBSET Group], assignments with the controller's app role
    groupCache,  \* [Name -> ...], what GetGroupByID has cached for a name
    lock,        \* StateReconciler.mu
    pc,          \* where each controller's worker is
    candidates,  \* names found and not yet resolved
    desired,     \* groups resolved so far
    unlisted,    \* service principals ListManagedAssignments has yet to read
    toAssign,    \* [SP -> SUBSET Group], desired and missing when listed
    toRemove,    \* [SP -> SUBSET Group], assigned and not desired when listed
    result,      \* what the last Reconcile to return returned
    settled,     \* from here on nothing outside changes and no call fails
    kept,        \* history: names a pass's list has mentioned since it took the lock
    missed,      \* history: names a pass failed to resolve
    unsure       \* history: [SP -> SUBSET Group], what a pass cannot vouch for

envVars == <<view, exists, assigned, groupCache, settled>>
passVars == <<candidates, desired, unlisted, toAssign, toRemove>>
historyVars == <<kept, missed, unsure>>
vars == <<envVars, lock, pc, passVars, result, historyVars>>

None == [sp \in SP |-> {}]
NotKept == [k \in Kind |-> {}]
Referenced == view["rolebinding"] \cup view["clusterrolebinding"]

Init ==
    /\ view \in [Kind -> SUBSET Name]
    /\ exists \in SUBSET Group
    /\ assigned \in [SP -> SUBSET exists]
    /\ groupCache = [n \in Name |-> "absent"]
    /\ settled = FALSE
    /\ lock = Free
    /\ pc = [c \in Controller |-> "idle"]
    /\ candidates = [c \in Controller |-> {}]
    /\ desired = [c \in Controller |-> {}]
    /\ unlisted = [c \in Controller |-> {}]
    /\ toAssign = [c \in Controller |-> None]
    /\ toRemove = [c \in Controller |-> None]
    /\ result = "none"
    /\ kept = [c \in Controller |-> NotKept]
    /\ missed = [c \in Controller |-> {}]
    /\ unsure = [c \in Controller |-> None]

-----------------------------------------------------------------------------
(* The pass.                                                               *)

(* A worker takes fullStateRequest from its queue and blocks on mu.Lock(). *)
Start(c) ==
    /\ pc[c] = "idle"
    /\ pc' = [pc EXCEPT ![c] = "waiting"]
    /\ UNCHANGED <<envVars, lock, passVars, result, historyVars>>

(* The critical section's entry, and a controller that has a mutex of its  *)
(* own and so never waits.                                                 *)
EnterAnyway(c) ==
    /\ pc[c] = "waiting"
    /\ lock' = c
    /\ pc' = [pc EXCEPT ![c] = "listRoleBindings"]
    /\ kept' = [kept EXCEPT ![c] = view]
    /\ UNCHANGED <<envVars, passVars, result, missed, unsure>>

Lock(c) ==
    /\ pc[c] = "waiting"
    /\ lock = Free
    /\ lock' = c
    /\ pc' = [pc EXCEPT ![c] = "listRoleBindings"]
    /\ kept' = [kept EXCEPT ![c] = view]
    /\ UNCHANGED <<envVars, passVars, result, missed, unsure>>

(* The locals of a pass are gone once Reconcile returns. *)
Forget(c, outcome) ==
    /\ pc' = [pc EXCEPT ![c] = "idle"]
    /\ candidates' = [candidates EXCEPT ![c] = {}]
    /\ desired' = [desired EXCEPT ![c] = {}]
    /\ unlisted' = [unlisted EXCEPT ![c] = {}]
    /\ toAssign' = [toAssign EXCEPT ![c] = None]
    /\ toRemove' = [toRemove EXCEPT ![c] = None]
    /\ result' = outcome
    /\ kept' = [kept EXCEPT ![c] = NotKept]
    /\ missed' = [missed EXCEPT ![c] = {}]
    /\ unsure' = [unsure EXCEPT ![c] = None]
    /\ UNCHANGED envVars

(* An unlock at the end of the function, which an early return skips. *)
ReturnHolding(c, outcome) ==
    /\ lock' = IF outcome = "error" THEN lock ELSE Free
    /\ Forget(c, outcome)

(* Return from Reconcile: the deferred Unlock runs on every path.  A pass   *)
(* that succeeded is requeued after the resync period, one that failed      *)
(* with back-off.                                                           *)
Return(c, outcome) ==
    /\ lock' = Free
    /\ Forget(c, outcome)

ListRoleBindings(c) ==
    /\ pc[c] = "listRoleBindings"
    /\ candidates' = [candidates EXCEPT ![c] = view["rolebinding"]]
    /\ pc' = [pc EXCEPT ![c] = "listClusterRoleBindings"]
    /\ UNCHANGED <<envVars, lock, desired, unlisted, toAssign, toRemove, result,
                   historyVars>>

(* The second list taken for the whole instead of added to the first. *)
ListOverwrites(c) ==
    /\ pc[c] = "listClusterRoleBindings"
    /\ candidates' = [candidates EXCEPT ![c] = view["clusterrolebinding"]]
    /\ pc' = [pc EXCEPT ![c] = "resolve"]
    /\ UNCHANGED <<envVars, lock, desired, unlisted, toAssign, toRemove, result,
                   historyVars>>

ListClusterRoleBindings(c) ==
    /\ pc[c] = "listClusterRoleBindings"
    /\ candidates' = [candidates EXCEPT ![c] = @ \cup view["clusterrolebinding"]]
    /\ pc' = [pc EXCEPT ![c] = "resolve"]
    /\ UNCHANGED <<envVars, lock, desired, unlisted, toAssign, toRemove, result,
                   historyVars>>

ListBindingsFails(c) ==
    /\ pc[c] \in {"listRoleBindings", "listClusterRoleBindings"}
    /\ ~settled
    /\ Return(c, "error")

(* GetGroupByID answers from the cache, or asks Graph and caches the reply. *)
(* Graph may answer with a group that has no ID: "nil", cached all the same.*)
GetGroupByID(n, reply) ==
    \/ /\ groupCache[n] # "absent"
       /\ reply = groupCache[n]
       /\ UNCHANGED groupCache
    \/ /\ groupCache[n] = "absent"
       /\ ObjectId[n] \in exists
       /\ reply \in IF settled THEN {"id"} ELSE {"id", "nil"}
       /\ groupCache' = [groupCache EXCEPT ![n] = reply]
    \/ /\ groupCache[n] = "absent"
       /\ ObjectId[n] \notin exists \/ ~settled
       /\ reply = "error"
       /\ UNCHANGED groupCache

(* One turn of the loop in resolveCandidateGroupIDs adds what it found.    *)
(* Map iteration order is arbitrary; a name that does not resolve is        *)
(* skipped.                                                                *)
Resolve(c, n, found) ==
    /\ pc[c] = "resolve"
    /\ n \in candidates[c]
    /\ candidates' = [candidates EXCEPT ![c] = @ \ {n}]
    /\ \E reply \in {"id", "nil", "error"} :
          /\ GetGroupByID(n, reply)
          /\ IF reply = "id"
             THEN /\ desired' = [desired EXCEPT ![c] = @ \cup {found}]
                  /\ UNCHANGED missed
             ELSE /\ missed' = [missed EXCEPT ![c] = @ \cup {n}]
                  /\ UNCHANGED desired
    /\ UNCHANGED <<view, exists, assigned, settled, lock, pc, unlisted, toAssign,
                   toRemove, result, kept, unsure>>

(* The binding's own spelling kept instead of the canonical object ID. *)
ResolveToName(c, n) == Resolve(c, n, n)

ResolveCandidate(c, n) == Resolve(c, n, ObjectId[n])

DesiredComplete(c) ==
    /\ pc[c] = "resolve"
    /\ candidates[c] = {}
    /\ pc' = [pc EXCEPT ![c] = "listAssignments"]
    /\ unlisted' = [unlisted EXCEPT ![c] = SP]
    /\ UNCHANGED <<envVars, lock, candidates, desired, toAssign, toRemove, result,
                   historyVars>>

(* The list cut short after the first service principal. *)
ListStopsEarly(c, sp) ==
    /\ pc[c] = "listAssignments"
    /\ sp \in unlisted[c]
    /\ toAssign' = [toAssign EXCEPT ![c][sp] = desired[c] \ assigned[sp]]
    /\ toRemove' = [toRemove EXCEPT ![c][sp] = assigned[sp] \ desired[c]]
    /\ unlisted' = [unlisted EXCEPT ![c] = {}]
    /\ pc' = [pc EXCEPT ![c] = "apply"]
    /\ unsure' = [unsure EXCEPT ![c][sp] = {}]
    /\ UNCHANGED <<envVars, lock, candidates, desired, result, kept, missed>>

(* ListManagedAssignments reads one service principal per Graph call, in   *)
(* configuration order (any order, relative to the sorted one).  The       *)
(* difference the apply loops will act on is fixed by what it reads.       *)
ListManagedAssignments(c, sp) ==
    /\ pc[c] = "listAssignments"
    /\ sp \in unlisted[c]
    /\ toAssign' = [toAssign EXCEPT ![c][sp] = desired[c] \ assigned[sp]]
    /\ toRemove' = [toRemove EXCEPT ![c][sp] = assigned[sp] \ desired[c]]
    /\ unlisted' = [unlisted EXCEPT ![c] = @ \ {sp}]
    /\ pc' = [pc EXCEPT ![c] = IF unlisted[c] = {sp} THEN "apply" ELSE @]
    /\ unsure' = [unsure EXCEPT ![c][sp] = {}]
    /\ UNCHANGED <<envVars, lock, candidates, desired, result, kept, missed>>

ListManagedAssignmentsFails(c) ==
    /\ pc[c] = "listAssignments"
    /\ ~settled
    /\ Return(c, "error")

(* Service principals are visited in order, assignments before removals.   *)
Reached(c, sp) ==
    /\ pc[c] = "apply"
    /\ \A t \in SP : t < sp => toAssign[c][t] = {} /\ toRemove[c][t] = {}

Doubt(c, sp, g) == unsure' = [unsure EXCEPT ![c][sp] = @ \cup {g}]

(* AssignGroupToServicePrincipal.  An "already exists" answer counts as    *)
(* success; a call that reports an error may still have taken effect.      *)
AssignSucceeds(sp, g) ==
    /\ g \in exists
    /\ assigned' = [assigned EXCEPT ![sp] = @ \cup {g}]
    /\ UNCHANGED unsure

AssignFails(c, sp, g) ==
    /\ g \notin exists \/ ~settled
    /\ Doubt(c, sp, g)
    /\ \/ UNCHANGED assigned
       \/ /\ g \in exists
          /\ assigned' = [assigned EXCEPT ![sp] = @ \cup {g}]

AssignLeaves == <<view, exists, groupCache, settled, lock, pc, candidates, desired,
                  unlisted, toRemove, result, kept, missed>>

(* A failure that ends the loop over the groups of a service principal. *)
AssignStopsAtFailure(c, sp, g) ==
    /\ Reached(c, sp)
    /\ g \in toAssign[c][sp]
    /\ \/ /\ AssignSucceeds(sp, g)
          /\ toAssign' = [toAssign EXCEPT ![c][sp] = @ \ {g}]
       \/ /\ AssignFails(c, sp, g)
          /\ toAssign' = [toAssign EXCEPT ![c][sp] = {}]
    /\ UNCHANGED AssignLeaves

AssignGroup(c, sp, g) ==
    /\ Reached(c, sp)
    /\ g \in toAssign[c][sp]
    /\ toAssign' = [toAssign EXCEPT ![c][sp] = @ \ {g}]
    /\ AssignSucceeds(sp, g) \/ AssignFails(c, sp, g)
    /\ UNCHANGED AssignLeaves

RemoveGroup(c, sp, g) ==
    /\ Reached(c, sp)
    /\ toAssign[c][sp] = {}
    /\ g \in toRemove[c][sp]
    /\ toRemove' = [toRemove EXCEPT ![c][sp] = @ \ {g}]
    /\ \/ /\ assigned' = [assigned EXCEPT ![sp] = @ \ {g}]
          /\ UNCHANGED unsure
       \/ /\ ~settled
          /\ Doubt(c, sp, g)
          /\ assigned' \in {assigned, [assigned EXCEPT ![sp] = @ \ {g}]}
    /\ UNCHANGED <<view, exists, groupCache, settled, lock, pc, candidates, desired,
                   unlisted, toAssign, result, kept, missed>>

(* The loops are done.  Failed calls were only logged: the result is nil.  *)
Finish(c) ==
    /\ pc[c] = "apply"
    /\ toAssign[c] = None
    /\ toRemove[c] = None
    /\ Return(c, "success")

PassStep(c) ==
    \/ ListRoleBindings(c)
    \/ ListClusterRoleBindings(c)
    \/ ListBindingsFails(c)
    \/ \E n \in Name : ResolveCandidate(c, n)
    \/ DesiredComplete(c)
    \/ \E sp \in SP : ListManagedAssignments(c, sp)
    \/ ListManagedAssignmentsFails(c)
    \/ \E sp \in SP, g \in Group : AssignGroup(c, sp, g) \/ RemoveGroup(c, sp, g)
    \/ Finish(c)

-----------------------------------------------------------------------------
(* Everything outside the pass.                                            *)

Acting == {c \in Controller : pc[c] \in {"listAssignments", "apply"}}

(* g's assignment to the service principals in S changed under the feet of *)
(* whoever is acting.                                                      *)
ChangedElsewhere(S, g) ==
    unsure' = [c \in Controller |->
                  IF c \in Acting
                  THEN [sp \in SP |-> IF sp \in S THEN unsure[c][sp] \cup {g}
                                                 ELSE unsure[c][sp]]
                  ELSE None]

(* Bindings change in the informer cache. *)
BindingsChange(k) ==
    /\ ~settled
    /\ \E S \in SUBSET Name : view' = [view EXCEPT ![k] = S]
    /\ kept' = [c \in Controller |-> [kept[c] EXCEPT ![k] = @ \cap view'[k]]]
    /\ UNCHANGED <<exists, assigned, groupCache, settled, lock, pc, passVars, result,
                   missed, unsure>>

(* A group is deleted in Entra, which drops its assignments, or created.   *)
GroupDeleted(g) ==
    /\ ~settled
    /\ g \in exists
    /\ exists' = exists \ {g}
    /\ assigned' = [sp \in SP |-> assigned[sp] \ {g}]
    /\ ChangedElsewhere({sp \in SP : g \in assigned[sp]}, g)
    /\ UNCHANGED <<view, groupCache, settled, lock, pc, passVars, result, kept, missed>>

GroupCreated(g) ==
    /\ ~settled
    /\ g \notin exists
    /\ exists' = exists \cup {g}
    /\ UNCHANGED <<view, assigned, groupCache, settled, lock, pc, passVars, result,
                   historyVars>>

(* Someone else changes an assignment that carries the controller's role:  *)
(* an administrator, or a request an earlier process had left in flight.   *)
AssignmentChanged(sp, g) ==
    /\ ~settled
    /\ g \in exists
    /\ assigned' = [assigned EXCEPT ![sp] = IF g \in @ THEN @ \ {g} ELSE @ \cup {g}]
    /\ ChangedElsewhere({sp}, g)
    /\ UNCHANGED <<view, exists, groupCache, settled, lock, pc, passVars, result, kept,
                   missed>>

(* The process dies, or loses the lease, and a fresh one takes over.       *)
Restart ==
    /\ ~settled
    /\ groupCache' = [n \in Name |-> "absent"]
    /\ lock' = Free
    /\ pc' = [c \in Controller |-> "idle"]
    /\ candidates' = [c \in Controller |-> {}]
    /\ desired' = [c \in Controller |-> {}]
    /\ unlisted' = [c \in Controller |-> {}]
    /\ toAssign' = [c \in Controller |-> None]
    /\ toRemove' = [c \in Controller |-> None]
    /\ result' = "none"
    /\ kept' = [c \in Controller |-> NotKept]
    /\ missed' = [c \in Controller |-> {}]
    /\ unsure' = [c \in Controller |-> None]
    /\ UNCHANGED <<view, exists, assigned, settled>>

Settle ==
    /\ ~settled
    /\ settled' = TRUE
    /\ UNCHANGED <<view, exists, assigned, groupCache, lock, pc, passVars, result,
                   historyVars>>

Environment ==
    \/ \E k \in Kind : BindingsChange(k)
    \/ \E g \in Group : GroupDeleted(g) \/ GroupCreated(g)
    \/ \E sp \in SP, g \in Group : AssignmentChanged(sp, g)
    \/ Restart
    \/ Settle

Next ==
    \/ \E c \in Controller : Start(c) \/ Lock(c) \/ PassStep(c)
    \/ Environment

Spec == Init /\ [][Next]_vars

(* Every return from Reconcile leaves a work item behind (resync timer or  *)
(* back-off), the start-up source adds one, sync.Mutex does not stay free  *)
(* with a waiter, and a Graph call that does not fail answers.             *)
Fairness ==
    \A c \in Controller :
        WF_vars(Start(c)) /\ WF_vars(Lock(c)) /\ WF_vars(PassStep(c))

FairSpec == Spec /\ Fairness

-----------------------------------------------------------------------------
(* Properties.                                                             *)

(* Every variable stays in its range: in particular the sets of groups to  *)
(* want, assign and remove hold object IDs, never the spelling of a name.  *)
TypeOK ==
    /\ view \in [Kind -> SUBSET Name]
    /\ exists \in SUBSET Group
    /\ assigned \in [SP -> SUBSET Group]
    /\ groupCache \in [Name -> {"absent", "id", "nil"}]
    /\ lock \in Controller \cup {Free}
    /\ pc \in [Controller -> {"idle", "waiting", "listRoleBindings",
                "listClusterRoleBindings", "resolve", "listAssignments", "apply"}]
    /\ candidates \in [Controller -> SUBSET Name]
    /\ desired \in [Controller -> SUBSET Group]
    /\ unlisted \in [Controller -> SUBSET SP]
    /\ toAssign \in [Controller -> [SP -> SUBSET Group]]
    /\ toRemove \in [Controller -> [SP -> SUBSET Group]]
    /\ result \in {"none", "success", "error"}
    /\ settled \in BOOLEAN
    /\ kept \in [Controller -> [Kind -> SUBSET Name]]
    /\ missed \in [Controller -> SUBSET Name]
    /\ unsure \in [Controller -> [SP -> SUBSET Group]]

(* What a pass believes of a service principal it has listed is still so,  *)
(* apart from the pairs changed by others or by a call of its own that     *)
(* failed: it only assigns what is missing and wanted, only removes what is *)
(* present and unwanted, and the rest is already right.  Without the mutex *)
(* the other controller's writes would make the belief stale.              *)
Believed(c, sp, g) ==
    IF g \in toAssign[c][sp] THEN g \in desired[c] /\ g \notin assigned[sp]
    ELSE IF g \in toRemove[c][sp] THEN g \notin desired[c] /\ g \in assigned[sp]
    ELSE g \in desired[c] <=> g \in assigned[sp]

BeliefHolds ==
    \A c \in Acting : \A sp \in SP \ unlisted[c], g \in Group :
        g \in unsure[c][sp] \/ Believed(c, sp, g)

(* A group whose reference did not move while the pass ran, under a name   *)
(* the pass managed to look up, is never up for removal: the union over    *)
(* both lists is not fooled by whatever else moves between the two reads.  *)
SteadyReferenceKept ==
    \A c \in Controller, k \in Kind, n \in Name, sp \in SP :
        n \in kept[c][k] \ missed[c] => ObjectId[n] \notin toRemove[c][sp]

(* docs/ARCHITECTURE.md:111 has no exception for lookups: "a group that is *)
(* still referenced by any other binding remains assigned; this prevents   *)
(* premature de-assignment".                                               *)
ReferencedGroupRemains ==
    \A c \in Controller, k \in Kind, n \in Name, sp \in SP :
        n \in kept[c][k] /\ ObjectId[n] \in exists
            => ObjectId[n] \notin toRemove[c][sp]

(* Both controllers' passes, however they interleave, look like one pass   *)
(* after another to Entra.                                                 *)
Sequential == INSTANCE SequentialReconciler WITH
    goal  <- [c \in Acting |-> desired[c]],
    doubt <- [sp \in SP |-> UNION {unsure[c][sp] : c \in Acting}]

OnePassAtATime == Sequential!Spec

(* The assignments the bindings call for.  A reply without an ID, once in  *)
(* the cache, hides its name until the process restarts.                   *)
Existing == {n \in Referenced : ObjectId[n] \in exists}
Reachable == {n \in Existing : groupCache[n] # "nil"}
InSync == \A sp \in SP : assigned[sp] = {ObjectId[n] : n \in Reachable}

(* Once bindings and Entra stay as they are and calls stop failing, the    *)
(* assignments become and stay what the bindings call for, whatever state  *)
(* failures, restarts and other writers left behind.                       *)
Converges == <>[](settled => InSync)

(* docs/ARCHITECTURE.md:117 has no exception for cached replies: "retries  *)
(* naturally converge when transient failures clear".                      *)
EveryReferenceConverges ==
    <>[](settled => \A sp \in SP, n \in Existing : ObjectId[n] \in assigned[sp])
=============================================================================
