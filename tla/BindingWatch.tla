---------------------------- MODULE BindingWatch ----------------------------
(***************************************************************************)
(* How binding events reach the convergence pass: the event predicates and *)
(* handlers of internal/controller/binding_events.go, the two reconcilers, *)
(* and the part of the pass that reads the bindings.                       *)
(*                                                                         *)
(* Both controllers watch one kind of binding through an informer.  An     *)
(* informer event changes the informer's cache first and reaches the       *)
(* predicate and the work queue later; a pass reads the caches of both     *)
(* kinds.  The question the module answers is whether events that are      *)
(* dropped, coalesced or overtaken by a pass ever leave the last pass with *)
(* an outdated set of groups and nothing queued to replace it.             *)
(*                                                                         *)
(* External, modelled from how the source uses them: the informer cache    *)
(* (any object may change to any other state, as after a broken watch),    *)
(* and the controller-runtime work queue, which keeps one entry per key.   *)
(* Resolution against Entra and the writes belong to StateReconciler: here *)
(* a pass ends by remembering what it wants.                               *)
(***************************************************************************)
EXTENDS Naturals

CONSTANTS
    RoleBinding,        \* RoleBinding objects (namespace and name)
    ClusterRoleBinding, \* ClusterRoleBinding objects
    Subject,            \* subject entries: a kind and a name
    ManagedGroup,       \* [subset of Subject -> identity], the entries of kind Group
                        \* with a valid UUID, and the UUID without its letter case
    SubjectLists,       \* the subject lists bindings have
    MaxNotices,         \* bound on events on their way to one work queue
    Free                \* the mutex is not held

Binding == RoleBinding \cup ClusterRoleBinding
Kind == {"rolebinding", "clusterrolebinding"}
Objects(k) == IF k = "rolebinding" THEN RoleBinding ELSE ClusterRoleBinding
Managed == DOMAIN ManagedGroup
Identity == {ManagedGroup[s] : s \in Managed}

ASSUME BindingAssumption == RoleBinding \cap ClusterRoleBinding = {}
ASSUME SubjectAssumption ==
    /\ Managed \subseteq Subject
    /\ SubjectLists \subseteq SUBSET Subject
ASSUME MaxNoticesAssumption == MaxNotices \in Nat \ {0}
ASSUME FreeKindAssumption == Free \notin Kind

(* A binding as the cache holds it; Absent is no binding. *)
Absent == [subjects |-> {}, deleting |-> FALSE, live |-> FALSE]
Present == [subjects : SubjectLists, deleting : BOOLEAN, live : {TRUE}]
BindingState == Present \cup {Absent}

VARIABLES
    cache,      \* [Binding -> BindingState], the informers' caches
    notices,    \* [Kind -> 0..MaxNotices], relevant events not yet handled
    queue,      \* [Kind -> ...], the queue's entry for fullStateRequest: none,
                \* one that is due, or one waiting for back-off or resync
    pc,         \* [Kind -> ...], where each controller's worker is
    lock,       \* StateReconciler.mu
    found,      \* [Kind -> SUBSET Identity], what a pass has read so far
    wanted,     \* what the last pass to get through wanted
    settled     \* from here on bindings do not change and lists do not fail

vars == <<cache, notices, queue, pc, lock, found, wanted, settled>>
queueVars == <<notices, queue>>
passVars == <<pc, lock, found, wanted>>

-----------------------------------------------------------------------------
(* binding_events.go: which events matter.                                 *)

(* The valid Group subjects as they are spelled. *)
AsSpelled(b) == b.subjects \cap Managed

(* managedGroupSubjects: only Group subjects with a valid UUID, lower case. *)
(* extractGroupsFromSubjects keeps the spelling; Entra gives all spellings  *)
(* of a UUID the same group, so the identity stands for either.             *)
ManagedGroupSubjects(b) == {ManagedGroup[s] : s \in b.subjects \cap Managed}
HasManagedGroupSubjects(b) == ManagedGroupSubjects(b) # {}

(* The predicate without its test of the deletion timestamps. *)
SubjectsDiffer(old, new) ==
    IF old.live /\ new.live
    THEN ManagedGroupSubjects(old) # ManagedGroupSubjects(new)
    ELSE HasManagedGroupSubjects(IF new.live THEN new ELSE old)

(* bindingGroupPredicate: create, delete and update events.                *)
Relevant(old, new) ==
    IF old.live /\ new.live
    THEN IF old.deleting # new.deleting
         THEN HasManagedGroupSubjects(old) \/ HasManagedGroupSubjects(new)
         ELSE ManagedGroupSubjects(old) # ManagedGroupSubjects(new)
    ELSE HasManagedGroupSubjects(IF new.live THEN new ELSE old)

(* buildKubernetesDesiredGroupIDs over one list: bindings being deleted do *)
(* not count; extractGroupsFromSubjects takes the same subjects.           *)
GroupsOf(B) ==
    UNION {ManagedGroupSubjects(cache[b]) : b \in {x \in B : ~cache[x].deleting}}

Desired == GroupsOf(Binding)

(* No process is running. *)
Down == \A k \in Kind : pc[k] = "down"

-----------------------------------------------------------------------------
Init ==
    /\ cache \in [Binding -> BindingState]
    /\ notices = [k \in Kind |-> 0]
    /\ queue = [k \in Kind |-> "due"]
    /\ pc = [k \in Kind |-> "idle"]
    /\ lock = Free
    /\ found = [k \in Kind |-> {}]
    /\ wanted \in SUBSET Identity
    /\ settled = FALSE

(* The informer of kind k stores a new state of b; its event goes through  *)
(* the predicate, and a relevant one is on its way to the queue.           *)
BindingEvent(k, b, new) ==
    /\ ~settled
    /\ new # cache[b]
    /\ cache' = [cache EXCEPT ![b] = new]
    /\ IF ~Down /\ Relevant(cache[b], new)
       THEN notices[k] < MaxNotices /\ notices' = [notices EXCEPT ![k] = @ + 1]
       ELSE UNCHANGED notices
    /\ UNCHANGED <<queue, passVars, settled>>

(* enqueueFullState: every event maps to the one work item. *)
EnqueueFullState(k) ==
    /\ notices[k] > 0
    /\ notices' = [notices EXCEPT ![k] = @ - 1]
    /\ queue' = [queue EXCEPT ![k] = "due"]
    /\ UNCHANGED <<cache, passVars, settled>>

(* A delayed entry falls due: why is "retry" or "resync". *)
DelayExpires(k, why) ==
    /\ queue[k] = why
    /\ queue' = [queue EXCEPT ![k] = "due"]
    /\ UNCHANGED <<cache, notices, passVars, settled>>

-----------------------------------------------------------------------------
(* The two reconcilers.                                                    *)

(* The worker takes the item; an add from now on makes a new entry. *)
Take(k) ==
    /\ pc[k] = "idle"
    /\ queue[k] = "due"
    /\ queue' = [queue EXCEPT ![k] = "none"]
    /\ pc' = [pc EXCEPT ![k] = "waiting"]
    /\ UNCHANGED <<cache, notices, lock, found, wanted, settled>>

Lock(k) ==
    /\ pc[k] = "waiting"
    /\ lock = Free
    /\ lock' = k
    /\ pc' = [pc EXCEPT ![k] = "listRoleBindings"]
    /\ UNCHANGED <<cache, queueVars, found, wanted, settled>>

ListRoleBindings(k) ==
    /\ pc[k] = "listRoleBindings"
    /\ found' = [found EXCEPT ![k] = GroupsOf(RoleBinding)]
    /\ pc' = [pc EXCEPT ![k] = "listClusterRoleBindings"]
    /\ UNCHANGED <<cache, queueVars, lock, wanted, settled>>

ListClusterRoleBindings(k) ==
    /\ pc[k] = "listClusterRoleBindings"
    /\ found' = [found EXCEPT ![k] = @ \cup GroupsOf(ClusterRoleBinding)]
    /\ pc' = [pc EXCEPT ![k] = "converge"]
    /\ UNCHANGED <<cache, queueVars, lock, wanted, settled>>

(* Reconcile returns: the mutex is released, and the item comes back later *)
(* unless an event has made it due already.                                *)
Return(k, later) ==
    /\ lock' = Free
    /\ pc' = [pc EXCEPT ![k] = "idle"]
    /\ found' = [found EXCEPT ![k] = {}]
    /\ queue' = [queue EXCEPT ![k] = IF @ = "due" THEN @ ELSE later]
    /\ UNCHANGED <<cache, notices, settled>>

(* Success: the set is in force, and the item is requeued after the resync *)
(* period.                                                                 *)
Converge(k) ==
    /\ pc[k] = "converge"
    /\ wanted' = found[k]
    /\ Return(k, "resync")

(* An error of the pass that is logged and not returned: no back-off. *)
FailSilently(k) ==
    /\ pc[k] \in {"listRoleBindings", "listClusterRoleBindings", "converge"}
    /\ ~settled
    /\ UNCHANGED wanted
    /\ Return(k, "resync")

(* A list of bindings or of assignments fails: Reconcile returns the error *)
(* and the queue retries with back-off.                                    *)
Fail(k) ==
    /\ pc[k] \in {"listRoleBindings", "listClusterRoleBindings", "converge"}
    /\ ~settled
    /\ UNCHANGED wanted
    /\ Return(k, "retry")

-----------------------------------------------------------------------------
(* The process ends; bindings go on changing without it. *)
Stop ==
    /\ ~settled
    /\ notices' = [k \in Kind |-> 0]
    /\ queue' = [k \in Kind |-> "none"]
    /\ pc' = [k \in Kind |-> "down"]
    /\ lock' = Free
    /\ found' = [k \in Kind |-> {}]
    /\ UNCHANGED <<cache, wanted, settled>>

(* Its successor starts its workers on a full cache, whose objects arrive  *)
(* as create events, and initialFullState queues one pass whether or not   *)
(* any of them matters.                                                    *)
Startup ==
    /\ Down
    /\ notices' = [k \in Kind |->
                      IF \E b \in Objects(k) : Relevant(Absent, cache[b]) THEN 1 ELSE 0]
    /\ queue' = [k \in Kind |-> "due"]
    /\ pc' = [k \in Kind |-> "idle"]
    /\ UNCHANGED <<cache, lock, found, wanted, settled>>

Settle ==
    /\ ~settled
    /\ settled' = TRUE
    /\ UNCHANGED <<cache, queueVars, passVars>>

PassStep(k) ==
    \/ Lock(k)
    \/ ListRoleBindings(k)
    \/ ListClusterRoleBindings(k)
    \/ Converge(k)
    \/ Fail(k)

Next ==
    \/ \E k \in Kind :
          \/ \E b \in Objects(k), new \in BindingState : BindingEvent(k, b, new)
          \/ EnqueueFullState(k)
          \/ \E why \in {"retry", "resync"} : DelayExpires(k, why)
          \/ Take(k)
          \/ PassStep(k)
    \/ Stop
    \/ Startup
    \/ Settle

Spec == Init /\ [][Next]_vars

(* Handlers and workers run, a free mutex is taken, back-off ends.  Nothing *)
(* is asked of the resync timer: the properties are about events alone.     *)
Fairness ==
    /\ WF_vars(Startup)
    /\ \A k \in Kind :
        /\ WF_vars(EnqueueFullState(k))
        /\ WF_vars(DelayExpires(k, "retry"))
        /\ WF_vars(Take(k))
        /\ WF_vars(PassStep(k))

FairSpec == Spec /\ Fairness

-----------------------------------------------------------------------------
(* Properties.                                                             *)
TypeOK ==
    /\ cache \in [Binding -> BindingState]
    /\ notices \in [Kind -> 0..MaxNotices]
    /\ queue \in [Kind -> {"none", "due", "retry", "resync"}]
    /\ pc \in [Kind -> {"down", "idle", "waiting", "listRoleBindings",
                        "listClusterRoleBindings", "converge"}]
    /\ lock \in Kind \cup {Free}
    /\ found \in [Kind -> SUBSET Identity]
    /\ wanted \in SUBSET Identity
    /\ settled \in BOOLEAN

(* Nothing under way that a binding event or a failure caused. *)
Quiet ==
    \A k \in Kind :
        notices[k] = 0 /\ pc[k] = "idle" /\ queue[k] \in {"none", "resync"}

(* No update is lost: whenever both controllers have nothing left to do    *)
(* but wait for the resync timer, the last pass wanted exactly what the    *)
(* live bindings reference.  An event the predicate drops, events folded   *)
(* into one item, an event during a pass, a pass of the other controller   *)
(* in between, failures and restarts make no difference.                   *)
NoLostUpdate == Quiet => wanted = Desired

(* Events alone bring the assignments up to date: the resync timer is not  *)
(* needed once bindings stay as they are and lists stop failing.           *)
EventsSuffice == <>[](settled => wanted = Desired)
=============================================================================
