------------------------- MODULE BindingWatchProofs -------------------------
(***************************************************************************)
(* Theorems about BindingWatch, for any bindings, subjects, subject lists  *)
(* and bound on the events under way.                                      *)
(*                                                                         *)
(* NoLostUpdate speaks of the moments when nothing is under way.  The      *)
(* invariant that carries it says for all the others what is still to      *)
(* come: Pending, that a controller owes a pass which reads everything     *)
(* anew, and Covered, that what has been read or is wanted is right unless *)
(* such a pass is owed.                                                    *)
(***************************************************************************)
EXTENDS BindingWatch, TLAPS

RB == "rolebinding"
CRB == "clusterrolebinding"

(* The stages of a pass inside the critical section. *)
Inside == {"listRoleBindings", "listClusterRoleBindings", "converge"}

MutexOK == \A k \in Kind : pc[k] \in Inside <=> lock = k

(* While a pass runs its item is not in the queue, unless an event put a   *)
(* new one there, so no delay of an earlier pass is left over.             *)
QueueOK == \A k \in Kind : pc[k] \in Inside \cup {"waiting"} => queue[k] \in {"none", "due"}

(* Controller k is going to read both kinds of bindings from here on. *)
Pending(k) ==
    \/ notices[k] > 0
    \/ queue[k] \in {"due", "retry"}
    \/ pc[k] \in {"down", "waiting", "listRoleBindings"}

(* What k's pass has read is up to date, or the controller of the kind that *)
(* changed owes a pass.                                                    *)
ReadsCovered(k) ==
    /\ pc[k] = "listClusterRoleBindings" =>
          found[k] = GroupsOf(RoleBinding) \/ Pending(RB)
    /\ pc[k] = "converge" => found[k] = Desired \/ \E j \in Kind : Pending(j)

(* The same for what the last pass wanted, also excused by a pass on its way. *)
WantedCovered ==
    \/ wanted = Desired
    \/ \E k \in Kind : Pending(k) \/ pc[k] \in Inside

IInv ==
    /\ TypeOK
    /\ MutexOK
    /\ QueueOK
    /\ \A k \in Kind : ReadsCovered(k)
    /\ WantedCovered

-----------------------------------------------------------------------------
(* Types.                                                                  *)

LEMMA KindTwo == Kind = {RB, CRB} /\ RB # CRB
  BY DEF Kind, RB, CRB

(* Whatever bindings are read, the result is a set of identities. *)
LEMMA GroupsOfType == \A B : GroupsOf(B) \in SUBSET Identity
  BY DEF GroupsOf, ManagedGroupSubjects, Identity, Managed

LEMMA GroupsOfTypeNext == \A B : GroupsOf(B)' \in SUBSET Identity
  BY DEF GroupsOf, ManagedGroupSubjects, Identity, Managed

LEMMA ObjectsAreBindings == \A k \in Kind : Objects(k) \subseteq Binding
  BY DEF Objects, Binding

LEMMA TypeInit == Init => TypeOK
  <1> SUFFICES ASSUME Init PROVE TypeOK
    OBVIOUS
  <1>1. 0 \in 0..MaxNotices
    BY MaxNoticesAssumption
  <1>2. notices \in [Kind -> 0..MaxNotices]
    BY <1>1 DEF Init
  <1>3. found \in [Kind -> SUBSET Identity] /\ wanted \in SUBSET Identity
    BY DEF Init
  <1> QED
    BY <1>2, <1>3 DEF Init, TypeOK

LEMMA ReturnType ==
  ASSUME TypeOK, NEW k \in Kind, NEW later \in {"resync", "retry"},
         wanted' \in SUBSET Identity, Return(k, later)
  PROVE  TypeOK'
  BY DEF TypeOK, Return

LEMMA TypeStep == TypeOK /\ [Next]_vars => TypeOK'
  <1> SUFFICES ASSUME TypeOK, [Next]_vars PROVE TypeOK'
    OBVIOUS
  <1>1. ASSUME NEW k \in Kind, NEW b \in Objects(k), NEW new \in BindingState,
               BindingEvent(k, b, new)
        PROVE  TypeOK'
    <2>1. b \in Binding
      BY ObjectsAreBindings
    <2>2. cache' \in [Binding -> BindingState]
      BY <1>1, <2>1 DEF BindingEvent, TypeOK
    <2>3. notices' \in [Kind -> 0..MaxNotices]
      BY <1>1, MaxNoticesAssumption DEF BindingEvent, TypeOK
    <2> QED
      BY <1>1, <2>2, <2>3 DEF BindingEvent, TypeOK, passVars
  <1>2. ASSUME NEW k \in Kind, EnqueueFullState(k) PROVE TypeOK'
    BY <1>2, MaxNoticesAssumption DEF EnqueueFullState, TypeOK, passVars
  <1>3. ASSUME NEW k \in Kind, NEW why \in {"retry", "resync"}, DelayExpires(k, why)
        PROVE  TypeOK'
    BY <1>3 DEF DelayExpires, TypeOK, passVars
  <1>4. ASSUME NEW k \in Kind, Take(k) PROVE TypeOK'
    BY <1>4 DEF Take, TypeOK
  <1>5. ASSUME NEW k \in Kind, Lock(k) PROVE TypeOK'
    BY <1>5 DEF Lock, TypeOK, queueVars
  <1>6. ASSUME NEW k \in Kind, ListRoleBindings(k) PROVE TypeOK'
    BY <1>6, GroupsOfType DEF ListRoleBindings, TypeOK, queueVars
  <1>7. ASSUME NEW k \in Kind, ListClusterRoleBindings(k) PROVE TypeOK'
    <2>1. found[k] \cup GroupsOf(ClusterRoleBinding) \in SUBSET Identity
      BY GroupsOfType DEF TypeOK
    <2> QED
      BY <1>7, <2>1 DEF ListClusterRoleBindings, TypeOK, queueVars
  <1>8. ASSUME NEW k \in Kind, Converge(k) PROVE TypeOK'
    BY <1>8, ReturnType DEF Converge, TypeOK
  <1>9. ASSUME NEW k \in Kind, Fail(k) PROVE TypeOK'
    BY <1>9, ReturnType DEF Fail, TypeOK
  <1>10. CASE Stop
    BY <1>10, MaxNoticesAssumption DEF Stop, TypeOK
  <1>11. CASE Startup
    BY <1>11, MaxNoticesAssumption DEF Startup, TypeOK
  <1>12. CASE Settle
    BY <1>12 DEF Settle, TypeOK, queueVars, passVars
  <1>13. CASE UNCHANGED vars
    BY <1>13 DEF TypeOK, vars
  <1> QED
    BY <1>1, <1>2, <1>3, <1>4, <1>5, <1>6, <1>7, <1>8, <1>9, <1>10, <1>11, <1>12, <1>13
       DEF Next, PassStep

(* BindingWatch: every variable keeps its type, and the events on their    *)
(* way to a queue their bound.                                             *)
THEOREM TypeCorrect == Spec => []TypeOK
  <1>1. TypeOK /\ [Next]_vars => TypeOK'
    BY TypeStep
  <1> QED
    BY TypeInit, <1>1, PTL DEF Spec

-----------------------------------------------------------------------------
(* What the predicate drops.                                               *)

(* The groups one binding contributes to the desired set. *)
Contribution(x) == IF x.deleting THEN {} ELSE ManagedGroupSubjects(x)

LEMMA AbsentHasNone == ManagedGroupSubjects(Absent) = {} /\ ~Absent.live
  BY DEF ManagedGroupSubjects, Absent

(* An object in the cache is there, or has nothing to contribute. *)
LEMMA LiveOrAbsent == \A x \in BindingState : x.live \/ ManagedGroupSubjects(x) = {}
  <1> TAKE x \in BindingState
  <1>1. CASE x \in Present
    BY <1>1 DEF Present
  <1>2. CASE x = Absent
    BY <1>2, AbsentHasNone
  <1> QED
    BY <1>1, <1>2 DEF BindingState

(* bindingGroupPredicate drops an event only if the binding contributes    *)
(* after it what it contributed before.                                    *)
LEMMA DroppedIsHarmless ==
  ASSUME NEW old \in BindingState, NEW new \in BindingState, ~Relevant(old, new)
  PROVE  Contribution(old) = Contribution(new)
  <1>1. CASE old.live /\ new.live
    <2>1. CASE old.deleting # new.deleting
      <3>1. ManagedGroupSubjects(old) = {} /\ ManagedGroupSubjects(new) = {}
        BY <1>1, <2>1 DEF Relevant, HasManagedGroupSubjects
      <3> QED
        BY <3>1 DEF Contribution
    <2>2. CASE old.deleting = new.deleting
      BY <1>1, <2>2 DEF Relevant, Contribution
    <2> QED
      BY <2>1, <2>2
  <1>2. CASE ~(old.live /\ new.live)
    <2>1. ManagedGroupSubjects(IF new.live THEN new ELSE old) = {}
      BY <1>2 DEF Relevant, HasManagedGroupSubjects
    <2>2. ManagedGroupSubjects(old) = {} /\ ManagedGroupSubjects(new) = {}
      BY <1>2, <2>1, LiveOrAbsent
    <2> QED
      BY <2>2 DEF Contribution
  <1> QED
    BY <1>1, <1>2

LEMMA GroupsAreContributions ==
  \A B : GroupsOf(B) = UNION {Contribution(cache[b]) : b \in B}
  BY DEF GroupsOf, Contribution

LEMMA GroupsAreContributionsNext ==
  \A B : GroupsOf(B)' = UNION {Contribution(cache'[b]) : b \in B}
  BY DEF GroupsOf, Contribution

LEMMA DesiredIsBoth == Desired = GroupsOf(RoleBinding) \cup GroupsOf(ClusterRoleBinding)
  BY DEF Desired, GroupsOf, Binding

LEMMA DesiredIsBothNext ==
  Desired' = GroupsOf(RoleBinding)' \cup GroupsOf(ClusterRoleBinding)'
  BY DEF Desired, GroupsOf, Binding

(* An event leaves what the other kind's bindings reference, and what its   *)
(* own kind's reference unless it owes a pass.                             *)
LEMMA EventIsCovered ==
  ASSUME TypeOK, NEW k \in Kind, NEW b \in Objects(k), NEW new \in BindingState,
         BindingEvent(k, b, new)
  PROVE  /\ \A j \in Kind : GroupsOf(Objects(j))' = GroupsOf(Objects(j)) \/ Pending(j)'
         /\ \A j \in Kind : Pending(j) => Pending(j)'
  <1>1. b \in Binding
    BY ObjectsAreBindings
  <1>2. \A x \in Binding : cache'[x] = IF x = b THEN new ELSE cache[x]
    BY <1>1 DEF BindingEvent, TypeOK
  <1>3. \A j \in Kind : Pending(j) => Pending(j)'
    BY DEF BindingEvent, TypeOK, Pending, queueVars, passVars
  <1>4. ASSUME NEW j \in Kind, j # k PROVE GroupsOf(Objects(j))' = GroupsOf(Objects(j))
    <2>1. b \notin Objects(j)
      BY <1>4, BindingAssumption DEF Objects, Kind
    <2>2. \A x \in Objects(j) : cache'[x] = cache[x]
      BY <1>2, <2>1, ObjectsAreBindings
    <2>3. GroupsOf(Objects(j)) = UNION {Contribution(cache[x]) : x \in Objects(j)}
      BY GroupsAreContributions
    <2>4. GroupsOf(Objects(j))' = UNION {Contribution(cache'[x]) : x \in Objects(j)}
      BY GroupsAreContributionsNext DEF Objects
    <2> QED
      BY <2>2, <2>3, <2>4
  <1>5. GroupsOf(Objects(k))' = GroupsOf(Objects(k)) \/ Pending(k)'
    <2>1. CASE Down
      BY <2>1 DEF Down, BindingEvent, Pending, passVars
    <2>2. CASE ~Down /\ Relevant(cache[b], new)
      BY <2>2 DEF BindingEvent, TypeOK, Pending
    <2>3. CASE ~Relevant(cache[b], new)
      <3>1. cache[b] \in BindingState
        BY <1>1 DEF TypeOK
      <3>2. Contribution(cache[b]) = Contribution(new)
        BY <2>3, <3>1, DroppedIsHarmless
      <3>3. \A x \in Objects(k) : Contribution(cache'[x]) = Contribution(cache[x])
        BY <1>2, <3>2, ObjectsAreBindings
      <3>4. GroupsOf(Objects(k)) = UNION {Contribution(cache[x]) : x \in Objects(k)}
        BY GroupsAreContributions
      <3>5. GroupsOf(Objects(k))' = UNION {Contribution(cache'[x]) : x \in Objects(k)}
        BY GroupsAreContributionsNext DEF Objects
      <3> QED
        BY <3>3, <3>4, <3>5
    <2> QED
      BY <2>1, <2>2, <2>3
  <1> QED
    BY <1>3, <1>4, <1>5

-----------------------------------------------------------------------------
(* The mutex and the queue.                                                *)

LEMMA MutexStep == TypeOK /\ MutexOK /\ [Next]_vars => MutexOK'
  <1> SUFFICES ASSUME TypeOK, MutexOK, [Next]_vars PROVE MutexOK'
    OBVIOUS
  <1> USE FreeKindAssumption
  <1>1. CASE UNCHANGED <<pc, lock>>
    BY <1>1 DEF MutexOK
  <1>2. ASSUME NEW k \in Kind, Take(k) PROVE MutexOK'
    BY <1>2 DEF Take, TypeOK, MutexOK, Inside
  <1>3. ASSUME NEW k \in Kind, Lock(k) PROVE MutexOK'
    BY <1>3 DEF Lock, TypeOK, MutexOK, Inside
  <1>4. ASSUME NEW k \in Kind, ListRoleBindings(k) PROVE MutexOK'
    BY <1>4 DEF ListRoleBindings, TypeOK, MutexOK, Inside
  <1>5. ASSUME NEW k \in Kind, ListClusterRoleBindings(k) PROVE MutexOK'
    BY <1>5 DEF ListClusterRoleBindings, TypeOK, MutexOK, Inside
  <1>6. ASSUME NEW k \in Kind, Converge(k) \/ Fail(k) PROVE MutexOK'
    <2>1. pc[k] \in Inside /\ lock = k
      BY <1>6 DEF Converge, Fail, MutexOK, Inside
    <2>2. lock' = Free /\ pc' = [pc EXCEPT ![k] = "idle"]
      BY <1>6 DEF Converge, Fail, Return
    <2> QED
      BY <2>1, <2>2 DEF TypeOK, MutexOK, Inside
  <1>7. CASE Stop
    BY <1>7 DEF Stop, MutexOK, Inside
  <1>8. CASE Startup
    BY <1>8 DEF Startup, Down, MutexOK, Inside
  <1> QED
    BY <1>1, <1>2, <1>3, <1>4, <1>5, <1>6, <1>7, <1>8
       DEF Next, PassStep, BindingEvent, EnqueueFullState, DelayExpires, Settle, vars,
           passVars

LEMMA QueueStep == TypeOK /\ QueueOK /\ [Next]_vars => QueueOK'
  <1> SUFFICES ASSUME TypeOK, QueueOK, [Next]_vars PROVE QueueOK'
    OBVIOUS
  <1>1. CASE UNCHANGED <<pc, queue>>
    BY <1>1 DEF QueueOK
  <1>2. ASSUME NEW k \in Kind, EnqueueFullState(k) PROVE QueueOK'
    BY <1>2 DEF EnqueueFullState, TypeOK, QueueOK, passVars
  <1>3. ASSUME NEW k \in Kind, NEW why \in {"retry", "resync"}, DelayExpires(k, why)
        PROVE  QueueOK'
    BY <1>3 DEF DelayExpires, TypeOK, QueueOK, passVars
  <1>4. ASSUME NEW k \in Kind, Take(k) PROVE QueueOK'
    BY <1>4 DEF Take, TypeOK, QueueOK, Inside
  <1>5. ASSUME NEW k \in Kind, Lock(k) \/ ListRoleBindings(k) \/ ListClusterRoleBindings(k)
        PROVE  QueueOK'
    <2>1. pc[k] \in Inside \cup {"waiting"} /\ UNCHANGED queue
      BY <1>5 DEF Lock, ListRoleBindings, ListClusterRoleBindings, Inside, queueVars
    <2>2. \A j \in Kind : j # k => pc'[j] = pc[j]
      BY <1>5 DEF Lock, ListRoleBindings, ListClusterRoleBindings, TypeOK
    <2> QED
      BY <2>1, <2>2 DEF QueueOK
  <1>6. ASSUME NEW k \in Kind, Converge(k) \/ Fail(k) PROVE QueueOK'
    <2>1. pc' = [pc EXCEPT ![k] = "idle"] /\ \A j \in Kind : j # k => queue'[j] = queue[j]
      BY <1>6 DEF Converge, Fail, Return, TypeOK
    <2> QED
      BY <2>1 DEF TypeOK, QueueOK, Inside
  <1>7. CASE Stop
    BY <1>7 DEF Stop, QueueOK, Inside
  <1>8. CASE Startup
    BY <1>8 DEF Startup, QueueOK, Inside
  <1> QED
    BY <1>1, <1>2, <1>3, <1>4, <1>5, <1>6, <1>7, <1>8
       DEF Next, PassStep, BindingEvent, Settle, vars, queueVars, passVars

-----------------------------------------------------------------------------
(* The coverage of what was read and of what is wanted.                    *)

Covered == (\A k \in Kind : ReadsCovered(k)) /\ WantedCovered

(* Steps that leave what the bindings reference, what was read and where    *)
(* the passes are, and owe no fewer passes.                                *)
LEMMA IdleStepCovered ==
  ASSUME Covered, UNCHANGED <<cache, found, wanted, pc>>,
         \A j \in Kind : Pending(j) => Pending(j)'
  PROVE  Covered'
  <1>1. Desired' = Desired /\ GroupsOf(RoleBinding)' = GroupsOf(RoleBinding)
    BY DEF Desired, GroupsOf
  <1>2. RB \in Kind
    BY KindTwo
  <1> QED
    BY <1>1, <1>2 DEF Covered, ReadsCovered, WantedCovered

LEMMA EventCovered ==
  ASSUME TypeOK, Covered, NEW k \in Kind, NEW b \in Objects(k), NEW new \in BindingState,
         BindingEvent(k, b, new)
  PROVE  Covered'
  <1>1. RB \in Kind /\ CRB \in Kind /\ Objects(RB) = RoleBinding
        /\ Objects(CRB) = ClusterRoleBinding
    BY DEF Kind, RB, CRB, Objects
  <1>2. GroupsOf(RoleBinding)' = GroupsOf(RoleBinding) \/ Pending(RB)'
    <2>1. GroupsOf(Objects(RB))' = GroupsOf(Objects(RB)) \/ Pending(RB)'
      BY <1>1, EventIsCovered
    <2> QED
      BY <1>1, <2>1
  <1>3. GroupsOf(ClusterRoleBinding)' = GroupsOf(ClusterRoleBinding) \/ Pending(CRB)'
    <2>1. GroupsOf(Objects(CRB))' = GroupsOf(Objects(CRB)) \/ Pending(CRB)'
      BY <1>1, EventIsCovered
    <2> QED
      BY <1>1, <2>1
  <1>4. Desired' = Desired \/ \E j \in Kind : Pending(j)'
    BY <1>1, <1>2, <1>3, DesiredIsBoth, DesiredIsBothNext
  <1>5. \A j \in Kind : Pending(j) => Pending(j)'
    BY EventIsCovered
  <1>6. UNCHANGED <<pc, found, wanted>>
    BY DEF BindingEvent, passVars
  <1> QED
    BY <1>1, <1>2, <1>4, <1>5, <1>6 DEF Covered, ReadsCovered, WantedCovered

(* A pass on its way from stage to stage inside the critical section, where *)
(* it is alone.                                                            *)
LEMMA ListRoleBindingsCovered ==
  ASSUME TypeOK, MutexOK, Covered, NEW k \in Kind, ListRoleBindings(k)
  PROVE  Covered'
  <1>1. \A j \in Kind : j # k => pc'[j] = pc[j] /\ pc[j] \notin Inside
    BY DEF ListRoleBindings, MutexOK, TypeOK, Inside
  <1>2. GroupsOf(RoleBinding)' = GroupsOf(RoleBinding)
    BY DEF ListRoleBindings, GroupsOf
  <1>3. pc'[k] = "listClusterRoleBindings" /\ found'[k] = GroupsOf(RoleBinding)
    BY DEF ListRoleBindings, TypeOK
  <1> QED
    BY <1>1, <1>2, <1>3 DEF Covered, ReadsCovered, WantedCovered, Inside

LEMMA ListClusterRoleBindingsCovered ==
  ASSUME TypeOK, MutexOK, Covered, NEW k \in Kind, ListClusterRoleBindings(k)
  PROVE  Covered'
  <1>1. \A j \in Kind : j # k => pc'[j] = pc[j] /\ pc[j] \notin Inside
    BY DEF ListClusterRoleBindings, MutexOK, TypeOK, Inside
  <1>2. Desired' = Desired
    BY DEF ListClusterRoleBindings, Desired, GroupsOf
  <1>3. pc'[k] = "converge" /\ found'[k] = found[k] \cup GroupsOf(ClusterRoleBinding)
    BY DEF ListClusterRoleBindings, TypeOK
  <1>4. found[k] = GroupsOf(RoleBinding) \/ Pending(RB)
    BY DEF ListClusterRoleBindings, Covered, ReadsCovered
  <1>5. Pending(RB) => Pending(RB)'
    <2>1. RB \in Kind /\ pc[k] = "listClusterRoleBindings"
      BY KindTwo DEF ListClusterRoleBindings
    <2> QED
      BY <1>1, <2>1 DEF ListClusterRoleBindings, Pending, queueVars
  <1>6. ReadsCovered(k)'
    <2>1. CASE found[k] = GroupsOf(RoleBinding)
      BY <1>2, <1>3, <2>1, DesiredIsBoth DEF ReadsCovered
    <2>2. CASE Pending(RB)
      BY <1>3, <1>5, <2>2, KindTwo DEF ReadsCovered
    <2> QED
      BY <1>4, <2>1, <2>2
  <1>7. \A j \in Kind : j # k => ReadsCovered(j)'
    BY <1>1 DEF ReadsCovered, Inside
  <1>8. WantedCovered'
    BY <1>3 DEF WantedCovered, Inside
  <1> QED
    BY <1>6, <1>7, <1>8 DEF Covered

(* A pass that ends owes no fewer passes than before. *)
LEMMA ReturnOwes ==
  ASSUME TypeOK, QueueOK, NEW k \in Kind, pc[k] \in {"listClusterRoleBindings", "converge"},
         NEW later \in {"resync", "retry"}, Return(k, later)
  PROVE  \A j \in Kind : Pending(j) => Pending(j)'
  <1> TAKE j \in Kind
  <1>1. CASE j # k
    BY <1>1 DEF Return, Pending, TypeOK
  <1>2. CASE j = k
    BY <1>2 DEF Return, Pending, TypeOK, QueueOK, Inside
  <1> QED
    BY <1>1, <1>2

LEMMA ConvergeCovered ==
  ASSUME TypeOK, MutexOK, QueueOK, Covered, NEW k \in Kind, Converge(k)
  PROVE  Covered'
  <1>1. \A j \in Kind : pc'[j] \notin Inside
    BY DEF Converge, Return, MutexOK, TypeOK, Inside
  <1>2. \A j \in Kind : ReadsCovered(j)'
    BY <1>1 DEF ReadsCovered, Inside
  <1>3. \A j \in Kind : Pending(j) => Pending(j)'
    BY ReturnOwes DEF Converge
  <1>4. Desired' = Desired
    BY DEF Converge, Return, Desired, GroupsOf
  <1>5. wanted' = found[k]
    BY DEF Converge
  <1>6. found[k] = Desired \/ \E j \in Kind : Pending(j)
    BY DEF Converge, Covered, ReadsCovered
  <1>7. WantedCovered'
    BY <1>3, <1>4, <1>5, <1>6 DEF WantedCovered
  <1> QED
    BY <1>2, <1>7 DEF Covered

LEMMA FailCovered ==
  ASSUME TypeOK, MutexOK, QueueOK, Covered, NEW k \in Kind, Fail(k)
  PROVE  Covered'
  <1>1. \A j \in Kind : pc'[j] \notin Inside
    BY DEF Fail, Return, MutexOK, TypeOK, Inside
  <1>2. \A j \in Kind : ReadsCovered(j)'
    BY <1>1 DEF ReadsCovered, Inside
  <1>3. Pending(k)'
    BY DEF Fail, Return, TypeOK, Pending
  <1>4. WantedCovered'
    BY <1>3 DEF WantedCovered
  <1> QED
    BY <1>2, <1>4 DEF Covered

LEMMA CoveredStep == IInv /\ [Next]_vars => Covered'
  <1> SUFFICES ASSUME IInv, [Next]_vars PROVE Covered'
    OBVIOUS
  <1> USE DEF IInv
  <1>0. Covered
    BY DEF Covered
  <1>1. ASSUME NEW k \in Kind, NEW b \in Objects(k), NEW new \in BindingState,
               BindingEvent(k, b, new)
        PROVE  Covered'
    BY <1>0, <1>1, EventCovered
  <1>2. ASSUME NEW k \in Kind, EnqueueFullState(k) PROVE Covered'
    <2>1. \A j \in Kind : Pending(j) => Pending(j)'
      BY <1>2 DEF EnqueueFullState, TypeOK, Pending, passVars
    <2> QED
      BY <1>0, <1>2, <2>1, IdleStepCovered DEF EnqueueFullState, passVars
  <1>3. ASSUME NEW k \in Kind, NEW why \in {"retry", "resync"}, DelayExpires(k, why)
        PROVE  Covered'
    <2>1. \A j \in Kind : Pending(j) => Pending(j)'
      BY <1>3 DEF DelayExpires, TypeOK, Pending, passVars
    <2> QED
      BY <1>0, <1>3, <2>1, IdleStepCovered DEF DelayExpires, passVars
  <1>4. ASSUME NEW k \in Kind, Take(k) PROVE Covered'
    <2>1. \A j \in Kind : j # k => pc'[j] = pc[j]
      BY <1>4 DEF Take, TypeOK
    <2>2. \A j \in Kind : Pending(j) => Pending(j)'
      BY <1>4 DEF Take, TypeOK, Pending
    <2>3. Pending(k)' /\ pc'[k] = "waiting"
      BY <1>4 DEF Take, TypeOK, Pending
    <2>4. Desired' = Desired /\ GroupsOf(RoleBinding)' = GroupsOf(RoleBinding)
      BY <1>4 DEF Take, Desired, GroupsOf
    <2>5. UNCHANGED found
      BY <1>4 DEF Take
    <2> QED
      BY <1>0, <2>1, <2>2, <2>3, <2>4, <2>5, KindTwo DEF Covered, ReadsCovered, WantedCovered
  <1>5. ASSUME NEW k \in Kind, Lock(k) PROVE Covered'
    <2>1. \A j \in Kind : j # k => pc'[j] = pc[j]
      BY <1>5 DEF Lock, TypeOK
    <2>2. \A j \in Kind : Pending(j) => Pending(j)'
      BY <1>5 DEF Lock, TypeOK, Pending, queueVars
    <2>3. Pending(k)' /\ pc'[k] = "listRoleBindings"
      BY <1>5 DEF Lock, TypeOK, Pending
    <2>4. Desired' = Desired /\ GroupsOf(RoleBinding)' = GroupsOf(RoleBinding)
      BY <1>5 DEF Lock, Desired, GroupsOf
    <2>5. UNCHANGED found
      BY <1>5 DEF Lock
    <2> QED
      BY <1>0, <2>1, <2>2, <2>3, <2>4, <2>5, KindTwo DEF Covered, ReadsCovered, WantedCovered
  <1>6. ASSUME NEW k \in Kind, ListRoleBindings(k) PROVE Covered'
    BY <1>0, <1>6, ListRoleBindingsCovered
  <1>7. ASSUME NEW k \in Kind, ListClusterRoleBindings(k) PROVE Covered'
    BY <1>0, <1>7, ListClusterRoleBindingsCovered
  <1>8. ASSUME NEW k \in Kind, Converge(k) PROVE Covered'
    BY <1>0, <1>8, ConvergeCovered
  <1>9. ASSUME NEW k \in Kind, Fail(k) PROVE Covered'
    BY <1>0, <1>9, FailCovered
  <1>10. CASE Stop
    <2>1. \A j \in Kind : Pending(j)' /\ pc'[j] = "down"
      BY <1>10 DEF Stop, Pending
    <2> QED
      BY <2>1, KindTwo DEF Covered, ReadsCovered, WantedCovered
  <1>11. CASE Startup
    <2>1. \A j \in Kind : Pending(j)' /\ pc'[j] = "idle"
      BY <1>11 DEF Startup, Pending
    <2> QED
      BY <2>1, KindTwo DEF Covered, ReadsCovered, WantedCovered
  <1>12. CASE Settle
    <2>1. \A j \in Kind : Pending(j) => Pending(j)'
      BY <1>12 DEF Settle, Pending, queueVars, passVars
    <2> QED
      BY <1>0, <1>12, <2>1, IdleStepCovered DEF Settle, passVars
  <1>13. CASE UNCHANGED vars
    <2>1. \A j \in Kind : Pending(j) => Pending(j)'
      BY <1>13 DEF vars, Pending
    <2> QED
      BY <1>0, <1>13, <2>1, IdleStepCovered DEF vars
  <1> QED
    BY <1>1, <1>2, <1>3, <1>4, <1>5, <1>6, <1>7, <1>8, <1>9, <1>10, <1>11, <1>12, <1>13
       DEF Next, PassStep

-----------------------------------------------------------------------------
LEMMA InvInit == Init => IInv
  <1> SUFFICES ASSUME Init PROVE IInv
    OBVIOUS
  <1>1. MutexOK
    BY FreeKindAssumption DEF Init, MutexOK, Inside
  <1>2. QueueOK
    BY DEF Init, QueueOK
  <1>3. \A k \in Kind : ReadsCovered(k)
    BY DEF Init, ReadsCovered
  <1>4. WantedCovered
    BY KindTwo DEF Init, WantedCovered, Pending
  <1> QED
    BY <1>1, <1>2, <1>3, <1>4, TypeInit DEF IInv

LEMMA InvStep == IInv /\ [Next]_vars => IInv'
  BY TypeStep, MutexStep, QueueStep, CoveredStep DEF IInv, Covered

LEMMA InvImplies == IInv => NoLostUpdate
  <1> SUFFICES ASSUME IInv, Quiet PROVE wanted = Desired
    BY DEF NoLostUpdate
  <1>1. \A k \in Kind : ~Pending(k) /\ pc[k] \notin Inside
    BY DEF Quiet, Pending, Inside
  <1> QED
    BY <1>1 DEF IInv, WantedCovered

(* Events, queues and the passes' reads together: with nothing under way    *)
(* but the resync timer, the last pass wanted what the live bindings        *)
(* reference, for any number of bindings and any subject lists.            *)
THEOREM NoUpdateIsLost == Spec => []NoLostUpdate
  <1>1. Init => IInv
    BY InvInit
  <1>2. IInv /\ [Next]_vars => IInv'
    BY InvStep
  <1>3. IInv => NoLostUpdate
    BY InvImplies
  <1> QED
    BY <1>1, <1>2, <1>3, PTL DEF Spec

=============================================================================
