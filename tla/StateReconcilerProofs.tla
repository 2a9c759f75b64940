----------------------- MODULE StateReconcilerProofs -----------------------
(***************************************************************************)
(* Theorems about StateReconciler, for every set of controllers, names and *)
(* groups and every number of service principals.                          *)
(*                                                                         *)
(* The inductive invariant has five parts: the types; MutexOK, which ties  *)
(* the mutex to the program counters; PlanOK, how the plan of a pass fits  *)
(* its desired set; CoverOK, where a steadily referenced name has got to;  *)
(* and BeliefHolds, which is inductive together with the rest.             *)
(***************************************************************************)
EXTENDS StateReconciler, TLAPS

(* The stages of a pass that lie inside the critical section.              *)
Inside == {"listRoleBindings", "listClusterRoleBindings", "resolve",
           "listAssignments", "apply"}

(* The mutex is held by exactly the controller that is inside. *)
MutexOK == \A c \in Controller : pc[c] \in Inside <=> lock = c

(* Only a pass that has its desired set holds a plan; the plan agrees with *)
(* that set, and is complete before it is applied.                         *)
PlanOK(c) ==
    /\ c \notin Acting => toAssign[c] = None /\ toRemove[c] = None /\ unsure[c] = None
    /\ pc[c] = "apply" => unlisted[c] = {}
    /\ \A sp \in SP :
          /\ toAssign[c][sp] \subseteq desired[c]
          /\ toRemove[c][sp] \cap desired[c] = {}

(* A steadily referenced name is still in the cache's list, and has been    *)
(* listed, then resolved or missed, as far as the pass has come.           *)
CoverOK(c) ==
    /\ pc[c] \notin Inside => kept[c] = NotKept
    /\ \A k \in Kind : kept[c][k] \subseteq view[k]
    /\ pc[c] = "listClusterRoleBindings" => kept[c]["rolebinding"] \subseteq candidates[c]
    /\ pc[c] = "resolve" =>
          \A k \in Kind : \A n \in kept[c][k] :
              n \in candidates[c] \/ n \in missed[c] \/ ObjectId[n] \in desired[c]
    /\ c \in Acting =>
          \A k \in Kind : \A n \in kept[c][k] :
              n \in missed[c] \/ ObjectId[n] \in desired[c]

IInv ==
    /\ TypeOK
    /\ MutexOK
    /\ \A c \in Controller : PlanOK(c) /\ CoverOK(c)
    /\ BeliefHolds

-----------------------------------------------------------------------------
(* Every variable keeps its type: no action of the pass or of its           *)
(* environment leaves the ranges TypeOK states.                            *)
LEMMA NoneType == None \in [SP -> SUBSET Group]
  BY DEF None

(* What becomes of the [SP -> SUBSET Group] a controller holds.            *)
Tables == [Controller -> [SP -> SUBSET Group]]

LEMMA UpdateType ==
  ASSUME NEW f \in Tables, NEW c \in Controller, NEW sp \in SP,
         NEW S \in SUBSET Group
  PROVE  [f EXCEPT ![c][sp] = S] \in Tables
  BY DEF Tables

LEMMA AddDropType ==
  ASSUME NEW f \in Tables, NEW c \in Controller, NEW sp \in SP, NEW g \in Group
  PROVE  /\ [f EXCEPT ![c][sp] = @ \cup {g}] \in Tables
         /\ [f EXCEPT ![c][sp] = @ \ {g}] \in Tables
  <1>1. f[c][sp] \in SUBSET Group
    BY DEF Tables
  <1>2. f[c][sp] \cup {g} \in SUBSET Group /\ f[c][sp] \ {g} \in SUBSET Group
    BY <1>1
  <1> QED
    BY <1>2, UpdateType

LEMMA AssignedType ==
  ASSUME NEW f \in [SP -> SUBSET Group], NEW sp \in SP, NEW g \in Group
  PROVE  /\ [f EXCEPT ![sp] = @ \cup {g}] \in [SP -> SUBSET Group]
         /\ [f EXCEPT ![sp] = @ \ {g}] \in [SP -> SUBSET Group]
  OBVIOUS

LEMMA DoubtType ==
  ASSUME unsure \in Tables, NEW c \in Controller, NEW sp \in SP, NEW g \in Group,
         Doubt(c, sp, g)
  PROVE  unsure' \in Tables
  BY AddDropType DEF Doubt

LEMMA ElsewhereType ==
  ASSUME unsure \in Tables, NEW S \in SUBSET SP, NEW g \in Group,
         ChangedElsewhere(S, g)
  PROVE  unsure' \in Tables
  BY NoneType DEF ChangedElsewhere, Tables

LEMMA TypeInit == Init => TypeOK
  <1> SUFFICES ASSUME Init PROVE TypeOK
    OBVIOUS
  <1> USE NoneType
  <1>1. assigned \in [SP -> SUBSET Group]
    BY DEF Init
  <1>2. QED
    BY <1>1 DEF Init, TypeOK, NotKept, Kind

LEMMA ReturnType ==
  ASSUME TypeOK, NEW c \in Controller, NEW outcome \in {"success", "error"},
         Return(c, outcome)
  PROVE  TypeOK'
  BY NoneType DEF TypeOK, Return, Forget, NotKept, envVars

(* A lookup leaves an answer in the cache, or what was there.               *)
LEMMA GetGroupByIDType ==
  ASSUME groupCache \in [Name -> {"absent", "id", "nil"}],
         NEW n \in Name, NEW reply, GetGroupByID(n, reply)
  PROVE  groupCache' \in [Name -> {"absent", "id", "nil"}]
  <1>1. CASE UNCHANGED groupCache
    BY <1>1
  <1>2. CASE /\ reply \in IF settled THEN {"id"} ELSE {"id", "nil"}
             /\ groupCache' = [groupCache EXCEPT ![n] = reply]
    <2>1. reply \in {"id", "nil"}
      BY <1>2
    <2> QED
      BY <1>2, <2>1
  <1> QED
    BY <1>1, <1>2 DEF GetGroupByID

LEMMA TypeStep == TypeOK /\ [Next]_vars => TypeOK'
  <1> SUFFICES ASSUME TypeOK, [Next]_vars PROVE TypeOK'
    OBVIOUS
  <1>1. ASSUME NEW c \in Controller, Start(c) PROVE TypeOK'
    BY <1>1 DEF TypeOK, Start, envVars, passVars, historyVars
  <1>2. ASSUME NEW c \in Controller, Lock(c) PROVE TypeOK'
    BY <1>2 DEF TypeOK, Lock, envVars, passVars
  <1>3. ASSUME NEW c \in Controller, ListRoleBindings(c) PROVE TypeOK'
    BY <1>3 DEF TypeOK, ListRoleBindings, envVars, historyVars, Kind
  <1>4. ASSUME NEW c \in Controller, ListClusterRoleBindings(c) PROVE TypeOK'
    BY <1>4 DEF TypeOK, ListClusterRoleBindings, envVars, historyVars, Kind
  <1>5. ASSUME NEW c \in Controller, ListBindingsFails(c) PROVE TypeOK'
    BY <1>5, ReturnType DEF ListBindingsFails
  <1>6. ASSUME NEW c \in Controller, NEW n \in Name, ResolveCandidate(c, n)
        PROVE TypeOK'
    <2>1. ObjectId[n] \in Group
      BY ObjectIdAssumption
    <2>2. PICK reply \in {"id", "nil", "error"} :
            /\ GetGroupByID(n, reply)
            /\ IF reply = "id"
               THEN /\ desired' = [desired EXCEPT ![c] = @ \cup {ObjectId[n]}]
                    /\ UNCHANGED missed
               ELSE /\ missed' = [missed EXCEPT ![c] = @ \cup {n}]
                    /\ UNCHANGED desired
      BY <1>6 DEF ResolveCandidate, Resolve
    <2>3. groupCache' \in [Name -> {"absent", "id", "nil"}]
      BY <2>2, GetGroupByIDType DEF TypeOK
    <2>4. desired' \in [Controller -> SUBSET Group]
      <3>1. desired \in [Controller -> SUBSET Group]
        BY DEF TypeOK
      <3>2. CASE desired' = [desired EXCEPT ![c] = @ \cup {ObjectId[n]}]
        BY <2>1, <3>1, <3>2
      <3> QED
        BY <2>2, <3>1, <3>2
    <2>5. missed' \in [Controller -> SUBSET Name]
      <3>1. missed \in [Controller -> SUBSET Name]
        BY DEF TypeOK
      <3>2. CASE missed' = [missed EXCEPT ![c] = @ \cup {n}]
        BY <3>1, <3>2
      <3> QED
        BY <2>2, <3>1, <3>2
    <2> QED
      BY <1>6, <2>3, <2>4, <2>5 DEF TypeOK, ResolveCandidate, Resolve
  <1>7. ASSUME NEW c \in Controller, DesiredComplete(c) PROVE TypeOK'
    BY <1>7 DEF TypeOK, DesiredComplete, envVars, historyVars
  <1>8. ASSUME NEW c \in Controller, NEW sp \in SP, ListManagedAssignments(c, sp)
        PROVE TypeOK'
    <2>1. /\ desired[c] \in SUBSET Group
          /\ assigned[sp] \in SUBSET Group
      BY DEF TypeOK
    <2>2. /\ toAssign' \in Tables
          /\ toRemove' \in Tables
          /\ unsure' \in Tables
      BY <1>8, <2>1, UpdateType DEF TypeOK, Tables, ListManagedAssignments
    <2> QED
      BY <1>8, <2>2 DEF TypeOK, Tables, ListManagedAssignments, envVars
  <1>9. ASSUME NEW c \in Controller, ListManagedAssignmentsFails(c) PROVE TypeOK'
    BY <1>9, ReturnType DEF ListManagedAssignmentsFails
  <1>10. ASSUME NEW c \in Controller, NEW sp \in SP, NEW g \in Group,
                AssignGroup(c, sp, g)
         PROVE TypeOK'
    <2>1. /\ assigned \in [SP -> SUBSET Group]
          /\ toAssign \in Tables
          /\ unsure \in Tables
      BY DEF TypeOK, Tables
    <2>2. assigned' \in [SP -> SUBSET Group]
      BY <1>10, <2>1, AssignedType DEF AssignGroup, AssignSucceeds, AssignFails
    <2>3. toAssign' \in Tables
      BY <1>10, <2>1, AddDropType DEF AssignGroup
    <2>4. unsure' \in Tables
      BY <1>10, <2>1, DoubtType DEF AssignGroup, AssignSucceeds, AssignFails
    <2> QED
      BY <1>10, <2>2, <2>3, <2>4 DEF TypeOK, Tables, AssignGroup, AssignLeaves
  <1>11. ASSUME NEW c \in Controller, NEW sp \in SP, NEW g \in Group,
                RemoveGroup(c, sp, g)
         PROVE TypeOK'
    <2>1. /\ assigned \in [SP -> SUBSET Group]
          /\ toRemove \in Tables
          /\ unsure \in Tables
      BY DEF TypeOK, Tables
    <2>2. assigned' \in [SP -> SUBSET Group]
      BY <1>11, <2>1, AssignedType DEF RemoveGroup
    <2>3. toRemove' \in Tables
      BY <1>11, <2>1, AddDropType DEF RemoveGroup
    <2>4. unsure' \in Tables
      BY <1>11, <2>1, DoubtType DEF RemoveGroup
    <2> QED
      BY <1>11, <2>2, <2>3, <2>4 DEF TypeOK, Tables, RemoveGroup
  <1>12. ASSUME NEW c \in Controller, Finish(c) PROVE TypeOK'
    BY <1>12, ReturnType DEF Finish
  <1>13. ASSUME NEW k \in Kind, BindingsChange(k) PROVE TypeOK'
    BY <1>13 DEF TypeOK, BindingsChange, passVars
  <1>14. ASSUME NEW g \in Group, GroupDeleted(g) PROVE TypeOK'
    <2>1. unsure \in Tables
      BY DEF TypeOK, Tables
    <2>2. unsure' \in Tables
      BY <1>14, <2>1, ElsewhereType DEF GroupDeleted
    <2> QED
      BY <1>14, <2>2 DEF TypeOK, Tables, GroupDeleted, passVars
  <1>15. ASSUME NEW g \in Group, GroupCreated(g) PROVE TypeOK'
    BY <1>15 DEF TypeOK, GroupCreated, passVars, historyVars
  <1>16. ASSUME NEW sp \in SP, NEW g \in Group, AssignmentChanged(sp, g)
         PROVE TypeOK'
    <2>1. /\ assigned \in [SP -> SUBSET Group]
          /\ unsure \in Tables
      BY DEF TypeOK, Tables
    <2>2. assigned' \in [SP -> SUBSET Group]
      BY <1>16, <2>1 DEF AssignmentChanged
    <2>3. unsure' \in Tables
      BY <1>16, <2>1, ElsewhereType DEF AssignmentChanged
    <2> QED
      BY <1>16, <2>2, <2>3 DEF TypeOK, Tables, AssignmentChanged, passVars
  <1>17. ASSUME Restart PROVE TypeOK'
    BY <1>17, NoneType DEF TypeOK, Restart, NotKept
  <1>18. ASSUME Settle PROVE TypeOK'
    BY <1>18 DEF TypeOK, Settle, passVars, historyVars
  <1>19. ASSUME UNCHANGED vars PROVE TypeOK'
    BY <1>19 DEF TypeOK, vars, envVars, passVars, historyVars
  <1> QED
    BY <1>1, <1>2, <1>3, <1>4, <1>5, <1>6, <1>7, <1>8, <1>9, <1>10, <1>11, <1>12,
       <1>13, <1>14, <1>15, <1>16, <1>17, <1>18, <1>19
       DEF Next, PassStep, Environment

(* Type correctness, for every instance. *)
THEOREM TypeCorrect == Spec => []TypeOK
  BY TypeInit, TypeStep, PTL DEF Spec

-----------------------------------------------------------------------------
(* The mutex.                                                              *)

(* What the actions that neither take nor release the mutex have in common. *)
SameSide ==
    /\ UNCHANGED lock
    /\ \A c \in Controller : pc[c] \in Inside <=> pc'[c] \in Inside

LEMMA SameSideMutex == MutexOK /\ SameSide => MutexOK'
  BY DEF MutexOK, SameSide, Inside

LEMMA ReturnMutex ==
  ASSUME TypeOK, MutexOK, NEW c \in Controller, pc[c] \in Inside,
         NEW outcome, Return(c, outcome)
  PROVE  MutexOK'
  BY FreeAssumption DEF TypeOK, MutexOK, Return, Forget, Inside

LEMMA MutexStep == TypeOK /\ MutexOK /\ [Next]_vars => MutexOK'
  <1> SUFFICES ASSUME TypeOK, MutexOK, [Next]_vars PROVE MutexOK'
    OBVIOUS
  <1>1. ASSUME NEW c \in Controller, Start(c) PROVE MutexOK'
    BY <1>1, SameSideMutex DEF TypeOK, Start, SameSide, Inside
  <1>2. ASSUME NEW c \in Controller, Lock(c) PROVE MutexOK'
    BY <1>2, FreeAssumption DEF TypeOK, MutexOK, Lock, Inside
  <1>3. ASSUME NEW c \in Controller, PassStep(c) PROVE MutexOK'
    <2>1. CASE ListRoleBindings(c)
      BY <2>1, SameSideMutex DEF TypeOK, ListRoleBindings, SameSide, Inside
    <2>2. CASE ListClusterRoleBindings(c)
      BY <2>2, SameSideMutex DEF TypeOK, ListClusterRoleBindings, SameSide, Inside
    <2>3. CASE ListBindingsFails(c)
      BY <2>3, ReturnMutex DEF ListBindingsFails, Inside
    <2>4. CASE \E n \in Name : ResolveCandidate(c, n)
      BY <2>4, SameSideMutex DEF ResolveCandidate, Resolve, SameSide
    <2>5. CASE DesiredComplete(c)
      BY <2>5, SameSideMutex DEF TypeOK, DesiredComplete, SameSide, Inside
    <2>6. CASE \E sp \in SP : ListManagedAssignments(c, sp)
      BY <2>6, SameSideMutex DEF TypeOK, ListManagedAssignments, SameSide, Inside
    <2>7. CASE ListManagedAssignmentsFails(c)
      BY <2>7, ReturnMutex DEF ListManagedAssignmentsFails, Inside
    <2>8. CASE \E sp \in SP, g \in Group : AssignGroup(c, sp, g)
      BY <2>8, SameSideMutex DEF AssignGroup, AssignLeaves, SameSide
    <2>9. CASE \E sp \in SP, g \in Group : RemoveGroup(c, sp, g)
      BY <2>9, SameSideMutex DEF RemoveGroup, SameSide
    <2>10. CASE Finish(c)
      BY <2>10, ReturnMutex DEF Finish, Inside
    <2> QED
      BY <1>3, <2>1, <2>2, <2>3, <2>4, <2>5, <2>6, <2>7, <2>8, <2>9, <2>10
         DEF PassStep
  <1>4. CASE Environment
    <2>1. CASE Restart
      BY <2>1, FreeAssumption DEF MutexOK, Restart, Inside
    <2>2. CASE ~Restart
      BY <1>4, <2>2, SameSideMutex
         DEF Environment, BindingsChange, GroupDeleted, GroupCreated,
             AssignmentChanged, Settle, SameSide
    <2> QED
      BY <2>1, <2>2
  <1>5. CASE UNCHANGED vars
    BY <1>5, SameSideMutex DEF vars, SameSide
  <1> QED
    BY <1>1, <1>2, <1>3, <1>4, <1>5 DEF Next

-----------------------------------------------------------------------------
(* The plan of a pass.                                                     *)

LEMMA PlanInit == Init => \A c \in Controller : PlanOK(c)
  <1> SUFFICES ASSUME Init, NEW c \in Controller PROVE PlanOK(c)
    OBVIOUS
  <1>1. /\ pc[c] = "idle" /\ desired[c] = {} /\ toAssign[c] = None
        /\ toRemove[c] = None /\ unsure[c] = None
    BY DEF Init
  <1> QED
    BY <1>1 DEF PlanOK, None

(* A pass's plan does not mind what leaves its locals alone. *)
LEMMA PlanFrame ==
  ASSUME NEW d \in Controller, PlanOK(d),
         pc'[d] = pc[d], unlisted'[d] = unlisted[d], desired'[d] = desired[d],
         toAssign'[d] = toAssign[d], toRemove'[d] = toRemove[d],
         d \in Acting \/ unsure'[d] = unsure[d] \/ unsure'[d] = None
  PROVE  PlanOK(d)'
  BY DEF PlanOK, Acting

LEMMA ReturnPlan ==
  ASSUME TypeOK, NEW c \in Controller, NEW outcome, Return(c, outcome),
         NEW d \in Controller, PlanOK(d)
  PROVE  PlanOK(d)'
  <1>1. CASE d = c
    <2>1. /\ pc'[c] = "idle" /\ unlisted'[c] = {} /\ desired'[c] = {}
          /\ toAssign'[c] = None /\ toRemove'[c] = None /\ unsure'[c] = None
      BY DEF TypeOK, Return, Forget
    <2> QED
      BY <1>1, <2>1 DEF PlanOK, None, Acting
  <1>2. CASE d # c
    BY <1>2, PlanFrame DEF TypeOK, Return, Forget
  <1> QED
    BY <1>1, <1>2

LEMMA PlanStep ==
  ASSUME TypeOK, [Next]_vars, NEW d \in Controller, PlanOK(d)
  PROVE  PlanOK(d)'
  <1>1. ASSUME NEW c \in Controller, Start(c) PROVE PlanOK(d)'
    BY <1>1 DEF TypeOK, Start, PlanOK, Acting, passVars, historyVars
  <1>2. ASSUME NEW c \in Controller, Lock(c) PROVE PlanOK(d)'
    BY <1>2 DEF TypeOK, Lock, PlanOK, Acting, passVars
  <1>3. ASSUME NEW c \in Controller, ListRoleBindings(c) PROVE PlanOK(d)'
    BY <1>3 DEF TypeOK, ListRoleBindings, PlanOK, Acting, historyVars
  <1>4. ASSUME NEW c \in Controller, ListClusterRoleBindings(c) PROVE PlanOK(d)'
    BY <1>4 DEF TypeOK, ListClusterRoleBindings, PlanOK, Acting, historyVars
  <1>5. ASSUME NEW c \in Controller, ListBindingsFails(c) PROVE PlanOK(d)'
    BY <1>5, ReturnPlan DEF ListBindingsFails
  <1>6. ASSUME NEW c \in Controller, NEW n \in Name, ResolveCandidate(c, n)
        PROVE PlanOK(d)'
    <2>1. CASE d = c
      BY <1>6, <2>1 DEF ResolveCandidate, Resolve, PlanOK, Acting, None
    <2>2. CASE d # c
      <3>1. desired'[d] = desired[d]
        BY <1>6, <2>2 DEF TypeOK, ResolveCandidate, Resolve
      <3> QED
        BY <1>6, <3>1, PlanFrame DEF ResolveCandidate, Resolve
    <2> QED
      BY <2>1, <2>2
  <1>7. ASSUME NEW c \in Controller, DesiredComplete(c) PROVE PlanOK(d)'
    BY <1>7 DEF TypeOK, DesiredComplete, PlanOK, Acting, None, historyVars
  <1>8. ASSUME NEW c \in Controller, NEW sp \in SP, ListManagedAssignments(c, sp)
        PROVE PlanOK(d)'
    <2>1. CASE d = c
      BY <1>8, <2>1 DEF TypeOK, ListManagedAssignments, PlanOK, Acting
    <2>2. CASE d # c
      BY <1>8, <2>2, PlanFrame DEF TypeOK, ListManagedAssignments
    <2> QED
      BY <2>1, <2>2
  <1>9. ASSUME NEW c \in Controller, ListManagedAssignmentsFails(c) PROVE PlanOK(d)'
    BY <1>9, ReturnPlan DEF ListManagedAssignmentsFails
  <1>10. ASSUME NEW c \in Controller, NEW sp \in SP, NEW g \in Group,
                AssignGroup(c, sp, g)
         PROVE PlanOK(d)'
    <2>1. unsure'[d] = unsure[d] \/ d = c
      BY <1>10 DEF TypeOK, AssignGroup, AssignSucceeds, AssignFails, Doubt
    <2>2. CASE d = c
      BY <1>10, <2>2 DEF TypeOK, AssignGroup, AssignLeaves, Reached, PlanOK, Acting
    <2>3. CASE d # c
      BY <1>10, <2>1, <2>3, PlanFrame DEF TypeOK, AssignGroup, AssignLeaves
    <2> QED
      BY <2>2, <2>3
  <1>11. ASSUME NEW c \in Controller, NEW sp \in SP, NEW g \in Group,
                RemoveGroup(c, sp, g)
         PROVE PlanOK(d)'
    <2>1. unsure'[d] = unsure[d] \/ d = c
      BY <1>11 DEF TypeOK, RemoveGroup, Doubt
    <2>2. CASE d = c
      BY <1>11, <2>2 DEF TypeOK, RemoveGroup, Reached, PlanOK, Acting
    <2>3. CASE d # c
      BY <1>11, <2>1, <2>3, PlanFrame DEF TypeOK, RemoveGroup
    <2> QED
      BY <2>2, <2>3
  <1>12. ASSUME NEW c \in Controller, Finish(c) PROVE PlanOK(d)'
    BY <1>12, ReturnPlan DEF Finish
  <1>13. CASE Restart
    BY <1>13 DEF Restart, PlanOK, None, Acting
  <1>14. CASE Environment /\ ~Restart
    <2>1. UNCHANGED <<pc, passVars>>
      BY <1>14 DEF Environment, BindingsChange, GroupDeleted, GroupCreated,
           AssignmentChanged, Settle, passVars
    <2>2. d \in Acting \/ unsure'[d] = unsure[d] \/ unsure'[d] = None
      BY <1>14 DEF Environment, BindingsChange, GroupDeleted, GroupCreated,
           AssignmentChanged, Settle, historyVars, ChangedElsewhere
    <2> QED
      BY <2>1, <2>2, PlanFrame DEF passVars
  <1>15. CASE UNCHANGED vars
    BY <1>15, PlanFrame DEF vars, passVars, historyVars
  <1> QED
    BY <1>1, <1>2, <1>3, <1>4, <1>5, <1>6, <1>7, <1>8, <1>9, <1>10, <1>11, <1>12,
       <1>13, <1>14, <1>15 DEF Next, PassStep

-----------------------------------------------------------------------------
(* A steady reference is covered.                                          *)
LEMMA CoverInit == Init => \A c \in Controller : CoverOK(c)
  <1> SUFFICES ASSUME Init, NEW c \in Controller PROVE CoverOK(c)
    OBVIOUS
  <1>1. pc[c] = "idle" /\ kept[c] = NotKept
    BY DEF Init
  <1> QED
    BY <1>1 DEF CoverOK, NotKept, Acting, Inside

LEMMA CoverFrame ==
  ASSUME NEW d \in Controller, CoverOK(d), UNCHANGED view,
         pc'[d] = pc[d], candidates'[d] = candidates[d], desired'[d] = desired[d],
         kept'[d] = kept[d], missed'[d] = missed[d]
  PROVE  CoverOK(d)'
  BY DEF CoverOK, Acting

LEMMA ReturnCover ==
  ASSUME TypeOK, NEW c \in Controller, NEW outcome, Return(c, outcome),
         NEW d \in Controller, CoverOK(d)
  PROVE  CoverOK(d)'
  <1>1. CASE d = c
    <2>1. pc'[c] = "idle" /\ kept'[c] = NotKept
      BY DEF TypeOK, Return, Forget
    <2> QED
      BY <1>1, <2>1 DEF CoverOK, NotKept, Acting, Inside
  <1>2. CASE d # c
    BY <1>2, CoverFrame DEF TypeOK, Return, Forget, envVars
  <1> QED
    BY <1>1, <1>2

LEMMA CoverStep ==
  ASSUME TypeOK, [Next]_vars, NEW d \in Controller, CoverOK(d)
  PROVE  CoverOK(d)'
  <1>1. ASSUME NEW c \in Controller, Start(c) PROVE CoverOK(d)'
    BY <1>1 DEF TypeOK, Start, CoverOK, Acting, Inside, envVars, passVars, historyVars
  <1>2. ASSUME NEW c \in Controller, Lock(c) PROVE CoverOK(d)'
    BY <1>2 DEF TypeOK, Lock, CoverOK, Acting, Inside, envVars, passVars
  <1>3. ASSUME NEW c \in Controller, ListRoleBindings(c) PROVE CoverOK(d)'
    BY <1>3 DEF TypeOK, ListRoleBindings, CoverOK, Acting, Inside, Kind, envVars,
         historyVars
  <1>4. ASSUME NEW c \in Controller, ListClusterRoleBindings(c) PROVE CoverOK(d)'
    <2>1. CASE d = c
      BY <1>4, <2>1
         DEF TypeOK, ListClusterRoleBindings, CoverOK, Acting, Inside, Kind, envVars,
             historyVars
    <2>2. CASE d # c
      BY <1>4, <2>2, CoverFrame
         DEF TypeOK, ListClusterRoleBindings, envVars, historyVars
    <2> QED
      BY <2>1, <2>2
  <1>5. ASSUME NEW c \in Controller, ListBindingsFails(c) PROVE CoverOK(d)'
    BY <1>5, ReturnCover DEF ListBindingsFails
  <1>6. ASSUME NEW c \in Controller, NEW n \in Name, ResolveCandidate(c, n)
        PROVE CoverOK(d)'
    <2>1. PICK reply \in {"id", "nil", "error"} :
            IF reply = "id"
            THEN /\ desired' = [desired EXCEPT ![c] = @ \cup {ObjectId[n]}]
                 /\ UNCHANGED missed
            ELSE /\ missed' = [missed EXCEPT ![c] = @ \cup {n}]
                 /\ UNCHANGED desired
      BY <1>6 DEF ResolveCandidate, Resolve
    <2>2. /\ pc[c] = "resolve"
          /\ candidates' = [candidates EXCEPT ![c] = @ \ {n}]
          /\ UNCHANGED <<pc, view, kept>>
      BY <1>6 DEF ResolveCandidate, Resolve
    <2>3. CASE d = c
      <3>1. /\ desired[c] \subseteq desired'[c]
            /\ missed[c] \subseteq missed'[c]
            /\ n \in missed'[c] \/ ObjectId[n] \in desired'[c]
        BY <2>1 DEF TypeOK
      <3>2. candidates'[c] = candidates[c] \ {n}
        BY <2>2 DEF TypeOK
      <3> QED
        BY <2>2, <2>3, <3>1, <3>2 DEF CoverOK, Acting
    <2>4. CASE d # c
      <3>1. desired'[d] = desired[d] /\ missed'[d] = missed[d]
        BY <2>1, <2>4 DEF TypeOK
      <3>2. candidates'[d] = candidates[d]
        BY <2>2, <2>4 DEF TypeOK
      <3> QED
        BY <2>2, <3>1, <3>2, CoverFrame
    <2> QED
      BY <2>3, <2>4
  <1>7. ASSUME NEW c \in Controller, DesiredComplete(c) PROVE CoverOK(d)'
    BY <1>7 DEF TypeOK, DesiredComplete, CoverOK, Acting, Inside, Kind, envVars,
         historyVars
  <1>8. ASSUME NEW c \in Controller, NEW sp \in SP, ListManagedAssignments(c, sp)
        PROVE CoverOK(d)'
    BY <1>8 DEF TypeOK, ListManagedAssignments, CoverOK, Acting, Inside, envVars
  <1>9. ASSUME NEW c \in Controller, ListManagedAssignmentsFails(c) PROVE CoverOK(d)'
    BY <1>9, ReturnCover DEF ListManagedAssignmentsFails
  <1>10. ASSUME NEW c \in Controller, NEW sp \in SP, NEW g \in Group,
                AssignGroup(c, sp, g)
         PROVE CoverOK(d)'
    BY <1>10, CoverFrame DEF AssignGroup, AssignLeaves
  <1>11. ASSUME NEW c \in Controller, NEW sp \in SP, NEW g \in Group,
                RemoveGroup(c, sp, g)
         PROVE CoverOK(d)'
    BY <1>11, CoverFrame DEF RemoveGroup
  <1>12. ASSUME NEW c \in Controller, Finish(c) PROVE CoverOK(d)'
    BY <1>12, ReturnCover DEF Finish
  <1>13. ASSUME NEW k \in Kind, BindingsChange(k) PROVE CoverOK(d)'
    <2>1. /\ view'[k] \subseteq Name
          /\ kept'[d] = [kept[d] EXCEPT ![k] = @ \cap view'[k]]
          /\ \A j \in Kind \ {k} : view'[j] = view[j]
      BY <1>13 DEF TypeOK, BindingsChange
    <2>2. \A j \in Kind : kept'[d][j] \subseteq kept[d][j] /\ kept'[d][j] \subseteq view'[j]
      BY <2>1 DEF TypeOK, CoverOK
    <2>3. kept[d] = NotKept => kept'[d] = NotKept
      BY <2>1 DEF NotKept
    <2> QED
      BY <1>13, <2>2, <2>3 DEF BindingsChange, CoverOK, Acting, passVars, Kind
  <1>14. CASE Restart
    BY <1>14 DEF Restart, CoverOK, NotKept, Acting, Inside
  <1>15. CASE Environment /\ ~Restart /\ ~(\E k \in Kind : BindingsChange(k))
    <2>1. UNCHANGED <<view, pc, passVars, kept, missed>>
      BY <1>15 DEF Environment, GroupDeleted, GroupCreated, AssignmentChanged,
           Settle, passVars, historyVars
    <2> QED
      BY <2>1, CoverFrame DEF passVars
  <1>16. CASE UNCHANGED vars
    BY <1>16, CoverFrame DEF vars, envVars, passVars, historyVars
  <1> QED
    BY <1>1, <1>2, <1>3, <1>4, <1>5, <1>6, <1>7, <1>8, <1>9, <1>10, <1>11, <1>12,
       <1>13, <1>14, <1>15, <1>16 DEF Next, PassStep

-----------------------------------------------------------------------------
(* What a pass believes.                                                   *)

(* Whoever is inside the critical section is alone in it. *)
LEMMA Alone ==
  ASSUME MutexOK, NEW c \in Controller, pc[c] \in Inside
  PROVE  /\ \A d \in Controller : pc[d] \in Inside => d = c
         /\ Acting \subseteq {c}
  BY DEF MutexOK, Acting, Inside

LEMMA BeliefInit == Init => BeliefHolds
  BY DEF Init, BeliefHolds, Acting

LEMMA BeliefFrame ==
  ASSUME BeliefHolds, UNCHANGED <<assigned, unsure>>, Acting' \subseteq Acting,
         \A d \in Acting : /\ desired'[d] = desired[d]
                           /\ unlisted'[d] = unlisted[d]
                           /\ toAssign'[d] = toAssign[d]
                           /\ toRemove'[d] = toRemove[d]
  PROVE  BeliefHolds'
  BY DEF BeliefHolds, Believed

LEMMA ReturnActing ==
  ASSUME TypeOK, MutexOK, NEW c \in Controller, pc[c] \in Inside,
         NEW outcome, Return(c, outcome)
  PROVE  Acting' = {}
  BY Alone DEF TypeOK, Return, Forget, Acting, Inside

(* An added or dropped member leaves all others alone.                     *)
LEMMA OtherPairs ==
  ASSUME NEW f \in [SP -> SUBSET Group], NEW sp \in SP, NEW t \in SP,
         NEW g \in Group, NEW h \in Group, t # sp \/ h # g
  PROVE  /\ h \in [f EXCEPT ![sp] = @ \cup {g}][t] <=> h \in f[t]
         /\ h \in [f EXCEPT ![sp] = @ \ {g}][t] <=> h \in f[t]
  OBVIOUS

LEMMA DoubtGrows ==
  ASSUME unsure \in Tables, NEW c \in Controller, NEW sp \in SP, NEW g \in Group,
         Doubt(c, sp, g), NEW t \in SP
  PROVE  unsure[c][t] \subseteq unsure'[c][t]
  <1>1. unsure'[c] = [unsure[c] EXCEPT ![sp] = @ \cup {g}]
    BY DEF Doubt, Tables
  <1>2. unsure[c] \in [SP -> SUBSET Group]
    BY DEF Tables
  <1> QED
    BY <1>1, <1>2

LEMMA BeliefStep ==
  ASSUME TypeOK, MutexOK, \A c \in Controller : PlanOK(c), BeliefHolds, [Next]_vars
  PROVE  BeliefHolds'
  <1>1. ASSUME NEW c \in Controller, Start(c) \/ Lock(c) PROVE BeliefHolds'
    BY <1>1, BeliefFrame
       DEF TypeOK, Start, Lock, Acting, envVars, passVars, historyVars
  <1>2. ASSUME NEW c \in Controller, ListRoleBindings(c) \/ ListClusterRoleBindings(c)
        PROVE BeliefHolds'
    BY <1>2, BeliefFrame
       DEF TypeOK, ListRoleBindings, ListClusterRoleBindings, Acting, envVars,
           historyVars
  <1>3. ASSUME NEW c \in Controller,
               \/ ListBindingsFails(c)
               \/ ListManagedAssignmentsFails(c)
               \/ Finish(c)
        PROVE BeliefHolds'
    BY <1>3, ReturnActing
       DEF ListBindingsFails, ListManagedAssignmentsFails, Finish, Inside, BeliefHolds
  <1>4. ASSUME NEW c \in Controller, NEW n \in Name, ResolveCandidate(c, n)
        PROVE BeliefHolds'
    <2>1. Acting' = {}
      BY <1>4, Alone DEF TypeOK, ResolveCandidate, Resolve, Acting, Inside
    <2> QED
      BY <2>1 DEF BeliefHolds
  <1>5. ASSUME NEW c \in Controller, DesiredComplete(c) PROVE BeliefHolds'
    <2>1. Acting' \subseteq {c} /\ unlisted'[c] = SP
      BY <1>5, Alone DEF TypeOK, DesiredComplete, Acting, Inside
    <2> QED
      BY <2>1 DEF BeliefHolds
  <1>6. ASSUME NEW c \in Controller, NEW sp \in SP, ListManagedAssignments(c, sp)
        PROVE BeliefHolds'
    <2>1. Acting' \subseteq {c} /\ c \in Acting
      BY <1>6, Alone DEF TypeOK, ListManagedAssignments, Acting, Inside
    <2>2. /\ toAssign'[c] = [toAssign[c] EXCEPT ![sp] = desired[c] \ assigned[sp]]
          /\ toRemove'[c] = [toRemove[c] EXCEPT ![sp] = assigned[sp] \ desired[c]]
          /\ unsure'[c] = [unsure[c] EXCEPT ![sp] = {}]
          /\ unlisted'[c] = unlisted[c] \ {sp}
          /\ UNCHANGED <<assigned, desired>>
      BY <1>6 DEF TypeOK, ListManagedAssignments, envVars
    <2>3. ASSUME NEW t \in SP \ unlisted'[c], NEW g \in Group
          PROVE  g \in unsure'[c][t] \/ Believed(c, t, g)'
      <3>1. CASE t = sp
        <4>1. /\ toAssign'[c][sp] = desired[c] \ assigned[sp]
              /\ toRemove'[c][sp] = assigned[sp] \ desired[c]
          BY <2>2 DEF TypeOK
        <4> QED
          BY <2>2, <3>1, <4>1 DEF Believed
      <3>2. CASE t # sp
        <4>1. /\ toAssign'[c][t] = toAssign[c][t]
              /\ toRemove'[c][t] = toRemove[c][t]
              /\ unsure'[c][t] = unsure[c][t]
          BY <2>2, <3>2 DEF TypeOK
        <4>2. g \in unsure[c][t] \/ Believed(c, t, g)
          BY <2>1, <2>2, <3>2 DEF BeliefHolds
        <4> QED
          BY <2>2, <4>1, <4>2 DEF Believed
      <3> QED
        BY <3>1, <3>2
    <2> QED
      BY <2>1, <2>3 DEF BeliefHolds
  <1>7. ASSUME NEW c \in Controller, NEW sp \in SP, NEW g \in Group,
               AssignGroup(c, sp, g)
        PROVE BeliefHolds'
    <2>1. Acting' \subseteq {c} /\ c \in Acting /\ unlisted'[c] = {} /\ unlisted[c] = {}
      BY <1>7, Alone
         DEF TypeOK, AssignGroup, AssignLeaves, Reached, Acting, Inside, PlanOK
    <2>2. /\ g \in desired[c] /\ g \notin toRemove[c][sp]
          /\ toAssign'[c] = [toAssign[c] EXCEPT ![sp] = @ \ {g}]
          /\ UNCHANGED <<toRemove, desired>>
      BY <1>7 DEF TypeOK, AssignGroup, AssignLeaves, PlanOK
    <2>3. \/ g \in unsure'[c][sp]
          \/ assigned'[sp] = assigned[sp] \cup {g}
      BY <1>7 DEF TypeOK, AssignGroup, AssignSucceeds, AssignFails, Doubt
    <2>4. ASSUME NEW t \in SP, NEW h \in Group, t # sp \/ h # g
          PROVE  /\ h \in assigned'[t] <=> h \in assigned[t]
                 /\ h \in unsure[c][t] => h \in unsure'[c][t]
                 /\ h \in toAssign'[c][t] <=> h \in toAssign[c][t]
      <3>1. h \in assigned'[t] <=> h \in assigned[t]
        <4>1. assigned \in [SP -> SUBSET Group]
          BY DEF TypeOK
        <4>2. \/ UNCHANGED assigned
              \/ assigned' = [assigned EXCEPT ![sp] = @ \cup {g}]
          BY <1>7 DEF AssignGroup, AssignSucceeds, AssignFails
        <4> QED
          BY <2>4, <4>1, <4>2, OtherPairs
      <3>2. h \in unsure[c][t] => h \in unsure'[c][t]
        <4>1. unsure \in Tables
          BY DEF TypeOK, Tables
        <4>2. UNCHANGED unsure \/ Doubt(c, sp, g)
          BY <1>7 DEF AssignGroup, AssignSucceeds, AssignFails
        <4> QED
          BY <4>1, <4>2, DoubtGrows
      <3>3. h \in toAssign'[c][t] <=> h \in toAssign[c][t]
        BY <2>2, <2>4 DEF TypeOK
      <3> QED
        BY <3>1, <3>2, <3>3
    <2>5. ASSUME NEW t \in SP, NEW h \in Group
          PROVE  h \in unsure'[c][t] \/ Believed(c, t, h)'
      <3>1. CASE t = sp /\ h = g
        <4>1. g \notin toAssign'[c][sp]
          BY <2>2 DEF TypeOK
        <4> QED
          BY <2>2, <2>3, <3>1, <4>1 DEF Believed
      <3>2. CASE t # sp \/ h # g
        <4>1. h \in unsure[c][t] \/ Believed(c, t, h)
          BY <2>1 DEF BeliefHolds
        <4> QED
          BY <2>2, <2>4, <3>2, <4>1 DEF Believed
      <3> QED
        BY <3>1, <3>2
    <2> QED
      BY <2>1, <2>5 DEF BeliefHolds
  <1>8. ASSUME NEW c \in Controller, NEW sp \in SP, NEW g \in Group,
               RemoveGroup(c, sp, g)
        PROVE BeliefHolds'
    <2>1. Acting' \subseteq {c} /\ c \in Acting /\ unlisted'[c] = {} /\ unlisted[c] = {}
      BY <1>8, Alone DEF TypeOK, RemoveGroup, Reached, Acting, Inside, PlanOK
    <2>2. /\ g \notin desired[c] /\ g \notin toAssign[c][sp]
          /\ toRemove'[c] = [toRemove[c] EXCEPT ![sp] = @ \ {g}]
          /\ UNCHANGED <<toAssign, desired>>
      BY <1>8 DEF TypeOK, RemoveGroup, PlanOK
    <2>3. \/ g \in unsure'[c][sp]
          \/ assigned'[sp] = assigned[sp] \ {g}
      BY <1>8 DEF TypeOK, RemoveGroup, Doubt
    <2>4. ASSUME NEW t \in SP, NEW h \in Group, t # sp \/ h # g
          PROVE  /\ h \in assigned'[t] <=> h \in assigned[t]
                 /\ h \in unsure[c][t] => h \in unsure'[c][t]
                 /\ h \in toRemove'[c][t] <=> h \in toRemove[c][t]
      <3>1. h \in assigned'[t] <=> h \in assigned[t]
        <4>1. assigned \in [SP -> SUBSET Group]
          BY DEF TypeOK
        <4>2. assigned' \in {assigned, [assigned EXCEPT ![sp] = @ \ {g}]}
          BY <1>8 DEF RemoveGroup
        <4> QED
          BY <2>4, <4>1, <4>2, OtherPairs
      <3>2. h \in unsure[c][t] => h \in unsure'[c][t]
        <4>1. unsure \in Tables
          BY DEF TypeOK, Tables
        <4>2. UNCHANGED unsure \/ Doubt(c, sp, g)
          BY <1>8 DEF RemoveGroup
        <4> QED
          BY <4>1, <4>2, DoubtGrows
      <3>3. h \in toRemove'[c][t] <=> h \in toRemove[c][t]
        BY <2>2, <2>4 DEF TypeOK
      <3> QED
        BY <3>1, <3>2, <3>3
    <2>5. ASSUME NEW t \in SP, NEW h \in Group
          PROVE  h \in unsure'[c][t] \/ Believed(c, t, h)'
      <3>1. CASE t = sp /\ h = g
        <4>1. g \notin toRemove'[c][sp]
          BY <2>2 DEF TypeOK
        <4> QED
          BY <2>2, <2>3, <3>1, <4>1 DEF Believed
      <3>2. CASE t # sp \/ h # g
        <4>1. h \in unsure[c][t] \/ Believed(c, t, h)
          BY <2>1 DEF BeliefHolds
        <4> QED
          BY <2>2, <2>4, <3>2, <4>1 DEF Believed
      <3> QED
        BY <3>1, <3>2
    <2> QED
      BY <2>1, <2>5 DEF BeliefHolds
  <1>9. ASSUME NEW S \in SUBSET SP, NEW g \in Group, ChangedElsewhere(S, g),
               \A t \in SP, h \in Group :
                  (h # g \/ t \notin S) => (h \in assigned'[t] <=> h \in assigned[t]),
               UNCHANGED <<pc, passVars>>
        PROVE BeliefHolds'
    <2>1. ASSUME NEW c \in Acting, NEW t \in SP \ unlisted[c], NEW h \in Group
          PROVE  h \in unsure'[c][t] \/ Believed(c, t, h)'
      <3>1. unsure'[c][t] = IF t \in S THEN unsure[c][t] \cup {g} ELSE unsure[c][t]
        BY <1>9 DEF ChangedElsewhere, Acting
      <3>2. h \in unsure[c][t] \/ Believed(c, t, h)
        BY DEF BeliefHolds
      <3> QED
        BY <1>9, <3>1, <3>2 DEF Believed, passVars
    <2> QED
      BY <1>9, <2>1 DEF BeliefHolds, Acting, passVars
  <1>10. ASSUME NEW g \in Group, GroupDeleted(g) PROVE BeliefHolds'
    <2> DEFINE S == {sp \in SP : g \in assigned[sp]}
    <2>1. \A t \in SP, h \in Group :
             (h # g \/ t \notin S) => (h \in assigned'[t] <=> h \in assigned[t])
      BY <1>10 DEF GroupDeleted
    <2> QED
      BY <1>9, <1>10, <2>1 DEF GroupDeleted
  <1>11. ASSUME NEW sp \in SP, NEW g \in Group, AssignmentChanged(sp, g)
         PROVE BeliefHolds'
    <2>1. \A t \in SP, h \in Group :
             (h # g \/ t \notin {sp}) => (h \in assigned'[t] <=> h \in assigned[t])
      BY <1>11 DEF TypeOK, AssignmentChanged
    <2> QED
      BY <1>9, <1>11, <2>1 DEF AssignmentChanged
  <1>12. CASE Restart
    BY <1>12 DEF Restart, Acting, BeliefHolds
  <1>13. CASE \/ \E k \in Kind : BindingsChange(k)
              \/ \E g \in Group : GroupCreated(g)
              \/ Settle
              \/ UNCHANGED vars
    <2>1. UNCHANGED <<assigned, unsure, pc, passVars>>
      BY <1>13 DEF BindingsChange, GroupCreated, Settle, vars, envVars, historyVars
    <2> QED
      BY <2>1, BeliefFrame DEF passVars, Acting
  <1> QED
    BY <1>1, <1>2, <1>3, <1>4, <1>5, <1>6, <1>7, <1>8, <1>10, <1>11, <1>12, <1>13
       DEF Next, PassStep, Environment

-----------------------------------------------------------------------------
(* The invariant, and what follows from it.                                *)
LEMMA Invariant == Spec => []IInv
  <1>1. Init => IInv
    <2>1. Init => MutexOK
      <3> SUFFICES ASSUME Init, NEW c \in Controller PROVE pc[c] \in Inside <=> lock = c
        BY DEF MutexOK
      <3>1. pc[c] = "idle" /\ lock = Free
        BY DEF Init
      <3> QED
        BY <3>1, FreeAssumption DEF Inside
    <2> QED
      BY <2>1, TypeInit, PlanInit, CoverInit, BeliefInit DEF IInv
  <1>2. IInv /\ [Next]_vars => IInv'
    BY TypeStep, MutexStep, PlanStep, CoverStep, BeliefStep DEF IInv
  <1> QED
    BY <1>1, <1>2, PTL DEF Spec

(* However two controllers' passes, restarts, failures and other writers    *)
(* interleave, a pass never acts on a stale belief.                        *)
THEOREM BeliefAlwaysHolds == Spec => []BeliefHolds
  <1>1. IInv => BeliefHolds
    BY DEF IInv
  <1> QED
    BY <1>1, Invariant, PTL

(* No pass ever plans to remove a group whose reference stayed in place     *)
(* while the pass ran and whose name it could look up.                     *)
THEOREM SteadyReferencesAreKept == Spec => []SteadyReferenceKept
  <1>1. IInv => SteadyReferenceKept
    <2> SUFFICES ASSUME IInv, NEW c \in Controller, NEW k \in Kind, NEW n \in Name,
                        NEW sp \in SP, n \in kept[c][k] \ missed[c]
                 PROVE  ObjectId[n] \notin toRemove[c][sp]
      BY DEF SteadyReferenceKept
    <2>1. CASE c \in Acting
      BY <2>1 DEF IInv, CoverOK, PlanOK
    <2>2. CASE c \notin Acting
      BY <2>2 DEF IInv, PlanOK, None
    <2> QED
      BY <2>1, <2>2
  <1> QED
    BY <1>1, Invariant, PTL

-----------------------------------------------------------------------------
(* Refinement of SequentialReconciler.                                     *)

(* The values that stand for goal and doubt. *)
Goal == [c \in Acting |-> desired[c]]
DoubtOf == [sp \in SP |-> UNION {unsure[c][sp] : c \in Acting}]

LEMMA GoalIdle ==
  ASSUME Acting = {}
  PROVE  Goal = Sequential!NoGoal /\ DoubtOf = Sequential!NoDoubt
  BY DEF Goal, DoubtOf, Sequential!NoGoal, Sequential!NoDoubt

LEMMA GoalActing ==
  ASSUME TypeOK, NEW c \in Controller, Acting = {c}
  PROVE  /\ Goal = [d \in {c} |-> desired[c]]
         /\ DOMAIN Goal = {c}
         /\ Goal[c] = desired[c]
         /\ DoubtOf = unsure[c]
  <1>1. unsure[c] \in [SP -> SUBSET Group]
    BY DEF TypeOK
  <1>2. \A sp \in SP : UNION {unsure[d][sp] : d \in Acting} = unsure[c][sp]
    OBVIOUS
  <1> QED
    BY <1>1, <1>2 DEF Goal, DoubtOf

(* At most one controller is acting. *)
LEMMA OneActing ==
  ASSUME MutexOK
  PROVE  Acting = {} \/ \E c \in Controller : Acting = {c}
  BY DEF MutexOK, Acting, Inside

LEMMA InitRefines == Init => Sequential!Init
  <1> SUFFICES ASSUME Init PROVE Sequential!Init
    OBVIOUS
  <1>1. Acting = {}
    BY DEF Init, Acting
  <1>2. assigned \in [SP -> SUBSET Group]
    BY TypeInit DEF TypeOK
  <1> QED
    BY <1>1, <1>2, GoalIdle DEF Sequential!Init, Goal, DoubtOf, Init

(* A step that an abstract reader does not see. *)
LEMMA Stutter ==
  ASSUME UNCHANGED <<assigned, result>>, Acting' = Acting,
         \A d \in Acting : desired'[d] = desired[d] /\ unsure'[d] = unsure[d]
  PROVE  UNCHANGED Sequential!vars
  <1>1. Goal' = Goal
    BY DEF Goal
  <1>2. DoubtOf' = DoubtOf
    BY DEF DoubtOf
  <1> QED
    BY <1>1, <1>2 DEF Sequential!vars, Goal, DoubtOf

LEMMA ErrorRefines ==
  ASSUME TypeOK, MutexOK, NEW c \in Controller, pc[c] \in Inside, Return(c, "error")
  PROVE  Sequential!ReportError(c)
  <1>1. Acting \subseteq {c}
    BY Alone
  <1>2. Acting' = {}
    BY ReturnActing
  <1>3. UNCHANGED assigned /\ result' = "error"
    BY DEF Return, Forget, envVars
  <1>4. Goal' = Sequential!NoGoal /\ DoubtOf' = Sequential!NoDoubt
    BY <1>2 DEF Goal, DoubtOf, Sequential!NoGoal, Sequential!NoDoubt
  <1> QED
    BY <1>1, <1>3, <1>4
       DEF Sequential!ReportError, Sequential!Report, Sequential!Acting, Goal, DoubtOf

LEMMA AdoptRefines ==
  ASSUME IInv, NEW c \in Controller, DesiredComplete(c)
  PROVE  Sequential!Adopt(c)
  <1>1. Acting = {} /\ Acting' = {c}
    BY Alone DEF IInv, TypeOK, DesiredComplete, Acting, Inside
  <1>2. desired[c] \in SUBSET Group /\ unsure[c] = None
    BY <1>1 DEF IInv, TypeOK, PlanOK
  <1>3. UNCHANGED <<assigned, desired, unsure, result>>
    BY DEF DesiredComplete, envVars, historyVars
  <1>4. Goal' = [d \in {c} |-> desired[c]]
    BY <1>1, <1>3 DEF Goal
  <1>5. DoubtOf' = Sequential!NoDoubt
    BY <1>1, <1>2, <1>3 DEF DoubtOf, Sequential!NoDoubt, None
  <1> QED
    BY <1>1, <1>2, <1>3, <1>4, <1>5
       DEF Sequential!Adopt, Sequential!Acting, Goal, DoubtOf

(* The steps of c after it has its goal: the goal stays, and doubt is what  *)
(* c is unsure of.                                                         *)
LEMMA ActingStep ==
  ASSUME TypeOK, TypeOK', NEW c \in Controller, Acting = {c}, UNCHANGED desired,
         Acting' = {c}
  PROVE  /\ Goal' = Goal
         /\ Goal[c] = desired[c]
         /\ c \in DOMAIN Goal
         /\ DoubtOf = unsure[c]
         /\ DoubtOf' = unsure'[c]
  <1>1. Goal' = Goal
    BY DEF Goal
  <1>2. unsure'[c] \in [SP -> SUBSET Group]
    BY DEF TypeOK
  <1>3. \A sp \in SP : UNION {unsure'[d][sp] : d \in Acting'} = unsure'[c][sp]
    OBVIOUS
  <1>4. DoubtOf' = unsure'[c]
    BY <1>2, <1>3 DEF DoubtOf
  <1> QED
    BY <1>1, <1>4, GoalActing

LEMMA ReadRefines ==
  ASSUME IInv, TypeOK', NEW c \in Controller, NEW sp \in SP,
         ListManagedAssignments(c, sp)
  PROVE  Sequential!Read(c, sp)
  <1>1. Acting = {c} /\ Acting' = {c}
    BY Alone DEF IInv, TypeOK, ListManagedAssignments, Acting, Inside
  <1>2. UNCHANGED <<assigned, desired, result>>
    BY DEF ListManagedAssignments, envVars
  <1>3. unsure'[c] = [unsure[c] EXCEPT ![sp] = {}]
    BY DEF IInv, TypeOK, ListManagedAssignments
  <1>4. TypeOK
    BY DEF IInv
  <1> QED
    BY <1>1, <1>2, <1>3, <1>4, ActingStep
       DEF Sequential!Read, Sequential!Acting, Goal, DoubtOf

LEMMA AssignRefines ==
  ASSUME IInv, TypeOK', NEW c \in Controller, NEW sp \in SP, NEW g \in Group,
         AssignGroup(c, sp, g)
  PROVE  Sequential!Approach(c, sp, g) \/ Sequential!FailedWrite(c, sp, g)
  <1>1. Acting = {c} /\ Acting' = {c}
    BY Alone DEF IInv, TypeOK, AssignGroup, AssignLeaves, Reached, Acting, Inside
  <1>2. UNCHANGED <<desired, result>> /\ g \in desired[c] /\ TypeOK
    BY DEF IInv, PlanOK, AssignGroup, AssignLeaves
  <1>3. /\ Goal' = Goal /\ g \in Goal[c] /\ c \in DOMAIN Goal
        /\ DoubtOf = unsure[c] /\ DoubtOf' = unsure'[c]
    BY <1>1, <1>2, ActingStep
  <1>4. CASE AssignSucceeds(sp, g)
    BY <1>2, <1>3, <1>4
       DEF AssignSucceeds, Sequential!Approach, Sequential!Moved, Sequential!Acting,
           Goal, DoubtOf
  <1>5. CASE AssignFails(c, sp, g)
    <2>1. unsure'[c] = [unsure[c] EXCEPT ![sp] = @ \cup {g}]
      BY <1>2, <1>5 DEF TypeOK, AssignFails, Doubt
    <2>2. \/ assigned' = assigned
          \/ assigned' = [assigned EXCEPT ![sp] = @ \cup {g}]
      BY <1>5 DEF AssignFails
    <2> QED
      BY <1>2, <1>3, <2>1, <2>2
         DEF Sequential!FailedWrite, Sequential!Moved, Sequential!Acting, Goal, DoubtOf
  <1> QED
    BY <1>4, <1>5 DEF AssignGroup

LEMMA RemoveRefines ==
  ASSUME IInv, TypeOK', NEW c \in Controller, NEW sp \in SP, NEW g \in Group,
         RemoveGroup(c, sp, g)
  PROVE  Sequential!Approach(c, sp, g) \/ Sequential!FailedWrite(c, sp, g)
  <1>1. Acting = {c} /\ Acting' = {c}
    BY Alone DEF IInv, TypeOK, RemoveGroup, Reached, Acting, Inside
  <1>2. UNCHANGED <<desired, result>> /\ g \notin desired[c] /\ TypeOK
    BY DEF IInv, PlanOK, RemoveGroup
  <1>3. /\ Goal' = Goal /\ g \notin Goal[c] /\ c \in DOMAIN Goal
        /\ DoubtOf = unsure[c] /\ DoubtOf' = unsure'[c]
    BY <1>1, <1>2, ActingStep
  <1>4. CASE assigned' = [assigned EXCEPT ![sp] = @ \ {g}] /\ UNCHANGED unsure
    BY <1>2, <1>3, <1>4
       DEF Sequential!Approach, Sequential!Moved, Sequential!Acting, Goal, DoubtOf
  <1>5. CASE /\ Doubt(c, sp, g)
             /\ assigned' \in {assigned, [assigned EXCEPT ![sp] = @ \ {g}]}
    <2>1. unsure'[c] = [unsure[c] EXCEPT ![sp] = @ \cup {g}]
      BY <1>2, <1>5 DEF TypeOK, Doubt
    <2> QED
      BY <1>2, <1>3, <1>5, <2>1
         DEF Sequential!FailedWrite, Sequential!Moved, Sequential!Acting, Goal, DoubtOf
  <1> QED
    BY <1>4, <1>5 DEF RemoveGroup

LEMMA FinishRefines ==
  ASSUME IInv, NEW c \in Controller, Finish(c)
  PROVE  Sequential!ReportSuccess(c)
  <1>1. pc[c] = "apply" /\ TypeOK /\ MutexOK /\ Return(c, "success")
    BY DEF IInv, Finish
  <1>2. Acting = {c} /\ Acting' = {}
    BY <1>1, Alone, ReturnActing DEF Acting, Inside
  <1>3. Goal[c] = desired[c] /\ DOMAIN Goal = {c} /\ DoubtOf = unsure[c]
    BY <1>1, <1>2, GoalActing
  <1>4. ASSUME NEW sp \in SP, NEW g \in Group, g \notin DoubtOf[sp]
        PROVE  g \in assigned[sp] <=> g \in Goal[c]
    <2>1. toAssign[c][sp] = {} /\ toRemove[c][sp] = {} /\ unlisted[c] = {}
      BY <1>1 DEF IInv, PlanOK, Finish, None
    <2>2. g \in unsure[c][sp] \/ Believed(c, sp, g)
      BY <1>2, <2>1 DEF IInv, BeliefHolds
    <2> QED
      BY <1>3, <1>4, <2>1, <2>2 DEF Believed
  <1>5. UNCHANGED assigned /\ result' = "success"
    BY <1>1 DEF Return, Forget, envVars
  <1>6. Goal' = Sequential!NoGoal /\ DoubtOf' = Sequential!NoDoubt
    BY <1>2 DEF Goal, DoubtOf, Sequential!NoGoal, Sequential!NoDoubt
  <1> QED
    BY <1>3, <1>4, <1>5, <1>6
       DEF Sequential!ReportSuccess, Sequential!Report, Sequential!Acting, Goal, DoubtOf

(* Changes made by others: S lists the service principals where g moved.   *)
LEMMA OutsideRefines ==
  ASSUME TypeOK, TypeOK', MutexOK, NEW S \in SUBSET SP, NEW g \in Group,
         ChangedElsewhere(S, g), UNCHANGED <<pc, desired, result>>,
         \A sp \in SP, h \in Group :
            ((h \in assigned[sp]) # (h \in assigned'[sp])) <=> (sp \in S /\ h = g)
  PROVE  Sequential!OutsideChange
  <1>1. assigned' \in [SP -> SUBSET Group]
    BY DEF TypeOK
  <1>2. CASE Acting = {}
    <2>1. Acting' = {}
      BY <1>2 DEF Acting
    <2>2. /\ Goal = Sequential!NoGoal /\ Goal' = Sequential!NoGoal
          /\ DoubtOf' = Sequential!NoDoubt
      BY <1>2, <2>1, GoalIdle DEF Goal, DoubtOf, Sequential!NoGoal, Sequential!NoDoubt
    <2>3. DOMAIN Goal = {}
      BY <1>2 DEF Goal
    <2> QED
      BY <1>1, <2>2, <2>3 DEF Sequential!OutsideChange, Sequential!Acting, Goal, DoubtOf
  <1>3. ASSUME NEW c \in Controller, Acting = {c} PROVE Sequential!OutsideChange
    <2>1. Acting' = {c}
      BY <1>3 DEF Acting
    <2>2. /\ Goal' = Goal /\ c \in DOMAIN Goal
          /\ DoubtOf = unsure[c] /\ DoubtOf' = unsure'[c]
      BY <1>3, <2>1, ActingStep
    <2>3. unsure'[c] = [sp \in SP |-> unsure[c][sp] \cup
                          {h \in Group : (h \in assigned[sp]) # (h \in assigned'[sp])}]
      <3>1. unsure'[c] = [sp \in SP |-> IF sp \in S THEN unsure[c][sp] \cup {g}
                                                   ELSE unsure[c][sp]]
        BY <1>3 DEF ChangedElsewhere
      <3>2. \A sp \in SP :
               {h \in Group : (h \in assigned[sp]) # (h \in assigned'[sp])} =
                  IF sp \in S THEN {g} ELSE {}
        OBVIOUS
      <3> QED
        BY <3>1, <3>2
    <2> QED
      BY <1>1, <2>2, <2>3 DEF Sequential!OutsideChange, Sequential!Acting, Goal, DoubtOf
  <1> QED
    BY <1>2, <1>3, OneActing

LEMMA StepRefines ==
  ASSUME IInv, IInv', [Next]_vars
  PROVE  [Sequential!Next]_(Sequential!vars)
  <1> USE DEF Sequential!Next
  <1>0. TypeOK /\ TypeOK' /\ MutexOK
    BY DEF IInv
  <1>1. ASSUME NEW c \in Controller, Start(c) \/ Lock(c)
        PROVE UNCHANGED Sequential!vars
    BY <1>0, <1>1, Stutter
       DEF TypeOK, Start, Lock, Acting, envVars, passVars, historyVars
  <1>2. ASSUME NEW c \in Controller, ListRoleBindings(c) \/ ListClusterRoleBindings(c)
        PROVE UNCHANGED Sequential!vars
    BY <1>0, <1>2, Stutter
       DEF TypeOK, ListRoleBindings, ListClusterRoleBindings, Acting, envVars,
           historyVars
  <1>3. ASSUME NEW c \in Controller,
               ListBindingsFails(c) \/ ListManagedAssignmentsFails(c)
        PROVE Sequential!Next
    BY <1>0, <1>3, ErrorRefines
       DEF ListBindingsFails, ListManagedAssignmentsFails, Inside
  <1>4. ASSUME NEW c \in Controller, NEW n \in Name, ResolveCandidate(c, n)
        PROVE UNCHANGED Sequential!vars
    <2>1. Acting = {} /\ Acting' = {}
      BY <1>0, <1>4, Alone DEF TypeOK, ResolveCandidate, Resolve, Acting, Inside
    <2> QED
      BY <1>4, <2>1, Stutter DEF ResolveCandidate, Resolve
  <1>5. ASSUME NEW c \in Controller, DesiredComplete(c) PROVE Sequential!Next
    BY <1>5, AdoptRefines
  <1>6. ASSUME NEW c \in Controller, NEW sp \in SP, ListManagedAssignments(c, sp)
        PROVE Sequential!Next
    BY <1>0, <1>6, ReadRefines
  <1>7. ASSUME NEW c \in Controller, NEW sp \in SP, NEW g \in Group,
               AssignGroup(c, sp, g)
        PROVE Sequential!Next
    BY <1>0, <1>7, AssignRefines
  <1>8. ASSUME NEW c \in Controller, NEW sp \in SP, NEW g \in Group,
               RemoveGroup(c, sp, g)
        PROVE Sequential!Next
    BY <1>0, <1>8, RemoveRefines
  <1>9. ASSUME NEW c \in Controller, Finish(c) PROVE Sequential!Next
    BY <1>9, FinishRefines
  <1>10. ASSUME NEW g \in Group, GroupDeleted(g) PROVE Sequential!Next
    <2> DEFINE S == {sp \in SP : g \in assigned[sp]}
    <2>1. \A sp \in SP, h \in Group :
             ((h \in assigned[sp]) # (h \in assigned'[sp])) <=> (sp \in S /\ h = g)
      BY <1>10 DEF GroupDeleted
    <2> QED
      BY <1>0, <1>10, <2>1, OutsideRefines DEF GroupDeleted, passVars
  <1>11. ASSUME NEW sp \in SP, NEW g \in Group, AssignmentChanged(sp, g)
         PROVE Sequential!Next
    <2>1. \A t \in SP, h \in Group :
             ((h \in assigned[t]) # (h \in assigned'[t])) <=> (t \in {sp} /\ h = g)
      <3>1. assigned \in [SP -> SUBSET Group]
        BY <1>0 DEF TypeOK
      <3> QED
        BY <1>11, <3>1 DEF AssignmentChanged
    <2> QED
      BY <1>0, <1>11, <2>1, OutsideRefines DEF AssignmentChanged, passVars
  <1>12. ASSUME Restart PROVE Sequential!Next
    <2>1. Acting' = {}
      BY <1>12 DEF Restart, Acting
    <2>2. Goal' = Sequential!NoGoal /\ DoubtOf' = Sequential!NoDoubt
      BY <2>1 DEF Goal, DoubtOf, Sequential!NoGoal, Sequential!NoDoubt
    <2> QED
      BY <1>12, <2>2 DEF Restart, Sequential!Restart, Goal, DoubtOf
  <1>13. CASE \/ \E k \in Kind : BindingsChange(k)
              \/ \E g \in Group : GroupCreated(g)
              \/ Settle
              \/ UNCHANGED vars
    <2>1. UNCHANGED <<assigned, result, unsure, pc, desired>>
      BY <1>13 DEF BindingsChange, GroupCreated, Settle, vars, envVars, passVars,
           historyVars
    <2> QED
      BY <2>1, Stutter DEF Acting
  <1> HIDE DEF Sequential!Next
  <1> QED
    BY <1>1, <1>2, <1>3, <1>4, <1>5, <1>6, <1>7, <1>8, <1>9, <1>10, <1>11, <1>12,
       <1>13 DEF Next, PassStep, Environment

(* The two controllers sharing a StateReconciler implement one pass after   *)
(* another: the abstract specification's every promise holds of the code.   *)
THEOREM ImplementsSequential == Spec => OnePassAtATime
  <1>1. IInv /\ IInv' /\ [Next]_vars => [Sequential!Next]_(Sequential!vars)
    BY StepRefines
  <1> QED
    BY InitRefines, Invariant, <1>1, PTL DEF Spec, OnePassAtATime, Sequential!Spec
=============================================================================
