------------------------- MODULE GraphClientProofs --------------------------
(***************************************************************************)
(* Theorems about GraphClient: its types, and that it keeps the contract   *)
(* of AssignmentManager, for any clients, roles, principals and order of   *)
(* Graph's list, as long as nobody is ever given two roles and the list    *)
(* fits on a page.  The runs graph_other_role and graph_second_page show   *)
(* that neither condition can be dropped.                                  *)
(***************************************************************************)
EXTENDS GraphClient, FiniteSetTheorems, TLAPS

-----------------------------------------------------------------------------
(* Types.                                                                  *)

LEMMA ConstantFacts ==
  /\ Group \subseteq Principal
  /\ \A c \in Client : MayWant[c] \subseteq Group /\ RoleOf[c] \in Role
  /\ \A c \in Client, p \in Principal : Own(c, p) \in Assignment
  <1>1. \A c \in Client : MayWant[c] \subseteq Principal /\ RoleOf[c] \in Role
    BY GroupAssumption, ClientAssumption
  <1>2. Group \subseteq Principal /\ \A c \in Client : MayWant[c] \subseteq Group
    BY <1>1 DEF Group
  <1>3. \A c \in Client, p \in Principal : Own(c, p) \in Assignment
    BY <1>1 DEF Own, Assignment
  <1> QED
    BY <1>1, <1>2, <1>3

LEMMA HoldersType ==
  ASSUME NEW S \in SUBSET Assignment, NEW r
  PROVE  HoldersOf(S, r) \subseteq Principal
  BY DEF HoldersOf, Assignment

TargetType == [for : Principal \cup {Nothing}, id : Assignment \cup {Nothing}]

LEMMA LoseType ==
  ASSUME target \in [Client -> TargetType], NEW A, NEW C
  PROVE  Lose(A, C) \in [Client -> TargetType]
  <1>1. \A d \in Client : [target[d] EXCEPT !.id = Nothing] \in TargetType
    BY DEF TargetType
  <1> QED
    BY <1>1 DEF Lose

LEMMA TypeInit == Init => TypeOK
  <1> SUFFICES ASSUME Init PROVE TypeOK
    OBVIOUS
  <1>1. granted \in SUBSET Assignment
    <2>1. \A c \in Client : \A g \in MayWant[c] : Own(c, g) \in Assignment
      BY ConstantFacts
    <2> QED
      BY <2>1, ForeignAssumption DEF Init
  <1>2. NoTarget \in TargetType
    BY DEF NoTarget, TargetType
  <1> QED
    BY <1>1, <1>2 DEF Init, TypeOK, TargetType

LEMMA DeleteType ==
  ASSUME TypeOK, NEW c \in Client, DeleteAssignment(c)
  PROVE  TypeOK'
  <1>1. target \in [Client -> TargetType] /\ NoTarget \in TargetType
    BY DEF TypeOK, TargetType, NoTarget
  <1>2. Lose(granted \ granted', Client \ {c}) \in [Client -> TargetType]
    BY <1>1, LoseType
  <1>3. target' \in [Client -> TargetType]
    BY <1>1, <1>2 DEF DeleteAssignment
  <1>4. granted' \in SUBSET Assignment
    BY DEF DeleteAssignment, TypeOK
  <1>5. removing' \in [Client -> SUBSET Principal] /\ pc' \in [Client -> {"idle", "apply", "delete"}]
    BY DEF DeleteAssignment, TypeOK
  <1>6. report' \in [Client -> {"none", "success", "error"}]
    BY DEF DeleteAssignment, TypeOK
  <1> QED
    BY <1>3, <1>4, <1>5, <1>6 DEF DeleteAssignment, TypeOK, TargetType

LEMMA ClientStepType ==
  ASSUME TypeOK, NEW c \in Client, ClientStep(c)
  PROVE  TypeOK'
  <1>1. CASE ListManagedAssignments(c)
    <2>1. HoldersOf(FirstPage, RoleOf[c]) \subseteq Principal
      BY HoldersType DEF FirstPage, TypeOK
    <2> QED
      BY <1>1, <2>1 DEF ListManagedAssignments, TypeOK
  <1>2. ASSUME NEW g \in Group, AssignGroup(c, g) PROVE TypeOK'
    <2>1. Own(c, g) \in Assignment
      BY ConstantFacts
    <2>2. granted' \in SUBSET Assignment
      BY <1>2, <2>1 DEF AssignGroup, TypeOK
    <2>3. report' \in [Client -> {"none", "success", "error"}]
      BY <1>2 DEF AssignGroup, TypeOK
    <2> QED
      BY <1>2, <2>2, <2>3 DEF AssignGroup, TypeOK
  <1>3. ASSUME NEW p \in Principal, FindNothing(c, p) \/ FindFails(c, p) PROVE TypeOK'
    BY <1>3 DEF FindNothing, FindFails, TypeOK
  <1>4. ASSUME NEW p \in Principal, NEW a \in Assignment, FindAssignment(c, p, a) PROVE TypeOK'
    BY <1>4 DEF FindAssignment, TypeOK
  <1>5. CASE DeleteAssignment(c)
    BY <1>5, DeleteType
  <1>6. CASE Finish(c)
    BY <1>6 DEF Finish, TypeOK
  <1> QED
    BY <1>1, <1>2, <1>3, <1>4, <1>5, <1>6 DEF ClientStep

LEMMA TypeStep == TypeOK /\ [Next]_vars => TypeOK'
  <1> SUFFICES ASSUME TypeOK, [Next]_vars PROVE TypeOK'
    OBVIOUS
  <1>1. ASSUME NEW c \in Client, ClientStep(c) PROVE TypeOK'
    BY <1>1, ClientStepType
  <1>2. ASSUME NEW c \in Client, WantChanges(c) PROVE TypeOK'
    BY <1>2, ConstantFacts DEF WantChanges, TypeOK
  <1>3. ASSUME NEW a \in Assignment, GrantedByOthers(a) PROVE TypeOK'
    BY <1>3 DEF GrantedByOthers, clientVars, TypeOK
  <1>4. ASSUME NEW a \in Assignment, DeletedByOthers(a) PROVE TypeOK'
    <2>1. target' \in [Client -> TargetType]
      BY <1>4, LoseType DEF DeletedByOthers, TypeOK, TargetType
    <2> QED
      BY <1>4, <2>1 DEF DeletedByOthers, TypeOK, TargetType
  <1>5. CASE Restart
    <2>1. NoTarget \in TargetType
      BY DEF NoTarget, TargetType
    <2> QED
      BY <1>5, <2>1 DEF Restart, TypeOK, TargetType
  <1>6. CASE Settle
    BY <1>6 DEF Settle, clientVars, TypeOK
  <1>7. CASE UNCHANGED vars
    BY <1>7 DEF vars, TypeOK
  <1> QED
    BY <1>1, <1>2, <1>3, <1>4, <1>5, <1>6, <1>7 DEF Next

(* GraphClient: every variable keeps its type; a client adds only groups,   *)
(* and what a removal is about to delete is an assignment, or nothing that *)
(* still exists.                                                           *)
THEOREM TypeCorrect == Spec => []TypeOK
  BY TypeInit, TypeStep, PTL DEF Spec

-----------------------------------------------------------------------------
(* The contract.                                                           *)

(* What can ever be granted. *)
Grantable == Foreign \cup UNION {{Own(c, g) : g \in MayWant[c]} : c \in Client}

(* Nobody is given two roles. *)
OneRoleEach == \A a, b \in Grantable : a.principal = b.principal => a = b

(* The list fits on a page. *)
FitsOnePage == IsFiniteSet(Grantable) /\ Cardinality(Grantable) <= PageSize

(* The part of the inductive invariant that speaks of one client: a pass    *)
(* adds what it wants, removes holders of its own role, and is about to    *)
(* delete its own assignment or one that is gone.                          *)
OnTrack(c) ==
    /\ want[c] \subseteq MayWant[c]
    /\ adding[c] \subseteq MayWant[c]
    /\ \A p \in removing[c] : Own(c, p) \in Grantable
    /\ pc[c] = "idle" => adding[c] = {} /\ removing[c] = {}
    /\ pc[c] = "delete" =>
           /\ target[c].for \in removing[c]
           /\ target[c].id \in {Nothing, Own(c, target[c].for)}

Contract ==
    /\ granted \subseteq Grantable
    /\ \A c \in Client : OnTrack(c)

(* Under FitsOnePage a list shows everything. *)
LEMMA PageShowsAll ==
  ASSUME FitsOnePage, granted \subseteq Grantable
  PROVE  FirstPage = granted
  <1> SUFFICES ASSUME NEW a \in granted
               PROVE  Cardinality({b \in granted : Place[b] < Place[a]}) < PageSize
    BY DEF FirstPage
  <1> DEFINE before == {b \in granted : Place[b] < Place[a]}
  <1>1. a \in Assignment /\ granted \subseteq Assignment
    BY ConstantFacts, ForeignAssumption DEF Grantable
  <1>2. a \notin before
    BY <1>1, PageAssumption
  <1>3. before \subseteq Grantable \ {a} /\ a \in Grantable
    BY <1>2
  <1>4. IsFiniteSet(Grantable \ {a}) /\ Cardinality(Grantable \ {a}) = Cardinality(Grantable) - 1
    BY <1>3, FS_RemoveElement DEF FitsOnePage
  <1>5. Cardinality(before) <= Cardinality(Grantable \ {a})
    BY <1>3, <1>4, FS_Subset
  <1>6. Cardinality(before) \in Nat /\ Cardinality(Grantable) \in Nat
    BY <1>3, <1>4, FS_Subset, FS_CardinalityType DEF FitsOnePage
  <1> HIDE DEF before
  <1>7. Cardinality(before) < PageSize
    BY <1>4, <1>5, <1>6, PageAssumption DEF FitsOnePage
  <1> QED
    BY <1>7 DEF before

LEMMA HoldersFacts ==
  ASSUME NEW S \in SUBSET Assignment, NEW r \in Role, NEW p
  PROVE  p \in HoldersOf(S, r) <=> [principal |-> p, role |-> r] \in S
  <1>1. \A a \in S : a = [principal |-> a.principal, role |-> a.role]
    BY DEF Assignment
  <1> QED
    BY <1>1 DEF HoldersOf

(* Whoever a client wants or is to remove holds no role but the client's. *)
LEMMA OnlyOwn ==
  ASSUME OneRoleEach, NEW c \in Client, NEW p, Own(c, p) \in Grantable,
         NEW a \in Grantable, a.principal = p
  PROVE  a = Own(c, p)
  BY DEF OneRoleEach, Own

LEMMA ContractInit == Init => Contract
  BY DEF Init, Contract, OnTrack, Grantable

LEMMA LoseFacts ==
  ASSUME TypeOK, NEW A, NEW C, NEW d \in Client
  PROVE  /\ Lose(A, C)[d].for = target[d].for
         /\ Lose(A, C)[d].id \in {Nothing, target[d].id}
  <1>1. target[d] \in TargetType
    BY DEF TypeOK, TargetType
  <1>2. Lose(A, C)[d] \in {target[d], [target[d] EXCEPT !.id = Nothing]}
    BY DEF Lose
  <1> QED
    BY <1>1, <1>2 DEF TargetType

(* A step of one client leaves what the others are at alone, but for the   *)
(* assignments it deletes before them.                                     *)
LEMMA OthersOnTrack ==
  ASSUME TypeOK, Contract, NEW c \in Client, NEW d \in Client, c # d,
         ClientStep(c) \/ WantChanges(c)
  PROVE  /\ OnTrack(d)'
         /\ want'[d] = want[d] /\ adding'[d] = adding[d]
         /\ removing'[d] = removing[d] /\ report'[d] = report[d]
  <1>1. /\ want'[d] = want[d] /\ adding'[d] = adding[d]
        /\ removing'[d] = removing[d] /\ report'[d] = report[d]
        /\ pc'[d] = pc[d]
    BY DEF ClientStep, ListManagedAssignments, AssignGroup, FindNothing, FindFails,
           FindAssignment, DeleteAssignment, Finish, WantChanges, TypeOK
  <1>2. target'[d].for = target[d].for /\ target'[d].id \in {Nothing, target[d].id}
    <2>1. CASE DeleteAssignment(c)
      <3>1. target'[d] = Lose(granted \ granted', Client \ {c})[d]
        BY <2>1 DEF DeleteAssignment, Lose
      <3> QED
        BY <3>1, LoseFacts
    <2>2. CASE ~DeleteAssignment(c)
      BY <2>2 DEF ClientStep, ListManagedAssignments, AssignGroup, FindNothing, FindFails,
                  FindAssignment, Finish, WantChanges, TypeOK
    <2> QED
      BY <2>1, <2>2
  <1>3. OnTrack(d)
    BY DEF Contract
  <1> QED
    BY <1>1, <1>2, <1>3 DEF OnTrack, Own

LEMMA ClientStepContract ==
  ASSUME TypeOK, Contract, OneRoleEach, FitsOnePage, NEW c \in Client, ClientStep(c)
  PROVE  granted' \subseteq Grantable /\ OnTrack(c)'
  <1>1. granted \subseteq Grantable /\ OnTrack(c) /\ FirstPage = granted
    BY PageShowsAll DEF Contract
  <1>2. CASE ListManagedAssignments(c)
    <2>1. \A p \in HoldersOf(FirstPage, RoleOf[c]) : Own(c, p) \in Grantable
      BY <1>1, HoldersFacts, ClientAssumption DEF Own, TypeOK
    <2> QED
      BY <1>1, <1>2, <2>1 DEF ListManagedAssignments, OnTrack, TypeOK, Own
  <1>3. ASSUME NEW g \in Group, AssignGroup(c, g)
        PROVE  granted' \subseteq Grantable /\ OnTrack(c)'
    <2>1. Own(c, g) \in Grantable
      BY <1>1, <1>3 DEF AssignGroup, OnTrack, Grantable
    <2>2. granted' \subseteq Grantable
      BY <1>1, <1>3, <2>1 DEF AssignGroup
    <2>3. OnTrack(c)'
      BY <1>1, <1>3 DEF AssignGroup, OnTrack, TypeOK, Own
    <2> QED
      BY <2>2, <2>3
  <1>4. ASSUME NEW p \in Principal, FindNothing(c, p) \/ FindFails(c, p)
        PROVE  granted' \subseteq Grantable /\ OnTrack(c)'
    BY <1>1, <1>4 DEF FindNothing, FindFails, OnTrack, TypeOK, Own
  <1>5. ASSUME NEW p \in Principal, NEW a \in Assignment, FindAssignment(c, p, a)
        PROVE  granted' \subseteq Grantable /\ OnTrack(c)'
    <2>1. a \in granted /\ a.principal = p /\ p \in removing[c]
      BY <1>1, <1>5 DEF FindAssignment, IsFirst
    <2>2. a = Own(c, p)
      BY <1>1, <2>1, OnlyOwn DEF OnTrack
    <2>3. target'[c] = [for |-> p, id |-> Own(c, p)] /\ removing' = removing
      BY <1>5, <2>2 DEF FindAssignment, TypeOK
    <2> QED
      BY <1>1, <1>5, <2>1, <2>3 DEF FindAssignment, OnTrack, TypeOK, Own
  <1>6. CASE DeleteAssignment(c)
    <2>1. granted' \subseteq Grantable
      BY <1>1, <1>6 DEF DeleteAssignment
    <2>2. OnTrack(c)'
      BY <1>1, <1>6 DEF DeleteAssignment, OnTrack, TypeOK, Own
    <2> QED
      BY <2>1, <2>2
  <1>7. CASE Finish(c)
    BY <1>1, <1>7 DEF Finish, OnTrack, TypeOK, Own
  <1> QED
    BY <1>2, <1>3, <1>4, <1>5, <1>6, <1>7 DEF ClientStep

LEMMA ContractStep ==
  ASSUME TypeOK, Contract, OneRoleEach, FitsOnePage, [Next]_vars
  PROVE  Contract'
  <1>1. ASSUME NEW c \in Client, ClientStep(c) PROVE Contract'
    <2>1. \A d \in Client : d # c => OnTrack(d)'
      BY <1>1, OthersOnTrack
    <2>2. granted' \subseteq Grantable /\ OnTrack(c)'
      BY <1>1, ClientStepContract
    <2> QED
      BY <2>1, <2>2 DEF Contract
  <1>2. ASSUME NEW c \in Client, WantChanges(c) PROVE Contract'
    <2>1. \A d \in Client : d # c => OnTrack(d)'
      BY <1>2, OthersOnTrack
    <2>2. OnTrack(c)'
      BY <1>2 DEF WantChanges, Contract, OnTrack, TypeOK, Own
    <2>3. granted' \subseteq Grantable
      BY <1>2 DEF WantChanges, Contract
    <2> QED
      BY <2>1, <2>2, <2>3 DEF Contract
  <1>3. ASSUME NEW a \in Assignment, GrantedByOthers(a) PROVE Contract'
    BY <1>3 DEF GrantedByOthers, clientVars, Contract, OnTrack, Grantable, Own
  <1>4. ASSUME NEW a \in Assignment, DeletedByOthers(a) PROVE Contract'
    <2>1. \A d \in Client : target'[d].for = target[d].for
                            /\ target'[d].id \in {Nothing, target[d].id}
      BY <1>4, LoseFacts DEF DeletedByOthers
    <2>2. \A d \in Client : OnTrack(d)'
      BY <1>4, <2>1 DEF DeletedByOthers, Contract, OnTrack, Own
    <2> QED
      BY <1>4, <2>2 DEF DeletedByOthers, Contract
  <1>5. CASE Restart
    BY <1>5 DEF Restart, Contract, OnTrack
  <1>6. CASE Settle \/ UNCHANGED vars
    BY <1>6 DEF Settle, clientVars, vars, Contract, OnTrack, Own
  <1> QED
    BY <1>1, <1>2, <1>3, <1>4, <1>5, <1>6 DEF Next

-----------------------------------------------------------------------------
(* The refinement.                                                         *)

Assigned == HoldersOf(granted, RoleOf[Observed])

LEMMA AssignedFacts ==
  ASSUME TypeOK
  PROVE  /\ Assigned \subseteq Principal
         /\ \A p : p \in Assigned <=> Own(Observed, p) \in granted
  <1>1. granted \in SUBSET Assignment /\ RoleOf[Observed] \in Role
    BY ConstantFacts, ObservedAssumption DEF TypeOK
  <1> QED
    BY <1>1, HoldersType, HoldersFacts DEF Assigned, Own

LEMMA ManagerInit == Init => Manager!Init
  <1> SUFFICES ASSUME Init PROVE Manager!Init
    OBVIOUS
  <1>1. TypeOK
    BY TypeInit
  <1> QED
    BY <1>1, AssignedFacts, ObservedAssumption DEF Init, Manager!Init, Assigned

(* The observed client's own steps. *)
LEMMA OwnStep ==
  ASSUME TypeOK, TypeOK', Contract, OneRoleEach, FitsOnePage, ClientStep(Observed)
  PROVE  [Manager!Next]_(Manager!vars)
  <1> DEFINE c == Observed
  <1>1. c \in Client /\ OnTrack(c) /\ FirstPage = granted
    BY ObservedAssumption, PageShowsAll DEF Contract
  <1>2. /\ Assigned \subseteq Principal /\ Assigned' \subseteq Principal
        /\ \A p : p \in Assigned <=> Own(c, p) \in granted
        /\ \A p : p \in Assigned' <=> Own(c, p) \in granted'
    <2>1. (\A p : p \in Assigned <=> Own(c, p) \in granted)'
          /\ (Assigned \subseteq Principal)'
      BY AssignedFacts, PTL
    <2> QED
      BY <2>1, AssignedFacts DEF Own
  <1>3. CASE ListManagedAssignments(c)
    <2>1. Manager!ListManagedAssignments
      BY <1>1, <1>3 DEF ListManagedAssignments, Manager!ListManagedAssignments, TypeOK
    <2> QED
      BY <2>1 DEF Manager!Next
  <1>4. ASSUME NEW g \in Group, AssignGroup(c, g) PROVE [Manager!Next]_(Manager!vars)
    <2>1. granted' \in {granted, granted \cup {Own(c, g)}}
          /\ \/ report'[c] = "success" /\ granted' = granted \cup {Own(c, g)}
             \/ report'[c] = "error"
      BY <1>1, <1>4 DEF AssignGroup, TypeOK
    <2>2. granted' = granted => Assigned' = Assigned
      BY <1>2
    <2>3. granted' = granted \cup {Own(c, g)} => Assigned' = Assigned \cup {g}
      <3>1. \A p : Own(c, p) = Own(c, g) <=> p = g
        BY DEF Own
      <3> HIDE DEF c
      <3> QED
        BY <1>2, <3>1
    <2>4. Manager!Call(Assigned \cup {g})
      BY <2>1, <2>2, <2>3 DEF Manager!Call, Assigned
    <2>5. /\ g \in adding[c] /\ adding'[c] = adding[c] \ {g}
          /\ want'[c] = want[c] /\ removing'[c] = removing[c]
      BY <1>1, <1>4 DEF AssignGroup, TypeOK
    <2>6. Manager!AssignGroup(g) /\ g \in Principal
      BY <2>4, <2>5, ConstantFacts DEF Manager!AssignGroup, Assigned
    <2> QED
      BY <2>6 DEF Manager!Next
  <1>5. ASSUME NEW p \in Principal, FindNothing(c, p) \/ FindFails(c, p)
        PROVE  [Manager!Next]_(Manager!vars)
    <2>1. /\ p \in removing[c] /\ removing'[c] = removing[c] \ {p}
          /\ want'[c] = want[c] /\ adding'[c] = adding[c] /\ granted' = granted
      BY <1>1, <1>5 DEF FindNothing, FindFails, TypeOK
    <2>2. Assigned' = Assigned
      BY <1>2, <2>1
    <2>3. \/ report'[c] = "success" /\ p \notin Assigned
          \/ report'[c] = "error"
      <3>1. CASE FindNothing(c, p)
        <4>1. Own(c, p) \notin granted
          BY <1>1, <3>1 DEF FindNothing, Own
        <4> QED
          BY <1>1, <1>2, <3>1, <4>1 DEF FindNothing, TypeOK
      <3>2. CASE FindFails(c, p)
        BY <1>1, <3>2 DEF FindFails, TypeOK
      <3> QED
        BY <1>5, <3>1, <3>2
    <2>4. p \notin Assigned => Assigned \ {p} = Assigned
      OBVIOUS
    <2>5. Manager!Call(Assigned \ {p})
      BY <2>2, <2>3, <2>4 DEF Manager!Call, Assigned
    <2>6. Manager!RemoveGroup(p)
      BY <2>1, <2>5 DEF Manager!RemoveGroup, Assigned
    <2> QED
      BY <2>6 DEF Manager!Next
  <1>6. ASSUME NEW p \in Principal, NEW a \in Assignment, FindAssignment(c, p, a)
        PROVE  [Manager!Next]_(Manager!vars)
    BY <1>6 DEF FindAssignment, Manager!vars
  <1>7. CASE DeleteAssignment(c)
    <2> DEFINE p == target[c].for
    <2>1. p \in removing[c] /\ target[c].id \in {Nothing, Own(c, p)}
      BY <1>1, <1>7 DEF DeleteAssignment, OnTrack
    <2>2. p \in Principal
      BY <1>1, <2>1 DEF TypeOK
    <2>3. /\ removing'[c] = removing[c] \ {p}
          /\ want'[c] = want[c] /\ adding'[c] = adding[c]
          /\ \/ report'[c] = "success" /\ target[c].id # Nothing
                /\ granted' = granted \ {target[c].id}
             \/ report'[c] = "error" /\ granted' \in {granted, granted \ {target[c].id}}
      BY <1>1, <1>7 DEF DeleteAssignment, TypeOK
    <2>4. granted \ {Nothing} = granted
      BY NothingAssumption DEF TypeOK
    <2>5. \/ report'[c] = "success" /\ granted' = granted \ {Own(c, p)}
          \/ report'[c] = "error" /\ granted' \in {granted, granted \ {Own(c, p)}}
      <3> HIDE DEF c, p
      <3> QED
        BY <2>1, <2>3, <2>4
    <2>6. granted' = granted => Assigned' = Assigned
      BY <1>2
    <2>7. granted' = granted \ {Own(c, p)} => Assigned' = Assigned \ {p}
      <3>1. \A q : Own(c, q) = Own(c, p) <=> q = p
        BY DEF Own
      <3> HIDE DEF c, p
      <3> QED
        BY <1>2, <3>1
    <2> HIDE DEF p
    <2>8. Manager!Call(Assigned \ {p})
      BY <2>5, <2>6, <2>7 DEF Manager!Call, Assigned
    <2>9. Manager!RemoveGroup(p)
      BY <2>1, <2>3, <2>8 DEF Manager!RemoveGroup, Assigned
    <2> QED
      BY <2>2, <2>9 DEF Manager!Next
  <1>8. CASE Finish(c)
    BY <1>8 DEF Finish, Manager!vars
  <1> QED
    BY <1>3, <1>4, <1>5, <1>6, <1>7, <1>8 DEF ClientStep

(* Whatever anybody else does is an outside change. *)
LEMMA OutsideStep ==
  ASSUME TypeOK', UNCHANGED <<want[Observed], adding[Observed],
                              removing[Observed], report[Observed]>>
  PROVE  Manager!OutsideChange
  <1>1. (Assigned \subseteq Principal)'
    BY AssignedFacts, PTL
  <1> QED
    BY <1>1 DEF Manager!OutsideChange, Assigned

LEMMA ManagerStep ==
  ASSUME TypeOK, TypeOK', Contract, OneRoleEach, FitsOnePage, [Next]_vars
  PROVE  [Manager!Next]_(Manager!vars)
  <1>1. CASE ClientStep(Observed)
    BY <1>1, OwnStep
  <1>2. CASE WantChanges(Observed)
    <2>1. OnTrack(Observed) /\ pc[Observed] = "idle"
      BY <1>2, ObservedAssumption DEF Contract, WantChanges
    <2>2. want'[Observed] \in SUBSET MayWant[Observed]
      BY <1>2, ObservedAssumption DEF WantChanges, TypeOK
    <2>3. Manager!WantChanges
      BY <1>2, <2>1, <2>2 DEF WantChanges, OnTrack, Manager!WantChanges
    <2> QED
      BY <2>3 DEF Manager!Next
  <1>3. ASSUME NEW c \in Client, c # Observed, ClientStep(c) \/ WantChanges(c)
        PROVE  [Manager!Next]_(Manager!vars)
    BY <1>3, ObservedAssumption, OthersOnTrack, OutsideStep DEF Manager!Next
  <1>4. ASSUME NEW a \in Assignment, GrantedByOthers(a) \/ DeletedByOthers(a)
        PROVE  [Manager!Next]_(Manager!vars)
    <2>1. UNCHANGED <<want, adding, removing, report>>
      BY <1>4 DEF GrantedByOthers, DeletedByOthers, clientVars
    <2> QED
      BY <2>1, OutsideStep DEF Manager!Next
  <1>5. CASE Restart
    <2>1. Manager!Forget
      BY <1>5, ObservedAssumption DEF Restart, Manager!Forget
    <2> QED
      BY <2>1 DEF Manager!Next
  <1>6. CASE Settle \/ UNCHANGED vars
    BY <1>6 DEF Settle, vars, clientVars, Manager!vars
  <1> QED
    BY <1>1, <1>2, <1>3, <1>4, <1>5, <1>6 DEF Next

(* GraphClient: as long as nobody is given two roles and the list fits on   *)
(* a page, whatever other clients, other administrators, failing requests  *)
(* and restarts do between the two requests of a removal, a client's calls *)
(* do to the holders of its role what the convergence pass takes them to.  *)
THEOREM ImplementsContract ==
  ASSUME OneRoleEach, FitsOnePage
  PROVE  Spec => KeepsContract
  <1>1. Init => TypeOK /\ Contract
    BY TypeInit, ContractInit
  <1>2. TypeOK /\ Contract /\ [Next]_vars => (TypeOK /\ Contract)'
    BY TypeStep, ContractStep
  <1>3. TypeOK /\ TypeOK' /\ Contract /\ [Next]_vars => [Manager!Next]_(Manager!vars)
    BY ManagerStep
  <1> QED
    BY <1>1, <1>2, <1>3, ManagerInit, PTL DEF Spec, KeepsContract, Manager!Spec
=============================================================================
