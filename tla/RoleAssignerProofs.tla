------------------------- MODULE RoleAssignerProofs -------------------------
(***************************************************************************)
(* Theorems about RoleAssigner, for any environments, principals, roles    *)
(* and groups.                                                             *)
(***************************************************************************)
EXTENDS RoleAssigner, FiniteSetTheorems, WellFoundedInduction, TLAPS

(* A process that runs has got past every os.Exit.                         *)
Wired == phase # "down" => StartsUp(config)

-----------------------------------------------------------------------------
(* What main makes of a configuration.                                     *)

LEMMA ConfigFacts ==
  ASSUME NEW c \in Configs
  PROVE  /\ c.list \in Seq(Entry \cup {Empty})
         /\ c.role \in Role \cup {NoRole}
         /\ c.instances \in Seq(Instances)
         /\ c.groups \subseteq Group
  BY ConfigsAssumption DEF Environment

LEMMA InstanceFacts ==
  ASSUME NEW c \in Configs, NEW i \in DOMAIN c.instances
  PROVE  /\ i \in Nat \ {Kubernetes}
         /\ c.instances[i].list \in Seq(Entry \cup {Empty})
         /\ c.instances[i].role \in Role \cup {NoRole}
  <1>1. c.instances \in Seq(Instances)
    BY ConfigFacts
  <1>2. c.instances[i] \in Instances /\ i \in 1..Len(c.instances)
    BY <1>1
  <1> QED
    BY <1>1, <1>2 DEF Instances, Kubernetes

LEMMA ArgoCDTargetsAreInstances ==
  \A c : ArgoCDTargets(c) \subseteq ArgoCDInstances(c)
         /\ ArgoCDInstances(c) \subseteq DOMAIN c.instances
  BY DEF ArgoCDTargets, ArgoCDInstances

LEMMA ParsedFacts ==
  ASSUME NEW list \in Seq(Entry \cup {Empty})
  PROVE  /\ {list[n] : n \in DOMAIN list} \subseteq Entry \cup {Empty}
         /\ ParseServicePrincipals(list) \subseteq Entry
  BY DEF ParseServicePrincipals

LEMMA TargetFacts ==
  ASSUME NEW c \in Configs, StartsUp(c), NEW t \in DOMAIN Targets(c)
  PROVE  /\ Targets(c)[t] = Target(c, t)
         /\ Target(c, t).entries \subseteq Entry \cup {Empty}
         /\ Target(c, t).role \in Role
         /\ Target(c, t).owners \subseteq {Kubernetes} \cup DOMAIN c.instances
         /\ Principals(Target(c, t)) \subseteq Principal
  <1>1. t \in {Kubernetes} \cup ArgoCDTargets(c) /\ Targets(c)[t] = Target(c, t)
    BY DEF Targets
  <1>2. CASE t = Kubernetes
    <2>1. Target(c, t).entries = {c.list[n] : n \in DOMAIN c.list}
          /\ Target(c, t).role = c.role /\ Target(c, t).owners = {Kubernetes}
      BY <1>2 DEF Target
    <2>2. c.role \in Role
      BY ConfigFacts DEF StartsUp
    <2>3. Target(c, t).entries \subseteq Entry \cup {Empty}
      BY <2>1, ConfigFacts, ParsedFacts
    <2>4. Principals(Target(c, t)) \subseteq Principal
      BY <2>3, EntryAssumption DEF Principals
    <2> QED
      BY <1>1, <2>1, <2>2, <2>3, <2>4
  <1>3. CASE t \in ArgoCDTargets(c)
    <2>1. t \in DOMAIN c.instances /\ t # Kubernetes
      BY <1>3, ArgoCDTargetsAreInstances, InstanceFacts
    <2>2. Target(c, t).entries = ParseServicePrincipals(c.instances[t].list)
          /\ Target(c, t).role = c.instances[t].role
          /\ Target(c, t).owners \subseteq DOMAIN c.instances
      BY <2>1, ArgoCDTargetsAreInstances DEF Target
    <2>3. Target(c, t).entries \subseteq Entry
      BY <2>1, <2>2, InstanceFacts, ParsedFacts
    <2>4. Target(c, t).role \in Role
      BY <1>3, <2>1, <2>2, InstanceFacts DEF StartsUp
    <2>5. Principals(Target(c, t)) \subseteq Principal
      BY <2>3, EntryAssumption DEF Principals
    <2> QED
      BY <1>1, <2>2, <2>3, <2>4, <2>5
  <1> QED
    BY <1>1, <1>2, <1>3

-----------------------------------------------------------------------------
(* Every instance is served.                                               *)

(* A nonempty set of naturals has a least element. *)
LEMMA Least ==
  ASSUME NEW T \in SUBSET Nat, T # {}
  PROVE  \E m \in T : \A n \in T : m <= n
  <1> DEFINE R == OpToRel(<, Nat)
  <1>1. IsWellFoundedOn(R, Nat)
    BY NatLessThanWellFounded
  <1>2. PICK m \in T : \A n \in T : <<n, m>> \notin R
    BY <1>1, WFMin, Zenon
  <1>3. \A n \in T : ~(n < m)
    BY <1>2, Zenon DEF OpToRel
  <1>4. \A n \in T : m <= n
    BY <1>3
  <1> QED
    BY <1>4

LEMMA FirstOfItsKey ==
  ASSUME NEW c \in Configs, NEW i \in ArgoCDInstances(c)
  PROVE  \E t \in ArgoCDTargets(c) : Key(c, t) = Key(c, i)
  <1> DEFINE Same == {j \in ArgoCDInstances(c) : Key(c, j) = Key(c, i)}
  <1>1. Same \subseteq Nat /\ i \in Same
    BY ArgoCDTargetsAreInstances, InstanceFacts
  <1>2. PICK t \in Same : \A j \in Same : t <= j
    BY <1>1, Least
  <1>3. t \in ArgoCDTargets(c)
    BY <1>2 DEF ArgoCDTargets
  <1> QED
    BY <1>2, <1>3

(* argoCDTargets: every instance is an owner of the target with its         *)
(* principals and its role, and of no other.                               *)
LEMMA InstanceHasItsTarget ==
  ASSUME NEW c \in Configs, NEW i \in ArgoCDInstances(c)
  PROVE  \E t \in DOMAIN Targets(c) :
             /\ i \in Target(c, t).owners
             /\ Target(c, t).role = c.instances[i].role
             /\ Target(c, t).entries = ParseServicePrincipals(c.instances[i].list)
             /\ \A u \in DOMAIN Targets(c) : i \in Target(c, u).owners => u = t
  <1>1. PICK t \in ArgoCDTargets(c) : Key(c, t) = Key(c, i)
    BY FirstOfItsKey
  <1>2. \A j \in ArgoCDInstances(c) : j \in Nat /\ j # Kubernetes
    BY ArgoCDTargetsAreInstances, InstanceFacts
  <1>3. t # Kubernetes /\ t \in DOMAIN Targets(c)
    BY <1>2, ArgoCDTargetsAreInstances DEF Targets
  <1>4. Target(c, t).owners = {j \in ArgoCDInstances(c) : Key(c, j) = Key(c, t)}
        /\ Target(c, t).role = c.instances[t].role
        /\ Target(c, t).entries = ParseServicePrincipals(c.instances[t].list)
    BY <1>3 DEF Target
  <1>5. c.instances[t].role = c.instances[i].role
        /\ ParseServicePrincipals(c.instances[t].list)
           = ParseServicePrincipals(c.instances[i].list)
    BY <1>1 DEF Key
  <1>6. ASSUME NEW u \in DOMAIN Targets(c), i \in Target(c, u).owners PROVE u = t
    <2>1. CASE u = Kubernetes
      BY <1>2, <1>6, <2>1 DEF Target
    <2>2. CASE u # Kubernetes
      <3>1. u \in ArgoCDTargets(c) /\ Key(c, i) = Key(c, u)
        BY <1>6, <2>2 DEF Targets, Target
      <3>2. u <= t /\ t <= u /\ u \in Nat /\ t \in Nat
        BY <1>1, <1>2, <3>1 DEF ArgoCDTargets
      <3> QED
        BY <3>2
    <2> QED
      BY <2>1, <2>2
  <1> QED
    BY <1>1, <1>3, <1>4, <1>5, <1>6

-----------------------------------------------------------------------------
(* Types.                                                                  *)

GrantType == Principal \X Role \X config.groups

LEMMA GroupsFinite ==
  ASSUME config \in Configs
  PROVE  IsFiniteSet(config.groups) /\ config.groups \subseteq Group
  BY GroupAssumption, FS_Subset, ConfigFacts

LEMMA GaugeType ==
  ASSUME config \in Configs, NEW S \in SUBSET config.groups
  PROVE  IsFiniteSet(S) /\ Cardinality(S) \in Nat
  <1>1. IsFiniteSet(S)
    BY GroupsFinite, FS_Subset
  <1> QED
    BY <1>1, FS_CardinalityType

(* What is known of a target while the process runs. *)
LEMMA RunningTarget ==
  ASSUME TypeOK, Wired, NEW t \in DOMAIN targets
  PROVE  /\ phase # "down" /\ StartsUp(config) /\ targets = Targets(config)
         /\ targets[t] = Target(config, t)
         /\ targets[t].entries \subseteq Entry \cup {Empty}
         /\ targets[t].role \in Role
         /\ targets[t].owners \subseteq Owner
         /\ Principals(targets[t]) \subseteq Principal
  <1>1. phase # "down"
    BY DEF TypeOK, NoTargets
  <1>2. targets = Targets(config) /\ config \in Configs /\ StartsUp(config)
    BY <1>1 DEF TypeOK, Wired
  <1> QED
    BY <1>1, <1>2, TargetFacts DEF Owner

LEMMA IdleType ==
  \A target : Idle \in PassOf(target)
  BY DEF Idle, PassOf

LEMMA MoveEffect ==
  ASSUME DOMAIN pass = DOMAIN targets, NEW t \in DOMAIN targets, NEW p, Move(t, p)
  PROVE  /\ UNCHANGED <<config, phase, targets, want, settled>>
         /\ DOMAIN pass' = DOMAIN targets
         /\ pass'[t] = p
         /\ \A u \in DOMAIN targets : u # t => pass'[u] = pass[u]
  BY DEF Move

LEMMA PassStepMoves ==
  ASSUME NEW t \in DOMAIN targets, PassStep(t)
  PROVE  UNCHANGED <<config, phase, targets, want, settled>>
  <1>1. \A p : Move(t, p) => UNCHANGED <<config, phase, targets, want, settled>>
    BY DEF Move
  <1>2. CASE BuildDesired(t)
    BY <1>1, <1>2, Zenon DEF BuildDesired
  <1>3. CASE ListManagedAssignments(t)
    BY <1>1, <1>3, Zenon DEF ListManagedAssignments, Listed
  <1>4. CASE ListManagedAssignmentsFails(t)
    BY <1>1, <1>4, Zenon DEF ListManagedAssignmentsFails
  <1>5. CASE Write(t)
    BY <1>1, <1>5, Zenon DEF Write, Assign, AssignFails, Remove, RemoveFails
  <1>6. CASE Finish(t)
    BY <1>1, <1>6, Zenon DEF Finish
  <1> QED
    BY <1>2, <1>3, <1>4, <1>5, <1>6 DEF PassStep

(* What the clients may have cached. *)
NamelessOK == nameless \in [DOMAIN Targets(config) -> SUBSET config.groups]

LEMMA NamelessKept ==
  ASSUME TypeOK, UNCHANGED <<config, nameless>>
  PROVE  NamelessOK'
  BY DEF TypeOK, NamelessOK

LEMMA NamelessGrows ==
  ASSUME TypeOK, UNCHANGED config, NEW t \in DOMAIN targets, NEW lost \in SUBSET config.groups,
         nameless' = [nameless EXCEPT ![t] = @ \cup lost]
  PROVE  NamelessOK'
  <1>1. nameless \in [DOMAIN Targets(config) -> SUBSET config.groups]
    BY DEF TypeOK
  <1>2. nameless' \in [DOMAIN Targets(config) -> SUBSET config.groups]
    BY <1>1
  <1> QED
    BY <1>2 DEF NamelessOK

LEMMA MoveType ==
  ASSUME TypeOK, NEW t \in DOMAIN targets, NEW p \in PassOf(targets[t]),
         p.pc # "apply" => p.plan = {} /\ p.doubted = {},
         Move(t, p), granted' \subseteq GrantType,
         gauges' \in [desired : Nat, actual : Nat], NamelessOK'
  PROVE  TypeOK'
  <1>1. /\ UNCHANGED <<config, phase, targets, want, settled>>
        /\ DOMAIN pass' = DOMAIN targets
        /\ pass'[t] = p
        /\ \A u \in DOMAIN targets : u # t => pass'[u] = pass[u]
    BY MoveEffect DEF TypeOK
  <1>2. \A u \in DOMAIN targets : pass'[u] \in PassOf(targets[u])
                                   /\ (pass'[u].pc # "apply" =>
                                          pass'[u].plan = {} /\ pass'[u].doubted = {})
    BY <1>1 DEF TypeOK
  <1>3. \A x : PassOf(x)' = PassOf(x)
    BY <1>1 DEF PassOf, Owner, Principals
  <1>4. NoTargets' = NoTargets
    BY DEF NoTargets
  <1>5. DOMAIN pass' = DOMAIN targets'
        /\ \A u \in DOMAIN targets' :
               /\ pass'[u] \in PassOf(targets[u])'
               /\ pass'[u].pc # "apply" => pass'[u].plan = {} /\ pass'[u].doubted = {}
    BY <1>1, <1>2, <1>3
  <1> QED
    BY <1>1, <1>4, <1>5 DEF TypeOK, GrantType, Owner, NamelessOK

(* What a pass looks like after one of its writes. *)
LEMMA WriteType ==
  ASSUME TypeOK, Wired, NEW t \in DOMAIN targets, NEW e \in targets[t].entries,
         NEW g \in config.groups, Reached(t, e, g)
  PROVE  /\ e \in Entry /\ PrincipalOf[e] \in Principals(targets[t])
         /\ Assignment(t, e, g) \in GrantType
         /\ Without(t, e, g) \in PassOf(targets[t]) /\ Without(t, e, g).pc = "apply"
         /\ Doubting(t, e, g) \in PassOf(targets[t]) /\ Doubting(t, e, g).pc = "apply"
         /\ [Without(t, e, g) EXCEPT !.actual = @ \cup {g}] \in PassOf(targets[t])
         /\ [Without(t, e, g) EXCEPT !.actual = @ \cup {g}].pc = "apply"
         /\ [Doubting(t, e, g) EXCEPT !.actual = @ \cup {g}] \in PassOf(targets[t])
         /\ [Doubting(t, e, g) EXCEPT !.actual = @ \cup {g}].pc = "apply"
  <1>1. pass[t] \in PassOf(targets[t]) /\ pass[t].pc = "apply"
    BY DEF TypeOK, Reached
  <1>2. e \in Entry /\ e # Empty
    <2>1. <<e, g>> \in (targets[t].entries \ {Empty}) \X config.groups
      BY <1>1 DEF Reached, PassOf
    <2> QED
      BY <2>1, RunningTarget
  <1>3. PrincipalOf[e] \in Principals(targets[t])
    BY <1>2 DEF Principals
  <1>4. Assignment(t, e, g) \in GrantType
    BY <1>3, RunningTarget DEF Assignment, GrantType
  <1>5. Without(t, e, g) \in PassOf(targets[t]) /\ Without(t, e, g).pc = "apply"
    BY <1>1 DEF Without, PassOf
  <1>6. Doubting(t, e, g) \in PassOf(targets[t]) /\ Doubting(t, e, g).pc = "apply"
    BY <1>3, <1>5 DEF Doubting, PassOf
  <1>7. \A p \in PassOf(targets[t]) :
            /\ [p EXCEPT !.actual = @ \cup {g}] \in PassOf(targets[t])
            /\ [p EXCEPT !.actual = @ \cup {g}].pc = p.pc
    BY DEF PassOf
  <1> QED
    BY <1>2, <1>3, <1>4, <1>5, <1>6, <1>7

LEMMA RemovedType ==
  ASSUME granted \subseteq GrantType, NEW t, NEW e, NEW g, NEW S \in Removed(t, e, g)
  PROVE  S \subseteq granted /\ S \subseteq GrantType
  BY DEF Removed

LEMMA BuildDesiredType ==
  ASSUME TypeOK, Wired, NEW t \in DOMAIN targets, BuildDesired(t)
  PROVE  TypeOK'
  <1>0. PICK missed \in SUBSET Wanted(targets[t]) :
            LET desired == Wanted(targets[t]) \ missed
                excused == IF phase = "running" THEN missed ELSE {}
            IN  /\ Move(t, [Idle EXCEPT !.pc = "list", !.desired = desired,
                                !.kept = UNION {{<<o, g>> : g \in want[o] \ excused} :
                                                o \in Sharers(t)}])
                /\ nameless' \in {[nameless EXCEPT ![t] = @ \cup lost] : lost \in SUBSET missed}
                /\ gauges' = [gauges EXCEPT !.desired = Cardinality(desired)]
                /\ UNCHANGED granted
    BY Zenon DEF BuildDesired
  <1> DEFINE excused == IF phase = "running" THEN missed ELSE {}
  <1>1. /\ Move(t, [Idle EXCEPT !.pc = "list", !.desired = Wanted(targets[t]) \ missed,
                         !.kept = UNION {{<<o, g>> : g \in want[o] \ excused} :
                                         o \in Sharers(t)}])
        /\ gauges' = [gauges EXCEPT !.desired = Cardinality(Wanted(targets[t]) \ missed)]
        /\ UNCHANGED granted
        /\ nameless' \in {[nameless EXCEPT ![t] = @ \cup lost] : lost \in SUBSET missed}
    BY <1>0
  <1> HIDE DEF excused
  <1>2. \A u \in DOMAIN targets : targets[u].owners \subseteq Owner
    BY RunningTarget
  <1>3. \A o \in Owner : want[o] \subseteq config.groups
    BY DEF TypeOK
  <1>4. Wanted(targets[t]) \in SUBSET config.groups
    BY <1>2, <1>3 DEF Wanted
  <1>5. Sharers(t) \subseteq Owner
    BY <1>2 DEF Sharers
  <1>6. UNION {{<<o, g>> : g \in want[o] \ excused} : o \in Sharers(t)}
            \in SUBSET (Owner \X config.groups)
    BY <1>3, <1>5
  <1>7. Cardinality(Wanted(targets[t]) \ missed) \in Nat
    BY <1>4, GaugeType DEF TypeOK
  <1>8. gauges' \in [desired : Nat, actual : Nat]
    BY <1>1, <1>7 DEF TypeOK
  <1> DEFINE p == [Idle EXCEPT !.pc = "list", !.desired = Wanted(targets[t]) \ missed,
                       !.kept = UNION {{<<o, g>> : g \in want[o] \ excused} :
                                       o \in Sharers(t)}]
  <1>9. p \in PassOf(targets[t]) /\ p.plan = {} /\ p.doubted = {}
    BY <1>4, <1>6 DEF Idle, PassOf
  <1>10. Move(t, p)
    BY <1>1
  <1>11. granted' \subseteq GrantType
    BY <1>1 DEF TypeOK, GrantType
  <1>12. NamelessOK'
    <2>1. PICK lost \in SUBSET missed : nameless' = [nameless EXCEPT ![t] = @ \cup lost]
      BY <1>1
    <2>2. lost \in SUBSET config.groups /\ UNCHANGED config
      BY <1>4, <1>10 DEF Move
    <2> QED
      BY <2>1, <2>2, NamelessGrows
  <1> HIDE DEF p
  <1> QED
    BY <1>8, <1>9, <1>10, <1>11, <1>12, MoveType

LEMMA ListedType ==
  ASSUME TypeOK, Wired, NEW t \in DOMAIN targets, pass[t].pc = "list",
         Empty \notin targets[t].entries, Listed(t), UNCHANGED <<granted, nameless, gauges>>
  PROVE  TypeOK'
  <1> DEFINE plan == {d \in targets[t].entries \X config.groups :
                         (d[2] \in pass[t].desired) # (d[2] \in Shown(t, d[1]))}
             actual == pass[t].desired \cap UNION {Shown(t, e) : e \in targets[t].entries}
             p == [pass[t] EXCEPT !.pc = "apply", !.plan = plan, !.actual = actual]
  <1>1. pass[t] \in PassOf(targets[t])
    BY DEF TypeOK
  <1>2. plan \in SUBSET ((targets[t].entries \ {Empty}) \X config.groups)
    OBVIOUS
  <1>3. actual \in SUBSET config.groups
    BY <1>1 DEF PassOf
  <1>4. Move(t, p)
    BY DEF Listed
  <1> HIDE DEF plan, actual
  <1>5. p \in PassOf(targets[t]) /\ p.pc = "apply"
    BY <1>1, <1>2, <1>3 DEF PassOf
  <1>6. granted' \subseteq GrantType /\ gauges' \in [desired : Nat, actual : Nat]
    BY DEF TypeOK, GrantType
  <1>7. NamelessOK'
    BY <1>4, NamelessKept DEF Move
  <1> HIDE DEF p
  <1> QED
    BY <1>4, <1>5, <1>6, <1>7, MoveType

LEMMA WriteStepType ==
  ASSUME TypeOK, Wired, NEW t \in DOMAIN targets, Write(t)
  PROVE  TypeOK'
  <1>1. PICK e \in targets[t].entries, g \in config.groups :
            Assign(t, e, g) \/ AssignFails(t, e, g) \/ Remove(t, e, g) \/ RemoveFails(t, e, g)
    BY DEF Write
  <1>2. Reached(t, e, g) /\ UNCHANGED <<config, nameless, gauges>>
    BY <1>1 DEF Assign, AssignFails, Remove, RemoveFails, Move
  <1>3. granted \subseteq GrantType /\ gauges' \in [desired : Nat, actual : Nat]
    BY <1>2 DEF TypeOK, GrantType
  <1>4. granted' \subseteq GrantType
    BY <1>1, <1>2, <1>3, WriteType, RemovedType DEF Assign, AssignFails, Remove, RemoveFails
  <1>5. \/ Move(t, Without(t, e, g))
        \/ Move(t, Doubting(t, e, g))
        \/ Move(t, [Without(t, e, g) EXCEPT !.actual = @ \cup {g}])
        \/ Move(t, [Doubting(t, e, g) EXCEPT !.actual = @ \cup {g}])
    BY <1>1 DEF Assign, AssignFails, Remove, RemoveFails
  <1>6. \A p \in PassOf(targets[t]) : p.pc = "apply" /\ Move(t, p) => TypeOK'
    BY <1>2, <1>3, <1>4, MoveType, NamelessKept
  <1> QED
    BY <1>2, <1>5, <1>6, WriteType

LEMMA TypeInit == Init => TypeOK /\ Wired
  <1> SUFFICES ASSUME Init PROVE TypeOK /\ Wired
    OBVIOUS
  <1>1. DOMAIN targets = {} /\ DOMAIN pass = {}
    BY DEF Init, NoTargets, NoPass
  <1>2. granted \subseteq Principal \X Role \X config.groups
    BY DEF Init
  <1>3. gauges \in [desired : Nat, actual : Nat] /\ settled \in BOOLEAN
    BY DEF Init
  <1>4. nameless \in [DOMAIN Targets(config) -> SUBSET config.groups]
    BY DEF Init, NothingCached
  <1> QED
    BY <1>1, <1>2, <1>3, <1>4 DEF Init, TypeOK, Wired

LEMMA WiredStep == TypeOK /\ Wired /\ [Next]_vars => Wired'
  <1> SUFFICES ASSUME TypeOK, Wired, [Next]_vars PROVE Wired'
    OBVIOUS
  <1>1. CASE Startup
    BY <1>1 DEF Startup, Wired
  <1>2. CASE Cancel
    BY <1>2 DEF Cancel, Wired
  <1>3. CASE Exit
    BY <1>3 DEF Exit, Wired
  <1>4. CASE \E t \in DOMAIN targets : PassStep(t)
    <2>1. UNCHANGED <<config, phase>>
      BY <1>4, PassStepMoves
    <2> QED
      BY <2>1 DEF Wired
  <1>5. CASE UNCHANGED <<config, phase>>
    BY <1>5 DEF Wired
  <1> QED
    BY <1>1, <1>2, <1>3, <1>4, <1>5
       DEF Next, CrashLoop, WantChanges, OutsideChange, Settle, vars

(* What OutsideChange does to one assignment of a target. *)
Flips(t, p, g) ==
    LET a == <<p, targets[t].role, g>>
    IN  /\ granted' = IF a \in granted THEN granted \ {a} ELSE granted \cup {a}
        /\ pass' = [u \in DOMAIN pass |->
                       IF pass[u].pc = "apply" /\ p \in Principals(targets[u])
                       THEN [pass[u] EXCEPT !.doubted = @ \cup {<<p, g>>}]
                       ELSE pass[u]]

LEMMA OutsideChangeType ==
  ASSUME TypeOK, Wired, OutsideChange
  PROVE  TypeOK'
  <1>1. PICK t \in DOMAIN targets :
            \E p \in Principals(targets[t]), g \in config.groups : Flips(t, p, g)
    BY DEF OutsideChange, Flips
  <1>0. PICK p \in Principals(targets[t]), g \in config.groups : Flips(t, p, g)
    BY <1>1
  <1>2. UNCHANGED <<config, phase, targets, want, nameless, gauges, settled>>
    BY DEF OutsideChange
  <1>3. <<p, targets[t].role, g>> \in GrantType
    BY RunningTarget DEF GrantType
  <1>4. granted' \subseteq GrantType
    BY <1>0, <1>3 DEF Flips, TypeOK, GrantType
  <1>5. ASSUME NEW u \in DOMAIN targets
        PROVE  /\ pass'[u] \in PassOf(targets[u])
               /\ pass'[u].pc # "apply" => pass'[u].plan = {} /\ pass'[u].doubted = {}
    <2>1. pass[u] \in PassOf(targets[u])
          /\ (pass[u].pc # "apply" => pass[u].plan = {} /\ pass[u].doubted = {})
      BY DEF TypeOK
    <2>2. CASE pass[u].pc = "apply" /\ p \in Principals(targets[u])
      <3>1. pass'[u] = [pass[u] EXCEPT !.doubted = @ \cup {<<p, g>>}]
        BY <1>0, <2>2 DEF Flips, TypeOK
      <3>2. pass'[u] \in PassOf(targets[u]) /\ pass'[u].pc = "apply"
        BY <2>1, <2>2, <3>1 DEF PassOf
      <3> QED
        BY <3>2
    <2>3. CASE ~(pass[u].pc = "apply" /\ p \in Principals(targets[u]))
      <3>1. pass'[u] = pass[u]
        BY <1>0, <2>3 DEF Flips, TypeOK
      <3> QED
        BY <2>1, <3>1
    <2> QED
      BY <2>2, <2>3
  <1>6. \A x : PassOf(x)' = PassOf(x)
    BY <1>2 DEF PassOf, Owner, Principals
  <1>7. NoTargets' = NoTargets /\ Targets(config)' = Targets(config)
    BY <1>2 DEF NoTargets
  <1>8. DOMAIN pass' = DOMAIN targets'
    BY <1>0, <1>2 DEF Flips, TypeOK
  <1>9. \A u \in DOMAIN targets' :
               /\ pass'[u] \in PassOf(targets[u])'
               /\ pass'[u].pc # "apply" => pass'[u].plan = {} /\ pass'[u].doubted = {}
    BY <1>2, <1>5, <1>6
  <1> QED
    BY NamelessKept, <1>2, <1>4, <1>7, <1>8, <1>9 DEF TypeOK, GrantType, Owner, NamelessOK

LEMMA WantChangesType ==
  ASSUME TypeOK, Wired, WantChanges
  PROVE  TypeOK'
  <1>1. PICK o \in Owner, groups \in SUBSET config.groups :
            /\ want' = [want EXCEPT ![o] = groups]
            /\ pass' = [t \in DOMAIN pass |-> [pass[t] EXCEPT
                           !.kept = {k \in @ : k[1] = o => k[2] \in groups}]]
    BY DEF WantChanges
  <1>2. UNCHANGED <<config, phase, targets, granted, nameless, gauges, settled>>
    BY DEF WantChanges
  <1>3. want' \in [Owner -> SUBSET config.groups]
    BY <1>1 DEF TypeOK
  <1>4. ASSUME NEW u \in DOMAIN targets
        PROVE  /\ pass'[u] \in PassOf(targets[u])
               /\ pass'[u].pc # "apply" => pass'[u].plan = {} /\ pass'[u].doubted = {}
    <2>1. pass[u] \in PassOf(targets[u])
          /\ (pass[u].pc # "apply" => pass[u].plan = {} /\ pass[u].doubted = {})
      BY DEF TypeOK
    <2>2. pass'[u] = [pass[u] EXCEPT !.kept = {k \in @ : k[1] = o => k[2] \in groups}]
      BY <1>1 DEF TypeOK
    <2> QED
      BY <2>1, <2>2 DEF PassOf
  <1>5. \A x : PassOf(x)' = PassOf(x)
    BY <1>2 DEF PassOf, Owner, Principals
  <1>6. NoTargets' = NoTargets /\ Targets(config)' = Targets(config)
    BY <1>2 DEF NoTargets
  <1>7. DOMAIN pass' = DOMAIN targets'
    BY <1>1, <1>2 DEF TypeOK
  <1>8. \A u \in DOMAIN targets' :
               /\ pass'[u] \in PassOf(targets[u])'
               /\ pass'[u].pc # "apply" => pass'[u].plan = {} /\ pass'[u].doubted = {}
    BY <1>2, <1>4, <1>5
  <1> QED
    BY NamelessKept, <1>2, <1>3, <1>6, <1>7, <1>8 DEF TypeOK, Owner, NamelessOK

LEMMA TypeStep == TypeOK /\ Wired /\ [Next]_vars => TypeOK'
  <1> SUFFICES ASSUME TypeOK, Wired, [Next]_vars PROVE TypeOK'
    OBVIOUS
  <1>1. CASE Startup
    <2>1. targets' = Targets(config) /\ DOMAIN pass' = DOMAIN targets'
          /\ \A t \in DOMAIN targets' : pass'[t] = Idle
      BY <1>1 DEF Startup
    <2>2. Idle.pc = "idle" /\ Idle.plan = {} /\ Idle.doubted = {}
      BY DEF Idle
    <2>3. \A x : Idle \in PassOf(x)'
      BY DEF Idle, PassOf
    <2>4. \A t \in DOMAIN targets' :
              /\ pass'[t] \in PassOf(targets[t])'
              /\ pass'[t].pc # "apply" => pass'[t].plan = {} /\ pass'[t].doubted = {}
      BY <2>1, <2>2, <2>3
    <2>5. phase' = "running" /\ UNCHANGED <<config, want, granted, nameless, gauges, settled>>
      BY <1>1 DEF Startup
    <2>6. Targets(config)' = Targets(config)
      BY <2>5
    <2> QED
      BY NamelessKept, <2>1, <2>4, <2>5, <2>6 DEF TypeOK, Owner, NamelessOK
  <1>2. CASE Cancel
    <2>1. NoTargets' = NoTargets /\ \A x : PassOf(x)' = PassOf(x)
      BY <1>2 DEF Cancel, NoTargets, PassOf, Owner, Principals
    <2> QED
      BY NamelessKept, <1>2, <2>1 DEF Cancel, TypeOK, Owner, NamelessOK
  <1>3. CASE Exit
    <2>1. DOMAIN targets' = {} /\ DOMAIN pass' = {} /\ targets' = NoTargets'
      BY <1>3 DEF Exit, NoTargets, NoPass
    <2>2. gauges' \in [desired : Nat, actual : Nat]
      BY <1>3 DEF Exit
    <2>3. nameless' \in [DOMAIN Targets(config)' -> SUBSET config'.groups]
      BY <1>3 DEF Exit, NothingCached
    <2> QED
      BY <1>3, <2>1, <2>2, <2>3 DEF Exit, TypeOK, Owner
  <1>4. ASSUME NEW t \in DOMAIN targets, PassStep(t) PROVE TypeOK'
    <2>1. CASE BuildDesired(t)
      BY <2>1, BuildDesiredType
    <2>2. CASE ListManagedAssignments(t)
      BY <2>2, ListedType DEF ListManagedAssignments
    <2>3. CASE ListManagedAssignmentsFails(t) \/ Finish(t)
      <3>1. Move(t, Idle) /\ UNCHANGED <<config, granted, nameless>>
        BY <2>3 DEF ListManagedAssignmentsFails, Finish, Move
      <3>2. Idle \in PassOf(targets[t]) /\ Idle.plan = {} /\ Idle.doubted = {}
        BY IdleType DEF Idle
      <3>3. granted' \subseteq GrantType
        BY <3>1 DEF TypeOK, GrantType
      <3>4. gauges' \in [desired : Nat, actual : Nat]
        <4>1. CASE ListManagedAssignmentsFails(t)
          BY <4>1 DEF ListManagedAssignmentsFails, TypeOK
        <4>2. CASE Finish(t)
          <5>1. pass[t].actual \in SUBSET config.groups
            BY DEF TypeOK, PassOf
          <5>2. Cardinality(pass[t].actual) \in Nat
            BY <5>1, GaugeType DEF TypeOK
          <5> QED
            BY <4>2, <5>2 DEF Finish, TypeOK
        <4> QED
          BY <2>3, <4>1, <4>2
      <3> QED
        BY <3>1, <3>2, <3>3, <3>4, MoveType, NamelessKept
    <2>4. CASE Write(t)
      BY <2>4, WriteStepType
    <2> QED
      BY <1>4, <2>1, <2>2, <2>3, <2>4 DEF PassStep
  <1>5. CASE WantChanges
    BY <1>5, WantChangesType
  <1>6. CASE OutsideChange
    BY <1>6, OutsideChangeType
  <1>7. CASE Settle
    <2>1. NoTargets' = NoTargets /\ \A x : PassOf(x)' = PassOf(x)
      BY <1>7 DEF Settle, NoTargets, PassOf, Owner, Principals
    <2> QED
      BY NamelessKept, <1>7, <2>1 DEF Settle, TypeOK, Owner, NamelessOK
  <1>8. CASE UNCHANGED vars
    <2>1. NoTargets' = NoTargets /\ \A x : PassOf(x)' = PassOf(x)
      BY <1>8 DEF vars, NoTargets, PassOf, Owner, Principals
    <2> QED
      BY NamelessKept, <1>8, <2>1 DEF vars, TypeOK, Owner, NamelessOK
  <1> QED
    BY <1>1, <1>2, <1>3, <1>4, <1>5, <1>6, <1>7, <1>8 DEF Next, CrashLoop

(* RoleAssigner: every variable keeps its type.  A pass writes only to its  *)
(* target's principals and groups, and has a plan only once it has listed.  *)
THEOREM TypeCorrect == Spec => []TypeOK
  <1>1. TypeOK /\ Wired /\ [Next]_vars => (TypeOK /\ Wired)'
    BY TypeStep, WiredStep
  <1> QED
    BY TypeInit, <1>1, PTL DEF Spec

(* Whatever the environment variables say: while the process runs, each     *)
(* Argo CD instance is served by exactly one target, with the instance's    *)
(* principals and role.                                                    *)
THEOREM InstancesAreServed == Spec => []EveryInstanceServed
  <1>1. TypeOK => EveryInstanceServed
    <2> SUFFICES ASSUME TypeOK, phase # "down", NEW i \in ArgoCDInstances(config)
                 PROVE  \E t \in DOMAIN targets :
                            /\ i \in targets[t].owners
                            /\ targets[t].role = config.instances[i].role
                            /\ Principals(targets[t]) = {PrincipalOf[e] : e \in
                                   ParseServicePrincipals(config.instances[i].list)}
                            /\ \A u \in DOMAIN targets : i \in targets[u].owners => u = t
      BY DEF EveryInstanceServed
    <2>1. targets = Targets(config) /\ config \in Configs
      BY DEF TypeOK
    <2>2. \A t \in DOMAIN targets : targets[t] = Target(config, t)
      BY <2>1 DEF Targets
    <2>3. PICK t \in DOMAIN targets :
              /\ i \in targets[t].owners
              /\ targets[t].role = config.instances[i].role
              /\ targets[t].entries = ParseServicePrincipals(config.instances[i].list)
              /\ \A u \in DOMAIN targets : i \in targets[u].owners => u = t
      BY <2>1, <2>2, InstanceHasItsTarget
    <2>4. Principals(targets[t]) =
              {PrincipalOf[e] : e \in ParseServicePrincipals(config.instances[i].list)}
      BY <2>3 DEF Principals, ParseServicePrincipals
    <2> QED
      BY <2>3, <2>4
  <1> QED
    BY <1>1, TypeCorrect, PTL


-----------------------------------------------------------------------------
(* What holds of a pass while no two targets share a principal.            *)

(* Nobody grants other roles on the principals of a target. *)
RolesAreManaged ==
    \A a \in granted, t \in DOMAIN Targets(config) :
        a[1] \in Principals(Target(config, t)) => a[2] = Target(config, t).role

(* What the owners still want is desired, unless the pass was built on a    *)
(* cancelled context: such a pass ends at ListManagedAssignments.          *)
KeptIsDesired(p, ph) ==
    p.pc = "apply" \/ (p.pc = "list" /\ ph = "running") =>
        \A k \in p.kept : k[2] \in p.desired

(* Each pair of service principal and group is in doubt, still to be dealt  *)
(* with, or as desired.                                                    *)
WordHolds(target, p, G, groups) ==
    p.pc = "apply" =>
        /\ Empty \notin target.entries
        /\ \A e \in target.entries, g \in groups :
               \/ <<PrincipalOf[e], g>> \in p.doubted
               \/ <<e, g>> \in p.plan
               \/ (<<PrincipalOf[e], target.role, g>> \in G) = (g \in p.desired)

(* What the pass counts as assigned is assigned or in doubt, and the other  *)
(* way round as far as it has got.                                         *)
Counts(target, p, G, groups) ==
    p.pc = "apply" =>
        /\ \A e \in target.entries, g \in groups :
               <<PrincipalOf[e], target.role, g>> \in G =>
                   \/ <<PrincipalOf[e], g>> \in p.doubted
                   \/ <<e, g>> \in p.plan
                   \/ g \in p.actual
        /\ \A g \in p.actual :
               \/ \E d \in p.doubted : d[2] = g
               \/ /\ g \in p.desired
                  /\ \E e \in target.entries : <<PrincipalOf[e], target.role, g>> \in G

GaugeHolds(p, shown) == p.pc # "idle" => shown.desired = Cardinality(p.desired)

(* The inductive invariant, next to TypeOK and Wired. *)
Steady ==
    Apart(config) =>
        /\ RolesAreManaged
        /\ \A t \in DOMAIN targets :
               /\ KeptIsDesired(pass[t], phase)
               /\ WordHolds(targets[t], pass[t], granted, config.groups)
               /\ DOMAIN targets = {Kubernetes} =>
                      /\ Counts(targets[t], pass[t], granted, config.groups)
                      /\ GaugeHolds(pass[t], gauges)

LEMMA TargetsApart ==
  ASSUME TypeOK, Wired, Apart(config), NEW t \in DOMAIN targets, NEW u \in DOMAIN targets
  PROVE  /\ t # u => Principals(targets[t]) \cap Principals(targets[u]) = {}
         /\ Sharers(t) \subseteq targets[t].owners
  <1>1. \A x \in DOMAIN targets, y \in DOMAIN targets :
            x # y => Principals(targets[x]) \cap Principals(targets[y]) = {}
    BY RunningTarget DEF Apart
  <1>2. Sharers(t) \subseteq targets[t].owners
    BY <1>1 DEF Sharers
  <1> QED
    BY <1>1, <1>2

(* RemoveGroupFromServicePrincipal can only hit the assignment meant. *)
LEMMA RemovedIsMeant ==
  ASSUME TypeOK, Wired, RolesAreManaged, NEW t \in DOMAIN targets,
         NEW e \in Entry, NEW g, PrincipalOf[e] \in Principals(targets[t]),
         NEW S \in Removed(t, e, g)
  PROVE  S = granted \ {Assignment(t, e, g)}
  <1> DEFINE found == {a \in granted : a[1] = PrincipalOf[e] /\ a[3] = g}
  <1>1. \A a \in found : a = Assignment(t, e, g)
    <2> SUFFICES ASSUME NEW a \in found PROVE a = Assignment(t, e, g)
      OBVIOUS
    <2>1. a = <<a[1], a[2], a[3]>>
      BY DEF TypeOK
    <2>2. a[2] = targets[t].role
      BY RunningTarget DEF RolesAreManaged
    <2> QED
      BY <2>1, <2>2 DEF Assignment
  <1>2. Assignment(t, e, g) \in granted => Assignment(t, e, g) \in found
    BY DEF Assignment
  <1>3. (S = granted /\ found = {}) \/ \E a \in found : S = granted \ {a}
    BY DEF Removed
  <1> QED
    BY <1>1, <1>2, <1>3

(* What a write does, for every outcome. *)
Wrote(t, e, g) ==
    LET p == pass[t]
        q == pass'[t]
        pair == <<PrincipalOf[e], g>>
        a == Assignment(t, e, g)
    IN  /\ p.pc = "apply" /\ q.pc = "apply"
        /\ q.desired = p.desired /\ q.kept = p.kept
        /\ q.plan = p.plan \ {<<e, g>>}
        /\ granted' \subseteq granted \cup {a} /\ granted \ {a} \subseteq granted'
        /\ p.doubted \subseteq q.doubted
        /\ p.actual \subseteq q.actual /\ q.actual \subseteq p.actual \cup {g}
        /\ \/ pair \in q.doubted
           \/ g \in p.desired /\ a \in granted' /\ g \in q.actual
           \/ g \notin p.desired /\ a \notin granted' /\ q.actual = p.actual

LEMMA WriteEffect ==
  ASSUME TypeOK, Wired, RolesAreManaged, NEW t \in DOMAIN targets, Write(t)
  PROVE  \E e \in targets[t].entries, g \in config.groups :
             /\ Wrote(t, e, g)
             /\ PrincipalOf[e] \in Principals(targets[t])
             /\ \A u \in DOMAIN targets : u # t => pass'[u] = pass[u]
             /\ UNCHANGED gauges
  <1>1. PICK e \in targets[t].entries, g \in config.groups :
            Assign(t, e, g) \/ AssignFails(t, e, g) \/ Remove(t, e, g) \/ RemoveFails(t, e, g)
    BY DEF Write
  <1>2. Reached(t, e, g) /\ UNCHANGED gauges
    BY <1>1 DEF Assign, AssignFails, Remove, RemoveFails
  <1>3. e \in Entry /\ PrincipalOf[e] \in Principals(targets[t])
    BY <1>2, WriteType
  <1>4. pass[t] \in PassOf(targets[t]) /\ pass[t].pc = "apply"
    BY <1>2 DEF TypeOK, Reached
  <1>5. ASSUME NEW S \in Removed(t, e, g) PROVE S = granted \ {Assignment(t, e, g)}
    BY <1>3, RemovedIsMeant
  <1>6. \A p : Move(t, p) => pass'[t] = p /\ \A u \in DOMAIN targets : u # t => pass'[u] = pass[u]
    BY MoveEffect DEF TypeOK
  <1>7. CASE Assign(t, e, g)
    <2>1. pass'[t] = [Without(t, e, g) EXCEPT !.actual = @ \cup {g}]
          /\ \A u \in DOMAIN targets : u # t => pass'[u] = pass[u]
      BY <1>6, <1>7 DEF Assign
    <2>2. Wrote(t, e, g)
      BY <1>4, <1>7, <2>1 DEF Assign, Wrote, Without, PassOf
    <2> QED
      BY <1>2, <1>3, <2>1, <2>2
  <1>8. CASE AssignFails(t, e, g)
    <2>1. pass'[t] = Doubting(t, e, g)
          /\ \A u \in DOMAIN targets : u # t => pass'[u] = pass[u]
      BY <1>6, <1>8 DEF AssignFails
    <2>2. Wrote(t, e, g)
      BY <1>4, <1>8, <2>1 DEF AssignFails, Wrote, Without, Doubting, PassOf
    <2> QED
      BY <1>2, <1>3, <2>1, <2>2
  <1>9. CASE Remove(t, e, g)
    <2>1. pass'[t] = Without(t, e, g)
          /\ \A u \in DOMAIN targets : u # t => pass'[u] = pass[u]
      BY <1>6, <1>9 DEF Remove
    <2>2. granted' = granted \ {Assignment(t, e, g)} /\ g \notin pass[t].desired
      BY <1>5, <1>9 DEF Remove
    <2>3. Wrote(t, e, g)
      BY <1>4, <2>1, <2>2 DEF Wrote, Without, PassOf
    <2> QED
      BY <1>2, <1>3, <2>1, <2>3
  <1>10. CASE RemoveFails(t, e, g)
    <2>1. pass'[t] = [Doubting(t, e, g) EXCEPT !.actual = @ \cup {g}]
          /\ \A u \in DOMAIN targets : u # t => pass'[u] = pass[u]
      BY <1>6, <1>10 DEF RemoveFails
    <2>2. granted' \in {granted, granted \ {Assignment(t, e, g)}}
      BY <1>5, <1>10 DEF RemoveFails
    <2>3. Wrote(t, e, g)
      BY <1>4, <2>1, <2>2 DEF Wrote, Without, Doubting, PassOf
    <2> QED
      BY <1>2, <1>3, <2>1, <2>3
  <1> QED
    BY <1>1, <1>7, <1>8, <1>9, <1>10

LEMMA IdleHolds ==
  ASSUME NEW target, NEW ph, NEW G, NEW groups, NEW shown
  PROVE  /\ KeptIsDesired(Idle, ph) /\ WordHolds(target, Idle, G, groups)
         /\ Counts(target, Idle, G, groups) /\ GaugeHolds(Idle, shown)
  BY DEF Idle, KeptIsDesired, WordHolds, Counts, GaugeHolds

(* Steady' of a step that leaves the targets alone. *)
LEMMA SteadyAgain ==
  ASSUME UNCHANGED <<config, targets>>,
         Apart(config) => RolesAreManaged',
         ASSUME Apart(config), NEW u \in DOMAIN targets
         PROVE  /\ KeptIsDesired(pass'[u], phase')
                /\ WordHolds(targets[u], pass'[u], granted', config.groups)
                /\ DOMAIN targets = {Kubernetes} =>
                       /\ Counts(targets[u], pass'[u], granted', config.groups)
                       /\ GaugeHolds(pass'[u], gauges')
  PROVE  Steady'
  <1> SUFFICES ASSUME Apart(config)'
               PROVE  /\ RolesAreManaged'
                      /\ \A u \in DOMAIN targets' :
                             /\ KeptIsDesired(pass[u], phase)'
                             /\ WordHolds(targets[u], pass[u], granted, config.groups)'
                             /\ DOMAIN targets' = {Kubernetes} =>
                                    /\ Counts(targets[u], pass[u], granted, config.groups)'
                                    /\ GaugeHolds(pass[u], gauges)'
    BY DEF Steady
  <1>1. Apart(config)
    BY DEF Apart, Principals
  <1>2. ASSUME NEW u \in DOMAIN targets'
        PROVE  /\ KeptIsDesired(pass[u], phase)'
               /\ WordHolds(targets[u], pass[u], granted, config.groups)'
               /\ DOMAIN targets' = {Kubernetes} =>
                      /\ Counts(targets[u], pass[u], granted, config.groups)'
                      /\ GaugeHolds(pass[u], gauges)'
    <2>1. u \in DOMAIN targets
      OBVIOUS
    <2>2. /\ KeptIsDesired(pass'[u], phase')
          /\ WordHolds(targets[u], pass'[u], granted', config.groups)
          /\ DOMAIN targets = {Kubernetes} =>
                 /\ Counts(targets[u], pass'[u], granted', config.groups)
                 /\ GaugeHolds(pass'[u], gauges')
      BY <1>1, <2>1
    <2> QED
      BY <2>2 DEF KeptIsDesired, WordHolds, Counts, GaugeHolds
  <1> QED
    BY <1>1, <1>2

(* Granting or revoking what a target manages introduces no other role. *)
LEMMA RolesStayManaged ==
  ASSUME TypeOK, Wired, Apart(config), RolesAreManaged, UNCHANGED config,
         NEW t \in DOMAIN targets, NEW p \in Principals(targets[t]), NEW g,
         granted' \subseteq granted \cup {<<p, targets[t].role, g>>}
  PROVE  RolesAreManaged'
  <1> SUFFICES ASSUME NEW a \in granted', NEW u \in DOMAIN Targets(config),
                      a[1] \in Principals(Target(config, u))
               PROVE  a[2] = Target(config, u).role
    BY DEF RolesAreManaged, Principals
  <1>1. CASE a \in granted
    BY <1>1 DEF RolesAreManaged
  <1>2. CASE a = <<p, targets[t].role, g>>
    <2>1. targets = Targets(config) /\ targets[t] = Target(config, t)
          /\ targets[u] = Target(config, u)
      BY RunningTarget
    <2>2. p \in Principals(targets[u]) /\ a[2] = targets[t].role
      BY <1>2, <2>1
    <2>3. t = u
      BY <2>1, <2>2, TargetsApart
    <2> QED
      BY <2>1, <2>2, <2>3
  <1> QED
    BY <1>1, <1>2

(* A target whose principals are left alone. *)
LEMMA OthersHold ==
  ASSUME TypeOK, Wired, Apart(config), NEW t \in DOMAIN targets, NEW u \in DOMAIN targets,
         u # t, NEW p \in Principals(targets[t]), NEW r, NEW g,
         granted' \subseteq granted \cup {<<p, r, g>>},
         granted \ {<<p, r, g>>} \subseteq granted',
         WordHolds(targets[u], pass[u], granted, config.groups)
  PROVE  /\ WordHolds(targets[u], pass[u], granted', config.groups)
         /\ DOMAIN targets # {Kubernetes}
  <1>1. p \notin Principals(targets[u])
    BY TargetsApart
  <1>2. \A e \in targets[u].entries : e # Empty => PrincipalOf[e] # p
    BY <1>1 DEF Principals
  <1>3. \A e \in targets[u].entries : \A h : e # Empty =>
            (<<PrincipalOf[e], targets[u].role, h>> \in granted'
             <=> <<PrincipalOf[e], targets[u].role, h>> \in granted)
    BY <1>2
  <1> QED
    BY <1>3 DEF WordHolds

LEMMA WriteSteady ==
  ASSUME TypeOK, Wired, Steady, NEW t \in DOMAIN targets, Write(t)
  PROVE  Steady'
  <1>1. UNCHANGED <<config, phase, targets, want, settled>>
    BY PassStepMoves DEF PassStep
  <1>2. ASSUME Apart(config)
        PROVE  /\ RolesAreManaged'
               /\ \A u \in DOMAIN targets :
                      /\ KeptIsDesired(pass'[u], phase')
                      /\ WordHolds(targets[u], pass'[u], granted', config.groups)
                      /\ DOMAIN targets = {Kubernetes} =>
                             /\ Counts(targets[u], pass'[u], granted', config.groups)
                             /\ GaugeHolds(pass'[u], gauges')
    <2>1. /\ RolesAreManaged
          /\ KeptIsDesired(pass[t], phase)
          /\ WordHolds(targets[t], pass[t], granted, config.groups)
          /\ DOMAIN targets = {Kubernetes} =>
                 /\ Counts(targets[t], pass[t], granted, config.groups)
                 /\ GaugeHolds(pass[t], gauges)
      BY <1>2 DEF Steady
    <2>2. PICK e \in targets[t].entries : \E g \in config.groups :
              /\ Wrote(t, e, g)
              /\ PrincipalOf[e] \in Principals(targets[t])
              /\ \A u \in DOMAIN targets : u # t => pass'[u] = pass[u]
              /\ UNCHANGED gauges
      BY <2>1, WriteEffect
    <2>3. PICK g \in config.groups :
              /\ Wrote(t, e, g)
              /\ PrincipalOf[e] \in Principals(targets[t])
              /\ \A u \in DOMAIN targets : u # t => pass'[u] = pass[u]
              /\ UNCHANGED gauges
      BY <2>2
    <2>4. /\ granted' \subseteq granted \cup {<<PrincipalOf[e], targets[t].role, g>>}
          /\ granted \ {<<PrincipalOf[e], targets[t].role, g>>} \subseteq granted'
      BY <2>3 DEF Wrote, Assignment
    <2>5. RolesAreManaged'
      BY <1>1, <1>2, <2>1, <2>3, <2>4, RolesStayManaged
    <2>6. KeptIsDesired(pass'[t], phase')
      BY <2>1, <2>3 DEF KeptIsDesired, Wrote
    <2>7. WordHolds(targets[t], pass'[t], granted', config.groups)
      BY <2>1, <2>3 DEF WordHolds, Wrote, Assignment
    <2>8. ASSUME DOMAIN targets = {Kubernetes}
          PROVE  Counts(targets[t], pass'[t], granted', config.groups)
                 /\ GaugeHolds(pass'[t], gauges')
      <3>1. GaugeHolds(pass'[t], gauges')
        BY <2>1, <2>3, <2>8 DEF GaugeHolds, Wrote
      <3>2. ASSUME NEW f \in targets[t].entries, NEW h \in config.groups,
                   <<PrincipalOf[f], targets[t].role, h>> \in granted'
            PROVE  \/ <<PrincipalOf[f], h>> \in pass'[t].doubted
                   \/ <<f, h>> \in pass'[t].plan
                   \/ h \in pass'[t].actual
        BY <2>1, <2>3, <2>8, <3>2 DEF Counts, Wrote, Assignment
      <3>3. ASSUME NEW h \in pass'[t].actual
            PROVE  \/ \E d \in pass'[t].doubted : d[2] = h
                   \/ /\ h \in pass'[t].desired
                      /\ \E f \in targets[t].entries :
                             <<PrincipalOf[f], targets[t].role, h>> \in granted'
        <4>1. CASE h \in pass[t].actual
          <5>1. CASE h = g
            BY <2>1, <2>3, <2>8, <4>1, <5>1 DEF Counts, Wrote, Assignment
          <5>2. CASE h # g
            BY <2>1, <2>3, <2>4, <2>8, <4>1, <5>2 DEF Counts, Wrote
          <5> QED
            BY <5>1, <5>2
        <4>2. CASE h \notin pass[t].actual
          BY <2>3, <3>3, <4>2 DEF Wrote, Assignment
        <4> QED
          BY <4>1, <4>2
      <3> QED
        BY <3>1, <3>2, <3>3 DEF Counts
    <2>9. ASSUME NEW u \in DOMAIN targets, u # t
          PROVE  /\ KeptIsDesired(pass'[u], phase')
                 /\ WordHolds(targets[u], pass'[u], granted', config.groups)
                 /\ DOMAIN targets # {Kubernetes}
      <3>1. KeptIsDesired(pass[u], phase)
            /\ WordHolds(targets[u], pass[u], granted, config.groups)
        BY <1>2 DEF Steady
      <3>2. WordHolds(targets[u], pass[u], granted', config.groups)
            /\ DOMAIN targets # {Kubernetes}
        BY <1>2, <2>3, <2>4, <2>9, <3>1, OthersHold
      <3> QED
        BY <1>1, <2>3, <2>9, <3>1, <3>2
    <2> QED
      BY <2>5, <2>6, <2>7, <2>8, <2>9
  <1> QED
    BY <1>1, <1>2, SteadyAgain

(* A step that moves one pass and leaves the assignments alone. *)
LEMMA MoveSteady ==
  ASSUME TypeOK, Wired, Steady, NEW t \in DOMAIN targets, NEW p, Move(t, p),
         UNCHANGED granted,
         ASSUME Apart(config)
         PROVE  /\ KeptIsDesired(p, phase)
                /\ WordHolds(targets[t], p, granted, config.groups)
                /\ DOMAIN targets = {Kubernetes} =>
                       /\ Counts(targets[t], p, granted, config.groups)
                       /\ GaugeHolds(p, gauges')
  PROVE  Steady'
  <1>1. /\ UNCHANGED <<config, phase, targets, want, settled>>
        /\ pass'[t] = p
        /\ \A u \in DOMAIN targets : u # t => pass'[u] = pass[u]
    BY MoveEffect DEF TypeOK
  <1>2. ASSUME Apart(config) PROVE RolesAreManaged'
    BY <1>1, <1>2 DEF Steady, RolesAreManaged, Principals
  <1>3. ASSUME Apart(config), NEW u \in DOMAIN targets
        PROVE  /\ KeptIsDesired(pass'[u], phase')
               /\ WordHolds(targets[u], pass'[u], granted', config.groups)
               /\ DOMAIN targets = {Kubernetes} =>
                      /\ Counts(targets[u], pass'[u], granted', config.groups)
                      /\ GaugeHolds(pass'[u], gauges')
    <2>1. CASE u = t
      BY <1>1, <1>3, <2>1
    <2>2. CASE u # t
      <3>1. pass'[u] = pass[u] /\ DOMAIN targets # {Kubernetes}
        BY <1>1, <2>2
      <3> QED
        BY <1>1, <1>3, <3>1 DEF Steady
    <2> QED
      BY <2>1, <2>2
  <1> QED
    BY <1>1, <1>2, <1>3, SteadyAgain

LEMMA BuildDesiredSteady ==
  ASSUME TypeOK, Wired, Steady, NEW t \in DOMAIN targets, BuildDesired(t)
  PROVE  Steady'
  <1>1. PICK missed \in SUBSET Wanted(targets[t]) :
            LET desired == Wanted(targets[t]) \ missed
                excused == IF phase = "running" THEN missed ELSE {}
            IN  /\ Move(t, [Idle EXCEPT !.pc = "list", !.desired = desired,
                                !.kept = UNION {{<<o, g>> : g \in want[o] \ excused} :
                                                o \in Sharers(t)}])
                /\ gauges' = [gauges EXCEPT !.desired = Cardinality(desired)]
                /\ UNCHANGED granted
    BY Zenon DEF BuildDesired
  <1> DEFINE excused == IF phase = "running" THEN missed ELSE {}
             desired == Wanted(targets[t]) \ missed
             kept == UNION {{<<o, g>> : g \in want[o] \ excused} : o \in Sharers(t)}
             p == [Idle EXCEPT !.pc = "list", !.desired = desired, !.kept = kept]
  <1>2. Move(t, p) /\ gauges' = [gauges EXCEPT !.desired = Cardinality(desired)]
        /\ UNCHANGED granted
    BY <1>1
  <1>3. ASSUME Apart(config), phase = "running", NEW k \in kept PROVE k[2] \in desired
    <2>1. PICK o \in Sharers(t) : k[2] \in want[o] \ missed
      BY <1>3
    <2>2. o \in targets[t].owners
      BY <1>3, TargetsApart
    <2> QED
      BY <2>1, <2>2 DEF Wanted
  <1>4. gauges'.desired = Cardinality(desired)
    BY <1>2 DEF TypeOK
  <1> HIDE DEF desired, kept
  <1>5. p.pc = "list" /\ p.desired = desired /\ p.kept = kept
    BY DEF Idle
  <1> HIDE DEF p
  <1>6. ASSUME Apart(config)
        PROVE  /\ KeptIsDesired(p, phase)
               /\ WordHolds(targets[t], p, granted, config.groups)
               /\ Counts(targets[t], p, granted, config.groups)
               /\ GaugeHolds(p, gauges')
    BY <1>3, <1>4, <1>5, <1>6 DEF KeptIsDesired, WordHolds, Counts, GaugeHolds
  <1> QED
    BY <1>2, <1>6, MoveSteady

LEMMA ListSteady ==
  ASSUME TypeOK, Wired, Steady, NEW t \in DOMAIN targets, ListManagedAssignments(t)
  PROVE  Steady'
  <1> DEFINE plan == {d \in targets[t].entries \X config.groups :
                         (d[2] \in pass[t].desired) # (d[2] \in Shown(t, d[1]))}
             actual == pass[t].desired \cap UNION {Shown(t, e) : e \in targets[t].entries}
             p == [pass[t] EXCEPT !.pc = "apply", !.plan = plan, !.actual = actual]
  <1>1. Move(t, p) /\ UNCHANGED <<granted, gauges>> /\ pass[t].pc = "list"
        /\ phase = "running" /\ Empty \notin targets[t].entries
    BY DEF ListManagedAssignments, Listed
  <1>2. pass[t] \in PassOf(targets[t])
    BY DEF TypeOK
  <1>3. \A e \in targets[t].entries, g \in config.groups :
            (g \in Shown(t, e)) = (<<PrincipalOf[e], targets[t].role, g>> \in granted)
    BY DEF Shown
  <1>4. ASSUME NEW e \in targets[t].entries, NEW g \in config.groups, <<e, g>> \notin plan
        PROVE  (<<PrincipalOf[e], targets[t].role, g>> \in granted) = (g \in pass[t].desired)
    <2>1. (g \in pass[t].desired) \in BOOLEAN /\ (g \in Shown(t, e)) \in BOOLEAN
      OBVIOUS
    <2>2. (g \in pass[t].desired) = (g \in Shown(t, e))
      BY <1>4, <2>1
    <2> QED
      BY <1>3, <2>2
  <1>5. ASSUME NEW e \in targets[t].entries, NEW g \in config.groups, <<e, g>> \notin plan,
               <<PrincipalOf[e], targets[t].role, g>> \in granted
        PROVE  g \in actual
    BY <1>3, <1>4, <1>5
  <1>6. ASSUME NEW g \in actual
        PROVE  g \in pass[t].desired /\ \E e \in targets[t].entries :
                   <<PrincipalOf[e], targets[t].role, g>> \in granted
    BY <1>6 DEF Shown
  <1> HIDE DEF plan, actual
  <1>7. /\ p.pc = "apply" /\ p.desired = pass[t].desired /\ p.kept = pass[t].kept
        /\ p.plan = plan /\ p.actual = actual
    BY <1>2 DEF PassOf
  <1> HIDE DEF p
  <1>8. ASSUME Apart(config)
        PROVE  /\ KeptIsDesired(p, phase)
               /\ WordHolds(targets[t], p, granted, config.groups)
               /\ DOMAIN targets = {Kubernetes} =>
                      /\ Counts(targets[t], p, granted, config.groups)
                      /\ GaugeHolds(p, gauges')
    <2>1. KeptIsDesired(p, phase)
      BY <1>1, <1>7, <1>8 DEF Steady, KeptIsDesired
    <2>2. WordHolds(targets[t], p, granted, config.groups)
      BY <1>1, <1>4, <1>7 DEF WordHolds
    <2>3. Counts(targets[t], p, granted, config.groups)
      BY <1>5, <1>6, <1>7 DEF Counts
    <2>4. DOMAIN targets = {Kubernetes} => GaugeHolds(p, gauges')
      BY <1>1, <1>7, <1>8 DEF Steady, GaugeHolds
    <2> QED
      BY <2>1, <2>2, <2>3, <2>4
  <1> QED
    BY <1>1, <1>8, MoveSteady

LEMMA OutsideChangeSteady ==
  ASSUME TypeOK, Wired, Steady, OutsideChange
  PROVE  Steady'
  <1>1. PICK t \in DOMAIN targets :
            \E p \in Principals(targets[t]), g \in config.groups : Flips(t, p, g)
    BY DEF OutsideChange, Flips
  <1>2. PICK p \in Principals(targets[t]), g \in config.groups : Flips(t, p, g)
    BY <1>1
  <1>3. UNCHANGED <<config, phase, targets, want, gauges, settled>>
    BY DEF OutsideChange
  <1>4. /\ granted' \subseteq granted \cup {<<p, targets[t].role, g>>}
        /\ granted \ {<<p, targets[t].role, g>>} \subseteq granted'
    BY <1>2 DEF Flips
  <1>5. ASSUME Apart(config) PROVE RolesAreManaged'
    BY <1>3, <1>4, <1>5, RolesStayManaged DEF Steady
  <1>6. ASSUME Apart(config), NEW u \in DOMAIN targets
        PROVE  /\ KeptIsDesired(pass'[u], phase')
               /\ WordHolds(targets[u], pass'[u], granted', config.groups)
               /\ DOMAIN targets = {Kubernetes} =>
                      /\ Counts(targets[u], pass'[u], granted', config.groups)
                      /\ GaugeHolds(pass'[u], gauges')
    <2>1. /\ KeptIsDesired(pass[u], phase)
          /\ WordHolds(targets[u], pass[u], granted, config.groups)
          /\ DOMAIN targets = {Kubernetes} =>
                 /\ Counts(targets[u], pass[u], granted, config.groups)
                 /\ GaugeHolds(pass[u], gauges)
      BY <1>6 DEF Steady
    <2>2. pass[u] \in PassOf(targets[u]) /\ u \in DOMAIN pass
      BY DEF TypeOK
    <2>3. CASE u # t
      <3>1. p \notin Principals(targets[u])
        BY <1>6, <2>3, TargetsApart
      <3>2. pass'[u] = pass[u]
        BY <1>2, <2>2, <3>1 DEF Flips
      <3>3. WordHolds(targets[u], pass[u], granted', config.groups)
            /\ DOMAIN targets # {Kubernetes}
        BY <1>4, <1>6, <2>1, <2>3, OthersHold
      <3> QED
        BY <1>3, <2>1, <3>2, <3>3
    <2>4. CASE u = t /\ pass[u].pc = "apply"
      <3>1. pass'[u] = [pass[u] EXCEPT !.doubted = @ \cup {<<p, g>>}]
        BY <1>2, <2>2, <2>4 DEF Flips
      <3>2. /\ pass'[u].pc = pass[u].pc /\ pass'[u].desired = pass[u].desired
            /\ pass'[u].plan = pass[u].plan /\ pass'[u].actual = pass[u].actual
            /\ pass'[u].kept = pass[u].kept
            /\ pass'[u].doubted = pass[u].doubted \cup {<<p, g>>}
        BY <2>2, <3>1 DEF PassOf
      <3>3. KeptIsDesired(pass'[u], phase')
        BY <1>3, <2>1, <3>2 DEF KeptIsDesired
      <3>4. WordHolds(targets[u], pass'[u], granted', config.groups)
        BY <1>4, <2>1, <2>4, <3>2 DEF WordHolds
      <3>5. DOMAIN targets = {Kubernetes} => Counts(targets[u], pass'[u], granted', config.groups)
        <4> SUFFICES ASSUME DOMAIN targets = {Kubernetes}
                     PROVE  Counts(targets[u], pass'[u], granted', config.groups)
          OBVIOUS
        <4>1. ASSUME NEW f \in targets[u].entries, NEW h \in config.groups,
                     <<PrincipalOf[f], targets[u].role, h>> \in granted'
              PROVE  \/ <<PrincipalOf[f], h>> \in pass'[u].doubted
                     \/ <<f, h>> \in pass'[u].plan
                     \/ h \in pass'[u].actual
          BY <1>4, <2>1, <2>4, <3>2, <4>1 DEF Counts
        <4>2. ASSUME NEW h \in pass'[u].actual
              PROVE  \/ \E d \in pass'[u].doubted : d[2] = h
                     \/ /\ h \in pass'[u].desired
                        /\ \E f \in targets[u].entries :
                               <<PrincipalOf[f], targets[u].role, h>> \in granted'
          <5>1. CASE h = g
            <6>1. <<p, g>> \in pass'[u].doubted /\ <<p, g>>[2] = h
              BY <3>2, <5>1
            <6> QED
              BY <6>1
          <5>2. CASE h # g
            <6>1. \/ \E d \in pass[u].doubted : d[2] = h
                  \/ /\ h \in pass[u].desired
                     /\ \E f \in targets[u].entries :
                            <<PrincipalOf[f], targets[u].role, h>> \in granted
              BY <2>1, <2>4, <3>2, <4>2 DEF Counts
            <6>2. \A x, y : <<x, y, h>> \in granted => <<x, y, h>> \in granted'
              BY <1>4, <5>2
            <6> QED
              BY <3>2, <6>1, <6>2
          <5> QED
            BY <5>1, <5>2
        <4> QED
          BY <4>1, <4>2 DEF Counts
      <3>6. DOMAIN targets = {Kubernetes} => GaugeHolds(pass'[u], gauges')
        BY <1>3, <2>1, <3>2 DEF GaugeHolds
      <3> QED
        BY <3>3, <3>4, <3>5, <3>6
    <2>5. CASE pass[u].pc # "apply"
      <3>1. pass'[u] = pass[u]
        BY <1>2, <2>2, <2>5 DEF Flips
      <3> QED
        BY <1>3, <2>1, <2>5, <3>1 DEF WordHolds, Counts
    <2> QED
      BY <2>3, <2>4, <2>5
  <1> QED
    BY <1>3, <1>5, <1>6, SteadyAgain

LEMMA WantChangesSteady ==
  ASSUME TypeOK, Wired, Steady, WantChanges
  PROVE  Steady'
  <1>1. PICK o \in Owner, groups \in SUBSET config.groups :
            /\ want' = [want EXCEPT ![o] = groups]
            /\ pass' = [t \in DOMAIN pass |-> [pass[t] EXCEPT
                           !.kept = {k \in @ : k[1] = o => k[2] \in groups}]]
    BY DEF WantChanges
  <1>2. UNCHANGED <<config, phase, targets, granted, gauges, settled>>
    BY DEF WantChanges
  <1>3. ASSUME Apart(config) PROVE RolesAreManaged'
    BY <1>2, <1>3 DEF Steady, RolesAreManaged, Principals
  <1>4. ASSUME Apart(config), NEW u \in DOMAIN targets
        PROVE  /\ KeptIsDesired(pass'[u], phase')
               /\ WordHolds(targets[u], pass'[u], granted', config.groups)
               /\ DOMAIN targets = {Kubernetes} =>
                      /\ Counts(targets[u], pass'[u], granted', config.groups)
                      /\ GaugeHolds(pass'[u], gauges')
    <2>1. /\ KeptIsDesired(pass[u], phase)
          /\ WordHolds(targets[u], pass[u], granted, config.groups)
          /\ DOMAIN targets = {Kubernetes} =>
                 /\ Counts(targets[u], pass[u], granted, config.groups)
                 /\ GaugeHolds(pass[u], gauges)
      BY <1>4 DEF Steady
    <2>2. pass[u] \in PassOf(targets[u]) /\ u \in DOMAIN pass
      BY DEF TypeOK
    <2>3. pass'[u] = [pass[u] EXCEPT !.kept = {k \in @ : k[1] = o => k[2] \in groups}]
      BY <1>1, <2>2
    <2>4. /\ pass'[u].pc = pass[u].pc /\ pass'[u].desired = pass[u].desired
          /\ pass'[u].plan = pass[u].plan /\ pass'[u].actual = pass[u].actual
          /\ pass'[u].doubted = pass[u].doubted
          /\ pass'[u].kept \subseteq pass[u].kept
      BY <2>2, <2>3 DEF PassOf
    <2> QED
      BY <1>2, <2>1, <2>4 DEF KeptIsDesired, WordHolds, Counts, GaugeHolds
  <1> QED
    BY <1>2, <1>3, <1>4, SteadyAgain

LEMMA SameRoles ==
  ASSUME UNCHANGED <<config, granted>>
  PROVE  Apart(config)' = Apart(config) /\ RolesAreManaged' = RolesAreManaged
  <1>1. Targets(config)' = Targets(config) /\ \A t : Target(config, t)' = Target(config, t)
    OBVIOUS
  <1>2. Apart(config)' = Apart(config)
    BY <1>1 DEF Apart, Principals
  <1>3. RolesAreManaged' = RolesAreManaged
    BY <1>1 DEF RolesAreManaged, Principals
  <1> QED
    BY <1>2, <1>3

LEMMA SteadyStep == TypeOK /\ Wired /\ Steady /\ [Next]_vars => Steady'
  <1> SUFFICES ASSUME TypeOK, Wired, Steady, [Next]_vars PROVE Steady'
    OBVIOUS
  <1>1. CASE Startup
    <2>1. /\ UNCHANGED <<config, granted>>
          /\ \A t \in DOMAIN targets' : pass'[t] = Idle
      BY <1>1 DEF Startup
    <2>2. Apart(config)' => Apart(config) /\ RolesAreManaged'
      BY <2>1, SameRoles DEF Steady
    <2>3. \A t \in DOMAIN targets' :
              /\ KeptIsDesired(pass[t], phase)'
              /\ WordHolds(targets[t], pass[t], granted, config.groups)'
              /\ Counts(targets[t], pass[t], granted, config.groups)'
              /\ GaugeHolds(pass[t], gauges)'
      BY <2>1 DEF Idle, KeptIsDesired, WordHolds, Counts, GaugeHolds
    <2> QED
      BY <2>2, <2>3 DEF Steady
  <1>2. CASE Exit
    <2>1. UNCHANGED <<config, granted>> /\ DOMAIN targets' = {}
      BY <1>2 DEF Exit, NoTargets
    <2>2. Apart(config)' => Apart(config) /\ RolesAreManaged'
      BY <2>1, SameRoles DEF Steady
    <2> QED
      BY <2>1, <2>2 DEF Steady
  <1>3. ASSUME NEW t \in DOMAIN targets, PassStep(t) PROVE Steady'
    <2>1. CASE BuildDesired(t)
      BY <2>1, BuildDesiredSteady
    <2>2. CASE ListManagedAssignments(t)
      BY <2>2, ListSteady
    <2>3. CASE ListManagedAssignmentsFails(t) \/ Finish(t)
      <3>1. Move(t, Idle) /\ UNCHANGED granted
        BY <2>3 DEF ListManagedAssignmentsFails, Finish
      <3> QED
        BY <3>1, IdleHolds, MoveSteady
    <2>4. CASE Write(t)
      BY <2>4, WriteSteady
    <2> QED
      BY <1>3, <2>1, <2>2, <2>3, <2>4 DEF PassStep
  <1>4. CASE WantChanges
    BY <1>4, WantChangesSteady
  <1>5. CASE OutsideChange
    BY <1>5, OutsideChangeSteady
  <1>6. CASE Cancel \/ Settle \/ UNCHANGED vars
    <2>1. /\ UNCHANGED <<config, targets, granted, pass, gauges>>
          /\ phase' = "running" => phase = "running"
      BY <1>6 DEF Cancel, Settle, vars
    <2>2. ASSUME Apart(config) PROVE RolesAreManaged'
      BY <2>1, <2>2 DEF Steady, RolesAreManaged, Principals
    <2>3. ASSUME Apart(config), NEW u \in DOMAIN targets
          PROVE  /\ KeptIsDesired(pass'[u], phase')
                 /\ WordHolds(targets[u], pass'[u], granted', config.groups)
                 /\ DOMAIN targets = {Kubernetes} =>
                        /\ Counts(targets[u], pass'[u], granted', config.groups)
                        /\ GaugeHolds(pass'[u], gauges')
      <3>1. KeptIsDesired(pass'[u], phase')
        BY <2>1, <2>3 DEF Steady, KeptIsDesired
      <3> QED
        BY <2>1, <2>3, <3>1 DEF Steady
    <2> QED
      BY <2>1, <2>2, <2>3, SteadyAgain
  <1> QED
    BY <1>1, <1>2, <1>3, <1>4, <1>5, <1>6 DEF Next, CrashLoop

LEMMA SteadyInit == Init => Steady
  <1> SUFFICES ASSUME Init, Apart(config) PROVE RolesAreManaged /\ DOMAIN targets = {}
    BY DEF Steady
  <1>1. DOMAIN targets = {}
    BY DEF Init, NoTargets
  <1>2. ASSUME NEW a \in granted, NEW t \in DOMAIN Targets(config),
               a[1] \in Principals(Target(config, t))
        PROVE  a[2] = Target(config, t).role
    <2>1. PICK u \in DOMAIN Targets(config) :
              a[1] \in Principals(Target(config, u)) /\ a[2] = Target(config, u).role
      BY DEF Init
    <2>2. u = t
      BY <1>2, <2>1 DEF Apart
    <2> QED
      BY <2>1, <2>2
  <1> QED
    BY <1>1, <1>2 DEF RolesAreManaged

LEMMA Invariance == Spec => [](TypeOK /\ Wired /\ Steady)
  <1>1. TypeOK /\ Wired /\ Steady /\ [Next]_vars => (TypeOK /\ Wired /\ Steady)'
    BY TypeStep, WiredStep, SteadyStep
  <1>2. Init => TypeOK /\ Wired /\ Steady
    BY TypeInit, SteadyInit
  <1> QED
    BY <1>1, <1>2, PTL DEF Spec

(* Where no two targets share a principal, no pass plans to remove a group  *)
(* that an owner has wanted since the pass was built and that was looked    *)
(* up, also not one that was built after SIGTERM.                          *)
THEOREM SteadyWantsAreKept == Spec => []SteadyWantKept
  <1>1. TypeOK /\ Wired /\ Steady => SteadyWantKept
    <2> SUFFICES ASSUME TypeOK, Steady, Apart(config), NEW t \in DOMAIN pass,
                        NEW d \in pass[t].plan, d[2] \notin pass[t].desired,
                        NEW o \in Owner, <<o, d[2]>> \in pass[t].kept
                 PROVE  FALSE
      BY DEF SteadyWantKept, UnionKept
    <2>1. t \in DOMAIN targets /\ pass[t].pc = "apply"
      BY DEF TypeOK
    <2>2. \A k \in pass[t].kept : k[2] \in pass[t].desired
      BY <2>1 DEF Steady, KeptIsDesired
    <2>3. <<o, d[2]>>[2] \in pass[t].desired
      BY <2>2
    <2> QED
      BY <2>3
  <1> QED
    BY <1>1, Invariance, PTL

(* Where no two targets share a principal, a pass that ends has left        *)
(* exactly the desired groups assigned, but for the pairs in doubt.         *)
THEOREM EndedPassesKeptTheirWord == Spec => PassesKeepTheirWord
  <1> DEFINE Kept ==
          \A t \in DOMAIN targets : Finish(t) /\ Apart(config) =>
              \A e \in targets[t].entries, g \in config.groups :
                  \/ <<PrincipalOf[e], g>> \in pass[t].doubted
                  \/ (Assignment(t, e, g) \in granted) = (g \in pass[t].desired)
  <1>1. Steady => Kept
    <2> SUFFICES ASSUME Steady, NEW t \in DOMAIN targets, Finish(t), Apart(config),
                        NEW e \in targets[t].entries, NEW g \in config.groups
                 PROVE  \/ <<PrincipalOf[e], g>> \in pass[t].doubted
                        \/ (Assignment(t, e, g) \in granted) = (g \in pass[t].desired)
      OBVIOUS
    <2>1. pass[t].pc = "apply" /\ pass[t].plan = {}
      BY DEF Finish
    <2>2. WordHolds(targets[t], pass[t], granted, config.groups)
      BY DEF Steady
    <2> QED
      BY <2>1, <2>2 DEF WordHolds, Assignment
  <1>2. [](TypeOK /\ Wired /\ Steady) => [][Kept]_vars
    BY <1>1, PTL
  <1> QED
    BY <1>2, Invariance, PTL DEF PassesKeepTheirWord

(* With the Kubernetes target alone, the gauges are right whenever a pass   *)
(* has ended, up to the pairs in doubt.                                    *)
THEOREM GaugesTellTheTruth == Spec => GaugesTell
  <1> DEFINE Told ==
          \A t \in DOMAIN targets : Finish(t) /\ DOMAIN targets = {Kubernetes} =>
              LET sure == {g \in config.groups : \E e \in targets[t].entries :
                              /\ Assignment(t, e, g) \in granted
                              /\ <<PrincipalOf[e], g>> \notin pass[t].doubted}
                  open == {d[2] : d \in pass[t].doubted}
              IN  /\ gauges'.desired = Cardinality(pass[t].desired)
                  /\ gauges'.actual \in Cardinality(sure)..Cardinality(sure \cup open)
  <1>1. TypeOK /\ Wired /\ Steady => Told
    <2> SUFFICES ASSUME TypeOK, Wired, Steady, NEW t \in DOMAIN targets, Finish(t),
                        DOMAIN targets = {Kubernetes}
                 PROVE  LET sure == {g \in config.groups : \E e \in targets[t].entries :
                                        /\ Assignment(t, e, g) \in granted
                                        /\ <<PrincipalOf[e], g>> \notin pass[t].doubted}
                            open == {d[2] : d \in pass[t].doubted}
                        IN  /\ gauges'.desired = Cardinality(pass[t].desired)
                            /\ gauges'.actual \in
                                   Cardinality(sure)..Cardinality(sure \cup open)
      OBVIOUS
    <2> DEFINE sure == {g \in config.groups : \E e \in targets[t].entries :
                           /\ Assignment(t, e, g) \in granted
                           /\ <<PrincipalOf[e], g>> \notin pass[t].doubted}
               open == {d[2] : d \in pass[t].doubted}
    <2>1. /\ pass[t].pc = "apply" /\ pass[t].plan = {}
          /\ gauges' = [gauges EXCEPT !.actual = Cardinality(pass[t].actual)]
      BY DEF Finish
    <2>2. Apart(config)
      BY RunningTarget DEF Apart
    <2>3. Counts(targets[t], pass[t], granted, config.groups) /\ GaugeHolds(pass[t], gauges)
          /\ WordHolds(targets[t], pass[t], granted, config.groups)
      BY <2>2 DEF Steady
    <2>4. gauges'.desired = Cardinality(pass[t].desired)
          /\ gauges'.actual = Cardinality(pass[t].actual)
      BY <2>1, <2>3 DEF GaugeHolds, TypeOK
    <2>5. pass[t] \in PassOf(targets[t]) /\ config \in Configs
      BY DEF TypeOK
    <2>6. open \subseteq config.groups
      BY <2>5 DEF PassOf
    <2>7. sure \subseteq pass[t].actual
      BY <2>1, <2>3 DEF Counts, Assignment
    <2>8. pass[t].actual \subseteq sure \cup open
      <3> SUFFICES ASSUME NEW g \in pass[t].actual, g \notin open PROVE g \in sure
        OBVIOUS
      <3>1. \A d \in pass[t].doubted : d[2] # g
        OBVIOUS
      <3>2. PICK e \in targets[t].entries : <<PrincipalOf[e], targets[t].role, g>> \in granted
        BY <2>1, <2>3, <3>1 DEF Counts
      <3>3. <<PrincipalOf[e], g>> \notin pass[t].doubted
        <4>1. <<PrincipalOf[e], g>>[2] = g
          OBVIOUS
        <4> QED
          BY <3>1, <4>1
      <3>4. g \in config.groups
        BY <2>5 DEF PassOf
      <3> QED
        BY <3>2, <3>3, <3>4 DEF Assignment
    <2>9. sure \cup open \in SUBSET config.groups /\ sure \in SUBSET config.groups
          /\ pass[t].actual \in SUBSET config.groups
      BY <2>5, <2>6 DEF PassOf
    <2> HIDE DEF sure, open
    <2>10. /\ IsFiniteSet(sure \cup open) /\ IsFiniteSet(pass[t].actual)
           /\ Cardinality(sure) \in Nat /\ Cardinality(pass[t].actual) \in Nat
           /\ Cardinality(sure \cup open) \in Nat
      BY <2>5, <2>9, GaugeType
    <2>11. Cardinality(sure) <= Cardinality(pass[t].actual)
      BY <2>7, <2>10, FS_Subset
    <2>12. Cardinality(pass[t].actual) <= Cardinality(sure \cup open)
      BY <2>8, <2>10, FS_Subset
    <2>13. gauges'.actual \in Cardinality(sure)..Cardinality(sure \cup open)
      BY <2>4, <2>10, <2>11, <2>12
    <2> QED
      BY <2>4, <2>13 DEF sure, open
  <1>2. [](TypeOK /\ Wired /\ Steady) => [][Told]_vars
    BY <1>1, PTL
  <1> QED
    BY <1>2, Invariance, PTL DEF GaugesTell

=============================================================================
