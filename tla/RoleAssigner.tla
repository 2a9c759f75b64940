---------------------------- MODULE RoleAssigner ----------------------------
(***************************************************************************)
(* The process of cmd/main.go: how the environment variables become        *)
(* reconciliation targets, and those targets at work side by side on the   *)
(* assignments in Entra, from start-up to SIGTERM.                         *)
(*                                                                         *)
(* The Kubernetes bindings are one target, number 0, with a client of      *)
(* their own.  Every Argo CD instance that is configured belongs to the    *)
(* target of the first instance with the same service principals and role. *)
(* Each target runs the pass of StateReconciler with its own mutex; all of *)
(* them set the same gauges.                                               *)
(*                                                                         *)
(* Abstracted: what an owner (the cluster, or one Argo CD instance) wants  *)
(* is a set of groups, read and resolved in one step; the lists of all     *)
(* service principals are read in one step; a removal is one step.  The    *)
(* steps inside these are the subject of StateReconciler, ArgoCDSources,   *)
(* BindingWatch and GraphClient.                                           *)
(***************************************************************************)
EXTENDS Naturals, Sequences, FiniteSets

CONSTANTS
    Configs,         \* the environments the process may be started in
    Group,           \* Entra group object IDs
    Principal,       \* service principals in Entra
    Role,            \* app roles
    PrincipalOf,     \* [entry -> Principal], the principal a list entry spells
    ControllerName,  \* [instance name -> name], what controllerName makes of it
    DefaultName,     \* [index -> name], what an instance without a name is called
    NoName,          \* "name" is missing or empty
    NoRole           \* the app role is empty

(* An empty string between two commas.  Other entries are numbered in the  *)
(* order of sort.Strings.                                                  *)
Empty == 0
Entry == DOMAIN PrincipalOf

(* instances is used unless argocd is "off", and has one element, which the *)
(* single variables describe, if it is "env".  groups are those that owners *)
(* may refer to.                                                           *)
Instances ==
    [name : DOMAIN ControllerName \cup {NoName}, namespace : BOOLEAN,
     list : Seq(Entry \cup {Empty}), role : Role \cup {NoRole}]
Environment ==
    [list : Seq(Entry \cup {Empty}), role : Role \cup {NoRole},
     argocd : {"off", "env", "json"}, instances : Seq(Instances),
     groups : SUBSET Group]

ASSUME GroupAssumption == IsFiniteSet(Group)
ASSUME EntryAssumption ==
    /\ Entry \subseteq Nat \ {Empty}
    /\ \A e \in Entry : PrincipalOf[e] \in Principal
ASSUME ConfigsAssumption == Configs \subseteq Environment

VARIABLES
    config,   \* the environment this deployment has
    phase,    \* "down", "running" or, after SIGTERM, "stopping"
    targets,  \* [target -> what main wired for it]
    want,     \* [owner -> SUBSET Group], the groups its sources refer to
    granted,  \* assignments in Entra, <<principal, role, group>>
    pass,     \* [target -> its pass]
    nameless, \* [target -> groups its client has cached without an ID]
    gauges,   \* azure_k8s_role_assigner_reconcile_groups_desired and _actual
    settled   \* from here on nothing outside changes and no call fails

vars == <<config, phase, targets, want, granted, pass, nameless, gauges,
          settled>>

-----------------------------------------------------------------------------
(* Configuration.                                                          *)

Kubernetes == 0

(* The name an instance goes by, before and after the defaulting.          *)
InstanceName(c, i) ==
    IF c.instances[i].name = NoName THEN DefaultName[i] ELSE c.instances[i].name

(* argoCDInstancesFromEnv.  Without ARGOCD_INSTANCES the single instance   *)
(* described by the other variables has a name and a namespace.            *)
ArgoCDInstances(c) ==
    IF c.argocd = "off" THEN {} ELSE DOMAIN c.instances

InstancesValid(c) ==
    /\ c.instances # <<>>
    /\ \A i, j \in DOMAIN c.instances :
           InstanceName(c, i) = InstanceName(c, j) => i = j
    /\ \A i \in DOMAIN c.instances : c.instances[i].namespace

(* parseServicePrincipals: trimmed, without empty entries and duplicates.   *)
ParseKeepingEmpty(list) == {list[n] : n \in DOMAIN list}

ParseServicePrincipals(list) == {list[n] : n \in DOMAIN list} \ {Empty}

(* Two roles for the same principals taken for one target.                 *)
KeyWithoutRole(c, i) == ParseServicePrincipals(c.instances[i].list)

Key(c, i) ==
    <<ParseServicePrincipals(c.instances[i].list), c.instances[i].role>>

(* argoCDTargets.  A target is known by the instance that came first.      *)
ArgoCDTargets(c) ==
    {i \in ArgoCDInstances(c) :
        \A j \in ArgoCDInstances(c) : Key(c, j) = Key(c, i) => i <= j}

(* The Kubernetes target keeps the empty entries of its list.              *)
Target(c, t) ==
    IF t = Kubernetes
    THEN [owners |-> {Kubernetes}, role |-> c.role,
          entries |-> {c.list[n] : n \in DOMAIN c.list}]
    ELSE [owners |-> {i \in ArgoCDInstances(c) : Key(c, i) = Key(c, t)},
          role |-> c.instances[t].role,
          entries |-> ParseServicePrincipals(c.instances[t].list)]

Targets(c) == [t \in {Kubernetes} \cup ArgoCDTargets(c) |-> Target(c, t)]

(* Every os.Exit(1) before the manager starts is avoided: NewClient,        *)
(* argoCDInstancesFromEnv, newArgoCDAzureClient, and SetupWithManager,       *)
(* which refuses a controller name that is taken.                          *)
StartsUp(c) ==
    /\ c.list # <<>>
    /\ c.role # NoRole
    /\ c.argocd = "json" => InstancesValid(c)
    /\ \A t \in ArgoCDTargets(c) :
           /\ Target(c, t).entries # {}
           /\ Target(c, t).role # NoRole
           /\ \A u \in ArgoCDTargets(c) :
                  ControllerName[InstanceName(c, t)] = ControllerName[InstanceName(c, u)]
                      => t = u

Owner == {Kubernetes} \cup DOMAIN config.instances
Principals(target) == {PrincipalOf[e] : e \in target.entries \ {Empty}}
Wanted(target) == UNION {want[o] : o \in target.owners}

-----------------------------------------------------------------------------
(* Start-up and shutdown.                                                  *)

Idle == [pc |-> "idle", desired |-> {}, plan |-> {}, actual |-> {},
         doubted |-> {}, kept |-> {}]
NoTargets == [t \in {} |-> Target(config, t)]
NoPass == [t \in {} |-> Idle]
NothingCached == [t \in DOMAIN Targets(config) |-> {}]

Init ==
    /\ config \in Configs
    /\ phase = "down"
    /\ targets = NoTargets
    /\ want \in [Owner -> SUBSET config.groups]
    /\ granted \in SUBSET {a \in Principal \X Role \X config.groups :
           \E t \in DOMAIN Targets(config) :
               /\ a[1] \in Principals(Target(config, t))
               /\ a[2] = Target(config, t).role}
    /\ pass = NoPass
    /\ nameless = NothingCached
    /\ gauges = [desired |-> 0, actual |-> 0]
    /\ settled = FALSE

(* main up to mgr.Start; the metrics of a new process are zero. *)
Startup ==
    /\ phase = "down"
    /\ StartsUp(config)
    /\ phase' = "running"
    /\ targets' = Targets(config)
    /\ pass' = [t \in DOMAIN Targets(config) |-> Idle]
    /\ UNCHANGED <<config, want, granted, nameless, gauges, settled>>

(* os.Exit(1), and Kubernetes starts the container again. *)
CrashLoop ==
    /\ phase = "down"
    /\ ~StartsUp(config)
    /\ UNCHANGED vars

(* SIGTERM cancels the context every Graph call is made with. *)
Cancel ==
    /\ phase = "running"
    /\ ~settled
    /\ phase' = "stopping"
    /\ UNCHANGED <<config, targets, want, granted, pass, nameless, gauges, settled>>

(* The manager gives up while its workers go on. *)
ExitLeavesPasses ==
    /\ phase # "down"
    /\ phase = "running" => ~settled
    /\ phase' = "down"
    /\ targets' = NoTargets
    /\ nameless' = NothingCached
    /\ gauges' = [desired |-> 0, actual |-> 0]
    /\ UNCHANGED <<config, want, granted, pass, settled>>

(* The process ends, after SIGTERM or by a crash. *)
Exit ==
    /\ phase # "down"
    /\ phase = "running" => ~settled
    /\ phase' = "down"
    /\ targets' = NoTargets
    /\ pass' = NoPass
    /\ nameless' = NothingCached
    /\ gauges' = [desired |-> 0, actual |-> 0]
    /\ UNCHANGED <<config, want, granted, settled>>

-----------------------------------------------------------------------------
(* The pass of a target.                                                   *)

Move(t, p) ==
    /\ pass' = [pass EXCEPT ![t] = p]
    /\ UNCHANGED <<config, phase, targets, want, settled>>

(* Owners whose groups belong on what t writes to. *)
Sharers(t) ==
    UNION {targets[u].owners : u \in {u \in DOMAIN targets :
               /\ targets[u].role = targets[t].role
               /\ Principals(targets[u]) \cap Principals(targets[t]) # {}}}

(* buildDesired: groups are skipped whose lookup fails or is answered       *)
(* without an ID; such an answer is cached and skipped by the passes to     *)
(* come.  Once the context is cancelled every lookup fails that the cache   *)
(* does not answer.                                                        *)
BuildDesired(t) ==
    /\ pass[t].pc = "idle"
    /\ \E missed \in SUBSET Wanted(targets[t]) :
           LET desired == Wanted(targets[t]) \ missed
               excused == IF phase = "running" THEN missed ELSE {}
           IN  /\ nameless[t] \cap Wanted(targets[t]) \subseteq missed
               /\ settled /\ phase = "running" => missed \subseteq nameless[t]
               /\ nameless' \in {[nameless EXCEPT ![t] = @ \cup lost] : lost \in SUBSET missed}
               /\ settled \/ phase = "stopping" => UNCHANGED nameless
               /\ Move(t, [Idle EXCEPT !.pc = "list", !.desired = desired,
                               !.kept = UNION {{<<o, g>> : g \in want[o] \ excused} :
                                               o \in Sharers(t)}])
               /\ gauges' = [gauges EXCEPT !.desired = Cardinality(desired)]
               /\ UNCHANGED granted

Shown(t, e) ==
    {g \in config.groups : <<PrincipalOf[e], targets[t].role, g>> \in granted}

(* ListManagedAssignments and the difference the loops go through. *)
Listed(t) ==
    LET desired == pass[t].desired
    IN  Move(t, [pass[t] EXCEPT
            !.pc = "apply",
            !.plan = {d \in targets[t].entries \X config.groups :
                          (d[2] \in desired) # (d[2] \in Shown(t, d[1]))},
            !.actual = desired \cap UNION {Shown(t, e) : e \in targets[t].entries}])

ListIgnoresCancel(t) ==
    /\ pass[t].pc = "list"
    /\ Empty \notin targets[t].entries
    /\ Listed(t)
    /\ UNCHANGED <<granted, nameless, gauges>>

ListManagedAssignments(t) ==
    /\ pass[t].pc = "list"
    /\ phase = "running"
    /\ Empty \notin targets[t].entries
    /\ Listed(t)
    /\ UNCHANGED <<granted, nameless, gauges>>

(* An empty entry addresses no service principal, so Graph refuses.  The    *)
(* desired gauge keeps what this pass set.                                 *)
ListManagedAssignmentsFails(t) ==
    /\ pass[t].pc = "list"
    /\ ~settled \/ phase = "stopping" \/ Empty \in targets[t].entries
    /\ Move(t, Idle)
    /\ UNCHANGED <<granted, nameless, gauges>>

(* Service principals in sorted order, assignments before removals. *)
Reached(t, e, g) ==
    /\ pass[t].pc = "apply"
    /\ <<e, g>> \in pass[t].plan
    /\ \A d \in pass[t].plan :
           /\ e <= d[1]
           /\ g \notin pass[t].desired /\ e = d[1] => d[2] \notin pass[t].desired

Assignment(t, e, g) == <<PrincipalOf[e], targets[t].role, g>>
Without(t, e, g) == [pass[t] EXCEPT !.plan = @ \ {<<e, g>>}]
Doubting(t, e, g) ==
    [Without(t, e, g) EXCEPT !.doubted = @ \cup {<<PrincipalOf[e], g>>}]

(* The effects that RemoveGroupFromServicePrincipal may have: it deletes    *)
(* the first assignment of the group, whatever its role.                   *)
Removed(t, e, g) ==
    LET found == {a \in granted : a[1] = PrincipalOf[e] /\ a[3] = g}
    IN  IF found = {} THEN {granted} ELSE {granted \ {a} : a \in found}

(* A group that was assigned just now is not counted. *)
AssignUncounted(t, e, g) ==
    /\ Reached(t, e, g) /\ g \in pass[t].desired
    /\ phase = "running"
    /\ granted' = granted \cup {Assignment(t, e, g)}
    /\ Move(t, Without(t, e, g))
    /\ UNCHANGED <<nameless, gauges>>

Assign(t, e, g) ==
    /\ Reached(t, e, g) /\ g \in pass[t].desired
    /\ phase = "running"
    /\ granted' = granted \cup {Assignment(t, e, g)}
    /\ Move(t, [Without(t, e, g) EXCEPT !.actual = @ \cup {g}])
    /\ UNCHANGED <<nameless, gauges>>

(* The loop is left at the first failure. *)
AssignBreaks(t, e, g) ==
    /\ Reached(t, e, g) /\ g \in pass[t].desired
    /\ ~settled \/ phase = "stopping"
    /\ granted' \in {granted, granted \cup {Assignment(t, e, g)}}
    /\ Move(t, [Doubting(t, e, g) EXCEPT !.plan = {d \in @ : d[1] # e}])
    /\ UNCHANGED <<nameless, gauges>>

AssignFails(t, e, g) ==
    /\ Reached(t, e, g) /\ g \in pass[t].desired
    /\ ~settled \/ phase = "stopping"
    /\ granted' \in {granted, granted \cup {Assignment(t, e, g)}}
    /\ Move(t, Doubting(t, e, g))
    /\ UNCHANGED <<nameless, gauges>>

Remove(t, e, g) ==
    /\ Reached(t, e, g) /\ g \notin pass[t].desired
    /\ phase = "running"
    /\ granted' \in Removed(t, e, g)
    /\ Move(t, Without(t, e, g))
    /\ UNCHANGED <<nameless, gauges>>

RemoveFails(t, e, g) ==
    /\ Reached(t, e, g) /\ g \notin pass[t].desired
    /\ ~settled \/ phase = "stopping"
    /\ granted' \in {granted} \cup Removed(t, e, g)
    /\ Move(t, [Doubting(t, e, g) EXCEPT !.actual = @ \cup {g}])
    /\ UNCHANGED <<nameless, gauges>>

Finish(t) ==
    /\ pass[t].pc = "apply" /\ pass[t].plan = {}
    /\ Move(t, Idle)
    /\ gauges' = [gauges EXCEPT !.actual = Cardinality(pass[t].actual)]
    /\ UNCHANGED <<granted, nameless>>

Write(t) ==
    \E e \in targets[t].entries, g \in config.groups :
        \/ Assign(t, e, g)
        \/ AssignFails(t, e, g)
        \/ Remove(t, e, g)
        \/ RemoveFails(t, e, g)

PassStep(t) ==
    \/ BuildDesired(t)
    \/ ListManagedAssignments(t)
    \/ ListManagedAssignmentsFails(t)
    \/ Write(t)
    \/ Finish(t)

-----------------------------------------------------------------------------
(* The world.                                                              *)

(* A binding, a ConfigMap or an AppProject changes what its owner wants. *)
WantChanges ==
    /\ ~settled
    /\ \E o \in Owner, groups \in SUBSET config.groups :
           /\ want' = [want EXCEPT ![o] = groups]
           /\ pass' = [t \in DOMAIN pass |-> [pass[t] EXCEPT
                          !.kept = {k \in @ : k[1] = o => k[2] \in groups}]]
    /\ UNCHANGED <<config, phase, targets, granted, nameless, gauges, settled>>

(* Somebody else grants or revokes a role that a target manages. *)
OutsideChange ==
    /\ ~settled
    /\ \E t \in DOMAIN targets : \E p \in Principals(targets[t]), g \in config.groups :
           LET a == <<p, targets[t].role, g>>
           IN  /\ granted' = IF a \in granted THEN granted \ {a} ELSE granted \cup {a}
               /\ pass' = [u \in DOMAIN pass |->
                              IF pass[u].pc = "apply" /\ p \in Principals(targets[u])
                              THEN [pass[u] EXCEPT !.doubted = @ \cup {<<p, g>>}]
                              ELSE pass[u]]
    /\ UNCHANGED <<config, phase, targets, want, nameless, gauges, settled>>

Settle ==
    /\ ~settled
    /\ settled' = TRUE
    /\ UNCHANGED <<config, phase, targets, want, granted, pass, nameless, gauges>>

Next ==
    \/ Startup
    \/ CrashLoop
    \/ Cancel
    \/ Exit
    \/ \E t \in DOMAIN targets : PassStep(t)
    \/ WantChanges
    \/ OutsideChange
    \/ Settle

TargetId == {Kubernetes} \cup UNION {DOMAIN c.instances : c \in Configs}

(* Every target's queue always holds the next pass (resync timer or         *)
(* back-off), a Graph call returns, a terminated pod is replaced, and a     *)
(* process that got SIGTERM ends, at the latest by the kubelet's SIGKILL.   *)
Fairness ==
    /\ WF_vars(Startup)
    /\ WF_vars(phase = "stopping" /\ Exit)
    /\ \A t \in TargetId : WF_vars(t \in DOMAIN targets /\ PassStep(t))

Spec == Init /\ [][Next]_vars

FairSpec == Spec /\ Fairness

-----------------------------------------------------------------------------
(* Properties.                                                             *)

(* No two targets write to the same service principal. *)
Apart(c) ==
    \A t, u \in DOMAIN Targets(c) :
        t # u => Principals(Target(c, t)) \cap Principals(Target(c, u)) = {}

PassOf(target) ==
    [pc : {"idle", "list", "apply"},
     desired : SUBSET config.groups,
     plan : SUBSET ((target.entries \ {Empty}) \X config.groups),
     actual : SUBSET config.groups,
     doubted : SUBSET (Principals(target) \X config.groups),
     kept : SUBSET (Owner \X config.groups)]

(* Types; in particular a pass writes only to principals and groups of its  *)
(* target, never to an empty entry, and has a plan only once it has listed. *)
TypeOK ==
    /\ config \in Configs
    /\ phase \in {"down", "running", "stopping"}
    /\ targets = IF phase = "down" THEN NoTargets ELSE Targets(config)
    /\ want \in [Owner -> SUBSET config.groups]
    /\ granted \subseteq Principal \X Role \X config.groups
    /\ DOMAIN pass = DOMAIN targets
    /\ \A t \in DOMAIN targets :
           /\ pass[t] \in PassOf(targets[t])
           /\ pass[t].pc # "apply" => pass[t].plan = {} /\ pass[t].doubted = {}
    /\ nameless \in [DOMAIN Targets(config) -> SUBSET config.groups]
    /\ gauges \in [desired : Nat, actual : Nat]
    /\ settled \in BOOLEAN

(* argoCDTargets loses no instance and mixes none up: while the process     *)
(* runs, each configured instance is served by exactly one target, which    *)
(* writes its groups with the instance's role to exactly the principals     *)
(* the instance lists.                                                     *)
EveryInstanceServed ==
    phase # "down" =>
        \A i \in ArgoCDInstances(config) :
            \E t \in DOMAIN targets :
                /\ i \in targets[t].owners
                /\ targets[t].role = config.instances[i].role
                /\ Principals(targets[t]) =
                       {PrincipalOf[e] : e \in ParseServicePrincipals(config.instances[i].list)}
                /\ \A u \in DOMAIN targets : i \in targets[u].owners => u = t

(* reconcileDesiredState, values.yaml: instances of one Azure target are    *)
(* reconciled as one union.  A pass plans to remove no group that some      *)
(* owner whose groups belong there has wanted since the pass was built,     *)
(* unless the lookup of that group failed or was answered without an ID.    *)
UnionKept ==
    \A t \in DOMAIN pass : \A d \in pass[t].plan :
        d[2] \notin pass[t].desired => \A o \in Owner : <<o, d[2]>> \notin pass[t].kept

(* The same where no two targets share a principal; also on shutdown, when  *)
(* the cancelled context makes lookups of wanted groups fail               *)
(* (reconcile_state.go:214) while the process is still at work.            *)
SteadyWantKept == Apart(config) => UnionKept

(* reconcileDesiredState: a pass that comes to its end has, wherever nobody *)
(* interfered and no call failed, left exactly the desired groups assigned *)
(* on each principal, also next to failures and next to other targets.      *)
PassesKeepTheirWord ==
    [][\A t \in DOMAIN targets : Finish(t) /\ Apart(config) =>
          \A e \in targets[t].entries, g \in config.groups :
              \/ <<PrincipalOf[e], g>> \in pass[t].doubted
              \/ (Assignment(t, e, g) \in granted) = (g \in pass[t].desired)]_vars

(* The gauges of reconcile_state.go:94 and 159 carry no target.  With one   *)
(* target alone they tell the truth when a pass ends: the number of         *)
(* groups it desired, and a number of assigned groups that is right up to   *)
(* the pairs a failed call or somebody else has left in doubt.             *)
GaugesTell ==
    [][\A t \in DOMAIN targets : Finish(t) /\ DOMAIN targets = {Kubernetes} =>
          LET sure == {g \in config.groups : \E e \in targets[t].entries :
                          /\ Assignment(t, e, g) \in granted
                          /\ <<PrincipalOf[e], g>> \notin pass[t].doubted}
              open == {d[2] : d \in pass[t].doubted}
          IN  /\ gauges'.desired = Cardinality(pass[t].desired)
              /\ gauges'.actual \in Cardinality(sure)..Cardinality(sure \cup open)]_vars

(* The configurations that deserve to be served, in the operator's terms:   *)
(* everything required is set, the Kubernetes list has no empty entry,      *)
(* names differ, also as controller names unless the instances share their *)
(* target, and no two targets share a principal.                           *)
Sound(c) ==
    /\ c.list # <<>> /\ Empty \notin {c.list[n] : n \in DOMAIN c.list}
    /\ c.role # NoRole
    /\ c.argocd # "off" => c.instances # <<>>
    /\ \A i \in ArgoCDInstances(c) :
           /\ c.instances[i].namespace
           /\ c.instances[i].role # NoRole
           /\ \E n \in DOMAIN c.instances[i].list : c.instances[i].list[n] # Empty
    /\ \A i, j \in ArgoCDInstances(c) : i # j =>
           /\ InstanceName(c, i) # InstanceName(c, j)
           /\ \/ ControllerName[InstanceName(c, i)] # ControllerName[InstanceName(c, j)]
              \/ Key(c, i) = Key(c, j)
    /\ Apart(c)

(* main and reconcileDesiredState together: with a sound configuration, and *)
(* once the world settles, every principal comes to hold exactly the groups *)
(* its owners want, whatever was left behind by failing calls, by others    *)
(* and by processes that ended in the middle of a pass.  Left out are only  *)
(* the groups that an answer without an ID keeps from the running process   *)
(* (client.go:97-99).                                                      *)
Converges ==
    <>[](settled /\ Sound(config) =>
            \A t \in DOMAIN Targets(config) :
                \A p \in Principals(Target(config, t)), g \in config.groups \ nameless[t] :
                    (<<p, Target(config, t).role, g>> \in granted) =
                        (g \in Wanted(Target(config, t))))

=============================================================================
