--------------------------- MODULE ArgoCDSources ----------------------------
(***************************************************************************)
(* The Argo CD controller of one target, internal/controller/              *)
(* argocd_controller.go: which objects it watches, and how a pass collects *)
(* the groups of all its sources by reading one object after another.      *)
(*                                                                         *)
(* A source is an Argo CD installation: an ArgoCD resource that may be     *)
(* unset, a ConfigMap with the policy, and the AppProjects of its          *)
(* namespace unless they are disabled.  An ArgoCD resource that is missing *)
(* or being deleted empties its source, a missing ConfigMap does not, and  *)
(* a read that fails ends the pass for all sources.  The kinds ArgoCD and  *)
(* AppProject are custom resources, which may be installed or removed at   *)
(* any time; whether they are watched is decided once, at start-up.        *)
(*                                                                         *)
(* The target has one worker, so its mutex is never contended.             *)
(* Resolution and the writes belong to StateReconciler: here a pass ends   *)
(* by remembering what it wants.  The groups a policy or a project mentions *)
(* are a set of names; how the text is read is left out.                   *)
(***************************************************************************)
EXTENDS Naturals

CONSTANTS
    Object,      \* ArgoCD resources, ConfigMaps and AppProjects
    KindOf,      \* [Object -> Kind]
    Name,        \* group UUIDs
    NumSources,  \* how many installations the target has
    Source,      \* [1..NumSources -> [resource, configMap, projects]]
    Unset,       \* no resource name is configured
    MaxNotices   \* bound on events on their way to the queue

Custom == {"argocd", "appproject"}
Kind == {"configmap"} \cup Custom

(* A source's projects are those of its namespace, {} when disabled. *)
ASSUME KindAssumption == KindOf \in [Object -> Kind]
ASSUME SourceAssumption ==
    /\ NumSources \in Nat \ {0}
    /\ Source \in [1..NumSources ->
           [resource : {o \in Object : KindOf[o] = "argocd"} \cup {Unset},
            configMap : {o \in Object : KindOf[o] = "configmap"},
            projects : SUBSET {o \in Object : KindOf[o] = "appproject"}]]
ASSUME UnsetAssumption == Unset \notin Object
ASSUME NoticesAssumption == MaxNotices \in Nat \ {0}

(* An object, as far as the passes look at it.  What one that is being     *)
(* deleted mentions does not matter, and an ArgoCD resource mentions nobody. *)
Gone == [phase |-> "absent", names |-> {}]
ObjectState == [phase : {"absent", "deleting"}, names : {{}}]
               \cup [phase : {"live"}, names : SUBSET Name]
StatesOf(o) == {x \in ObjectState : KindOf[o] = "argocd" => x.names = {}}

VARIABLES
    objects,    \* [Object -> ObjectState]
    installed,  \* custom resource kinds the cluster knows
    watched,    \* kinds the controller has a watch for
    mapped,     \* the process knows what kind AppProject is (REST mapping)
    notices,    \* events not yet handled
    queue,      \* the queue's entry for fullStateRequest
    pc,         \* where the worker is
    at,         \* the source the pass is reading
    found,      \* names read so far
    wanted,     \* what the last pass to get through wanted
    settled,    \* from here on nothing outside changes and no read fails
    kept        \* history: references that have held since the pass began

vars == <<objects, installed, watched, mapped, notices, queue, pc, at, found, wanted,
          settled, kept>>
worldVars == <<objects, installed, watched, mapped, settled>>

-----------------------------------------------------------------------------
(* What the sources refer to, in a given state of the objects.             *)
Live(o, S) == S[o].phase = "live"

Open(s, S) == Source[s].resource = Unset \/ Live(Source[s].resource, S)

Mentions(o, S) == IF Live(o, S) THEN S[o].names ELSE {}

(* Who refers to whom: source, object, name. *)
References(S) ==
    {r \in (1..NumSources) \X Object \X Name :
        /\ Open(r[1], S)
        /\ r[2] \in {Source[r[1]].configMap} \cup Source[r[1]].projects
        /\ r[3] \in Mentions(r[2], S)}

Desired == {r[3] : r \in References(objects)}

(* The predicate with the sources' list cut to its first entry. *)
OfFirstSource(o) ==
    o \in {Source[1].configMap, Source[1].resource} \cup Source[1].projects

(* The three predicates: the object is one of some source's. *)
OfSomeSource(o) ==
    \E s \in 1..NumSources :
        o \in {Source[s].configMap, Source[s].resource} \cup Source[s].projects

(* Kinds the sources make use of. *)
Used == {"configmap"}
    \cup {k \in {"argocd"} : \E s \in 1..NumSources : Source[s].resource # Unset}
    \cup {k \in {"appproject"} : \E s \in 1..NumSources : Source[s].projects # {}}

(* SetupWithManager: custom kinds are watched if the cluster knows them now. *)
Setup(kinds) == Used \cap ({"configmap"} \cup kinds)

Possible(kinds) ==
    {S \in [Object -> ObjectState] :
        \A o \in Object : /\ S[o] \in StatesOf(o)
                          /\ KindOf[o] \in Custom \ kinds => S[o] = Gone}

Init ==
    /\ installed \in SUBSET Custom
    /\ objects \in Possible(installed)
    /\ watched = Setup(installed)
    /\ mapped = ("appproject" \in watched)
    /\ notices = 0
    /\ queue = "due"
    /\ pc = "idle"
    /\ at = 1
    /\ found = {}
    /\ wanted \in SUBSET Name
    /\ settled = FALSE
    /\ kept = {}

-----------------------------------------------------------------------------
(* Events and the queue.                                                   *)
ObjectEvent(o, new) ==
    /\ ~settled
    /\ KindOf[o] \in {"configmap"} \cup installed
    /\ new # objects[o]
    /\ objects' = [objects EXCEPT ![o] = new]
    /\ IF KindOf[o] \in watched /\ OfSomeSource(o)
       THEN notices < MaxNotices /\ notices' = notices + 1
       ELSE UNCHANGED notices
    /\ kept' = kept \cap References(objects')
    /\ UNCHANGED <<installed, watched, mapped, queue, pc, at, found, wanted, settled>>

(* A custom resource definition comes, or goes after its last object.  A   *)
(* watch outlives its kind.                                                *)
DefinitionChanges(k) ==
    /\ ~settled
    /\ \A o \in Object : KindOf[o] = k => objects[o] = Gone
    /\ installed' = IF k \in installed THEN installed \ {k} ELSE installed \cup {k}
    /\ UNCHANGED <<objects, watched, mapped, notices, queue, pc, at, found, wanted,
                   settled, kept>>

EnqueueFullState ==
    /\ notices > 0
    /\ notices' = notices - 1
    /\ queue' = "due"
    /\ UNCHANGED <<worldVars, pc, at, found, wanted, kept>>

(* A delayed entry falls due: why is "retry" or "resync". *)
DelayExpires(why) ==
    /\ queue = why
    /\ queue' = "due"
    /\ UNCHANGED <<worldVars, notices, pc, at, found, wanted, kept>>

-----------------------------------------------------------------------------
(* The pass.                                                               *)
Take ==
    /\ pc = "idle"
    /\ queue = "due"
    /\ queue' = "none"
    /\ pc' = "resource"
    /\ kept' = References(objects)
    /\ UNCHANGED <<worldVars, notices, at, found, wanted>>

(* The source is read: on to the next one, or to the convergence. *)
PastTheLast ==
    /\ pc' = IF at > NumSources THEN "converge" ELSE "resource"
    /\ at' = IF at > NumSources THEN 1 ELSE at + 1

NextSource ==
    /\ pc' = IF at = NumSources THEN "converge" ELSE "resource"
    /\ at' = IF at = NumSources THEN 1 ELSE at + 1

GetArgoCD ==
    /\ pc = "resource"
    /\ IF Open(at, objects)
       THEN pc' = "configMap" /\ UNCHANGED at
       ELSE NextSource
    /\ UNCHANGED <<worldVars, notices, queue, found, wanted, kept>>

GetConfigMap ==
    /\ pc = "configMap"
    /\ found' = found \cup Mentions(Source[at].configMap, objects)
    /\ IF Source[at].projects # {}
       THEN pc' = "projects" /\ UNCHANGED at
       ELSE NextSource
    /\ UNCHANGED <<worldVars, notices, queue, wanted, kept>>

(* The kind was removed after the process had looked it up.  The mapping is *)
(* kept, so the list is sent and answered by a 404.                        *)
MappingStale == mapped /\ "appproject" \notin installed

(* Without a mapping the kind is looked up, and one that is not there is    *)
(* IsNoMatchError: no projects.                                            *)
ListAppProjects ==
    /\ pc = "projects"
    /\ ~MappingStale
    /\ mapped' = ("appproject" \in installed)
    /\ found' = found \cup UNION {Mentions(o, objects) : o \in Source[at].projects}
    /\ NextSource
    /\ UNCHANGED <<objects, installed, watched, settled, notices, queue, wanted, kept>>

Return(later) ==
    /\ queue' = IF queue = "due" THEN queue ELSE later
    /\ pc' = "idle"
    /\ at' = 1
    /\ found' = {}
    /\ kept' = {}
    /\ UNCHANGED <<worldVars, notices>>

(* Success without RequeueAfter. *)
ConvergeForGood ==
    /\ pc = "converge"
    /\ wanted' = found
    /\ Return("none")

Converge ==
    /\ pc = "converge"
    /\ wanted' = found
    /\ Return("resync")

Reading == {"resource", "configMap", "projects"}

(* A source that cannot be read is passed over. *)
SkipSource ==
    /\ pc \in Reading
    /\ ~settled
    /\ NextSource
    /\ UNCHANGED <<worldVars, notices, queue, found, wanted, kept>>

(* A read fails, or the list of assignments after them: the error ends the *)
(* pass, whatever the other sources hold.  A 404 to the list of projects is *)
(* no IsNoMatchError.                                                      *)
Fail ==
    /\ pc \in Reading \cup {"converge"}
    /\ ~settled \/ (pc = "projects" /\ MappingStale)
    /\ UNCHANGED wanted
    /\ Return("retry")

PassStep == GetArgoCD \/ GetConfigMap \/ ListAppProjects \/ Converge \/ Fail

-----------------------------------------------------------------------------
(* The process ends; objects go on changing without it. *)
Stop ==
    /\ ~settled
    /\ pc' = "down"
    /\ watched' = {}
    /\ mapped' = FALSE
    /\ notices' = 0
    /\ queue' = "none"
    /\ at' = 1
    /\ found' = {}
    /\ kept' = {}
    /\ UNCHANGED <<objects, installed, wanted, settled>>

(* Its successor sets up the watches anew, and initialFullState queues a   *)
(* pass.  What the informers find at start-up adds nothing to that.        *)
Startup ==
    /\ pc = "down"
    /\ pc' = "idle"
    /\ watched' = Setup(installed)
    /\ mapped' = ("appproject" \in watched')
    /\ queue' = "due"
    /\ UNCHANGED <<objects, installed, notices, at, found, wanted, settled, kept>>

Settle ==
    /\ ~settled
    /\ settled' = TRUE
    /\ UNCHANGED <<objects, installed, watched, mapped, notices, queue, pc, at, found,
                   wanted, kept>>

Next ==
    \/ \E o \in Object : \E new \in StatesOf(o) : ObjectEvent(o, new)
    \/ \E k \in Custom : DefinitionChanges(k)
    \/ EnqueueFullState
    \/ \E why \in {"retry", "resync"} : DelayExpires(why)
    \/ Take
    \/ PassStep
    \/ Stop
    \/ Startup
    \/ Settle

Spec == Init /\ [][Next]_vars

(* Handlers and the worker run, back-off ends, the resync period, which is *)
(* positive, passes, and Kubernetes restarts a pod that ended.             *)
Fairness ==
    /\ WF_vars(EnqueueFullState)
    /\ \A why \in {"retry", "resync"} : WF_vars(DelayExpires(why))
    /\ WF_vars(Take)
    /\ WF_vars(PassStep)
    /\ WF_vars(Startup)

FairSpec == Spec /\ Fairness

-----------------------------------------------------------------------------
(* Properties.                                                             *)
TypeOK ==
    /\ installed \in SUBSET Custom
    /\ objects \in [Object -> ObjectState]
    /\ watched \in SUBSET Kind
    /\ mapped \in BOOLEAN
    /\ notices \in 0..MaxNotices
    /\ queue \in {"none", "due", "retry", "resync"}
    /\ pc \in {"down", "idle", "converge"} \cup Reading
    /\ at \in 1..NumSources
    /\ found \in SUBSET Name
    /\ wanted \in SUBSET Name
    /\ settled \in BOOLEAN
    /\ kept \in SUBSET ((1..NumSources) \X Object \X Name)

(* A pass that gets to its writes wants every group that some source has   *)
(* referred to by the same object ever since the pass began, although the  *)
(* objects are read one by one, may change in between, and any read may    *)
(* fail: nothing is removed because a source could not be read.            *)
SteadyReferenceKept == pc = "converge" => \A r \in kept : r[3] \in found

Quiet == notices = 0 /\ pc = "idle" /\ queue \in {"none", "resync"}

(* If every kind in use was known at start-up, then with only the resync   *)
(* timer left the last pass wanted what the sources refer to now.          *)
NoLostUpdate == Quiet /\ Used \subseteq watched => wanted = Desired

(* A source whose projects every pass comes to, and none can list. *)
Barred ==
    MappingStale /\ \E s \in 1..NumSources : Source[s].projects # {} /\ Open(s, objects)

(* Without a watch on a kind installed later the resync timer still brings *)
(* the wanted set up to date; so it does after a kind is removed, unless    *)
(* the process had looked it up (argocd_controller.go:246 has one of the    *)
(* two errors, where line 197 has both): then no pass ends before the kind  *)
(* is back, the source is closed or the process restarts.                  *)
Converges == <>[](settled => wanted = Desired \/ Barred)
=============================================================================
