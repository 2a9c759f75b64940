# Verification of azure-k8s-role-assigner

TLA+ models of the controller that keeps the app role assignments of Microsoft
Entra service principals in step with the groups that Kubernetes RoleBindings
and ClusterRoleBindings (and, optionally, Argo CD's RBAC sources) refer to.
Modules are checked with TLC on small instances; the theorems in the six
`*Proofs.tla` modules are checked by TLAPS for every value of the constants. Paths below are
relative to the repository, `PROJECT.json` maps each definition to its lines.

## 1. The system

| Part | State | Operations |
|---|---|---|
| Convergence pass, `internal/controller/reconcile_state.go` | the mutex `mu`; locals of a pass: candidates, desired set, what was listed | list bindings, resolve names, list assignments, assign, remove |
| RoleBinding and ClusterRoleBinding controllers, `rolebinding_controller.go`, `clusterrolebinding_controller.go` | one worker and one work queue each (controller-runtime) | Reconcile: success is requeued after the resync period, an error with back-off |
| Event filtering, `binding_events.go` | none of its own | predicate, mapping to one work item, the start-up item |
| Azure client, `internal/azure/client.go` | group cache, service principals, app role | get a group, assign, remove, list |
| Argo CD controller, `argocd_controller.go` | as the other controllers; own `StateReconciler` per target | desired set from ArgoCD resources, ConfigMaps and AppProjects |
| Target configuration and start-up, `cmd/main.go` | none after start | group instances into targets, wire everything, start |
| Metrics, `internal/metrics/metrics.go` | counters and gauges | record; classify errors |
| Chart, tofu, workflows, tests | | deployment, provisioning, CI |

How they interact. The informers write a cache that every pass reads, and send
events through the predicate to the queues. A worker takes the single item
`full-state`, and the pass runs under the mutex both binding controllers share.
All of its lookups and writes are calls on the Azure client, whose cache is the
only state that outlives a pass. The only durable state is the assignment list
in Entra: there are no finalizers, annotations or stored records, so whatever a
crash leaves behind must be found again by the diff of the next pass. Argo CD
targets run the same pass with a desired-set builder, a client and a mutex of
their own, possibly on the same service principals.

What is hard to get right:

* two workers running the same read-diff-write pass;
* a long pass (one Graph call per name, per service principal and per
  difference) in a world that moves: bindings, groups, assignments by others;
* calls that fail, and failing calls that took effect; failures that are only
  logged;
* a process that dies between any two calls, with deletions while it is down;
* events that are dropped on purpose, folded into one item, or arrive in the
  middle of a pass;
* a removal that is two requests, on a list shared with other app roles.

What makes each part correct:

* pass: assigns only what is missing, removes only what nothing references,
  looks sequential whoever runs it, and converges when failures end;
* controllers and events: when nothing is queued but the resync timer, the last
  pass has seen the bindings as they are;
* client: each call has the effect the pass takes it to have, or reports an
  error;
* Argo CD: removals only when all sources were read; every change of a watched
  source starts a pass, and the resync timer sees the others; a policy means what
  its lines say;
* start-up: every instance is served, by one target, with its own principals and
  role, or the process refuses to start;
* targets side by side: none removes what an owner it shares principals with
  wants; a pass keeps its word next to failures, other targets and SIGTERM.

`PROJECT.json` lists every hazard with its line and the properties for it.

## 2. Modules

    SequentialReconciler        what the pass promises (abstract)
      ^ implemented by
    StateReconciler             the pass, call by call
      ^ extended by  MCStateReconciler (TLC), StateReconcilerProofs (TLAPS)
    BindingWatch                events, queues, the pass's reads of bindings
      ^ extended by  MCBindingWatch, BindingWatchProofs
    AssignmentManager           what the pass takes the client to do (abstract)
      ^ implemented by
    GraphClient                 the client, request by request
      ^ extended by  MCGraphClient, GraphClientProofs
    ArgoCDSources               the Argo CD controller: watches and reads
      ^ extended by  MCArgoCDSources, ArgoCDSourcesProofs
    PolicyCSV                   the text of one policy.csv
      ^ extended by  MCPolicyCSV, PolicyCSVProofs
    RoleAssigner                environment variables, targets, passes side by side
      ^ extended by  MCRoleAssigner, RoleAssignerProofs

### StateReconciler

`pc` says where each controller's worker is, `lock` is `mu`, and each read or
Graph call of `reconcileDesiredState` is one action:

| Code | Action |
|---|---|
| worker takes the item, `mu.Lock()` | `Start`, `Lock` |
| `r.List` of both kinds | `ListRoleBindings`, `ListClusterRoleBindings`, `ListBindingsFails` |
| one turn of `resolveCandidateGroupIDs` | `ResolveCandidate` with `GetGroupByID` and its cache |
| loop over candidates ends | `DesiredComplete` |
| `ListManagedAssignments`, per service principal | `ListManagedAssignments`, `ListManagedAssignmentsFails` |
| the apply loops | `AssignGroup`, `RemoveGroup` |
| `return nil` / `return err` with the deferred unlock | `Finish` / the failing actions, through `Return` |

The world: `BindingsChange`, `GroupDeleted`, `GroupCreated`,
`AssignmentChanged`, `Restart` (a new process: empty cache, free mutex, nothing
remembered) and `Settle`, after which nothing outside changes and no call fails.
A failing write may have taken effect. A request that an earlier process left in
flight is an `AssignmentChanged`.

The diff that the code computes inside the apply loops depends only on the
desired set and the list, both fixed by then; the model computes it when a
service principal is listed, and applies it in the code's order: service
principals sorted, assignments before removals, map order arbitrary.

Three history variables serve the properties only and no guard reads them: `kept`
(names a binding list has mentioned ever since the pass took the lock),
`missed` (names whose lookup failed) and `unsure` (pairs of service principal and
group that somebody else changed since they were listed, or whose write failed).

Not in this module: which binding mentions a name (BindingWatch), pages and app
roles of the list (GraphClient), several targets and the gauges (RoleAssigner).

### BindingWatch

The informers' cache is `cache`; `BindingEvent` changes one object to any other
state, as a broken watch may report it, and passes it through `Relevant`, the
predicate. Relevant events wait in `notices` until `EnqueueFullState` puts the one
item into the queue. `queue` holds for each controller the entry for that one key:
none, due, or waiting for back-off (`retry`) or for the resync timer. An event
during a pass makes a new entry, which the requeue at the end of the pass does
not push back. `wanted` is the set the last successful pass was built from; it
survives a restart because the assignments do.

A process ends with `Stop` and its successor begins with `Startup`; in between
bindings change and no informer sees it. `Startup` fills the cache, whose objects
arrive as create events if they are `Relevant`, and queues the item of
`initialFullState` whether any of them is or not.

Resolution is left to StateReconciler: two spellings of one UUID have the same
`Identity`, as they have in Entra.

### GraphClient

Several clients (the Kubernetes target and Argo CD targets) work on the
assignment list of one service principal. `AssignGroup` is one request;
a removal is two: `FindAssignment` lists and picks the first match by principal,
`DeleteAssignment` deletes by ID, and in between others may delete that
assignment, or delete it and grant it anew under another ID. `FirstPage` is the list
request without `nextLink`, in an order of Graph's own. The caller's part is no
more than the diff and the loops.

### ArgoCDSources

One target with its sources, each a record of an ArgoCD resource (or `Unset`), a
ConfigMap and the AppProjects of its namespace. `objects` holds all of them,
`installed` the custom resource kinds the cluster knows, `watched` what
`SetupWithManager` could watch when the process started. A pass reads for each source
in turn `GetArgoCD`, `GetConfigMap` and `ListAppProjects`, each with the code's
way out: a missing or deleting ArgoCD resource ends its source with nothing, a
missing or deleting ConfigMap does not, disabled AppProjects are not read, any
other error is `Fail`. An ArgoCD kind that is not installed reads like an absent object.
So do AppProjects as long as the process has never looked the kind up
(`IsNoMatchError`); `mapped` says that it has, because then the client keeps the mapping,
sends the list, and the 404 that answers it is an error like any other (`MappingStale`,
`argocd_controller.go:246`). `Stop` and `Startup` are separate, so objects and kinds may
change while no process runs. `kept` is history only.

A policy is here the set of names it mentions; PolicyCSV has its text.

ConfigMaps come from the informer cache and the two custom kinds from the API server.
The model does not distinguish them: in both cases what a read sees changes first
and the event for it arrives later.

### PolicyCSV

`extractGroupsFromArgoCDPolicy` on a text, a sequence of tokens: quotes, commas, blanks,
ends of lines and words. The reader of `encoding/csv` is external, and its steps are
modelled in the way the code sets it up (any number of fields, leading blanks trimmed, no
comment character, no lazy quotes):

| Reader | Action |
|---|---|
| skips empty lines; finds a line that is not | `SkipEmptyLine`; `BeginRecord` |
| a field without quotes, `ErrBareQuote` | `PlainField` |
| a field in quotes, `ErrQuote` | `OpenQuote`, `NextQuote`, `NoQuote` |

The loop around it is `EndRecord`, which keeps a group from a record of at least three
fields whose first is `g`; `Abandon`, the `continue` after an error, by which the rest of
the line is lost; and `EndOfText`.

What a text means is defined apart from the reader: `Step` says what one token does to the
state of somebody who reads from left to right and never goes back or gives up, `Scan`
is that state at every position, and a separator, the end of a record, and `Grants` are
defined by it. The reader has no such state: it looks ahead for the next comma or quote,
copies pieces of text into fields, and drops a line in the middle. `Grants` in turn knows no
fields, only positions.

The forms of lines in MCPolicyCSV are annotated by hand with what an operator means
by them, and the assumption `FormsAreUnderstood` has TLC compare the annotations with `Scan`
and `Grants`, for a line read on its own and below an open quote.

### RoleAssigner

From the environment to assignments, with every target of the process:

| Code | Definition |
|---|---|
| `argoCDInstancesFromEnv` | `ArgoCDInstances`, `InstanceName`, `InstancesValid` |
| `parseServicePrincipals` | `ParseServicePrincipals` |
| `argoCDTargets` | `Key`, `ArgoCDTargets`, `Target`, `Targets` |
| every `os.Exit(1)` before the manager starts | `StartsUp`, `CrashLoop` |
| `main` up to `mgr.Start`; SIGTERM; the end | `Startup`; `Cancel`; `Exit` |
| resolution and the gauge of desired groups | `BuildDesired` |
| `ListManagedAssignments` and the difference | `ListManagedAssignments`, `...Fails` |
| the apply loops | `Assign`, `AssignFails`, `Remove`, `RemoveFails` in the order of `Reached` |
| the gauge of actual groups, return | `Finish` |

An *owner* is the cluster or one Argo CD instance; it wants a set of groups. A
*target* serves one or more owners and writes to the principals its list entries
spell. Entries and principals are kept apart because the code compares texts and Entra
does not: two entries may spell one principal, and an empty entry spells none.
After SIGTERM (`"stopping"`) every Graph call fails, possibly after taking effect,
while the loops go on; a lookup may still be answered by the cache. `nameless` is what of
that cache matters between passes: groups whose lookup was answered without an ID, which
the passes of that target skip until the process ends.

Abstracted, because other modules have the detail: reading and resolving is one step,
listing all principals is one step, a removal is one step. `want` changes, others
interfere, and the process ends, between any two steps. `Removed` leaves open which of
a group's assignments a removal finds. On a principal only the roles of the targets that
have it are granted; roles of strangers are the subject of GraphClient. The gauges
`groups_ensured` and `to_remove` are left out: the difference determines them.

Per pass, `doubted` (pairs that somebody else changed since the list, or whose write
failed) and `kept` (what the owners on these principals have wanted ever since the pass
was built, failed lookups aside) are history and guard nothing.

## 3. What is checked

Properties that TLC finds to hold:

| Run | Property | Says |
|---|---|---|
| `spellings` | `TypeOK` | sets of groups hold object IDs, never a spelling |
| | `BeliefHolds` | what a pass believes about a listed service principal is true except where others interfered or its own call failed: no controller acts on what the other has changed |
| | `SteadyReferenceKept` | a group referenced for the whole pass, under a name that could be looked up, is never up for removal, whatever else moves between the two lists |
| `two_principals` | `OnePassAtATime` | refinement of SequentialReconciler: one goal at a time; each write moves one pair towards it; success is reported only when nothing but doubted pairs differs |
| | `Converges` | after failures and changes end, assignments become and stay what the bindings call for |
| `events` | `NoLostUpdate` | with nothing under way but the resync timer, the last pass wanted exactly what the live bindings reference |
| | `EventsSuffice` | the same set is reached without the resync timer ever firing |
| `graph_calls` | `KeepsContract` | refinement of AssignmentManager: success means the effect took place on that principal only, an error means the effect or nothing |
| | `Converges` | two targets with groups of their own on one service principal both reach their sets |
| `argo_sources` | `SteadyReferenceKept` | a pass that reaches its writes wants every group some source has referred to by the same object throughout, whatever was read when and whatever failed |
| | `NoLostUpdate` | as above, for an Argo CD target whose kinds were all known at start-up |
| | `Converges` | with unwatched kinds the resync timer suffices; a kind removed under the process is survived too, unless AppProjects had been looked up and a source still asks for them (`Barred`) |
| `policy` | `ReadsRecords` | the groups found are those that the records of the text grant a role to, whatever errors come between |
| | `ReadsLineByLine` | if no line leaves a quote open, the groups found are those the lines grant a role to |
| | `OnlyOpenQuotesHide` | otherwise only lines that begin within an open quote, or open one, can be lost |
| | `Terminates` | no error leaves the reader where it was |
| `role_assigner` | `EveryInstanceServed` | each configured instance belongs to exactly one target, which has its principals and its role |
| | `SteadyWantKept` | no pass plans to remove what an owner of these principals has wanted since it was built, also after SIGTERM |
| | `PassesKeepTheirWord` | a pass that ends has left exactly the desired groups, but for pairs in doubt, also when some calls failed and the loop went on |
| | `GaugesTell` | with one target the gauges are right when a pass ends, up to the pairs in doubt |
| | `Converges` | a soundly configured process reaches every owner's set, groups hidden by an answer without an ID left out, and no refused configuration is one an operator would call sound |

`ReadsLineByLine` is stated with its condition because the code has it: a quote that is
not closed makes the reader take the following lines, `g` lines among them, for one
field, and their groups are then unwanted. `README.md:30` of the repository, by which
groups are read from the `g` lines, does not mention it.

One run of each module also checks its `TypeOK`. Every property has a mutant in
`PROJECT.json`, a bug of the kind one would expect in that code (no mutex, a list
that overwrites the other, an unlock that an early return skips, a predicate
without the deletion test, a loop left at the first failure, ...), which breaks it.

Disagreements between the code and its documentation, each shown by a run that
TLC ends with a counterexample (lines are those of `docs/ARCHITECTURE.md` unless named):

| Run | Property | What happens |
|---|---|---|
| `lookup_failure` | `ReferencedGroupRemains` | a failed lookup makes a referenced, existing group undesired, and the same pass removes it (`reconcile_state.go:215-220`; the doc's line 111 has no such exception). The next good pass assigns it again |
| `cached_reply` | `EveryReferenceConverges` | a reply without an ID is cached and never asked for again (`client.go:97-99`), so its group stays unassigned until the process restarts (line 117: retries converge) |
| `graph_other_role` | `RemovesOwnRoleOnly` | a removal deletes the first assignment of the principal whatever its role (`client.go:149-155`; line 111: removal is restricted to the configured role) |
| `graph_second_page` | `OrphansRemoved` | only the first page is read (`client.go:140`, `232`), so an orphan behind it stays (line 111: reconciled away on the next pass) |
| `overlapping_targets` | `UnionKept` | targets are told apart by the text of their service principals (`main.go:290-292`), so one Azure target in lower and in upper case becomes two that remove each other's groups (`values.yaml:51-52`: reconciled as one union) |

`Converges` of StateReconciler leaves out exactly the names hidden by
`cached_reply`, and that of RoleAssigner the groups hidden in the same way; `KeepsContract` and `Converges` of GraphClient hold where nobody
holds two roles and the list fits a page: the instance grants no principal two
roles and has pages larger than the list. These are the conditions under which
the code keeps its promise, and the violation runs show they are needed. In the same
way the properties of RoleAssigner ask for targets that share no principal (`Apart`),
and `overlapping_targets` shows the need. `Converges` of ArgoCDSources leaves out `Barred`:
`README.md:370` of the repository has the controller go on with `argocd-rbac-cm` if the
AppProject CRD is absent, which is so at start-up and not after the CRD is removed under a
process that has listed projects. Every pass fails then, so nothing is removed by mistake,
and nothing is brought up to date either.

### Bounds

* Two controllers: the code has two.
* One or two names and groups: every property speaks of single names and groups;
  two are needed for two spellings of one group (`spellings`), and for a failure
  of one group beside a success of another (the environment of `role_assigner` with
  two groups on one principal, where the mutant that leaves the loop at the first
  failure is found).
* Two service principals where the order of the loops matters.
* One binding of each kind, four subject lists: enough for spelling changes, mixed
  subjects, deletion, replacement, and a reference that moves between the kinds.
* `MaxNotices`, the events on their way to one queue: 2 in `events`. All events are
  alike to the queue, so more only lengthen the wait.
* `PageSize`: 6 holds every assignment; 1 makes a second page with two.
* Argo CD: one name, and two sources that differ in everything a source can have;
  one event under way.
* `MaxLines`, the lines of a policy: up to 3, of fourteen forms. A quote opens on one line,
  is carried by a second and closed by a third; nothing else is carried from line to line.
  The theorems have no such bound.
* `role_assigner`: seventeen environments in four groups. `Alone`: two groups, two principals,
  an empty entry, one principal spelled twice. `Beside`: Argo CD by either form of its
  variables, and instances that share a target in spite of order, duplicates and empty
  entries; where only the wiring matters there are no groups. `Meeting`: targets that meet on
  a principal, and three targets. `Refused`: the eight ways to be refused. Two groups occur
  with one principal only, and one group with two principals: the pairs of a plan are
  treated alike.

No state constraint is used anywhere. Deadlock is checked in every run.

### Fairness

* `StateReconciler`: each controller's worker, its lock and its pass. Every
  return from Reconcile leaves a work item (resync timer or back-off), so a
  worker always starts again; `sync.Mutex` hands over to a waiter that starves;
  a Graph call returns. `Lock` gets weak fairness only, so the model must show the
  mutex really free: when both compete for ever the loser's `Lock` is enabled
  and disabled in turn, and `Converges` does not depend on who wins.
* `BindingWatch`: handlers, workers, passes and back-off, but not the resync
  timer: events have to suffice on their own.
* `GraphClient`: each client's steps.
* `ArgoCDSources`: handlers, the worker, back-off, and the resync timer, which here
  is needed; Kubernetes restarts a pod that ended. The resync period must be
  positive: with `--resync-period=0` controller-runtime does not requeue. The
  same holds for `Start` in StateReconciler.
* `PolicyCSV`: the loop runs.
* `RoleAssigner`: `Startup` (Kubernetes restarts a container), `Exit` of a process that
  got SIGTERM (at the latest by SIGKILL), and each target's pass, whose queue always
  holds the next item. Not `Cancel` and not the end of a running process.

No fairness is asked of the environment. `settled` may become true or not;
properties of the form `<>[](settled => ...)` speak about the behaviours in which it
does. Before that failures may go on for ever, and nothing is promised.

## 4. What is proved

The theorems hold for all values of the constants that satisfy the named assumptions of
their modules. In each of these modules `TypeCorrect` states `Spec => []TypeOK`.

### StateReconcilerProofs

`StateReconcilerProofs.tla`, for any set of controllers, names and groups, any
`ObjectId` and any number of service principals. The assumptions are those of
StateReconciler: `ObjectId` maps names to groups, there is at least one
service principal, and `Free` is no controller.

| Theorem | Statement |
|---|---|
| `TypeCorrect` | `Spec => []TypeOK` |
| `BeliefAlwaysHolds` | `Spec => []BeliefHolds` |
| `SteadyReferencesAreKept` | `Spec => []SteadyReferenceKept` |
| `ImplementsSequential` | `Spec => OnePassAtATime` |

The inductive invariant `IInv` is `TypeOK` and

* `MutexOK`: a controller is inside the critical section exactly when it holds
  the lock. From it follows that at most one controller acts, which is what
  makes another's write impossible between listing and applying;
* `PlanOK`: only an acting pass has a plan, the plan is split by the desired set,
  and it is complete before it is applied. `BeliefHolds` alone does not know
  that an unlisted service principal has no plan yet;
* `CoverOK`: how far a steadily referenced name has come: still in the list, then
  among the candidates, then resolved or missed. `SteadyReferenceKept` speaks only
  of the last stage and is not inductive without the earlier ones;
* `BeliefHolds` itself.

`Init => IInv` and one lemma per group of actions give the first three theorems.
The refinement takes each action to a step of SequentialReconciler under `IInv`:
`DesiredComplete` is `Adopt`, listing is `Read`, a write is `Approach` or
`FailedWrite`, `Finish` is `ReportSuccess` (where `BeliefHolds` supplies the
promised equality), a failing list is `ReportError`, changes made by others are
`OutsideChange`, and everything else stutters.

### BindingWatchProofs

`NoUpdateIsLost`: `Spec => []NoLostUpdate`, for any bindings, subjects, subject lists and
`MaxNotices`. `NoLostUpdate` speaks only of quiet moments; what carries it says for the
others what is still to come. A controller is `Pending` when it will yet read both kinds
from the beginning. The inductive invariant is `TypeOK` and

* `MutexOK`: inside the critical section exactly when holding the lock;
* `QueueOK`: while a pass runs its item is not in the queue unless an event put it
  there, so no delay of an earlier pass is left over to excuse anything;
* `ReadsCovered`: what a pass has read is up to date, or the controller of the kind that
  changed is pending;
* `WantedCovered`: what the last pass wanted is up to date, or somebody is pending or
  in a pass.

The step that decides is an event: `DroppedIsHarmless` shows that an event `Relevant`
drops leaves the groups referenced as they were, and any other makes its controller pending.

### ArgoCDSourcesProofs

`SteadyReferencesAreKept` and `NoUpdateIsLost`, for any sources, objects and number of
events. The first rests on `KeptOK`: `kept` refers only to what is still there, and a group
kept by a source that has been read is in the set read so far. For the second the queue
discipline `QueueOK` and the relation of what has been read to what is there (`Exact`,
or excused by a `Pending` pass: `Covered`) are the analogue of BindingWatch, source by
source, restricted to processes in which every kind has its watch.

### PolicyCSVProofs

For texts of any length, any words and any set of identifiers among them; the assumptions
are that `g` is no identifier, words are no punctuation, and a text that is not empty ends
with the end of a line, which the reader adds where it is missing.

| Theorem | Statement |
|---|---|
| `RecordsAreRead` | `Spec => []ReadsRecords` |
| `LinesAreRead` | `Spec => []ReadsLineByLine` |
| `OnlyOpenQuotesHideLines` | `Spec => []OnlyOpenQuotesHide` |

The last two follow from the first: where the scan is at the start of a field at both ends
of a line, the line is a record. All of the three speak of the end of the loop only. The
inductive invariant is `TypeOK` and

* `BetweenRecords`: before a record, and when done, the groups found are those that the
  records up to here grant, and the position is the end of a record. The one exception is
  the end of the text, where a quote may have been open;
* `InRecord`: within a record that began after `a`, what was found is what the records up to
  `a` grant, and the fields correspond to the `Cuts`, the separators since `a`. A field and
  the stretch between two separators are the `Same` when they contain the same single word,
  if any, and are blank alike, quotes and doubled quotes accounted for. The field is not
  a piece of the text when it was quoted; `Same` is kept by concatenation (`SameConcat`), so
  it is put together along with the field.

What the scan does between two positions that the reader jumps over needs induction over
positions. `NatLessThanWellFounded` and `WFMin` of the library, which take a set and no
operator, give the least element of a set of naturals (`Least`), and with it induction over
an interval, stated for a set of positions (`Climb`). `Scan` is a recursive function;
`ScanIsScanned` shows by `Climb` that it exists and satisfies its equation, and `Stays` that
what every token keeps remains: blanks before a field, plain text, quoted text, and a line
that has gone wrong up to its end.

### GraphClientProofs

`ImplementsContract`: `Spec => KeepsContract` under `OneRoleEach` (nobody can be given two
roles) and `FitsOnePage`, for any number of clients, roles and principals, and any order of
Graph's list. The invariant `Contract` says that only what is grantable is granted, and of
each client that it is `OnTrack`: it adds what it may want, removes holders of its own
role, and the assignment it has found is its own or has been deleted in the meantime.
Each request then maps to a step of AssignmentManager: the list, an assignment, and the
second request of a removal (or a first that finds nothing or fails) to the calls, the
first request to nothing, a restart to `Forget`, anybody else's step to
`OutsideChange`. The runs `graph_other_role` and `graph_second_page` show that neither
assumption can be dropped.

### RoleAssignerProofs

For any environments, list entries, spellings, principals, roles and finite set of groups:

| Theorem | Statement |
|---|---|
| `InstancesAreServed` | `Spec => []EveryInstanceServed` |
| `SteadyWantsAreKept` | `Spec => []SteadyWantKept` |
| `EndedPassesKeptTheirWord` | `Spec => PassesKeepTheirWord` |
| `GaugesTellTheTruth` | `Spec => GaugesTell` |

The inductive invariant is `TypeOK`, `Wired` (a running process has the targets of its
environment) and, where `Apart` holds, `Steady`: per target,

* `RolesAreManaged`: only its own role is granted on its principals, so a removal, which
  does not look at the role, deletes the right assignment;
* `KeptIsDesired`: what has been wanted since the pass was built is desired, unless the
  pass was built on a cancelled context, and then it ends at the list;
* `WordHolds`: outside the plan and the doubts, assigned means desired: the property at
  `Finish` is the case of an empty plan;
* `Counts` and `GaugeHolds`: the groups counted so far lie between those that are
  surely assigned and these with the doubted ones. They are stated for the Kubernetes
  target alone, because the gauges have one writer only then.

### Left to TLC

All liveness (`Converges`, `EventsSuffice`, `Terminates`), for which the provers have no rules
under fairness; the annotations of the forms in MCPolicyCSV; and the five counterexamples.
Every other property of a passing run is a theorem.

## 5. What is not modelled

* The counters and histograms of `internal/metrics`, and log lines: they observe and never
  decide. Error classification therefore has no influence; every Graph error is a failure
  alike. (It takes any message with the word "permission" for a permission error, among
  them Graph's "Permission being assigned already exists", which the client then treats as
  success.) The gauges of the pass are in RoleAssigner.
* Character-level validation of UUIDs: a subject is or is not a managed group.
* Leader election: `Restart` and `Exit` cover a successor; two leaders at once would be two
  processes without a common mutex, which the code leaves to the lease.
* The shape of `ARGOCD_INSTANCES` as JSON: a text that does not parse is one more refusal.
  Flags, health probes and the metrics server.
* Malformed role IDs and service principal IDs other than the empty one, which make every
  pass fail at the list in the same way.
* The fields of an ArgoCD resource or AppProject beyond the names they mention.
* Chart, tofu, workflows, scripts, tests: no part of the running program.

## 6. Plan

Done: all modules of section 2; proofs of the type invariant and of every safety property
that a passing run checks of all six modules.

What could still be added:

1. RoleAssigner refining one StateReconciler per target, which would join the two
   levels formally; today they share the properties and not a mapping.
2. The counters as history of the passes, if they ever steer anything (an alert, a
   back-off).
