# A TLA+ model of the Kubernetes global load balancer operator

The operator (Go, controller-runtime) turns three custom resources into running
HAProxy load balancers: a `GlobalLoadBalancer` becomes a StatefulSet of HAProxy
pods with one ConfigMap, a `Frontend` becomes a Service with an EndpointSlice, a
`Backend` becomes a section of the HAProxy configuration. A monitor scrapes the
HAProxy pods and publishes, per Frontend, which of them see their servers up.
This directory models its control logic and checks it with TLC and TLAPS.

Paths below are relative to `src/`.

## The system and its parts

| Part | State | Operations | Talks to |
|---|---|---|---|
| GlobalLoadBalancer reconciler (`internal/controller/globalloadbalancer_controller.go`) | none of its own; reads informer caches, writes the API server | `Reconcile` = `EnsureHAProxyStatefulSet`, `ReconcileFrontends`, `ReconcileConfig` | API server; the status of Frontends, which the Frontend reconciler reads |
| Port allocation (`GetNextPort`, same file) | none | lowest free port at or above 10240 | called by `ReconcileFrontends` |
| HAProxy StatefulSet (`statefulset.go`) | the StatefulSet | create or overwrite | API server |
| ConfigBuilder (`internal/haproxy/configbuilder.go`) | none | text of the configuration, one key per replica | called by `ReconcileConfig` |
| HAProxyMonitor (`internal/haproxy/haproxymonitor.go`) | `pods`, `scrapeTargets`, `endpointStates` under `stateMu` | informer callbacks, a ticker loop, one goroutine per scrape, `updateHealthManager` | pods over HTTP, HealthManager |
| HealthCache, HealthManager (`internal/haproxy`) | endpoints per Frontend | `Update`, `Get`; a non-blocking send of an event | the Frontend reconciler, through an unbuffered channel and shared memory |
| Frontend reconciler (`internal/controller/frontend_controller.go`) | none of its own | Service, then EndpointSlice | API server, HealthCache |
| PeerServiceWatcher (`internal/watchers`) | none of its own | creates a Peer for each labelled Service | API server |
| `cmd/main.go` | wiring | starts the above | |

What makes them correct:

- *ports and claims*: an assignment never changes, a port is free when given, the
  range of ports does not drift, every selected Frontend is claimed by a load balancer
  that selects it in the end, unless one that is gone, or selects it no more, has
  claimed it before: that claim is never released;
- *configuration*: a pod that may start finds its file, and the file converges to
  the Frontends and Backends that belong to the load balancer;
- *monitor*: states belong to known pods, addresses belong to the states they are
  reported with, the report converges to what running pods see;
- *publication*: HealthCache is the last report; Service and EndpointSlice follow it
  and the Frontend, in spite of dropped events, skipped writes, refused writes and the
  objects of an earlier Frontend of the same name;
- *the whole path*: the slice of a Frontend ends up listing the running pods with
  the health they see;
- *peers*: the Peer of a labelled Service shows its addresses.

What is hard: every read goes through a cache that lags behind the API server,
one object at a time; writes are refused or, worse, skipped because of it; the
informer callbacks, scrapes, ticker and reconcilers run concurrently; events may be
dropped; the operator may stop between any two API calls. `PROJECT.json` lists
each hazard with its line and the properties aimed at it.

## Modules

| Module | Models |
|---|---|
| `FrontendPorts` | `GetNextPort`, as the sort and the loop of the code (`FirstGap`) and as an operator on sets (`NextPort`) |
| `LoadBalancerController` | the GlobalLoadBalancer reconciler, its StatefulSet and ConfigMap |
| `FrontendAssignment` | abstract: what that reconciler promises about claims and ports |
| `ConfigBuilder` | `getBackends` and `BuildConfig`, and how HAProxy reads the result |
| `HealthMonitor` | HAProxyMonitor |
| `HealthPublication` | HealthManager, HealthCache, the event channel, the Frontend reconciler |
| `HealthPipeline` | the composition of the two, from a pod's view to the EndpointSlice |
| `PeerServiceWatcher` | PeerServiceWatcher |
| `FrontendPorts_proofs`, `GetNextPort_proofs`, `LoadBalancerController_proofs`, `ConfigBuilder_proofs`, `HealthMonitor_proofs`, `HealthPublication_proofs`, `HealthPipeline_proofs`, `PeerServiceWatcher_proofs` | theorems and their proofs |
| `MC...` | instances for TLC: constants of the `.cfg` files, and the inputs of pure operators |

Definitions whose name ends in a suffix such as `Merge_OneMore` are deliberate
slips of the definition before the underscore. Substituted for it, each makes TLC
find one of the properties violated; nothing else uses them.

### LoadBalancerController

`frontends`, `statefulSets`, `configMaps` are objects of the API server, `feCache`,
`cmCache`, `stsCache` what the caches show of them. `DeliverFrontend`,
`DeliverConfigMap` and `StatefulSetEvent` bring a cache up to date. A Frontend
carries its resourceVersion; of a ConfigMap the model only keeps whether the cached
version is the current one (`cmFresh`), which is all that is ever compared and keeps
the state space finite although a ConfigMap may be rewritten any number of times.
`loadBalancers` and `backends` stand for the cached objects: only this reconciler
reads them and it never writes them.

The worker is one goroutine (the default `MaxConcurrentReconciles`). A reconcile is

    Reconcile -> EnsureHAProxyStatefulSet -> ReconcileFrontends
      -> AssignFrontend, once per listed Frontend -> ReconcileConfig (second list)
      -> BuildConfig (list of Backends) -> CreateOrUpdateConfigMap

with one action per API call or cache read, so that users, informers and the other
controllers act in between. Error returns are `Requeue`, from every place the code
has one: a refused or failed StatefulSet write, an invalid selector of the load
balancer or of one of its Frontends, a refused or failed ConfigMap write, and the
panic of an assignment to a nil map, which controller-runtime recovers. A refused
status update is not an error: the code logs it and goes on, and so does
`AssignFrontend`. `Restart` loses the worker and the queue and lists the caches.

A configuration is the function from listed Frontends to their selected Backends.
Its text depends on the order of two lists that come from a map iteration, so the
same function may be sent again as another text (`MaySend`).

`FrontendAssignment` is the promise behind all this: a Frontend is created
unassigned, gets a load balancer and a port in one step, from a bounded range, and
keeps both until it is deleted. `AssignmentOf` is the refinement mapping: the status
of the object in the API server. Every step of a worker, a cache or a user has to map
to one of three abstract actions or to none (`ImplementsAssignment`).

### ConfigBuilder

A configuration is a sequence of sections; a `frontend` section has its name, the
port it binds and its rules, a `backend` section its name and servers. `GetBackends`
is the map keyed by the Frontend's name, `LoadBalancerConfig` the loop over the
Frontends, `BuildConfig` the copy per replica behind the two fixed sections.
`NamesAccepted` and `Route` stand for HAProxy: which section names it refuses, and where
the first matching rule sends a connection. `MCConfigBuilder` enumerates the lists, and states
the properties of any list with the server names (`Hosts`) that connections ask for.

### HealthMonitor

An action is one critical section of `stateMu`: a callback (`OnAdd`, `OnUpdate`,
`OnUpdateReplaced` for an update between two UIDs after a relist, `OnDelete`,
`DropTombstone` for a deletion the type assertion of the filter drops), the snapshot
of targets (`Tick`), one decoded metric (`ScrapeMetric`), and `UpdateHealthManager`
after all scrapes have ended, for the Frontends it lists. A scrape answers, fails, or breaks off after some of
its metrics, which are those of the Backends its HAProxy was started with (`proxies`,
`HAProxyStarts`): nothing makes a running HAProxy read a changed ConfigMap. A pod's
address is its UID. `ghosts` is a history variable: the UIDs
whose states may stay for ever, either because the pod was deleted while its scrape
was decoding or because it was replaced in a relist.

### HealthPublication

`Update` is `HealthCache.Update` with its comparison by address (`Changed`),
`SendEvent` the `select` with a `default`, `channel` the goroutine of
controller-runtime at the other end of the unbuffered channel. A reconcile is

    Reconcile -> KeepService | WriteService -> ReadHealth
      -> SkipWrite | WriteSlice

with `WriteServiceFails` and `WriteSliceFails` for the error returns. Each
`CreateOrUpdate` reads an object by its name from the cache, mutates a copy
(`WantedService`; `WantedSlice`, which reads HealthCache) and sends nothing if the copy
is equal (`KeepService`, `SkipWrite`), a create if the cache has no object, and an update
with the cached resourceVersion otherwise, which a stale cache turns into a refusal
(`Refused`).

A Frontend may be created again under its name, with a new UID and later another port.
`SetControllerReference` compares an existing controller reference by group, kind and
name, not by UID, so the Service of the predecessor is no error: the mutation replaces
the UID, and the update takes the Service over, unless the garbage collector
(`CollectService`, `CollectSlice`) was faster; the same for the slice when the Service
was created anew. This is what controller-runtime, which is not in the repository, does,
and the StatefulSet in `LoadBalancerController` is taken over in the same way. The
collector is assumed to delete an object in the version it has judged, so not one that
was taken over in between.

`missed` and `last` are history variables: Frontends whose last change was passed over,
and the last report.

### HealthPipeline

Two INSTANCEs, `Monitor` and `Publication`, over the variables of both; the monitor's
program counter is `ticker`, and edits and faults are bounded together.
`UpdateHealthManager` collects under the lock the endpoints of the Frontends that
exist when it lists them (`Reported`), `HandOver` gives them to `HealthManager.Update` one Frontend at a time,
as a list in any order (`Lists`), and the next tick waits until all are handed over
and announced. `Restart` restarts both. Reports are no input here: they are what the
monitor computed, and `SlicesShowReport` relates the slice to them.

### PeerServiceWatcher

`Observe` is the Service informer, which queues an addition for the handler when the
label filter lets it through; updates and deletions are only logged by the code. The
handler is three actions, `OnAdd` (read of the cached Peer), `Create` and
`UpdateStatus`, each of which may fail and is then given up. The first ingress entry of a
Service counts, also one with a host name and no address, which empties the remote
address; without any entry that address stays. `added` and `lapsed` are
history variables: the Service as it was last added, and the names whose last addition
did not reach the Peer.

## Runs

| Run | Instance | Shows |
|---|---|---|
| `ports` | slices of at most 5 ports out of 0..6, starting port 2 | `ScanIsNextPort`: the loop computes the set form; `LowestFreePort` |
| `claims` | 2 load balancers, 2 Frontends, 2 labels, 2 edits | `PortsBounded`, `AssignmentStable`, `FreshPort`, and the refinement `ImplementsAssignment` |
| `scaling` | 1 load balancer with 0 or 2 replicas or an invalid selector, 2 Frontends, one of them invalid, 2 Backends, 2 edits, 1 fault | `TypeOK`; `ConfigCoversReplicas`; `EmptyConfigMapStays`: a ConfigMap written for no replicas never gets a key, as the assignment to its nil map panics; `EventuallyConfigured` for all others, after failures, restarts and rewrites |
| `progress` | 2 load balancers, 1 Frontend, no owner references, 2 edits | `EventuallyAssigned`: a selected Frontend gets its port and a load balancer that exists and selects it, except an orphaned one (`Orphaned`); `EventuallyConfigured` |
| `config` | every list of at most 3 Frontends of 2 namespaces, 3 names (one of them `stats`), 3 ports, 6 selections of 4 Backends, 3 server names; 2 replicas | `NamesAcceptedIfDisjoint`: exactly when no section name makes HAProxy refuse the file; `RoutesFollowSelection`: where connections go, and that the map keyed by name mixes up only Frontends of one name |
| `monitor` | 2 successive pods of one name, 2 Backends, 3 changes, 1 failed scrape or restart | `TypeOK`, `StatesHaveOwner`, `AddressKnown`, `ReportsConverge` |
| `publication` | 1 Frontend, 2 ports, 2 pods with 3 kinds of report, 2 reports, 1 edit and then a restart, or 1 fault | `TypeOK`, `CacheIsLastReport`; `StaleExplained`: a Frontend without Service and slice of its own, with its port and its health, has a reconcile on its way or a change that was passed over; `EventuallyPublished`: it has both in the end |
| `operator` | 1 pod, 1 Backend, 1 Frontend, 1 change and then a restart, or 1 fault | `SlicesShowReport`: a slice nobody is going to write shows exactly what the monitor last collected, which it would not if a tick overlapped the handing over of the one before; `SlicesFollowHealth`: from the health a pod sees to the slice; `LastEndpointsStay`: a slice is not emptied when the last pod goes |
| `peers` | 1 Service with 2 addresses, 4 changes, 1 fault | `TypeOK`, `PeerFollowsService`, `EventuallyCopied` |

`EmptyConfigMapStays`, `LastEndpointsStay`, what `NamesAcceptedIfDisjoint` requires, and
the exceptions in `EventuallyAssigned`, `PeerFollowsService` and `ReportsConverge`
describe what the code does where no document says what it should do: a user who reads
them knows what to expect.

Three runs end in a violation, each of a statement the repository makes:

- `duplicate_port`: two new Frontends of one pass get the same port. The log line of
  `ReconcileFrontends` (`globalloadbalancer_controller.go:144`) calls the port
  available; line 167 recomputes it from a slice that the loop does not change.
- `null_selector`: the CRD says that a null selector matches no objects; a
  `frontendSelector` that is left out matches all of them.
- `two_namespaces`: `cmd/main.go:66` says that comma-separated namespaces are
  watched; the monitor uses the whole value as one namespace and never reports.

### Bounds

`MaxEdits` bounds changes by users and the cluster, `MaxFaults` failed calls and
restarts, `MaxReports` reports, `MaxReplicas` replicas, `MaxLen` listed Frontends.
Failures that stale caches cause (conflicts, refused creates) are not bounded, and
neither are deliveries, events, garbage collection, resyncs and reconciles. Two edits
let a configuration change and change back while the cache is behind, which is what it
takes for a write to be skipped wrongly; two load balancers and two Frontends are
enough for a race for a claim and for a port. Two pods of one name give the replaced
pod, and scrapes that run side by side when the first one's deletion was dropped. One
edit is enough to replace a Frontend, as getting its port does not count, and the new one
may get either port; of the three kinds of report two have the same pods in another order
with a change of health, and one is refused for its empty address. Three listed Frontends give two
that clash and one that must not be disturbed. In `operator` the single change is a
failed, deleted or restarted pod, a change of health, of a Backend or of the Frontend;
their combinations are the subject of `monitor` and `publication`. Services do not
interact in the watcher, so one is enough. Ports, replicas and Frontends beyond the
bounds of the load balancer runs are covered by the theorems. `SYMMETRY` is used in
safety runs only, over names that the constants do not tell apart. In `publication` and
`operator` the specification of the MC module (`FewFairSpec`, `FewSpec`) lets a change be
followed by no fault but a restart (`FewChanges`). A failed call after a change is left
out as it does what a refused one does, and those are not bounded; a change after a fault
is left out, too, and is covered by the theorems for the safety properties. In
`publication` a Frontend that is there at the start has the port `p1`, which leaves out
nothing but the exchange of the two ports. `operator` has one port only.

The operator always can be resynced or ticked, so deadlock checking stays on; only
`ports` and `config`, which enumerate inputs up to a length, and `peers`, where nothing
happens once the Services stay as they are, may stop.

### Fairness

`FairSpec` assumes that a started reconcile goes on, that each watch delivers what
is behind, that the resync of the informers (10 hours by default) comes again and
again, and that a queued name is not passed over for ever (strong fairness of
`Reconcile`: the work queue is first in, first out, and back-off is finite). For the
monitor: the ticker ticks, a scrape ends (the HTTP client has a timeout of 5
seconds), callbacks run, a scheduled pod gets its address. For the publication:
garbage is collected, and the sender of events, the controller and its event channel take
some step when they can. `HealthPipeline` assumes of its parts that the monitor's loop,
the cluster with its watches, and the controller take some step when they can.
For the peers: the Service watch delivers and the handler runs; the Peer cache may lag
for ever. Nothing is assumed of users, faults, StatefulSet status events, or reports.
Without the resync `EventuallyAssigned` would fail: nothing else announces a new
Frontend without owner.

## Theorems

All in `*_proofs.tla`, for any sets of names, any number of replicas, edits and faults,
from the named assumptions of the modules, all of which TLC evaluates in the runs:
finitely many Frontends (and, in `HealthPipeline`, pods and Backends), bounded replicas,
selectors and owner references of the right type, `""` is not the address of a pod and
`NoFrontend`, `NoPort` and `NoIngress` are none, a report is a list with at least one
endpoint, and the bounds are natural numbers. Every inductive invariant named below was an invariant of a TLC run on
the instance of its component before it was proved.

`FrontendPorts_proofs`: `NextPort` returns a free port (`NextPortIsFree`), the lowest
at or above the starting port when none is used below it (`NextPortIsLowest`), hence
at most the starting port plus the number of used ports (`NextPortIsBounded`). The
argument is that a finite set of naturals has a least element whose successor is not
in it, and everything between the starting port and that element is used. The loop
of the code, on every sorted slice, returns `NextPort` of the set of its ports
(`LoopIsNextPort`): it stops at the first port whose successor is smaller than the next
one of the slice, which is the least port without a successor because the slice is
sorted. That the slice is sorted is `SortSorts`. `Sort` has at place `i` a port that
fewer than `i` ports are below and at least `i` do not exceed; there is one, because the
places that a port accounts for follow those of the ports below it without a gap.

`GetNextPort_proofs`: so `GetNextPort` is what the run `ports` says it is for slices of
any length, order and repetitions and any starting port: `ScanCorrect`
(`ScanIsNextPort`) and `LowestCorrect` (`LowestFreePort`).

`ConfigBuilder_proofs`: both properties of the configuration, for lists of any length of
Frontends with any names, ports and selections.

- `NamesCorrect` (`NamesAcceptedIfDisjoint`) assumes of the list only that no selection
  names a Backend twice, as a List returns an object once.
- `RoutesCorrect` (`RoutesFollowSelection`) assumes nothing but that selections are lists.

The difficulty is the concatenation: what `FlattenSeq` returns is defined by recursion on
the number of lists. `Upwards` is induction as a statement about sets (a set with 1 and
with each successor has all of `1..n`; otherwise there is a least number it lacks), so that
an instance is a set and not an operator. With it `FlattenExists` says that the recursive
function exists, and `FlattenPlaces` that every element of every list gets exactly one
place. `ConfigPlaces` carries this to the configuration (`Laid`): the two fixed sections,
then section `k` of Frontend `i` at `start[i] + k`, no two at one place and nothing else.
Then `NamesAccepted` is a statement about pairs of Frontends and Backends, and for `Route` it is
enough to see which sections bind a port (`OwnPort`) or have a name (`OwnName`), as the
first of them is one of them. `LastOfName` is what the map keyed by name costs: the items
written for a Frontend are those of some Frontend of its name.

`LoadBalancerController_proofs`:

- `TypeCorrect`, from `TypeInv`: `TypeOK` and that a running worker has a request.
- `PortsStayBounded`, `AssignmentsAreStable`, `PortsAreFresh`, from `FrontendInv`.
  `TypeOK` does not say how copies relate to objects. `VersionsCoherent` does: a
  cached or listed copy is never newer than the object and equals it when the
  versions are equal. So an accepted status update writes what the object had, plus
  claim and port, which gives stability and freshness. `PortsInRange` extends the
  bound on ports to all copies, as a port is chosen from copies; with
  `NextPortIsBounded` it is inductive, because a Frontend without a port leaves at
  most one used port fewer than there are Frontends.
- `ReplicasAreCovered`, from `CoverInv`. `Scaled` says that from the StatefulSet
  write to the end of the reconcile the replicas are those of the spec the worker
  holds (or the StatefulSet is gone); `KeysCoherent`, that a cached ConfigMap has no
  key which the object lacks, so that a skipped write is no loss of keys.
- `EmptyConfigMapsStay`, from the same invariant: a cached copy of an empty ConfigMap
  is empty, too, or absent, so the pass either panics or tries to create what exists.
- `ControllerImplementsAssignment`, the refinement, from
  `AssignmentInv`. It adds `Paired` to `FrontendInv`, that a Frontend has a load balancer
  exactly if it has a port. An accepted status update carries the current version, so by
  `VersionsCoherent` the copy is the object: if it was assigned, claim and port are
  written as they were (a stutter), and if not, both are set, with a port in the range of
  `PortsInRange` (`Assign`). Creation and deletion map to their abstract actions, every
  other step leaves the mapping alone.

`HealthMonitor_proofs`:

- `TypeCorrect`: `TypeOK` is inductive; that a report is a set of endpoints needs that
  `Collected` takes only states that were decoded.
- `OwnedStates` (`StatesHaveOwner`) and `AddressesKnown` (`AddressKnown`), from `IInv`.
  Neither is inductive: a scrape writes states without looking at `pods`, so what is
  needed is a statement about scrapes. `ScrapesHaveOwner` says that a scrape which
  decodes is that of a known pod or of a ghost, and that one which still dials is that of
  a known pod or of one that can no longer answer. `Watched` ties `pods` to what the
  informer showed and to the pod's life in the cluster, `Scraped` says that only pods
  with an address are scraped. For addresses, `StatesAddressed`: a state of a pod that is
  not among the targets of the tick belongs to a pod that failed or is gone, since a pod
  never loses its address otherwise.

`HealthPublication_proofs`:

- `TypeCorrect`, from `TypeInv`. `TypeOK` says that what is cached, wanted and published
  is a report as the monitor made it.
- `CacheFollowsReports` (`CacheIsLastReport`), from the lemma `UnchangedIsSame`: a list
  without repeated addresses that `HealthCache.Update` takes for unchanged has the same
  endpoints as the one stored. The code compares lengths and looks up every new address;
  that this is enough is a counting argument. It gives even that the stored list cannot
  repeat an address then (`OldDistinct`), so only the last report needs distinct addresses.
- `NoChangeLost` (`StaleExplained`), from `IInv`. `StaleExplained` is part of it, with
  three statements about what a reconcile and the caches hold. `ServiceOfFrontend`: a
  Service is owned by the Frontend of its name or a predecessor, and one that is owned by
  the Frontend there is has its port and is in the cache as it is, if it is there with
  that owner, so that it needs no write and is not collected. `RequestCurrent`: the owner
  and port a reconcile holds are still those of the Frontend, and later of its Service,
  or the Frontend is queued again; no Service is of a later Frontend than the one a
  reconcile has read. `WantCurrent`: a change which comes after a reconcile has read
  HealthCache is announced, queued or counted as passed over.
- `EndpointsStay`, used by the composition, from `Kept`: until a fault, HealthCache has
  endpoints of every Frontend whose slice has, and a reconcile about to write holds
  endpoints if the slice does.
- Both this and the monitor's invariant are shown inductive for a wider step relation
  (`Step`): the number of reports is not bounded here, and `updateHealthManager` may list
  any of the Frontends there. `NextIsStep` says that `Next` is such a step. The composition
  needs it: its Frontends come and go, and it reports as often as the monitor ticks.

`PeerServiceWatcher_proofs`: `TypeCorrect`, and `PeersFollow` (`PeerFollowsService`), from
`LastAddition` (of the additions of a name that are queued or handled, the last one carries
the Service as it was last added) and `AdditionsArrive` (an addition that is over and did
not lapse is in the Peer, whatever became of the Service meanwhile).

`HealthPipeline_proofs`:

- `SlicesNotEmptied` (`LastEndpointsStay`). `OutboxFilled`: what has yet to be handed over
  is not empty and finite, so that it has a list and the list is not `<<>>`, and no tick
  starts before. The rest is the publication's `EndpointsStay`.
- `MonitorInPipeline`: `StatesHaveOwner` and `AddressKnown` hold of the monitor in the
  composition. Every step of the pipeline is a step of `HealthMonitor` or leaves its
  variables alone except for the shared bounds (`MonitorImplemented`), so its inductive
  invariant carries over.
- `PublicationInPipeline`: the publication's `StaleExplained` and `CacheIsLastReport`
  hold in the composition, in the same way. `ListsComplete` shows that what is handed
  over, the endpoints of a map iteration, is a report in the sense of `HealthPublication`.
- `SlicesFollowReports` (`SlicesShowReport`), from `PipelineInv`, which joins the invariants
  of both parts with `LastIsReport`: the last report of a Frontend, as HealthCache got it,
  lists exactly what `updateHealthManager` last collected, unless that is still to be handed
  over. It is inductive because a tick waits for the handing over (`OutboxFilled`). With
  distinct addresses HealthCache then has these endpoints (`CacheIsLastReport`), and so has
  the slice (`StaleExplained`).

With this every invariant and action property of the passing runs is a theorem, and the
refinement of `FrontendAssignment`.

Only model-checked is liveness (`EventuallyAssigned`, `EventuallyConfigured`,
`ReportsConverge`, `EventuallyPublished`, `SlicesFollowHealth`, `EventuallyCopied`):
fairness and ENABLED are outside the reach of the prover.

## Not modelled

- The wording of the configuration: timeouts, logging, health check options. Host names
  are compared as they are, not without regard to case. What makes HAProxy refuse a
  configuration other than its section names: a server name twice in a backend, a port out
  of range, an empty host or address.
- The ConfigMap on its way to HAProxy: the kubelet's refresh of the mounted file is not
  modelled, and the operator neither reloads HAProxy nor restarts pods.
- In `HealthPublication` a Frontend is the cached object, so the garbage collector acts
  after the cache has seen a deletion. Users and other controllers do not write Services
  or EndpointSlices of Frontends.
- Several namespaces, except for the list of the monitor and the configuration.
- Pods of several load balancers in the monitor, which selects all of them by one label.
- A StatefulSet collected after its load balancer was already created again: in the
  model the new load balancer takes it over.
- Edits of Frontend and Backend specs other than existence, labels and health; the
  annotations and `spec.service.port` a Service copies from its Frontend.
- Peers are never removed by the operator and nothing in the repository reads them.
- The pod template, flags, TLS, metrics, leader election (one active manager is
  assumed), generated deepcopy code, manifests, tests.
- Address reuse between pods; the 16-bit range of ports, which the code ignores.

## Plan

1. Done: ports, the GlobalLoadBalancer reconciler with its theorems and its abstract
   specification, the configuration, the monitor, the publication path with garbage
   collection, their composition, the peers.
2. Done: theorems about the monitor, the publication, the peers, the loop of
   `GetNextPort`, and about the composition that no slice is emptied and that the
   monitor's invariants carry over.
3. Done: the whole of `GetNextPort` and of the configuration for lists of any length; the
   publication's invariants in the composition, and the slice of a Frontend related to
   what the monitor collected for it.
4. Open: pods of several load balancers in one monitor, should the repository say what is
   to hold for them; the mounted ConfigMap, should the operator come to reload HAProxy.
