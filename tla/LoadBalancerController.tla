----------------------- MODULE LoadBalancerController -----------------------
(***************************************************************************)
(* The GlobalLoadBalancer reconciler                                       *)
(* (internal/controller/globalloadbalancer_controller.go, statefulset.go)  *)
(* against the Kubernetes API server it reads through informer caches.     *)
(*                                                                         *)
(* API objects: frontends, statefulSets, configMaps.  Informer caches:     *)
(* feCache, cmCache and stsCache; an object is delivered to a cache on its *)
(* own, some time after it changed.  loadBalancers and backends stand for  *)
(* the cached objects themselves: nothing but this reconciler reads them   *)
(* and it never writes them, so a late delivery is a late edit.            *)
(*                                                                         *)
(* One worker (MaxConcurrentReconciles is 1) takes a name from the work    *)
(* queue and runs Reconcile, one action per call to the API server or read *)
(* of a cache.  An error puts the name back in the queue.                  *)
(***************************************************************************)
EXTENDS FrontendPorts

CONSTANTS
    LBs,              \* names of GlobalLoadBalancers
    NoLB,             \* a nil Status.LoadBalancer, no controller owner
    Frontends,        \* names of Frontends
    Backends,         \* names of Backends
    Labels,           \* label sets a Frontend may carry
    NullSelector,     \* spec.frontendSelector left out of the manifest
    InvalidSelector,  \* a selector LabelSelectorAsSelector refuses
    MaxReplicas,      \* bound on spec.replicas
    LBSpecs,          \* the specs users write: [selector, replicas]
    NoSpec,           \* the GlobalLoadBalancer does not exist
    BackendSelector,  \* Frontend -> the Backends its selector matches
    ControllerOf,     \* Frontend or Backend -> its controller owner, or NoLB
    StartingPort,     \* GlobalLoadBalancerReconciler.StartingPort
    MaxEdits,         \* bound on edits by users
    MaxFaults         \* bound on failed calls and operator restarts

Selectors == Labels \cup {NullSelector, InvalidSelector}

ASSUME NoLBAssumption == NoLB \notin LBs
ASSUME FrontendsAssumption == IsFiniteSet(Frontends)
ASSUME SpecsAssumption ==
    /\ MaxReplicas \in Nat
    /\ LBSpecs \subseteq [selector : Selectors, replicas : 0..MaxReplicas]
    /\ NoSpec \notin LBSpecs
ASSUME SelectorAssumption ==
    /\ BackendSelector \in [Frontends -> (SUBSET Backends) \cup {InvalidSelector}]
    /\ ControllerOf \in [Frontends \cup Backends -> LBs \cup {NoLB}]
ASSUME NumbersAssumption ==
    StartingPort \in Nat /\ MaxEdits \in Nat /\ MaxFaults \in Nat

VARIABLES
    loadBalancers,  \* GlobalLoadBalancer -> its spec, or NoSpec
    frontends,      \* Frontend -> the object in the API server
    feCache,        \* Frontend -> the object in the informer cache
    backends,       \* the Backends that exist
    statefulSets,   \* GlobalLoadBalancer -> replicas of its StatefulSet, or NoSts
    configMaps,     \* GlobalLoadBalancer -> its ConfigMap in the API server
    cmCache,        \* GlobalLoadBalancer -> its ConfigMap in the cache
    cmFresh,        \* those whose cached ConfigMap has the current version
    stsCache,       \* those whose StatefulSet is in the cache
    queue,          \* names in the controller's work queue
    pc,             \* where the worker is
    req,            \* the request it reconciles
    lb,             \* the spec Reconcile read
    view,           \* the Frontends getFrontends returned
    todo,           \* those the loop of ReconcileFrontends has yet to visit
    config,         \* what BuildConfig computed: Frontend -> its Backends
    edits, faults

apiVars    == <<loadBalancers, frontends, backends, statefulSets, configMaps>>
cacheVars  == <<feCache, cmCache, cmFresh, stsCache>>
workerVars == <<pc, req, lb, view, todo, config>>
vars       == <<apiVars, cacheVars, queue, workerVars, edits, faults>>

NoSts == -1
Pods  == 0..(MaxReplicas - 1)

\* A Frontend; rv is its resourceVersion, which grows with every write and is
\* not reused when a Frontend of the same name is created again.
FrontendObj == [phase : {"absent", "present"}, rv : Nat, label : Labels,
                lb : LBs \cup {NoLB}, port : Ports]

\* A partial function from S to T.
IsMap(m, S, T) == DOMAIN m \subseteq S /\ m \in [DOMAIN m -> T]

IsConfig(c) == IsMap(c, Frontends, SUBSET Backends)

\* A ConfigMap; data maps the ordinal of a pod to the configuration under its
\* key.  Empty data is read back as a nil map.
IsConfigMap(m) ==
    /\ m = [phase |-> m.phase, data |-> m.data]
    /\ m.phase \in {"absent", "present"}
    /\ DOMAIN m.data \subseteq Pods
    /\ \A i \in DOMAIN m.data : IsConfig(m.data[i])

EmptyMap == [x \in {} |-> x]

TypeOK ==
    /\ loadBalancers \in [LBs -> LBSpecs \cup {NoSpec}]
    /\ frontends \in [Frontends -> FrontendObj]
    /\ feCache \in [Frontends -> FrontendObj]
    /\ backends \in SUBSET Backends
    /\ statefulSets \in [LBs -> 0..MaxReplicas \cup {NoSts}]
    /\ DOMAIN configMaps = LBs /\ \A l \in LBs : IsConfigMap(configMaps[l])
    /\ DOMAIN cmCache = LBs /\ \A l \in LBs : IsConfigMap(cmCache[l])
    /\ cmFresh \in SUBSET LBs
    /\ stsCache \in SUBSET LBs
    /\ queue \in SUBSET LBs
    /\ pc \in {"idle", "statefulset", "frontends", "assign", "backends", "configmap"}
    /\ req \in LBs \cup {NoLB}
    /\ lb \in LBSpecs \cup {NoSpec}
    /\ IsMap(view, Frontends, FrontendObj)
    /\ todo \in SUBSET DOMAIN view
    /\ IsConfig(config)
    /\ edits \in 0..MaxEdits
    /\ faults \in 0..MaxFaults

-----------------------------------------------------------------------------
\* Every GlobalLoadBalancer the user wrote is queued when the operator starts.
Init ==
    /\ loadBalancers \in [LBs -> LBSpecs \cup {NoSpec}]
    /\ frontends \in [Frontends -> [phase : {"absent", "present"}, rv : {0},
                                    label : Labels, lb : {NoLB}, port : {NoPort}]]
    /\ feCache = frontends
    /\ backends \in SUBSET Backends
    /\ statefulSets = [l \in LBs |-> NoSts]
    /\ configMaps = [l \in LBs |-> [phase |-> "absent", data |-> EmptyMap]]
    /\ cmCache = configMaps
    /\ cmFresh = LBs
    /\ stsCache = {}
    /\ queue = {l \in LBs : loadBalancers[l] # NoSpec}
    /\ pc = "idle"
    /\ req = NoLB
    /\ lb = NoSpec
    /\ view = EmptyMap
    /\ todo = {}
    /\ config = EmptyMap
    /\ edits = 0
    /\ faults = 0

-----------------------------------------------------------------------------
(* Edits by users. *)

Edit == edits < MaxEdits /\ edits' = edits + 1

\* Create, change or delete a GlobalLoadBalancer; the event enqueues it.
EditLoadBalancer(l) ==
    /\ Edit
    /\ \E spec \in LBSpecs \cup {NoSpec} :
          /\ spec # loadBalancers[l]
          /\ loadBalancers' = [loadBalancers EXCEPT ![l] = spec]
    /\ queue' = queue \cup {l}
    /\ UNCHANGED <<frontends, backends, statefulSets, configMaps, cacheVars,
                   workerVars, faults>>

WriteFrontend(f, object) ==
    frontends' = [frontends EXCEPT ![f] = [object EXCEPT !.rv = frontends[f].rv + 1]]

CreateFrontend(f) ==
    /\ Edit
    /\ frontends[f].phase = "absent"
    /\ \E label \in Labels :
          WriteFrontend(f, [phase |-> "present", rv |-> 0, label |-> label,
                            lb |-> NoLB, port |-> NoPort])
    /\ UNCHANGED <<loadBalancers, backends, statefulSets, configMaps, cacheVars,
                   queue, workerVars, faults>>

RelabelFrontend(f) ==
    /\ Edit
    /\ frontends[f].phase = "present"
    /\ \E label \in Labels \ {frontends[f].label} :
          WriteFrontend(f, [frontends[f] EXCEPT !.label = label])
    /\ UNCHANGED <<loadBalancers, backends, statefulSets, configMaps, cacheVars,
                   queue, workerVars, faults>>

DeleteFrontend(f) ==
    /\ Edit
    /\ frontends[f].phase = "present"
    /\ WriteFrontend(f, [frontends[f] EXCEPT !.phase = "absent"])
    /\ UNCHANGED <<loadBalancers, backends, statefulSets, configMaps, cacheVars,
                   queue, workerVars, faults>>

\* Owns: an event on an object enqueues the GlobalLoadBalancer its controller
\* owner reference names.  The operator itself sets none on these two kinds.
EnqueueOwner(object) == queue' = queue \cup ({ControllerOf[object]} \ {NoLB})

\* Create or delete a Backend.
EditBackend(b) ==
    /\ Edit
    /\ backends' = IF b \in backends THEN backends \ {b} ELSE backends \cup {b}
    /\ EnqueueOwner(b)
    /\ UNCHANGED <<loadBalancers, frontends, statefulSets, configMaps, cacheVars,
                   workerVars, faults>>

-----------------------------------------------------------------------------
(* Informers and the garbage collector. *)

DeliverFrontend(f) ==
    /\ feCache[f] # frontends[f]
    /\ feCache' = [feCache EXCEPT ![f] = frontends[f]]
    /\ EnqueueOwner(f)
    /\ UNCHANGED <<apiVars, cmCache, cmFresh, stsCache, workerVars, edits, faults>>

\* ConfigMaps are read through the cache but no controller watches them.
DeliverConfigMap(l) ==
    /\ l \notin cmFresh
    /\ cmCache' = [cmCache EXCEPT ![l] = configMaps[l]]
    /\ cmFresh' = cmFresh \cup {l}
    /\ UNCHANGED <<apiVars, feCache, stsCache, queue, workerVars, edits, faults>>

StatefulSetsThere == {l \in LBs : statefulSets[l] # NoSts}

\* A StatefulSet is created, deleted, or its status changes, as it does whenever
\* one of its pods does.
StatefulSetEvent(l) ==
    /\ l \in StatefulSetsThere \cup stsCache
    /\ stsCache' = (stsCache \ {l}) \cup ({l} \cap StatefulSetsThere)
    /\ queue' = queue \cup {l}
    /\ UNCHANGED <<apiVars, feCache, cmCache, cmFresh, workerVars, edits, faults>>

\* The StatefulSet carries a controller reference, so it goes with its owner,
\* unless another of the same name has taken it over before.
CollectStatefulSet(l) ==
    /\ loadBalancers[l] = NoSpec
    /\ l \in StatefulSetsThere
    /\ statefulSets' = [statefulSets EXCEPT ![l] = NoSts]
    /\ UNCHANGED <<loadBalancers, frontends, backends, configMaps, cacheVars, queue,
                   workerVars, edits, faults>>

Live == {l \in LBs : loadBalancers[l] # NoSpec}

\* The periodic resync of the GlobalLoadBalancer informer.
Resync ==
    /\ queue' = queue \cup Live
    /\ UNCHANGED <<apiVars, cacheVars, workerVars, edits, faults>>

-----------------------------------------------------------------------------
(* Plausible slips in the definitions of the worker below. *)

StatusUpdateAccepted_NoConflict(f) == frontends[f].phase = "present"

GetFrontends_OnlyOwned(l, spec) ==
    {f \in Frontends : /\ feCache[f].phase = "present"
                       /\ spec.selector \in {NullSelector, feCache[f].label}
                       /\ feCache[f].lb = l}

GetFrontends_AnyOwner(l, spec) ==
    {f \in Frontends : /\ feCache[f].phase = "present"
                       /\ spec.selector \in {NullSelector, feCache[f].label}}

\* A Frontend is claimed in one pass and given its port in the next.
Assigned_ClaimFirst(f) ==
    [view[f] EXCEPT !.lb   = IF @ = NoLB THEN req ELSE @,
                    !.port = IF @ = NoPort /\ view[f].lb # NoLB
                             THEN NextPort({view[g].port : g \in DOMAIN view} \ {NoPort},
                                           StartingPort)
                             ELSE @]

\* The mutation makes the map when it is nil.
NilMapPanic_Never(l) == FALSE

\* One replica too many.
Merge_OneMore(data) ==
    [i \in DOMAIN data \cup 0..lb.replicas |->
        IF i <= lb.replicas THEN config ELSE data[i]]

\* Keys that are there already are not overwritten.
Merge_KeepsOld(data) ==
    [i \in DOMAIN data \cup 0..(lb.replicas - 1) |->
        IF i \in DOMAIN data THEN data[i] ELSE config]

\* The error is logged and not returned.
Requeue_Swallowed ==
    /\ queue' = queue
    /\ pc' = "idle"
    /\ req' = NoLB
    /\ lb' = NoSpec
    /\ view' = EmptyMap
    /\ todo' = {}
    /\ config' = EmptyMap

-----------------------------------------------------------------------------
(* The worker. *)

Return ==
    /\ pc' = "idle"
    /\ req' = NoLB
    /\ lb' = NoSpec
    /\ view' = EmptyMap
    /\ todo' = {}
    /\ config' = EmptyMap

\* Reconcile returns an error, or panics and is recovered: the request is
\* queued again.
Requeue == Return /\ queue' = queue \cup {req}

Done == Return /\ queue' = queue

\* A call to the API server fails for a reason outside the model.
Fault == faults < MaxFaults /\ faults' = faults + 1

NoFault == faults' = faults

\* Reconcile: take a request and read the GlobalLoadBalancer; a deleted one
\* is ignored.
Reconcile(l) ==
    /\ pc = "idle"
    /\ l \in queue
    /\ queue' = queue \ {l}
    /\ IF loadBalancers[l] = NoSpec
       THEN UNCHANGED workerVars
       ELSE /\ pc' = "statefulset"
            /\ req' = l
            /\ lb' = loadBalancers[l]
            /\ UNCHANGED <<view, todo, config>>
    /\ UNCHANGED <<apiVars, cacheVars, edits, faults>>

\* EnsureHAProxyStatefulSet: create the StatefulSet or overwrite it.  The
\* mutation drops the resourceVersion, so an update never conflicts; but what
\* the cache lacks is created, and that fails if it exists.
CacheKnows(l) == l \in stsCache <=> l \in StatefulSetsThere

EnsureHAProxyStatefulSet ==
    /\ pc = "statefulset"
    /\ CacheKnows(req)
    /\ statefulSets' = [statefulSets EXCEPT ![req] = lb.replicas]
    /\ pc' = "frontends"
    /\ UNCHANGED <<loadBalancers, frontends, backends, configMaps, cacheVars,
                   queue, req, lb, view, todo, config, edits, faults>>

EnsureHAProxyStatefulSetFails ==
    /\ pc = "statefulset"
    /\ IF CacheKnows(req) THEN Fault ELSE NoFault
    /\ Requeue
    /\ UNCHANGED <<apiVars, cacheVars, edits>>

\* getFrontends(onlyOwned = false): the cached Frontends the selector matches
\* that no other GlobalLoadBalancer has claimed.  FrontendSelector is a struct,
\* not a pointer: left out, it is the empty selector, which matches everything.
GetFrontends(l, spec) ==
    {f \in Frontends : /\ feCache[f].phase = "present"
                       /\ spec.selector \in {NullSelector, feCache[f].label}
                       /\ feCache[f].lb \in {NoLB, l}}

\* ReconcileFrontends up to its loop.
ReconcileFrontends ==
    /\ pc = "frontends"
    /\ IF lb.selector = InvalidSelector
       THEN Requeue
       ELSE /\ view' = [f \in GetFrontends(req, lb) |-> feCache[f]]
            /\ todo' = DOMAIN view'
            /\ pc' = "assign"
            /\ UNCHANGED <<queue, req, lb, config>>
    /\ UNCHANGED <<apiVars, cacheVars, edits, faults>>

UsedPorts == {view[g].port : g \in DOMAIN view} \ {NoPort}

\* The Frontend the loop body sends: claimed, with a port.  The loop variable
\* is a copy and GetNextPort is given the unchanged slice each time, so every
\* Frontend without a port gets the same one in this pass.
Assigned(f) ==
    [view[f] EXCEPT !.lb   = IF @ = NoLB THEN req ELSE @,
                    !.port = IF @ = NoPort THEN NextPort(UsedPorts, StartingPort)
                             ELSE @]

\* The API server takes a status update only for the version it was read at.
StatusUpdateAccepted(f) ==
    frontends[f].phase = "present" /\ frontends[f].rv = view[f].rv

\* One round of the loop of ReconcileFrontends.  The order of the slice is
\* that of the cache's map.  A refused update is logged and skipped.
AssignFrontend(f) ==
    /\ pc = "assign"
    /\ f \in todo
    /\ todo' = todo \ {f}
    /\ \/ /\ Assigned(f) = view[f]
          /\ UNCHANGED <<frontends, faults>>
       \/ /\ Assigned(f) # view[f]
          /\ StatusUpdateAccepted(f)
          /\ frontends' = [frontends EXCEPT ![f].lb   = Assigned(f).lb,
                                            ![f].port = Assigned(f).port,
                                            ![f].rv   = @ + 1]
          /\ NoFault
       \/ /\ Assigned(f) # view[f]
          /\ IF StatusUpdateAccepted(f) THEN Fault ELSE NoFault
          /\ UNCHANGED frontends
    /\ UNCHANGED <<loadBalancers, backends, statefulSets, configMaps, cacheVars,
                   queue, pc, req, lb, view, config, edits>>

\* ReconcileConfig lists the Frontends anew, from the cache ...
ReconcileConfig ==
    /\ pc = "assign"
    /\ todo = {}
    /\ view' = [f \in GetFrontends(req, lb) |-> feCache[f]]
    /\ pc' = "backends"
    /\ UNCHANGED <<apiVars, cacheVars, queue, req, lb, todo, config, edits, faults>>

\* ... then the Backends of each (getBackends), and builds the configuration.
\* One Frontend with an invalid selector fails the whole GlobalLoadBalancer.
GetBackends == [f \in DOMAIN view |-> BackendSelector[f] \cap backends]

BuildConfig ==
    /\ pc = "backends"
    /\ IF \E f \in DOMAIN view : BackendSelector[f] = InvalidSelector
       THEN Requeue
       ELSE /\ config' = GetBackends
            /\ pc' = "configmap"
            /\ UNCHANGED <<queue, req, lb, view, todo>>
    /\ UNCHANGED <<apiVars, cacheVars, edits, faults>>

\* The keys of pods the mutation sets, over those of the object it was given.
Merge(data) ==
    [i \in DOMAIN data \cup 0..(lb.replicas - 1) |->
        IF i < lb.replicas THEN config ELSE data[i]]

\* What CreateOrUpdate does with the ConfigMap: assigning to a nil map panics;
\* nothing is sent when the cached object would not change; create and update
\* are refused when the cache is behind the API server.
NilMapPanic(l) ==
    cmCache[l].phase = "present" /\ DOMAIN cmCache[l].data = {} /\ lb.replicas > 0

MustSend(l) ==
    cmCache[l].phase = "absent" \/ Merge(cmCache[l].data) # cmCache[l].data

\* Lists come from the cache in the order of a map iteration: two elements in
\* another order make another text, which is sent though it means the same.
MaySend(l) ==
    \/ MustSend(l)
    \/ /\ lb.replicas > 0
       /\ \/ Cardinality(DOMAIN config) > 1
          \/ \E f \in DOMAIN config : Cardinality(config[f]) > 1

CreateOrUpdateConfigMap ==
    /\ pc = "configmap"
    /\ ~NilMapPanic(req)
    /\ \/ /\ MaySend(req)
          /\ req \in cmFresh
          /\ configMaps' = [configMaps EXCEPT
                ![req] = [phase |-> "present", data |-> Merge(cmCache[req].data)]]
          /\ cmFresh' = cmFresh \ {req}
       \/ /\ ~MustSend(req)
          /\ UNCHANGED <<configMaps, cmFresh>>
    /\ Done
    /\ UNCHANGED <<loadBalancers, frontends, backends, statefulSets, feCache, cmCache,
                   stsCache, edits, faults>>

CreateOrUpdateConfigMapFails ==
    /\ pc = "configmap"
    /\ \/ NilMapPanic(req) /\ NoFault
       \/ /\ ~NilMapPanic(req) /\ MaySend(req)
          /\ IF req \in cmFresh THEN Fault ELSE NoFault
    /\ Requeue
    /\ UNCHANGED <<apiVars, cacheVars, edits>>

\* The operator stops and starts again: caches are listed, every existing
\* GlobalLoadBalancer is queued.
Restart ==
    /\ Fault
    /\ Return
    /\ queue' = Live
    /\ feCache' = frontends
    /\ cmCache' = configMaps
    /\ cmFresh' = LBs
    /\ stsCache' = StatefulSetsThere
    /\ UNCHANGED <<apiVars, edits>>

-----------------------------------------------------------------------------
Users ==
    \/ \E l \in LBs : EditLoadBalancer(l)
    \/ \E f \in Frontends :
          CreateFrontend(f) \/ RelabelFrontend(f) \/ DeleteFrontend(f)
    \/ \E b \in Backends : EditBackend(b)

Cluster ==
    \/ \E f \in Frontends : DeliverFrontend(f)
    \/ \E l \in LBs : DeliverConfigMap(l) \/ StatefulSetEvent(l) \/ CollectStatefulSet(l)
    \/ Resync

Worker ==
    \/ EnsureHAProxyStatefulSet
    \/ EnsureHAProxyStatefulSetFails
    \/ ReconcileFrontends
    \/ \E f \in Frontends : AssignFrontend(f)
    \/ ReconcileConfig
    \/ BuildConfig
    \/ CreateOrUpdateConfigMap
    \/ CreateOrUpdateConfigMapFails

Next == Users \/ Cluster \/ (\E l \in LBs : Reconcile(l)) \/ Worker \/ Restart

Spec == Init /\ [][Next]_vars

\* A reconcile that has started goes on; watches deliver; the resync period
\* elapses again and again; the work queue is first in, first out, so a queued
\* name is not passed over for ever.
Fairness ==
    /\ WF_vars(Worker)
    /\ \A l \in LBs : /\ SF_vars(Reconcile(l))
                      /\ WF_vars(DeliverConfigMap(l))
                      /\ WF_vars(~CacheKnows(l) /\ StatefulSetEvent(l))
    /\ \A f \in Frontends : WF_vars(DeliverFrontend(f))
    /\ WF_vars(Resync)

FairSpec == Spec /\ Fairness

-----------------------------------------------------------------------------
(* Properties. *)

\* Ports stay within the number of Frontends of the starting port: gaps that
\* deleted Frontends leave are reused however long the operator runs, and
\* whatever the cache showed when a port was chosen (ReconcileFrontends,
\* GetNextPort).
PortsBounded ==
    \A f \in Frontends :
        frontends[f].port # NoPort =>
            frontends[f].port \in StartingPort..(StartingPort + Cardinality(Frontends) - 1)

\* What a user sees of a Frontend.
AssignmentOf(f) ==
    IF frontends[f].phase = "present"
    THEN [there |-> TRUE, lb |-> frontends[f].lb, port |-> frontends[f].port]
    ELSE [there |-> FALSE, lb |-> NoLB, port |-> NoPort]

Assignment == INSTANCE FrontendAssignment WITH
    PortRange  <- StartingPort..(StartingPort + Cardinality(Frontends) - 1),
    assignment <- [f \in Frontends |-> AssignmentOf(f)]

\* The reconciler, with its caches, versions, conflicts, retries and restarts,
\* implements FrontendAssignment: a Frontend is claimed and numbered in one
\* step, once, from the range of ports, and no other Frontend changes in that
\* step (ReconcileFrontends).
ImplementsAssignment == Assignment!Spec

SameFrontend(f) == frontends[f].phase = "present" /\ frontends'[f].phase = "present"

\* While a Frontend exists its load balancer and port, once set, never change:
\* no second GlobalLoadBalancer takes it over and no later pass renumbers it,
\* however stale the list was that ReconcileFrontends worked from.
AssignmentStable ==
    [][\A f \in Frontends : SameFrontend(f) =>
          /\ frontends[f].lb # NoLB => frontends'[f].lb = frontends[f].lb
          /\ frontends[f].port # NoPort => frontends'[f].port = frontends[f].port]_vars

GivenPort(f) == frontends[f].port = NoPort /\ frontends'[f].port # NoPort

\* A port ReconcileFrontends gives to a Frontend clashes with the port another
\* Frontend has only if the pass did not see that Frontend as it is now: it
\* was given its port since, or was not in the list.
FreshPort ==
    [][\A f, g \in Frontends :
          (GivenPort(f) /\ f # g /\ g \in DOMAIN view /\ view[g].rv = frontends[g].rv)
             => frontends'[f].port # frontends[g].port]_vars

Pending(l) == l \in queue \/ (pc # "idle" /\ req = l)

\* Every pod the StatefulSet may start finds its key in the ConfigMap
\* (the container's argument is /etc/haproxy/static/$(POD_NAME).cfg), unless a
\* reconcile of the GlobalLoadBalancer is queued or under way: the StatefulSet
\* is scaled first, and none of the errors after that is forgotten.
ConfigCoversReplicas ==
    \A l \in Live : \A i \in Pods :
        (i < statefulSets[l] /\ ~Pending(l)) => i \in DOMAIN configMaps[l].data

NeverFilled(l) == configMaps[l].phase = "present" /\ DOMAIN configMaps[l].data = {}

\* A ConfigMap first written for no replicas stays empty: its nil map makes
\* every later pass panic, whatever the user edits and however often the
\* operator restarts, so pods of a load balancer scaled up from zero never get
\* a configuration (ReconcileConfig assigns to cm.Data only made on create).
EmptyConfigMapStays ==
    [][\A l \in LBs : NeverFilled(l) => NeverFilled(l)']_vars

Selects(l, f) ==
    /\ l \in Live
    /\ frontends[f].phase = "present"
    /\ loadBalancers[l].selector \in {NullSelector, frontends[f].label}

\* A Frontend whose claim is of no use to it: the GlobalLoadBalancer that holds
\* it is gone, or selects the Frontend no more.  getFrontends leaves it out for
\* every other one, so it is configured nowhere, whoever selects it.
Orphaned(f) ==
    \E l \in LBs : frontends[f].lb = l /\ ~Selects(l, f)

\* Every Frontend that some GlobalLoadBalancer keeps selecting ends up with a
\* port and claimed by one that exists and selects it, though nothing but the
\* resync announces a new Frontend without owner and a refused status update is
\* not retried.  Left out: an orphaned Frontend, whose claim is never released.
EventuallyAssigned ==
    \A f \in Frontends :
        <>[](((\E l \in LBs : Selects(l, f)) /\ ~Orphaned(f)) =>
                /\ frontends[f].port # NoPort
                /\ \E l \in LBs : frontends[f].lb = l /\ Selects(l, f))

Desired(l) ==
    [f \in {g \in Frontends : Selects(l, g) /\ frontends[g].lb \in {NoLB, l}} |->
        BackendSelector[f] \cap backends]

Configurable(l) ==
    /\ l \in Live
    /\ loadBalancers[l].selector # InvalidSelector
    /\ \A f \in Frontends :
          (Selects(l, f) /\ frontends[f].lb \in {NoLB, l}) =>
              BackendSelector[f] # InvalidSelector
    /\ ~NeverFilled(l)

\* Every pod of a GlobalLoadBalancer whose selectors are valid ends up with the
\* configuration of exactly the Frontends that are its own, even when an update
\* was skipped because a stale cached ConfigMap already looked right.  Left out:
\* a ConfigMap first written with no replicas, on which every later update of
\* the nil map panics.
EventuallyConfigured ==
    \A l \in LBs :
        <>[](Configurable(l) =>
                \A i \in Pods : i < loadBalancers[l].replicas =>
                    /\ i \in DOMAIN configMaps[l].data
                    /\ configMaps[l].data[i] = Desired(l))

\* What the log line of ReconcileFrontends says of nextPort: it is available,
\* so no two Frontends of a GlobalLoadBalancer have the same port.
PortsDistinct ==
    \A f, g \in Frontends :
        (f # g /\ frontends[f].phase = "present" /\ frontends[g].phase = "present"
               /\ frontends[f].lb # NoLB /\ frontends[f].lb = frontends[g].lb)
            => frontends[f].port # frontends[g].port

\* What the CRD says of spec.frontendSelector: a null selector matches no
\* object, so a GlobalLoadBalancer without one claims no Frontend.
NullSelectorClaimsNothing ==
    [][\A f \in Frontends :
          (frontends[f].lb = NoLB /\ frontends'[f].lb # NoLB)
              => lb.selector # NullSelector]_vars

=============================================================================
