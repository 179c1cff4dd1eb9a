-------------------------- MODULE HealthPublication --------------------------
(***************************************************************************)
(* From a health report to the EndpointSlice: HealthCache and              *)
(* HealthManager (internal/haproxy/healthcache.go, healthmanager.go), the  *)
(* channel source of controller-runtime, and the Frontend reconciler       *)
(* (internal/controller/frontend_controller.go).                           *)
(*                                                                         *)
(* A report is a sequence of endpoints in the order of a map iteration.    *)
(* frontends stands for the cached Frontend objects, which the reconciler  *)
(* reads and never writes.  Services and EndpointSlices are read through   *)
(* caches that follow the API server one object at a time.  A Frontend     *)
(* that is created again has a new UID; the Service belongs to the UID of  *)
(* the Frontend, the slice to that of the Service.  The garbage collector  *)
(* removes what has lost its owner, unless the reconciler takes it over    *)
(* before: it finds Service and slice by name, and updates need no more    *)
(* than the resourceVersion.                                               *)
(***************************************************************************)
EXTENDS Naturals, Sequences, FiniteSets, SequencesExt

CONSTANTS
    Frontends,    \* names of Frontends
    NoFrontend,   \* the worker has no request
    Reports,      \* the lists of endpoints the monitor may report
    IPs, NoIP,    \* addresses, and ""
    Ports, NoPort,   \* ports of Frontends, and a nil Status.Port
    MaxReports,   \* bound on reports
    MaxEdits,     \* bound on changes of Frontends
    MaxFaults     \* bound on failed calls and operator restarts

Endpoint == [ip : IPs \cup {NoIP}, healthy : BOOLEAN]

\* The monitor reports a Frontend only with at least one endpoint.
ASSUME ReportsAssumption ==
    /\ NoIP \notin IPs
    /\ \A r \in Reports : r \in Seq(Endpoint) /\ r # <<>>
ASSUME NoFrontendAssumption == NoFrontend \notin Frontends
ASSUME NoPortAssumption == NoPort \notin Ports
ASSUME LimitsAssumption ==
    MaxReports \in Nat /\ MaxEdits \in Nat /\ MaxFaults \in Nat

VARIABLES
    frontends,   \* Frontend -> the object
    cache,       \* HealthCache.endpoints; <<>> is a missing key
    sending,     \* the Frontend HealthManager.Update is about to announce
    channel,     \* the goroutine that receives from the event channel
    queue,       \* names in the controller's work queue
    services,    \* Frontend -> its Service in the API server
    svcCache,    \* Frontend -> its Service in the informer cache
    slices,      \* Frontend -> its EndpointSlice in the API server
    sliceCache,  \* Frontend -> its EndpointSlice in the informer cache
    pc, req,     \* the worker and its request
    owner, port, \* CreateOrUpdate: the UID of the owner, the port
    base, want,  \* CreateOrUpdate: the cached slice, the slice wanted
    missed,      \* history: Frontends whose last change was passed over
    last,        \* history: Frontend -> the last report, <<>> before it
    reports, edits, faults

monitorVars == <<cache, sending, last, reports>>
apiVars     == <<services, slices>>
cacheVars   == <<svcCache, sliceCache>>
workerVars  == <<pc, req, owner, port, base, want>>
vars == <<frontends, monitorVars, channel, queue, apiVars, cacheVars, workerVars,
          missed, edits, faults>>

\* Objects in the API server; UIDs and versions are not reused.
PortOrNil   == Ports \cup {NoPort}
FrontendObj == [there : BOOLEAN, uid : Nat, port : PortOrNil]
Absent      == [there |-> FALSE, uid |-> 0, port |-> NoPort]
ServiceObj  == [there : BOOLEAN, uid : Nat, rv : Nat, owner : Nat, port : PortOrNil]
NoService   == [there |-> FALSE, uid |-> 0, rv |-> 0, owner |-> 0, port |-> NoPort]
Slice       == [there : BOOLEAN, rv : Nat, owner : Nat, port : PortOrNil,
                endpoints : Reports \cup {<<>>}]
NoSlice     == [there |-> FALSE, rv |-> 0, owner |-> 0, port |-> NoPort, endpoints |-> <<>>]

TypeOK ==
    /\ frontends \in [Frontends -> FrontendObj]
    /\ cache \in [Frontends -> Reports \cup {<<>>}]
    /\ sending \in Frontends \cup {NoFrontend}
    /\ channel \in [state : {"off", "ready", "holds"}, frontend : Frontends \cup {NoFrontend}]
    /\ queue \in SUBSET Frontends
    /\ services \in [Frontends -> ServiceObj]
    /\ svcCache \in [Frontends -> ServiceObj]
    /\ slices \in [Frontends -> Slice]
    /\ sliceCache \in [Frontends -> Slice]
    /\ pc \in {"idle", "service", "slice", "write"}
    /\ req \in Frontends \cup {NoFrontend}
    /\ owner \in Nat
    /\ port \in PortOrNil
    /\ base \in Slice
    /\ want \in Slice
    /\ missed \in SUBSET Frontends
    /\ last \in [Frontends -> Reports \cup {<<>>}]
    /\ reports \in 0..MaxReports
    /\ edits \in 0..MaxEdits
    /\ faults \in 0..MaxFaults

\* The event channel is unbuffered; its receiver is not there before the
\* controller starts and while it hands an event on.
ChannelOff      == [state |-> "off", frontend |-> NoFrontend]
ChannelReady    == [state |-> "ready", frontend |-> NoFrontend]
ChannelHolds(f) == [state |-> "holds", frontend |-> f]

There == {f \in Frontends : frontends[f].there}

Ported == {f \in There : frontends[f].port # NoPort}

Init ==
    /\ frontends \in [Frontends -> {Absent} \cup [there : {TRUE}, uid : {0}, port : Ports]]
    /\ cache = [f \in Frontends |-> <<>>]
    /\ sending = NoFrontend
    /\ channel = ChannelOff
    /\ queue = There
    /\ services = [f \in Frontends |-> NoService]
    /\ svcCache = services
    /\ slices = [f \in Frontends |-> NoSlice]
    /\ sliceCache = slices
    /\ pc = "idle"
    /\ req = NoFrontend
    /\ owner = 0
    /\ port = NoPort
    /\ base = NoSlice
    /\ want = NoSlice
    /\ missed = {}
    /\ last = cache
    /\ reports = 0
    /\ edits = 0
    /\ faults = 0

-----------------------------------------------------------------------------
(* The cluster. *)

\* A Frontend is created, deleted, or replaced by a new one of the same name;
\* the events enqueue it.  HealthCache keeps what it holds under the name.
EditFrontend(f) ==
    /\ edits < MaxEdits
    /\ edits' = edits + 1
    /\ \/ frontends' = [frontends EXCEPT ![f] =
                            [there |-> TRUE, uid |-> @.uid + 1, port |-> NoPort]]
       \/ /\ f \in There
          /\ frontends' = [frontends EXCEPT ![f] = [Absent EXCEPT !.uid = frontends[f].uid]]
    /\ queue' = queue \cup {f}
    /\ UNCHANGED <<monitorVars, channel, apiVars, cacheVars, workerVars, missed, faults>>

\* It gets its port from the GlobalLoadBalancer reconciler.
GetsPort(f) ==
    /\ f \in There \ Ported
    /\ \E p \in Ports : frontends' = [frontends EXCEPT ![f].port = p]
    /\ queue' = queue \cup {f}
    /\ UNCHANGED <<monitorVars, channel, apiVars, cacheVars, workerVars, missed, edits,
                   faults>>

\* The periodic resync of the Frontend informer.
Resync ==
    /\ queue' = queue \cup There
    /\ UNCHANGED <<frontends, monitorVars, channel, apiVars, cacheVars, workerVars,
                   missed, edits, faults>>

DeliverService(f) ==
    /\ svcCache[f] # services[f]
    /\ svcCache' = [svcCache EXCEPT ![f] = services[f]]
    /\ UNCHANGED <<frontends, monitorVars, channel, queue, apiVars, sliceCache, workerVars,
                   missed, edits, faults>>

DeliverSlice(f) ==
    /\ sliceCache[f] # slices[f]
    /\ sliceCache' = [sliceCache EXCEPT ![f] = slices[f]]
    /\ UNCHANGED <<frontends, monitorVars, channel, queue, apiVars, svcCache, workerVars,
                   missed, edits, faults>>

\* The garbage collector.
CollectService(f) ==
    /\ services[f].there
    /\ f \notin There \/ frontends[f].uid # services[f].owner
    /\ services' = [services EXCEPT ![f] = [NoService EXCEPT !.uid = services[f].uid,
                                                            !.rv = services[f].rv]]
    /\ UNCHANGED <<frontends, monitorVars, channel, queue, slices, cacheVars, workerVars,
                   missed, edits, faults>>

CollectSlice(f) ==
    /\ slices[f].there
    /\ ~services[f].there \/ services[f].uid # slices[f].owner
    /\ slices' = [slices EXCEPT ![f] = [NoSlice EXCEPT !.rv = slices[f].rv]]
    /\ UNCHANGED <<frontends, monitorVars, channel, queue, services, cacheVars, workerVars,
                   missed, edits, faults>>

-----------------------------------------------------------------------------
(* Plausible slips. *)

\* The new endpoints are added to the old ones.
Store_Appends(f, endpoints) == [cache EXCEPT ![f] = @ \o endpoints]

\* Only new addresses count as a change.
Changed_AddressOnly(old, new) ==
    \/ Len(old) # Len(new)
    \/ \E i \in 1..Len(new) : ~\E j \in 1..Len(old) : old[j].ip = new[i].ip

\* The endpoints are set when the slice is created and not afterwards.
WantedSlice_OnlyOnce(cached) ==
    [cached EXCEPT !.there = TRUE, !.owner = owner, !.port = port,
                   !.endpoints = IF cached.there THEN @ ELSE cache[req]]

\* Only healthy endpoints are published.
WantedSlice_OnlyHealthy(cached) ==
    [cached EXCEPT !.there = TRUE, !.owner = owner, !.port = port,
                   !.endpoints = SelectSeq(cache[req], LAMBDA e : e.healthy)]

\* The owner is set when the Service is created and not afterwards.
WantedService_KeepsOwner(cached) ==
    [cached EXCEPT !.there = TRUE, !.owner = IF cached.there THEN @ ELSE owner, !.port = port]

-----------------------------------------------------------------------------
(* HealthManager and HealthCache, called by the monitor's goroutine. *)

\* The map from address to health that HealthCache.Update builds of the cached
\* endpoints: a later endpoint of the same address overwrites an earlier one.
CachedHealth(old, ip) ==
    old[CHOOSE i \in 1..Len(old) : /\ old[i].ip = ip
                                   /\ \A j \in (i + 1)..Len(old) : old[j].ip # ip].healthy

\* What HealthCache.Update returns.
Changed(old, new) ==
    \/ Len(old) # Len(new)
    \/ \E i \in 1..Len(new) :
          \/ ~\E j \in 1..Len(old) : old[j].ip = new[i].ip
          \/ CachedHealth(old, new[i].ip) # new[i].healthy

Store(f, endpoints) == [cache EXCEPT ![f] = endpoints]

\* HealthManager.Update up to the send.
Update(f, endpoints) ==
    /\ sending = NoFrontend
    /\ last' = [last EXCEPT ![f] = endpoints]
    /\ IF Changed(cache[f], endpoints)
       THEN cache' = Store(f, endpoints) /\ sending' = f
       ELSE UNCHANGED <<cache, sending>>
    /\ UNCHANGED <<frontends, channel, queue, apiVars, cacheVars, workerVars, missed,
                   edits, faults>>

\* The monitor has something to report.
Report(f) ==
    /\ reports < MaxReports
    /\ reports' = reports + 1
    /\ \E r \in Reports : Update(f, r)

\* The select with a default: without a receiver the event is dropped.
SendEvent ==
    /\ sending # NoFrontend
    /\ sending' = NoFrontend
    /\ IF channel.state = "ready"
       THEN channel' = ChannelHolds(sending) /\ UNCHANGED missed
       ELSE missed' = missed \cup {sending} /\ UNCHANGED channel
    /\ UNCHANGED <<frontends, cache, last, reports, queue, apiVars, cacheVars,
                   workerVars, edits, faults>>

\* source.Channel of the Frontend controller.
StartController ==
    /\ channel.state = "off"
    /\ channel' = ChannelReady
    /\ UNCHANGED <<frontends, monitorVars, queue, apiVars, cacheVars, workerVars,
                   missed, edits, faults>>

EnqueueEvent ==
    /\ channel.state = "holds"
    /\ queue' = queue \cup {channel.frontend}
    /\ channel' = ChannelReady
    /\ UNCHANGED <<frontends, monitorVars, apiVars, cacheVars, workerVars, missed,
                   edits, faults>>

-----------------------------------------------------------------------------
(* The Frontend reconciler. *)

Return ==
    /\ pc' = "idle"
    /\ req' = NoFrontend
    /\ owner' = 0
    /\ port' = NoPort
    /\ base' = NoSlice
    /\ want' = NoSlice

Requeue == queue' = queue \cup {req}

Fault == faults < MaxFaults /\ faults' = faults + 1

\* Reconcile: a Frontend that is gone, or has no port, is left alone.
Reconcile(f) ==
    /\ channel.state # "off"
    /\ pc = "idle"
    /\ f \in queue
    /\ queue' = queue \ {f}
    /\ IF f \in Ported
       THEN /\ pc' = "service" /\ req' = f
            /\ owner' = frontends[f].uid /\ port' = frontends[f].port
            /\ UNCHANGED <<base, want>>
       ELSE UNCHANGED workerVars
    /\ UNCHANGED <<frontends, monitorVars, channel, apiVars, cacheVars, missed, edits,
                   faults>>

\* CreateOrUpdate creates what the cache lacks and updates what differs from the
\* cached object.  The API server refuses a create of an existing object, and an
\* update of one that is gone or has another version.
Refused(stored, cached) ==
    \/ stored.there # cached.there
    \/ cached.there /\ stored.rv # cached.rv

\* The mutation of the Service.  SetControllerReference takes an owner of the same
\* kind and name for the same object and replaces its UID.
WantedService(cached) == [cached EXCEPT !.there = TRUE, !.owner = owner, !.port = port]

\* The Service is as wanted: nothing is sent.
KeepService ==
    /\ pc = "service"
    /\ WantedService(svcCache[req]) = svcCache[req]
    /\ owner' = svcCache[req].uid
    /\ pc' = "slice"
    /\ UNCHANGED <<frontends, monitorVars, channel, queue, apiVars, cacheVars, req, port,
                   base, want, missed, edits, faults>>

\* It is created, or updated: also when it is the one of an earlier Frontend.
WriteService ==
    /\ pc = "service"
    /\ WantedService(svcCache[req]) # svcCache[req]
    /\ ~Refused(services[req], svcCache[req])
    /\ LET wanted == WantedService(services[req])
       IN  services' = [services EXCEPT ![req] =
              [there |-> TRUE, uid |-> IF @.there THEN @.uid ELSE @.uid + 1, rv |-> @.rv + 1,
               owner |-> wanted.owner, port |-> wanted.port]]
    /\ owner' = services'[req].uid
    /\ pc' = "slice"
    /\ UNCHANGED <<frontends, monitorVars, channel, queue, slices, cacheVars, req, port,
                   base, want, missed, edits, faults>>

WriteServiceFails ==
    /\ pc = "service"
    /\ WantedService(svcCache[req]) # svcCache[req]
    /\ IF Refused(services[req], svcCache[req]) THEN faults' = faults ELSE Fault
    /\ Return
    /\ Requeue
    /\ UNCHANGED <<frontends, monitorVars, channel, apiVars, cacheVars, missed, edits>>

\* The mutation of the slice, with the endpoints HealthCache has at that moment.
WantedSlice(cached) ==
    [cached EXCEPT !.there = TRUE, !.owner = owner, !.port = port, !.endpoints = cache[req]]

\* The second CreateOrUpdate reads the slice from the cache and mutates a copy.
ReadHealth ==
    /\ pc = "slice"
    /\ pc' = "write"
    /\ base' = sliceCache[req]
    /\ want' = WantedSlice(sliceCache[req])
    /\ missed' = missed \ {req}
    /\ UNCHANGED <<frontends, monitorVars, channel, queue, apiVars, cacheVars, req, owner,
                   port, edits, faults>>

\* The slice is as wanted: nothing is sent.
SkipWrite ==
    /\ pc = "write"
    /\ want = base
    /\ missed' = missed \cup {f \in {req} : slices[f] # base}
    /\ Return
    /\ UNCHANGED <<frontends, monitorVars, channel, queue, apiVars, cacheVars, edits,
                   faults>>

\* An empty address is refused, too.
SliceRefused ==
    \/ Refused(slices[req], base)
    \/ \E i \in 1..Len(want.endpoints) : want.endpoints[i].ip = NoIP

WriteSlice ==
    /\ pc = "write"
    /\ want # base
    /\ ~SliceRefused
    /\ slices' = [slices EXCEPT ![req] = [want EXCEPT !.rv = slices[req].rv + 1]]
    /\ Return
    /\ UNCHANGED <<frontends, monitorVars, channel, queue, services, cacheVars, missed,
                   edits, faults>>

WriteSliceFails ==
    /\ pc = "write"
    /\ want # base
    /\ IF SliceRefused THEN faults' = faults ELSE Fault
    /\ Return
    /\ Requeue
    /\ UNCHANGED <<frontends, monitorVars, channel, apiVars, cacheVars, missed, edits>>

\* The operator stops and starts again: HealthCache is empty, caches are
\* listed, every Frontend is queued.
Restart ==
    /\ Fault
    /\ cache' = [f \in Frontends |-> <<>>]
    /\ last' = cache'
    /\ sending' = NoFrontend
    /\ channel' = ChannelOff
    /\ queue' = There
    /\ svcCache' = services
    /\ sliceCache' = slices
    /\ Return
    /\ missed' = {}
    /\ UNCHANGED <<frontends, reports, apiVars, edits>>

-----------------------------------------------------------------------------
Changes(f) == EditFrontend(f) \/ GetsPort(f)

Cluster(f) ==
    DeliverService(f) \/ DeliverSlice(f) \/ CollectService(f) \/ CollectSlice(f)

Channel == StartController \/ EnqueueEvent

Worker ==
    \/ KeepService \/ WriteService \/ WriteServiceFails
    \/ ReadHealth \/ SkipWrite \/ WriteSlice \/ WriteSliceFails

Next ==
    \/ \E f \in Frontends : Changes(f) \/ Cluster(f) \/ Report(f) \/ Reconcile(f)
    \/ Resync
    \/ SendEvent
    \/ Channel
    \/ Worker
    \/ Restart

Spec == Init /\ [][Next]_vars

\* The goroutines run, watches deliver, garbage is collected, the resync period
\* elapses, and the work queue is first in, first out.
Fairness ==
    /\ WF_vars(SendEvent \/ Channel \/ Worker) /\ WF_vars(Resync)
    /\ \A f \in Frontends : SF_vars(Reconcile(f)) /\ WF_vars(Cluster(f))

FairSpec == Spec /\ Fairness

-----------------------------------------------------------------------------
(* Properties. *)

\* A Frontend whose slice is to change: it is on its way to the reconciler.
Pending(f) ==
    \/ f \in queue
    \/ sending = f
    \/ channel.frontend = f
    \/ pc # "idle" /\ req = f

\* The Service and the EndpointSlice of a Frontend are there, one belongs to the
\* Frontend and the other to the Service, and both have its port.
Fronted(f) ==
    /\ services[f].there
    /\ services[f].owner = frontends[f].uid
    /\ slices[f].there
    /\ slices[f].owner = services[f].uid
    /\ services[f].port = frontends[f].port /\ slices[f].port = frontends[f].port

Published(f) == Fronted(f) /\ slices[f].endpoints = cache[f]

\* A Frontend with a port has its Service and its EndpointSlice, the slice shows
\* what HealthCache holds and the garbage collector has no reason to remove either;
\* or a reconcile is on its way, or the change was passed over: its event found no
\* receiver, or the cached slice looked right while the API server's was another.
\* Nothing is lost in any other way: not a change that arrives when the reconcile has
\* read HealthCache and not yet written, and not a Service or a slice that a Frontend
\* takes over from an earlier one of its name.
StaleExplained ==
    \A f \in Ported : Published(f) \/ Pending(f) \/ f \in missed

DistinctAddresses(r) == \A i, j \in 1..Len(r) : i # j => r[i].ip # r[j].ip

\* HealthCache holds the endpoints last reported, in some order, however many
\* reports were taken for unchanged, unless addresses repeat in the last one (they
\* do for a Frontend that selects two Backends); those of earlier reports may.
CacheIsLastReport ==
    \A f \in Frontends : DistinctAddresses(last[f]) => ToSet(cache[f]) = ToSet(last[f])

Publishable(f) ==
    f \in Ported /\ \A i \in 1..Len(cache[f]) : cache[f][i].ip # NoIP

\* Once reports stop, every Frontend with a port ends up with a Service and an
\* EndpointSlice of its own that show its port and its health: also when events were
\* dropped, writes were refused or skipped, the operator was restarted, or the
\* Frontend was created again, with another port, while the Service, the slice and
\* the HealthCache entry of its predecessor were still there, to be taken over or to
\* be collected first.
EventuallyPublished == \A f \in Frontends : <>[](Publishable(f) => Published(f))

=============================================================================
