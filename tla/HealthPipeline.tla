---------------------------- MODULE HealthPipeline ----------------------------
(***************************************************************************)
(* HealthMonitor and HealthPublication together: from the health an        *)
(* HAProxy pod sees to the EndpointSlice of a Frontend.                    *)
(*                                                                         *)
(* updateHealthManager lists the Frontends of the cache the reconciler     *)
(* reads, collects their endpoints under stateMu, and hands them to        *)
(* HealthManager.Update after it has released it, one Frontend at a time;  *)
(* the next tick waits for that.  Edits and faults are bounded together.   *)
(***************************************************************************)
EXTENDS Naturals, Sequences, FiniteSets, SequencesExt

CONSTANTS
    Uids, PodName, Backends, Frontends, BackendSelector, InvalidSelector, NoIP,
    Namespaces, NoFrontend, Ports, NoPort, MaxEdits, MaxFaults

ASSUME UidsAssumption == NoIP \notin Uids
ASSUME NoFrontendAssumption == NoFrontend \notin Frontends
ASSUME NoPortAssumption == NoPort \notin Ports
ASSUME BoundsAssumption == MaxEdits \in Nat /\ MaxFaults \in Nat
ASSUME FinitenessAssumption == IsFiniteSet(Uids) /\ IsFiniteSet(Backends)
ASSUME SelectorAssumption ==
    BackendSelector \in [Frontends -> (SUBSET Backends) \cup {InvalidSelector}]

VARIABLES
    cluster, health, proxies, backendCRs, store, pods, endpointStates, scrapeTargets,
    ticker, scrape, left, report, ghosts,                            \* HealthMonitor
    frontends, cache, sending, channel, queue, services, svcCache, slices, sliceCache,
    pc, req, owner, port, base, want, missed, last, reports,         \* HealthPublication
    edits, faults,                                                   \* both
    outbox    \* the Frontends updateHealthManager has yet to hand over

Monitor == INSTANCE HealthMonitor WITH pc <- ticker

Publication == INSTANCE HealthPublication WITH
    IPs <- Uids, Reports <- {}, MaxReports <- 0

monitorVars ==
    <<cluster, health, proxies, backendCRs, store, pods, endpointStates, scrapeTargets,
      ticker, scrape, left, report, ghosts>>
publicationVars ==
    <<frontends, cache, sending, channel, queue, services, svcCache, slices, sliceCache,
      pc, req, owner, port, base, want, missed, last>>
vars == <<monitorVars, publicationVars, reports, edits, faults, outbox>>

Init == Monitor!Init /\ Publication!Init /\ outbox = {}

-----------------------------------------------------------------------------
OfMonitor(action) == action /\ UNCHANGED <<publicationVars, reports, outbox>>

OfPublication(action) == action /\ UNCHANGED <<monitorVars, reports, outbox>>

\* A plausible slip: Update runs in a goroutine of its own and a tick overlaps it.
Tick_Overlaps == OfMonitor(Monitor!Tick)

Tick == outbox = {} /\ sending = NoFrontend /\ OfMonitor(Monitor!Tick)

\* A plausible slip: only what HealthCache knows already is refreshed.
Reported_OnlyKnown ==
    {f \in Publication!There : cache[f] # <<>> /\ Monitor!ListSucceeds /\ Monitor!Collected(f) # {}}

\* The Frontends that are listed and have endpoints.
Reported == {f \in Publication!There : Monitor!ListSucceeds /\ Monitor!Collected(f) # {}}

UpdateHealthManager ==
    /\ Monitor!UpdateHealthManager(Publication!There)
    /\ outbox' = Reported
    /\ UNCHANGED <<publicationVars, reports>>

EndpointOf(e) == [ip |-> e.ip, healthy |-> e.state = "up"]

\* The endpoints of a Frontend in the order of a map iteration.
Lists(f) ==
    {[i \in 1..Len(order) |-> EndpointOf(order[i])] : order \in SetToSeqs(report[f])}

HandOver(f) ==
    /\ f \in outbox
    /\ outbox' = outbox \ {f}
    /\ \E list \in Lists(f) : Publication!Update(f, list)
    /\ UNCHANGED <<monitorVars, reports>>

Restart == Monitor!Restart /\ Publication!Restart /\ outbox' = {}

-----------------------------------------------------------------------------
\* The goroutine of Start, with its scrapes, up to the return of Update.
Loop ==
    \/ Tick
    \/ \E u \in Uids : OfMonitor(Monitor!Scrape(u))
    \/ UpdateHealthManager
    \/ \E f \in Frontends : HandOver(f)
    \/ OfPublication(Publication!SendEvent)

Cluster ==
    \/ \E u \in Uids : OfMonitor(Monitor!PodGetsAddress(u) \/ Monitor!Watch(u))
    \/ \E f \in Frontends : OfPublication(Publication!Cluster(f))

Controller == OfPublication(Publication!Channel \/ Publication!Worker)

Next ==
    \/ OfMonitor(Monitor!Changes)
    \/ \E f \in Frontends : OfPublication(Publication!Changes(f) \/ Publication!Reconcile(f))
    \/ OfPublication(Publication!Resync)
    \/ Cluster
    \/ Loop
    \/ Controller
    \/ Restart

\* No more than in the two modules: the monitor goes on, the cluster and the
\* watches do, a controller with something to do takes a step, a queued name is
\* not passed over for ever, the resync period elapses.
Fairness ==
    /\ WF_vars(Loop) /\ WF_vars(Cluster) /\ WF_vars(Controller)
    /\ \A f \in Frontends : SF_vars(OfPublication(Publication!Reconcile(f)))
    /\ WF_vars(OfPublication(Publication!Resync))

Spec == Init /\ [][Next]_vars /\ Fairness

-----------------------------------------------------------------------------
(* Properties. *)

\* Nothing stands in the way of publishing the health of a Frontend: it has a
\* port, a running pod serves it, no endpoint of a pod or Backend that cannot
\* be forgotten is reported, and no pod is reported twice.
Publishable(f) ==
    /\ f \in Publication!Ported
    /\ Monitor!Expected(f) # {}
    /\ \A e \in report[f] :
          /\ e.uid \notin Monitor!Unforgotten
          /\ e.backend \in proxies[e.uid]
          /\ \A d \in report[f] : d # e => d.uid # e.uid

\* The slice of a Frontend lists exactly the endpoints updateHealthManager last
\* collected for it, if they are handed over, no reconcile of it is on its way and
\* its last change was not passed over (see StaleExplained): between the monitor's
\* lock and the API server no health of another tick, pod or Frontend gets in and
\* none is left out.  No pod may be reported twice (HealthManager.Update,
\* HealthCache.Update, ReconcileService).
SlicesShowReport ==
    \A f \in Publication!Ported :
        (/\ report[f] # {}
         /\ \A d, e \in report[f] : d # e => d.ip # e.ip
         /\ f \notin outbox
         /\ ~Publication!Pending(f)
         /\ f \notin missed)
        => ToSet(slices[f].endpoints) = {EndpointOf(e) : e \in report[f]}

\* Once the cluster is quiet the EndpointSlice of a Frontend, owned by its own
\* Service, lists exactly the running pods with the health each of them sees:
\* through scrapes, the order of endpoints, events nobody received, refused
\* writes, a Service and a slice taken over from an earlier Frontend of the name
\* or collected before that, and restarts (Start, HealthManager.Update,
\* HealthCache.Update, ReconcileService).
SlicesFollowHealth ==
    \A f \in Frontends :
        <>[](Publishable(f) =>
                /\ Publication!Fronted(f)
                /\ ToSet(slices[f].endpoints) = {EndpointOf(e) : e \in Monitor!Expected(f)})

\* While the operator runs, a slice that lists endpoints is never emptied, even
\* if every pod of the Frontend is gone: without data nothing is reported, and
\* HealthCache keeps what it was told (updateHealthManager).
LastEndpointsStay ==
    [][\A f \in Frontends :
          (slices[f].endpoints # <<>> /\ slices'[f].there /\ faults = 0)
              => slices'[f].endpoints # <<>>]_vars

=============================================================================
