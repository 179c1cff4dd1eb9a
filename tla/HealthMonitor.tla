---------------------------- MODULE HealthMonitor ----------------------------
(***************************************************************************)
(* HAProxyMonitor (internal/haproxy/haproxymonitor.go): it keeps the       *)
(* HAProxy pods its informer shows, scrapes the metrics of all of them at  *)
(* every tick, and reports the endpoints of every Frontend.                *)
(*                                                                         *)
(* Informer callbacks, scrapes and the ticker loop run in goroutines of    *)
(* their own; an action is one critical section of stateMu.  A pod's       *)
(* address is its UID (addresses are not reused); NoIP is "".  What        *)
(* becomes of a report is the subject of HealthPublication.                *)
(***************************************************************************)
EXTENDS Naturals, FiniteSets

CONSTANTS
    Uids,             \* UIDs of HAProxy pods
    PodName,          \* UID -> pod name; a StatefulSet reuses the names
    Backends,         \* names of Backends, as HAProxy names its proxies
    Frontends,        \* names of Frontends
    BackendSelector,  \* Frontend -> the Backends its selector matches
    InvalidSelector,  \* a selector LabelSelectorAsSelector refuses
    NoIP,             \* ""
    Namespaces,       \* the namespaces WATCH_NAMESPACE lists
    MaxEdits,         \* bound on changes in the cluster
    MaxFaults         \* bound on failed scrapes of running pods and restarts

ASSUME UidsAssumption == NoIP \notin Uids
ASSUME SelectorAssumption ==
    BackendSelector \in [Frontends -> (SUBSET Backends) \cup {InvalidSelector}]
ASSUME BoundsAssumption == MaxEdits \in Nat /\ MaxFaults \in Nat

VARIABLES
    cluster,         \* UID -> the life of the pod
    health,          \* Backend, UID -> does the HAProxy pod see it up
    proxies,         \* UID -> the Backends in the configuration its HAProxy runs
    backendCRs,      \* the Backend objects that exist
    store,           \* UID -> what the informer last showed
    pods,            \* HAProxyMonitor.pods
    endpointStates,  \* HAProxyMonitor.endpointStates
    scrapeTargets,   \* HAProxyMonitor.scrapeTargets: the UIDs with an address
    pc,              \* the ticker loop
    scrape,          \* UID -> its scrape goroutine: "none", "dial", "decode"
    left,            \* UID -> the Backends it has yet to decode
    report,          \* Frontend -> the endpoints last given to HealthManager,
                     \* {} before the first time
    ghosts,          \* history: UIDs whose states may outlive their pod
    edits, faults

clusterVars == <<cluster, health, proxies, backendCRs>>
watchVars   == <<store, pods>>
tickVars    == <<scrapeTargets, pc, scrape, left>>
vars == <<clusterVars, watchVars, endpointStates, tickVars, report, ghosts,
          edits, faults>>

\* A pod starts without address, gets one, may lose it when it fails.
Life == {"absent", "pending", "running", "failed", "gone"}

Exists(u) == cluster[u] \in {"pending", "running", "failed"}

Endpoint == [backend : Backends, uid : Uids, ip : Uids \cup {NoIP},
             state : {"up", "down"}]

TypeOK ==
    /\ cluster \in [Uids -> Life]
    /\ health \in [Backends -> [Uids -> {"up", "down"}]]
    /\ proxies \in [Uids -> SUBSET Backends]
    /\ backendCRs \in SUBSET Backends
    /\ store \in [Uids -> Life]
    /\ pods \in [Uids -> Life \ {"gone"}]
    /\ endpointStates \in [Backends -> [Uids -> {"none", "up", "down"}]]
    /\ scrapeTargets \in SUBSET Uids
    /\ pc \in {"wait", "scrape"}
    /\ scrape \in [Uids -> {"none", "dial", "decode"}]
    /\ left \in [Uids -> SUBSET Backends]
    /\ report \in [Frontends -> SUBSET Endpoint]
    /\ ghosts \in SUBSET Uids
    /\ edits \in 0..MaxEdits
    /\ faults \in 0..MaxFaults

Init ==
    /\ cluster \in [Uids -> {"absent", "running"}]
    /\ \A u, v \in Uids : (u # v /\ PodName[u] = PodName[v]) =>
           cluster[u] = "absent" \/ cluster[v] = "absent"
    /\ health = [b \in Backends |-> [u \in Uids |-> "up"]]
    /\ proxies = [u \in Uids |-> Backends]
    /\ backendCRs = Backends
    /\ store = [u \in Uids |-> "absent"]
    /\ pods = store
    /\ endpointStates = [b \in Backends |-> [u \in Uids |-> "none"]]
    /\ scrapeTargets = {}
    /\ pc = "wait"
    /\ scrape = [u \in Uids |-> "none"]
    /\ left = [u \in Uids |-> {}]
    /\ report = [f \in Frontends |-> {}]
    /\ ghosts = {}
    /\ edits = 0
    /\ faults = 0

-----------------------------------------------------------------------------
(* The cluster. *)

Edit == edits < MaxEdits /\ edits' = edits + 1

PodChanges(u) ==
    /\ Edit
    /\ \/ /\ cluster[u] = "absent"
          /\ \A v \in Uids : PodName[v] = PodName[u] => ~Exists(v)
          /\ cluster' = [cluster EXCEPT ![u] = "pending"]
       \/ /\ cluster[u] = "running"
          /\ cluster' = [cluster EXCEPT ![u] = "failed"]
       \/ /\ Exists(u)
          /\ cluster' = [cluster EXCEPT ![u] = "gone"]
    /\ UNCHANGED <<health, proxies, backendCRs, watchVars, endpointStates, tickVars, report,
                   ghosts, faults>>

PodGetsAddress(u) ==
    /\ cluster[u] = "pending"
    /\ cluster' = [cluster EXCEPT ![u] = "running"]
    /\ UNCHANGED <<health, proxies, backendCRs, watchVars, endpointStates, tickVars, report,
                   ghosts, edits, faults>>

HealthChanges(b, u) ==
    /\ Edit
    /\ health' = [health EXCEPT ![b][u] = IF @ = "up" THEN "down" ELSE "up"]
    /\ UNCHANGED <<cluster, proxies, backendCRs, watchVars, endpointStates, tickVars, report,
                   ghosts, faults>>

\* The HAProxy of a pod starts, or its container restarts, with what the
\* ConfigMap holds by then; nothing makes a running HAProxy read it again.
HAProxyStarts(u) ==
    /\ Edit
    /\ \E served \in SUBSET Backends : /\ served # proxies[u]
                                       /\ proxies' = [proxies EXCEPT ![u] = served]
    /\ UNCHANGED <<cluster, health, backendCRs, watchVars, endpointStates, tickVars, report,
                   ghosts, faults>>

EditBackend(b) ==
    /\ Edit
    /\ backendCRs' = IF b \in backendCRs THEN backendCRs \ {b} ELSE backendCRs \cup {b}
    /\ UNCHANGED <<cluster, health, proxies, watchVars, endpointStates, tickVars, report,
                   ghosts, faults>>

-----------------------------------------------------------------------------
(* Plausible slips in the monitor. *)

Purge_Nothing(u) == endpointStates

\* The map keeps the last state of a deleted pod.
OnDelete_KeepsPod(u) ==
    /\ store[u] \in {"pending", "running", "failed"}
    /\ cluster[u] = "gone"
    /\ store' = [store EXCEPT ![u] = "gone"]
    /\ pods' = [pods EXCEPT ![u] = cluster[u]]
    /\ endpointStates' = [b \in Backends |-> [endpointStates[b] EXCEPT ![u] = "none"]]
    /\ ghosts' = ghosts
    /\ UNCHANGED <<clusterVars, tickVars, report, edits, faults>>

Targets_Stale == scrapeTargets

Decoded_AlwaysUp(b, u) == "up"

-----------------------------------------------------------------------------
(* Informer callbacks. *)

OnAdd(u) ==
    /\ store[u] = "absent"
    /\ Exists(u)
    /\ store' = [store EXCEPT ![u] = cluster[u]]
    /\ pods' = [pods EXCEPT ![u] = cluster[u]]
    /\ UNCHANGED <<clusterVars, endpointStates, tickVars, report, ghosts, edits, faults>>

\* An update of the same pod: delete(pods, u) and put it back.
OnUpdate(u) ==
    /\ store[u] \in {"pending", "running"}
    /\ Exists(u)
    /\ store[u] # cluster[u]
    /\ store' = [store EXCEPT ![u] = cluster[u]]
    /\ pods' = [pods EXCEPT ![u] = cluster[u]]
    /\ UNCHANGED <<clusterVars, endpointStates, tickVars, report, ghosts, edits, faults>>

\* After a broken watch the informer lists the pods again and finds another
\* pod under the same name: one update from the old to the new object.  The
\* states of the old UID stay.
OnUpdateReplaced(u, v) ==
    /\ u # v
    /\ PodName[u] = PodName[v]
    /\ store[u] \in {"pending", "running", "failed"}
    /\ cluster[u] = "gone"
    /\ store[v] = "absent"
    /\ Exists(v)
    /\ store' = [store EXCEPT ![u] = "gone", ![v] = cluster[v]]
    /\ pods' = [pods EXCEPT ![u] = "absent", ![v] = cluster[v]]
    /\ ghosts' = ghosts \cup {u}
    /\ UNCHANGED <<clusterVars, endpointStates, tickVars, report, edits, faults>>

\* endpointStates without the entries of a UID.
Purge(u) == [b \in Backends |-> [endpointStates[b] EXCEPT ![u] = "none"]]

\* A scrape that is still decoding writes the entries again.
OnDelete(u) ==
    /\ store[u] \in {"pending", "running", "failed"}
    /\ cluster[u] = "gone"
    /\ store' = [store EXCEPT ![u] = "gone"]
    /\ pods' = [pods EXCEPT ![u] = "absent"]
    /\ endpointStates' = Purge(u)
    /\ ghosts' = ghosts \cup {v \in {u} : scrape[v] = "decode"}
    /\ UNCHANGED <<clusterVars, tickVars, report, edits, faults>>

\* The deletion was missed by the watch and arrives as DeletedFinalStateUnknown,
\* which is not a *corev1.Pod: the filter drops it.
DropTombstone(u) ==
    /\ store[u] \in {"pending", "running", "failed"}
    /\ cluster[u] = "gone"
    /\ store' = [store EXCEPT ![u] = "gone"]
    /\ UNCHANGED <<clusterVars, pods, endpointStates, tickVars, report, ghosts,
                   edits, faults>>

-----------------------------------------------------------------------------
(* The ticker loop and its scrapes. *)

\* The pods with an address.
Targets == {u \in Uids : pods[u] = "running"}

Tick ==
    /\ pc = "wait"
    /\ pc' = "scrape"
    /\ scrapeTargets' = Targets
    /\ scrape' = [u \in Uids |-> IF pods[u] = "running" THEN "dial" ELSE "none"]
    /\ UNCHANGED <<clusterVars, watchVars, endpointStates, left, report, ghosts,
                   edits, faults>>

\* The pod answers.
ScrapeResponse(u) ==
    /\ scrape[u] = "dial"
    /\ cluster[u] = "running"
    /\ scrape' = [scrape EXCEPT ![u] = "decode"]
    /\ left' = [left EXCEPT ![u] = proxies[u]]
    /\ UNCHANGED <<clusterVars, watchVars, endpointStates, scrapeTargets, pc, report,
                   ghosts, edits, faults>>

\* No answer, a bad status code, or a response that breaks off; a pod that is
\* not running cannot answer.  What was decoded before stays.
ScrapeFails(u) ==
    /\ scrape[u] # "none"
    /\ IF scrape[u] = "dial" /\ cluster[u] # "running"
       THEN faults' = faults
       ELSE faults < MaxFaults /\ faults' = faults + 1
    /\ scrape' = [scrape EXCEPT ![u] = "none"]
    /\ left' = [left EXCEPT ![u] = {}]
    /\ UNCHANGED <<clusterVars, watchVars, endpointStates, scrapeTargets, pc, report,
                   ghosts, edits>>

\* The value of haproxy_backend_agg_server_status{state="UP"} above zero.
Decoded(b, u) == health[b][u]

ScrapeMetric(u, b) ==
    /\ scrape[u] = "decode"
    /\ b \in left[u]
    /\ left' = [left EXCEPT ![u] = @ \ {b}]
    /\ endpointStates' = [endpointStates EXCEPT ![b][u] = Decoded(b, u)]
    /\ UNCHANGED <<clusterVars, watchVars, scrapeTargets, pc, scrape, report, ghosts,
                   edits, faults>>

ScrapeEnds(u) ==
    /\ scrape[u] = "decode"
    /\ left[u] = {}
    /\ scrape' = [scrape EXCEPT ![u] = "none"]
    /\ UNCHANGED <<clusterVars, watchVars, endpointStates, scrapeTargets, pc, left,
                   report, ghosts, edits, faults>>

Selected(f) ==
    IF BackendSelector[f] = InvalidSelector THEN {} ELSE BackendSelector[f] \cap backendCRs

\* What updateHealthManager collects for a Frontend.  The address comes from
\* scrapeTargets, a missing key of which reads as an empty ScrapeTarget.
Collected(f) ==
    {e \in {[backend |-> b, uid |-> u, ip |-> IF u \in scrapeTargets THEN u ELSE NoIP,
             state |-> endpointStates[b][u]] : b \in Selected(f), u \in Uids} :
        e.state # "none"}

\* client.InNamespace(w.namespace): the monitor is given the whole value of
\* WATCH_NAMESPACE, which names a namespace of the cache only if it is one.
ListSucceeds == Cardinality(Namespaces) = 1

\* After wg.Wait: updateHealthManager with the Frontends it lists.  A Frontend
\* without data is not reported at all, so what was reported of it before stays.
UpdateHealthManager(listed) ==
    /\ pc = "scrape"
    /\ \A u \in Uids : scrape[u] = "none"
    /\ pc' = "wait"
    /\ report' = [f \in Frontends |->
          IF ListSucceeds /\ f \in listed /\ Collected(f) # {} THEN Collected(f) ELSE report[f]]
    /\ UNCHANGED <<clusterVars, watchVars, endpointStates, scrapeTargets, scrape, left,
                   ghosts, edits, faults>>

\* The operator stops and starts again with an empty monitor and HealthManager.
Restart ==
    /\ faults < MaxFaults
    /\ faults' = faults + 1
    /\ store' = [u \in Uids |-> "absent"]
    /\ pods' = store'
    /\ endpointStates' = [b \in Backends |-> [u \in Uids |-> "none"]]
    /\ scrapeTargets' = {}
    /\ pc' = "wait"
    /\ scrape' = [u \in Uids |-> "none"]
    /\ left' = [u \in Uids |-> {}]
    /\ report' = [f \in Frontends |-> {}]
    /\ ghosts' = {}
    /\ UNCHANGED <<clusterVars, edits>>

-----------------------------------------------------------------------------
Changes ==
    \/ \E u \in Uids : PodChanges(u) \/ HAProxyStarts(u)
    \/ \E b \in Backends, u \in Uids : HealthChanges(b, u)
    \/ \E b \in Backends : EditBackend(b)

Watch(u) ==
    \/ OnAdd(u) \/ OnUpdate(u) \/ OnDelete(u) \/ DropTombstone(u)
    \/ \E v \in Uids : OnUpdateReplaced(u, v)

Scrape(u) ==
    \/ ScrapeResponse(u) \/ ScrapeFails(u) \/ ScrapeEnds(u)
    \/ \E b \in Backends : ScrapeMetric(u, b)

Next ==
    \/ Changes
    \/ \E u \in Uids : PodGetsAddress(u) \/ Watch(u) \/ Scrape(u)
    \/ Tick
    \/ UpdateHealthManager(Frontends)
    \/ Restart

Spec == Init /\ [][Next]_vars

\* Pods that are scheduled get an address, the watch delivers, scrapes end
\* (the HTTP client times out after 5 seconds) and the ticker ticks.
Fairness ==
    /\ \A u \in Uids : WF_vars(PodGetsAddress(u)) /\ WF_vars(Watch(u)) /\ WF_vars(Scrape(u))
    /\ WF_vars(Tick)
    /\ WF_vars(UpdateHealthManager(Frontends))

FairSpec == Spec /\ Fairness

-----------------------------------------------------------------------------
(* Properties. *)

\* State is kept for a UID only while its pod is known to the monitor; the
\* exceptions are the pods deleted while their scrape was decoding and the
\* pods replaced during a broken watch, whose states nothing removes any more
\* (onDelete, onUpdate, scrapeMetrics).
StatesHaveOwner ==
    \A u \in Uids :
        (\E b \in Backends : endpointStates[b][u] # "none") =>
            pods[u] # "absent" \/ u \in ghosts

\* An endpoint without address (which the API server refuses in an
\* EndpointSlice, so that the slice of the Frontend is not updated any more)
\* is reported only for a pod that failed or is gone: the addresses of the
\* tick belong to the states of the tick.
AddressKnown ==
    \A f \in Frontends : \A e \in report[f] :
        e.ip = NoIP => cluster[e.uid] \in {"failed", "gone"}

Expected(f) ==
    {e \in {[backend |-> b, uid |-> u, ip |-> u, state |-> health[b][u]] :
              b \in Selected(f), u \in Uids} :
        cluster[e.uid] = "running" /\ e.backend \in proxies[e.uid]}

\* Pods the monitor cannot forget: ghosts, pods whose deletion came as a
\* tombstone, pods that exist without an address.
Unforgotten ==
    {u \in Uids : u \in ghosts \/ cluster[u] = "failed"
                  \/ (pods[u] # "absent" /\ store[u] = "gone")}

\* Once the cluster is quiet, what is reported of a Frontend that has running
\* pods is exactly the health each of them sees, leaving aside what cannot be
\* forgotten: those pods, and the Backends a pod served before its HAProxy
\* restarted (main.go says the namespaces of WATCH_NAMESPACE are watched;
\* Start, scrapeMetrics, updateHealthManager).
ReportsConverge ==
    \A f \in Frontends :
        <>[](Expected(f) # {} =>
                {e \in report[f] : /\ e.uid \notin Unforgotten
                                   /\ e.backend \in proxies[e.uid]} = Expected(f))

=============================================================================
