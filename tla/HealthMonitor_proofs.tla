------------------------ MODULE HealthMonitor_proofs ------------------------
(***************************************************************************)
(* Invariance proofs for HealthMonitor, for every set of pods, Backends    *)
(* and Frontends and every selector.                                       *)
(***************************************************************************)
EXTENDS HealthMonitor, TLAPS

-----------------------------------------------------------------------------
(* The inductive invariant. *)

HasStates(u) == \E b \in Backends : endpointStates[b][u] # "none"

Ended == {"failed", "gone"}

\* What the informer showed of a pod is what the monitor keeps, but for the
\* pods whose end it was shown or which it was not told of, and no more of a
\* pod's life than the cluster has seen.
Watched ==
    \A u \in Uids :
        /\ store[u] # "gone" => pods[u] = store[u]
        /\ store[u] = "gone" => cluster[u] = "gone"
        /\ pods[u] = "running" => cluster[u] \in {"running"} \cup Ended
        /\ pods[u] = "failed" => cluster[u] \in Ended

\* Only pods that had an address are scraped and have states; the monitor
\* knows nothing of a pod the informer did not show.
Scraped ==
    \A u \in Uids :
        /\ scrape[u] # "none" => u \in scrapeTargets /\ pods[u] # "pending"
        /\ HasStates(u) => pods[u] # "pending"
        /\ store[u] = "absent" => scrape[u] = "none" /\ ~HasStates(u)

\* A scrape that decodes belongs to a known pod or a ghost, one that still
\* dials to a known pod or one that can no longer answer.
ScrapesHaveOwner ==
    \A u \in Uids :
        /\ scrape[u] = "dial" => pods[u] # "absent" \/ cluster[u] = "gone"
        /\ scrape[u] = "decode" => pods[u] # "absent" \/ u \in ghosts

GhostsAreGone == \A u \in ghosts : cluster[u] = "gone"

\* A state without an address of this tick is that of a pod that ended.
StatesAddressed ==
    \A u \in Uids : HasStates(u) /\ u \notin scrapeTargets => cluster[u] \in Ended

IInv ==
    /\ TypeOK
    /\ Watched
    /\ Scraped
    /\ ScrapesHaveOwner
    /\ StatesHaveOwner
    /\ GhostsAreGone
    /\ StatesAddressed
    /\ AddressKnown

-----------------------------------------------------------------------------
(* The steps the invariant is preserved by. *)

\* updateHealthManager may list any of the Frontends: in HealthPipeline they come
\* and go.
Step ==
    \/ Changes
    \/ \E u \in Uids : PodGetsAddress(u) \/ Watch(u) \/ Scrape(u)
    \/ Tick
    \/ \E l \in SUBSET Frontends : UpdateHealthManager(l)
    \/ Restart

LEMMA NextIsStep == [Next]_vars => [Step]_vars
BY DEF Next, Step

-----------------------------------------------------------------------------
(* Type correctness. *)

\* Whatever updateHealthManager collects is a set of endpoints.
LEMMA CollectedType ==
  ASSUME TypeOK, NEW f \in Frontends
  PROVE  Collected(f) \in SUBSET Endpoint
<1>1. Selected(f) \subseteq Backends
  BY DEF TypeOK, Selected
<1> SUFFICES ASSUME NEW e \in Collected(f) PROVE e \in Endpoint
  OBVIOUS
<1>2. PICK b \in Selected(f), u \in Uids :
        e = [backend |-> b, uid |-> u, ip |-> IF u \in scrapeTargets THEN u ELSE NoIP,
             state |-> endpointStates[b][u]]
  BY DEF Collected
<1>3. e.state # "none" /\ e.state = endpointStates[b][u]
  BY <1>2 DEF Collected
<1>4. endpointStates[b][u] \in {"up", "down"}
  BY <1>1, <1>3 DEF TypeOK
<1> QED BY <1>1, <1>2, <1>4 DEF Endpoint

LEMMA InitType == Init => TypeOK
BY BoundsAssumption DEF Init, TypeOK, Life

LEMMA NextType == TypeOK /\ [Step]_vars => TypeOK'
<1> SUFFICES ASSUME TypeOK, [Step]_vars PROVE TypeOK'
  OBVIOUS
<1> USE BoundsAssumption DEF clusterVars, watchVars, tickVars
<1>1. ASSUME NEW u \in Uids, PodChanges(u) PROVE TypeOK'
  <2>1. cluster' \in [Uids -> Life]
    <3>1. cluster \in [Uids -> Life] /\ {"pending", "failed", "gone"} \subseteq Life
      BY DEF TypeOK, Life
    <3>2. \E s \in {"pending", "failed", "gone"} : cluster' = [cluster EXCEPT ![u] = s]
      BY <1>1 DEF PodChanges
    <3> QED BY ONLY <3>1, <3>2
  <2> QED BY <1>1, <2>1 DEF PodChanges, Edit, TypeOK
<1>2. ASSUME NEW u \in Uids, HAProxyStarts(u) PROVE TypeOK'
  BY <1>2 DEF HAProxyStarts, Edit, TypeOK
<1>3. ASSUME NEW b \in Backends, NEW u \in Uids, HealthChanges(b, u) PROVE TypeOK'
  BY <1>3 DEF HealthChanges, Edit, TypeOK
<1>4. ASSUME NEW b \in Backends, EditBackend(b) PROVE TypeOK'
  BY <1>4 DEF EditBackend, Edit, TypeOK
<1>5. ASSUME NEW u \in Uids, PodGetsAddress(u) PROVE TypeOK'
  BY <1>5 DEF PodGetsAddress, TypeOK, Life
<1>6. ASSUME NEW u \in Uids, OnAdd(u) PROVE TypeOK'
  BY <1>6 DEF OnAdd, Exists, TypeOK, Life
<1>7. ASSUME NEW u \in Uids, OnUpdate(u) PROVE TypeOK'
  BY <1>7 DEF OnUpdate, Exists, TypeOK, Life
<1>8. ASSUME NEW u \in Uids, NEW v \in Uids, OnUpdateReplaced(u, v) PROVE TypeOK'
  BY <1>8 DEF OnUpdateReplaced, Exists, TypeOK, Life
<1>9. ASSUME NEW u \in Uids, OnDelete(u) PROVE TypeOK'
  BY <1>9 DEF OnDelete, Purge, TypeOK, Life
<1>10. ASSUME NEW u \in Uids, DropTombstone(u) PROVE TypeOK'
  BY <1>10 DEF DropTombstone, TypeOK, Life
<1>11. ASSUME Tick PROVE TypeOK'
  BY <1>11 DEF Tick, Targets, TypeOK
<1>12. ASSUME NEW u \in Uids, ScrapeResponse(u) PROVE TypeOK'
  BY <1>12 DEF ScrapeResponse, TypeOK
<1>13. ASSUME NEW u \in Uids, ScrapeFails(u) PROVE TypeOK'
  BY <1>13 DEF ScrapeFails, TypeOK
<1>14. ASSUME NEW u \in Uids, NEW b \in Backends, ScrapeMetric(u, b) PROVE TypeOK'
  BY <1>14 DEF ScrapeMetric, Decoded, TypeOK
<1>15. ASSUME NEW u \in Uids, ScrapeEnds(u) PROVE TypeOK'
  BY <1>15 DEF ScrapeEnds, TypeOK
<1>16. ASSUME NEW l \in SUBSET Frontends, UpdateHealthManager(l) PROVE TypeOK'
  <2>1. report' \in [Frontends -> SUBSET Endpoint]
    BY <1>16, CollectedType DEF UpdateHealthManager, TypeOK
  <2> QED BY <1>16, <2>1 DEF UpdateHealthManager, TypeOK
<1>17. ASSUME Restart PROVE TypeOK'
  BY <1>17 DEF Restart, TypeOK, Life
<1>18. CASE UNCHANGED vars
  BY <1>18 DEF vars, TypeOK
<1> QED BY <1>1, <1>2, <1>3, <1>4, <1>5, <1>6, <1>7, <1>8, <1>9, <1>10, <1>11, <1>12,
           <1>13, <1>14, <1>15, <1>16, <1>17, <1>18
        DEF Step, Changes, Watch, Scrape

\* The state of the monitor stays in its domain: in particular HAProxyMonitor.pods
\* never holds a deleted pod as such, and whatever is reported is an endpoint.
THEOREM TypeCorrect == Spec => []TypeOK
BY InitType, NextType, NextIsStep, PTL DEF Spec

-----------------------------------------------------------------------------
(* Preservation of the inductive invariant. *)

LEMMA InitIInv == Init => IInv
<1> SUFFICES ASSUME Init PROVE IInv
  OBVIOUS
<1>1. TypeOK
  BY InitType
<1>2. \A u \in Uids : ~HasStates(u)
  BY DEF Init, HasStates
<1> QED BY <1>1, <1>2 DEF Init, IInv, Watched, Scraped, ScrapesHaveOwner, StatesHaveOwner,
                          GhostsAreGone, StatesAddressed, AddressKnown, HasStates

\* The informer callbacks show a pod as it is; no pod returns from its end.
LEMMA NextWatched == IInv /\ [Step]_vars => Watched'
<1> SUFFICES ASSUME IInv, [Step]_vars PROVE Watched'
  OBVIOUS
<1> USE DEF IInv, TypeOK, Life, Ended, clusterVars, watchVars, tickVars, Watched
<1>1. ASSUME NEW u \in Uids, PodChanges(u) \/ PodGetsAddress(u) PROVE Watched'
  BY <1>1 DEF PodChanges, PodGetsAddress, Exists
<1>2. ASSUME NEW u \in Uids, OnAdd(u) \/ OnUpdate(u) PROVE Watched'
  BY <1>2 DEF OnAdd, OnUpdate, Exists
<1>3. ASSUME NEW u \in Uids, NEW v \in Uids, OnUpdateReplaced(u, v) PROVE Watched'
  BY <1>3 DEF OnUpdateReplaced, Exists
<1>4. ASSUME NEW u \in Uids, OnDelete(u) \/ DropTombstone(u) PROVE Watched'
  BY <1>4 DEF OnDelete, DropTombstone
<1>5. ASSUME Restart PROVE Watched'
  BY <1>5 DEF Restart
<1>6. CASE UNCHANGED <<cluster, store, pods>>
  BY <1>6
<1> QED BY <1>1, <1>2, <1>3, <1>4, <1>5, <1>6
        DEF Step, Changes, Watch, Scrape, HAProxyStarts, HealthChanges, EditBackend, Tick,
            ScrapeResponse, ScrapeFails, ScrapeMetric, ScrapeEnds, UpdateHealthManager, vars

\* The steps that write endpointStates.
LEMMA StatesStep ==
  ASSUME IInv, [Step]_vars
  PROVE  /\ \A v \in Uids : HasStates(v)' => HasStates(v) \/ scrape[v] = "decode"
         /\ \A u \in Uids : OnDelete(u) => \A v \in Uids : HasStates(v)' => HasStates(v) /\ v # u
         /\ Restart => \A v \in Uids : ~HasStates(v)'
<1> USE DEF HasStates
<1>1. endpointStates \in [Backends -> [Uids -> {"none", "up", "down"}]]
  BY DEF IInv, TypeOK
<1>2. ASSUME NEW u \in Uids, NEW b \in Backends, ScrapeMetric(u, b)
      PROVE  \A v \in Uids : HasStates(v)' => HasStates(v) \/ scrape[v] = "decode"
  BY <1>1, <1>2 DEF ScrapeMetric
<1>3. ASSUME NEW u \in Uids, OnDelete(u)
      PROVE  \A v \in Uids : HasStates(v)' => HasStates(v) /\ v # u
  BY <1>1, <1>3 DEF OnDelete, Purge
<1>4. ASSUME Restart PROVE \A v \in Uids : ~HasStates(v)'
  BY <1>4 DEF Restart
<1>5. CASE UNCHANGED endpointStates
  BY <1>3, <1>4, <1>5
<1> QED BY <1>2, <1>3, <1>4, <1>5
        DEF Step, Changes, Watch, Scrape, PodChanges, PodGetsAddress, HAProxyStarts,
            HealthChanges, EditBackend, OnAdd, OnUpdate, OnUpdateReplaced, DropTombstone,
            Tick, ScrapeResponse, ScrapeFails, ScrapeEnds, UpdateHealthManager, vars

\* A scrape starts with an address in the tick's targets, and a pod that had an
\* address is never again one that waits for it.
LEMMA NextScraped == IInv /\ [Step]_vars => Scraped'
<1> SUFFICES ASSUME IInv, [Step]_vars PROVE Scraped'
  OBVIOUS
<1> USE DEF IInv, TypeOK, Life, Ended, clusterVars, watchVars, tickVars, Watched, Scraped
<1>1. ASSUME NEW u \in Uids, OnAdd(u) \/ OnUpdate(u) PROVE Scraped'
  BY <1>1 DEF OnAdd, OnUpdate, Exists, HasStates
<1>2. ASSUME NEW u \in Uids, NEW v \in Uids, OnUpdateReplaced(u, v) PROVE Scraped'
  BY <1>2 DEF OnUpdateReplaced, Exists, HasStates
<1>3. ASSUME NEW u \in Uids, OnDelete(u) PROVE Scraped'
  BY <1>3, StatesStep DEF OnDelete
<1>4. ASSUME NEW u \in Uids, DropTombstone(u) PROVE Scraped'
  BY <1>4 DEF DropTombstone, HasStates
<1>5. ASSUME Tick PROVE Scraped'
  BY <1>5 DEF Tick, Targets, HasStates
<1>6. ASSUME NEW u \in Uids, ScrapeResponse(u) \/ ScrapeFails(u) \/ ScrapeEnds(u)
      PROVE  Scraped'
  BY <1>6 DEF ScrapeResponse, ScrapeFails, ScrapeEnds, HasStates
<1>7. ASSUME NEW u \in Uids, NEW b \in Backends, ScrapeMetric(u, b) PROVE Scraped'
  BY <1>7, StatesStep DEF ScrapeMetric
<1>8. ASSUME Restart PROVE Scraped'
  BY <1>8, StatesStep DEF Restart
<1>9. CASE UNCHANGED <<store, pods, endpointStates, scrapeTargets, scrape>>
  BY <1>9 DEF HasStates
<1> QED BY <1>1, <1>2, <1>3, <1>4, <1>5, <1>6, <1>7, <1>8, <1>9
        DEF Step, Changes, Watch, Scrape, PodChanges, PodGetsAddress, HAProxyStarts,
            HealthChanges, EditBackend, UpdateHealthManager, vars

\* Only a running pod answers, and the pod whose scrape decodes when it is
\* deleted or replaced becomes a ghost.
LEMMA NextOwner ==
  IInv /\ [Step]_vars => ScrapesHaveOwner' /\ StatesHaveOwner' /\ GhostsAreGone'
<1> DEFINE Goal == ScrapesHaveOwner /\ StatesHaveOwner /\ GhostsAreGone
<1> SUFFICES ASSUME IInv, [Step]_vars PROVE Goal'
  OBVIOUS
<1> USE DEF IInv, TypeOK, Life, Ended, clusterVars, watchVars, tickVars, ScrapesHaveOwner,
            StatesHaveOwner, GhostsAreGone, HasStates
<1>1. ASSUME NEW u \in Uids, PodChanges(u) \/ PodGetsAddress(u) PROVE Goal'
  BY <1>1 DEF PodChanges, PodGetsAddress, Exists
<1>2. ASSUME NEW u \in Uids, OnAdd(u) \/ OnUpdate(u) PROVE Goal'
  BY <1>2 DEF OnAdd, OnUpdate, Exists
<1>3. ASSUME NEW u \in Uids, NEW v \in Uids, OnUpdateReplaced(u, v) PROVE Goal'
  BY <1>3 DEF OnUpdateReplaced, Exists
<1>4. ASSUME NEW u \in Uids, OnDelete(u) PROVE Goal'
  <2>1. \A v \in Uids : HasStates(v)' => HasStates(v) /\ v # u
    BY ONLY IInv, [Step]_vars, <1>4, StatesStep
  <2> QED BY <1>4, <2>1 DEF OnDelete
<1>5. ASSUME NEW u \in Uids, DropTombstone(u) PROVE Goal'
  BY <1>5 DEF DropTombstone
<1>6. ASSUME Tick PROVE Goal'
  BY <1>6 DEF Tick
<1>7. ASSUME NEW u \in Uids, ScrapeResponse(u) \/ ScrapeFails(u) \/ ScrapeEnds(u)
      PROVE  Goal'
  BY <1>7 DEF ScrapeResponse, ScrapeFails, ScrapeEnds, Watched
<1>8. ASSUME NEW u \in Uids, NEW b \in Backends, ScrapeMetric(u, b) PROVE Goal'
  BY <1>8, StatesStep DEF ScrapeMetric
<1>9. ASSUME Restart PROVE Goal'
  BY <1>9, StatesStep DEF Restart
<1>10. CASE UNCHANGED <<cluster, pods, endpointStates, scrape, ghosts>>
  BY <1>10
<1> QED BY <1>1, <1>2, <1>3, <1>4, <1>5, <1>6, <1>7, <1>8, <1>9, <1>10
        DEF Step, Changes, Watch, Scrape, HAProxyStarts, HealthChanges, EditBackend,
            UpdateHealthManager, vars

\* The pod at its end stays there.
LEMMA EndedStep ==
  ASSUME IInv, [Step]_vars, NEW u \in Uids, cluster[u] \in Ended
  PROVE  cluster'[u] \in Ended
<1> USE DEF IInv, TypeOK, Ended, clusterVars
<1>1. CASE \E v \in Uids : PodChanges(v) \/ PodGetsAddress(v)
  BY <1>1 DEF PodChanges, PodGetsAddress, Exists
<1>2. CASE UNCHANGED cluster
  BY <1>2
<1> QED BY <1>1, <1>2
        DEF Step, Changes, Watch, Scrape, HAProxyStarts, HealthChanges, EditBackend, OnAdd,
            OnUpdate, OnUpdateReplaced, OnDelete, DropTombstone, Tick, ScrapeResponse,
            ScrapeFails, ScrapeMetric, ScrapeEnds, UpdateHealthManager, Restart, vars

\* A tick leaves out of its targets only pods whose states are those of a pod
\* that ended: a ghost, or one the informer shows as failed.
LEMMA NextAddressed == IInv /\ [Step]_vars => StatesAddressed'
<1> SUFFICES ASSUME IInv, [Step]_vars,
                    NEW u \in Uids, HasStates(u)', u \notin scrapeTargets'
             PROVE  cluster'[u] \in Ended
  BY DEF StatesAddressed, Ended
<1>1. CASE Tick
  <2>1. HasStates(u) /\ UNCHANGED cluster /\ pods[u] # "running"
    BY <1>1 DEF Tick, Targets, HasStates, clusterVars
  <2>2. pods[u] \in {"absent", "failed"}
    BY <2>1 DEF IInv, TypeOK, Life, Scraped
  <2>3. pods[u] = "absent" => u \in ghosts
    BY <2>1 DEF IInv, StatesHaveOwner, HasStates
  <2> QED BY <2>1, <2>2, <2>3 DEF IInv, Watched, GhostsAreGone, Ended
<1>2. CASE Restart
  BY <1>2, StatesStep
<1>3. CASE UNCHANGED scrapeTargets
  <2>1. scrape[u] # "decode"
    BY <1>3 DEF IInv, Scraped
  <2>2. HasStates(u)
    BY <2>1, StatesStep
  <2> QED BY <1>3, <2>2, EndedStep DEF IInv, StatesAddressed
<1> QED BY <1>1, <1>2, <1>3
        DEF Step, Changes, Watch, Scrape, PodChanges, PodGetsAddress, HAProxyStarts,
            HealthChanges, EditBackend, OnAdd, OnUpdate, OnUpdateReplaced, OnDelete,
            DropTombstone, ScrapeResponse, ScrapeFails, ScrapeMetric, ScrapeEnds,
            UpdateHealthManager, vars, tickVars

\* An address that is missing from a new report is missing from the targets.
LEMMA NextAddressKnown == IInv /\ [Step]_vars => AddressKnown'
<1> SUFFICES ASSUME IInv, [Step]_vars, NEW f \in Frontends, NEW e \in report'[f], e.ip = NoIP
             PROVE  cluster'[e.uid] \in Ended
  BY DEF AddressKnown, Ended
<1>1. ASSUME e \in Collected(f) PROVE cluster[e.uid] \in Ended
  <2>1. PICK b \in Selected(f), u \in Uids :
          e = [backend |-> b, uid |-> u, ip |-> IF u \in scrapeTargets THEN u ELSE NoIP,
               state |-> endpointStates[b][u]]
    BY <1>1 DEF Collected
  <2>2. b \in Backends
    BY DEF Selected, IInv, TypeOK
  <2>3. e.state # "none"
    BY <1>1 DEF Collected
  <2>4. HasStates(u)
    BY <2>1, <2>2, <2>3 DEF HasStates
  <2>5. u \notin scrapeTargets
    BY <2>1, UidsAssumption
  <2> QED BY <2>1, <2>4, <2>5 DEF IInv, StatesAddressed
<1>2. CASE e \in report[f]
  <2>1. cluster[e.uid] \in Ended /\ e.uid \in Uids
    BY <1>2 DEF IInv, AddressKnown, Ended, TypeOK, Endpoint
  <2> QED BY <2>1, EndedStep
<1>3. CASE \E l \in SUBSET Frontends : UpdateHealthManager(l)
  <2>1. e \in Collected(f) \/ e \in report[f]
    BY <1>3 DEF UpdateHealthManager
  <2> QED BY <1>1, <1>2, <1>3, <2>1 DEF UpdateHealthManager, clusterVars
<1>4. CASE Restart
  BY <1>4 DEF Restart
<1>5. CASE UNCHANGED report
  BY <1>2, <1>5
<1> QED BY <1>3, <1>4, <1>5
        DEF Step, Changes, Watch, Scrape, PodChanges, PodGetsAddress, HAProxyStarts,
            HealthChanges, EditBackend, OnAdd, OnUpdate, OnUpdateReplaced, OnDelete,
            DropTombstone, Tick, ScrapeResponse, ScrapeFails, ScrapeMetric, ScrapeEnds, vars

LEMMA NextIInv == IInv /\ [Step]_vars => IInv'
BY NextType, NextWatched, NextScraped, NextOwner, NextAddressed, NextAddressKnown DEF IInv

\* The inductive invariant holds of every behaviour.
THEOREM Invariance == Spec => []IInv
BY InitIInv, NextIInv, NextIsStep, PTL DEF Spec

-----------------------------------------------------------------------------
(* What the monitor keeps and reports. *)

\* For every set of pods: the states of a pod are dropped with the pod, unless
\* it was deleted while its scrape was decoding or replaced under its name
\* during a broken watch (onDelete, onUpdate, scrapeMetrics).
THEOREM OwnedStates == Spec => []StatesHaveOwner
<1>1. IInv => StatesHaveOwner
  BY DEF IInv
<1> QED BY <1>1, Invariance, PTL

\* For every set of pods, Backends and Frontends: an endpoint without address,
\* which the API server refuses, is reported only for a pod that failed or is
\* gone (scrapeMetrics, updateHealthManager).
THEOREM AddressesKnown == Spec => []AddressKnown
<1>1. IInv => AddressKnown
  BY DEF IInv
<1> QED BY <1>1, Invariance, PTL

=============================================================================
