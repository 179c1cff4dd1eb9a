----------------------- MODULE HealthPipeline_proofs -----------------------
(***************************************************************************)
(* Proofs about HealthPipeline, for every set of pods, Backends and        *)
(* Frontends: what HealthMonitor and HealthPublication promise holds of    *)
(* the two together, a slice shows what the monitor last collected, and    *)
(* while the operator runs no EndpointSlice is emptied.                    *)
(***************************************************************************)
EXTENDS HealthPipeline, FiniteSetTheorems, TLAPS

-----------------------------------------------------------------------------
(* What is handed over. *)

\* What updateHealthManager has yet to hand over is not empty, and the next
\* tick waits for it.
OutboxFilled ==
    /\ \A f \in Frontends : IsFiniteSet(report[f])
    /\ \A f \in outbox : f \in Frontends /\ report[f] # {}
    /\ outbox # {} => ticker = "wait"

-----------------------------------------------------------------------------
(* The steps of the two components. *)

\* Of what the invariant is about, a step of the monitor other than a report
\* changes the ticker only.
MonitorFrame ==
    /\ UNCHANGED <<report, last, outbox>>
    /\ ticker' = ticker \/ outbox = {}

LEMMA MonitorStep ==
  ASSUME \/ OfMonitor(Monitor!Changes)
         \/ \E u \in Uids : OfMonitor(Monitor!PodGetsAddress(u) \/ Monitor!Watch(u))
         \/ Tick
         \/ \E u \in Uids : OfMonitor(Monitor!Scrape(u))
  PROVE  MonitorFrame
<1> USE DEF OfMonitor, publicationVars, MonitorFrame
<1>1. CASE OfMonitor(Monitor!Changes)
  BY <1>1 DEF Monitor!Changes, Monitor!PodChanges, Monitor!HAProxyStarts,
              Monitor!HealthChanges, Monitor!EditBackend, Monitor!watchVars, Monitor!tickVars
<1>2. CASE \E u \in Uids : OfMonitor(Monitor!PodGetsAddress(u) \/ Monitor!Watch(u))
  BY <1>2 DEF Monitor!PodGetsAddress, Monitor!Watch, Monitor!OnAdd, Monitor!OnUpdate,
              Monitor!OnDelete, Monitor!DropTombstone, Monitor!OnUpdateReplaced,
              Monitor!clusterVars, Monitor!watchVars, Monitor!tickVars
<1>3. CASE Tick
  BY <1>3 DEF Tick, Monitor!Tick
<1>4. CASE \E u \in Uids : OfMonitor(Monitor!Scrape(u))
  BY <1>4 DEF Monitor!Scrape, Monitor!ScrapeResponse, Monitor!ScrapeFails,
              Monitor!ScrapeEnds, Monitor!ScrapeMetric, Monitor!clusterVars,
              Monitor!watchVars
<1> QED BY <1>1, <1>2, <1>3, <1>4

\* Every step of the pipeline, by what it may change.
LEMMA Steps ==
  ASSUME Next
  PROVE  \/ MonitorFrame
         \/ UpdateHealthManager
         \/ \E f \in Frontends : HandOver(f)
         \/ \E f \in Frontends : OfPublication(Publication!Changes(f) \/ Publication!Reconcile(f)
                                               \/ Publication!Cluster(f))
         \/ OfPublication(Publication!Resync \/ Publication!SendEvent \/ Publication!Channel)
         \/ OfPublication(Publication!Worker)
         \/ Restart
BY MonitorStep DEF Next, Cluster, Loop, Controller, OfPublication

-----------------------------------------------------------------------------
(* Lists are not empty. *)

\* What updateHealthManager collects is finite.
LEMMA CollectedFinite ==
  ASSUME NEW f \in Frontends
  PROVE  IsFiniteSet(Monitor!Collected(f))
<1> DEFINE S == Monitor!Selected(f)
           E(b, u) == [backend |-> b, uid |-> u,
                       ip |-> IF u \in scrapeTargets THEN u ELSE NoIP,
                       state |-> endpointStates[b][u]]
           T == {E(b, u) : b \in S, u \in Uids}
           g == [p \in S \X Uids |-> E(p[1], p[2])]
<1>1. S \subseteq Backends
  BY SelectorAssumption DEF Monitor!Selected
<1>2. IsFiniteSet(S \X Uids)
  BY <1>1, FinitenessAssumption, FS_Subset, FS_Product
<1>3. g \in Surjection(S \X Uids, T)
  <2>1. g \in [S \X Uids -> T]
    <3>1. \A p \in S \X Uids : E(p[1], p[2]) \in T
      OBVIOUS
    <3> QED BY <3>1
  <2>2. \A t \in T : \E p \in S \X Uids : g[p] = t
    <3> SUFFICES ASSUME NEW t \in T PROVE \E p \in S \X Uids : g[p] = t
      OBVIOUS
    <3>1. PICK b \in S, u \in Uids : t = E(b, u)
      OBVIOUS
    <3>2. <<b, u>> \in S \X Uids /\ g[<<b, u>>] = t
      BY <3>1
    <3> QED BY <3>2
  <2> HIDE DEF S, T, g
  <2> QED BY <2>1, <2>2 DEF Surjection
<1>4. IsFiniteSet(T)
  BY <1>2, <1>3, FS_Surjection
<1>5. Monitor!Collected(f) \subseteq T
  BY DEF Monitor!Collected
<1> HIDE DEF T
<1> QED BY <1>4, <1>5, FS_Subset

\* The list of endpoints of a Frontend with endpoints is not empty.
LEMMA ListsFilled ==
  ASSUME NEW f, IsFiniteSet(report[f]), report[f] # {}, NEW list \in Lists(f)
  PROVE  list # <<>>
<1>1. PICK order \in SetToSeqs(report[f]) :
        list = [i \in 1..Len(order) |-> EndpointOf(order[i])]
  BY DEF Lists
<1>2. Cardinality(report[f]) \in Nat /\ Cardinality(report[f]) # 0
  BY FS_CardinalityType, FS_EmptySet
<1>3. order \in [1..Cardinality(report[f]) -> report[f]]
  BY DEF SetToSeqs
<1>4. order \in Seq(report[f]) /\ Len(order) = Cardinality(report[f])
  BY <1>2, <1>3
<1>5. 1 \in DOMAIN list
  BY <1>1, <1>2, <1>4
<1> QED BY <1>5

-----------------------------------------------------------------------------
(* Every list that is handed over is finite and not empty. *)

LEMMA InitOutbox == Init => OutboxFilled
BY FS_EmptySet DEF Init, Monitor!Init, OutboxFilled

LEMMA UpdateStep ==
  ASSUME OutboxFilled, UpdateHealthManager
  PROVE  OutboxFilled'
<1>1. /\ ticker' = "wait" /\ outbox' = Reported
      /\ report' = [f \in Frontends |->
            IF Monitor!ListSucceeds /\ f \in Publication!There /\ Monitor!Collected(f) # {}
            THEN Monitor!Collected(f) ELSE report[f]]
  BY DEF UpdateHealthManager, Monitor!UpdateHealthManager
<1>2. \A f \in Frontends : IsFiniteSet(report'[f])
  BY <1>1, CollectedFinite DEF OutboxFilled
<1>3. \A f \in outbox' : f \in Frontends /\ report'[f] # {}
  BY <1>1 DEF Reported, Publication!There
<1> QED BY <1>1, <1>2, <1>3 DEF OutboxFilled

LEMMA NextOutbox == OutboxFilled /\ [Next]_vars => OutboxFilled'
<1> SUFFICES ASSUME OutboxFilled, [Next]_vars PROVE OutboxFilled'
  OBVIOUS
<1>1. CASE MonitorFrame \/ UNCHANGED vars
  BY <1>1 DEF MonitorFrame, vars, monitorVars, OutboxFilled
<1>2. ASSUME NEW f \in Frontends, HandOver(f) PROVE OutboxFilled'
  BY <1>2 DEF HandOver, monitorVars, OutboxFilled
<1>3. CASE Restart
  BY <1>3, FS_EmptySet DEF Restart, Monitor!Restart, OutboxFilled
<1>4. CASE UNCHANGED <<monitorVars, outbox>>
  BY <1>4 DEF monitorVars, OutboxFilled
<1> QED BY <1>1, <1>2, <1>3, <1>4, Steps, UpdateStep DEF OfPublication

-----------------------------------------------------------------------------
(* The monitor in the composition. *)

MonitorProofs == INSTANCE HealthMonitor_proofs WITH pc <- ticker

\* A step of HealthPublication leaves all that is the monitor's alone, but for
\* the bounds the two components share.
PublicationFrame ==
    /\ UNCHANGED monitorVars
    /\ edits' = edits \/ (edits < MaxEdits /\ edits' = edits + 1)
    /\ faults' = faults \/ (faults < MaxFaults /\ faults' = faults + 1)

\* The actions that HealthMonitor_proofs reasons about are those the pipeline
\* takes.
LEMMA MonitorChanges == Monitor!Changes => MonitorProofs!Changes
BY DEF Monitor!Changes, Monitor!PodChanges, Monitor!HAProxyStarts, Monitor!HealthChanges,
       Monitor!EditBackend, Monitor!Edit, Monitor!Exists, Monitor!watchVars, Monitor!tickVars,
       MonitorProofs!Changes, MonitorProofs!PodChanges, MonitorProofs!HAProxyStarts,
       MonitorProofs!HealthChanges, MonitorProofs!EditBackend, MonitorProofs!Edit,
       MonitorProofs!Exists, MonitorProofs!watchVars, MonitorProofs!tickVars

LEMMA MonitorWatch ==
  ASSUME NEW u \in Uids, Monitor!PodGetsAddress(u) \/ Monitor!Watch(u)
  PROVE  MonitorProofs!PodGetsAddress(u) \/ MonitorProofs!Watch(u)
BY DEF Monitor!PodGetsAddress, Monitor!Watch, Monitor!OnAdd, Monitor!OnUpdate,
       Monitor!OnDelete, Monitor!DropTombstone, Monitor!OnUpdateReplaced, Monitor!Purge,
       Monitor!Exists, Monitor!clusterVars, Monitor!watchVars, Monitor!tickVars,
       MonitorProofs!PodGetsAddress, MonitorProofs!Watch, MonitorProofs!OnAdd,
       MonitorProofs!OnUpdate, MonitorProofs!OnDelete, MonitorProofs!DropTombstone,
       MonitorProofs!OnUpdateReplaced, MonitorProofs!Purge, MonitorProofs!Exists,
       MonitorProofs!clusterVars, MonitorProofs!watchVars, MonitorProofs!tickVars

LEMMA MonitorScrape ==
  ASSUME NEW u \in Uids, Monitor!Scrape(u)
  PROVE  MonitorProofs!Scrape(u)
BY DEF Monitor!Scrape, Monitor!ScrapeResponse, Monitor!ScrapeFails, Monitor!ScrapeEnds,
       Monitor!ScrapeMetric, Monitor!Decoded, Monitor!clusterVars, Monitor!watchVars,
       MonitorProofs!Scrape, MonitorProofs!ScrapeResponse, MonitorProofs!ScrapeFails,
       MonitorProofs!ScrapeEnds, MonitorProofs!ScrapeMetric, MonitorProofs!Decoded,
       MonitorProofs!clusterVars, MonitorProofs!watchVars

LEMMA MonitorLoop ==
  /\ Monitor!Tick => MonitorProofs!Tick
  /\ \A l : Monitor!UpdateHealthManager(l) => MonitorProofs!UpdateHealthManager(l)
  /\ Monitor!Restart => MonitorProofs!Restart
<1> USE DEF Monitor!clusterVars, Monitor!watchVars, MonitorProofs!clusterVars,
            MonitorProofs!watchVars
<1>1. Monitor!Tick => MonitorProofs!Tick
  BY DEF Monitor!Tick, Monitor!Targets, MonitorProofs!Tick, MonitorProofs!Targets
<1>2. ASSUME NEW l, Monitor!UpdateHealthManager(l) PROVE MonitorProofs!UpdateHealthManager(l)
  <2>1. \A f : Monitor!Collected(f) = MonitorProofs!Collected(f)
    BY DEF Monitor!Collected, Monitor!Selected, MonitorProofs!Collected, MonitorProofs!Selected
  <2>2. Monitor!ListSucceeds = MonitorProofs!ListSucceeds
    BY DEF Monitor!ListSucceeds, MonitorProofs!ListSucceeds, Monitor!Cardinality,
           MonitorProofs!Cardinality
  <2>3. [f \in Frontends |->
            IF Monitor!ListSucceeds /\ f \in l /\ Monitor!Collected(f) # {}
            THEN Monitor!Collected(f) ELSE report[f]]
        = [f \in Frontends |->
            IF MonitorProofs!ListSucceeds /\ f \in l /\ MonitorProofs!Collected(f) # {}
            THEN MonitorProofs!Collected(f) ELSE report[f]]
    BY <2>1, <2>2
  <2> QED BY <1>2, <2>3 DEF Monitor!UpdateHealthManager, MonitorProofs!UpdateHealthManager
<1>3. Monitor!Restart => MonitorProofs!Restart
  BY DEF Monitor!Restart, MonitorProofs!Restart
<1> QED BY <1>1, <1>2, <1>3

LEMMA PublicationSteps ==
  ASSUME UNCHANGED monitorVars,
         \/ \E f \in Frontends : \/ Publication!Changes(f) \/ Publication!Reconcile(f)
                                 \/ Publication!Cluster(f)
                                 \/ \E list \in Lists(f) : Publication!Update(f, list)
         \/ Publication!Resync \/ Publication!SendEvent \/ Publication!Channel
         \/ Publication!Worker
  PROVE  PublicationFrame
BY DEF PublicationFrame, Publication!Changes, Publication!Cluster, Publication!Channel,
       Publication!EditFrontend, Publication!GetsPort, Publication!Reconcile,
       Publication!Update, Publication!Worker, Publication!Fault,
       Publication!DeliverService, Publication!DeliverSlice, Publication!CollectService,
       Publication!CollectSlice, Publication!Resync, Publication!SendEvent,
       Publication!StartController, Publication!EnqueueEvent,
       Publication!KeepService, Publication!WriteService, Publication!WriteServiceFails,
       Publication!ReadHealth, Publication!SkipWrite, Publication!WriteSlice,
       Publication!WriteSliceFails

\* Every step of the pipeline is one of the monitor or none of its business.
LEMMA MonitorImplemented ==
  [Next]_vars => MonitorProofs!Step \/ PublicationFrame
<1> SUFFICES ASSUME [Next]_vars PROVE MonitorProofs!Step \/ PublicationFrame
  OBVIOUS
<1> USE DEF OfMonitor, OfPublication, MonitorProofs!Step
<1>1. CASE OfMonitor(Monitor!Changes)
  BY <1>1, MonitorChanges
<1>2. CASE Cluster
  BY <1>2, MonitorWatch, PublicationSteps DEF Cluster
<1>3. CASE Loop
  BY <1>3, MonitorLoop, MonitorScrape, PublicationSteps
     DEF Loop, Tick, UpdateHealthManager, HandOver, Publication!There
<1>4. CASE Restart
  BY <1>4, MonitorLoop DEF Restart
<1>5. CASE Controller \/ OfPublication(Publication!Resync)
  BY <1>5, PublicationSteps DEF Controller
<1>6. CASE \E f \in Frontends : OfPublication(Publication!Changes(f) \/ Publication!Reconcile(f))
  BY <1>6, PublicationSteps
<1>7. CASE UNCHANGED vars
  BY <1>7 DEF vars, PublicationFrame
<1> QED BY <1>1, <1>2, <1>3, <1>4, <1>5, <1>6, <1>7 DEF Next

LEMMA MonitorPreserved == MonitorProofs!IInv /\ [Next]_vars => MonitorProofs!IInv'
<1> SUFFICES ASSUME MonitorProofs!IInv, [Next]_vars PROVE MonitorProofs!IInv'
  OBVIOUS
<1>1. CASE MonitorProofs!Step
  BY <1>1, UidsAssumption, SelectorAssumption, BoundsAssumption, MonitorProofs!NextIInv
<1>2. CASE PublicationFrame
  BY <1>2, BoundsAssumption
     DEF PublicationFrame, monitorVars, MonitorProofs!IInv, MonitorProofs!TypeOK,
         MonitorProofs!Watched, MonitorProofs!Scraped, MonitorProofs!HasStates,
         MonitorProofs!ScrapesHaveOwner, MonitorProofs!StatesHaveOwner,
         MonitorProofs!GhostsAreGone, MonitorProofs!StatesAddressed,
         MonitorProofs!AddressKnown
<1> QED BY <1>1, <1>2, MonitorImplemented

\* What HealthMonitor_proofs shows of HAProxyMonitor holds when the monitor runs
\* against the Frontend controller, which delays its ticks and restarts with
\* it: states are kept for known pods and ghosts only, and an endpoint without
\* address is reported only for a pod that failed or is gone.
THEOREM MonitorInPipeline == Spec => [](Monitor!StatesHaveOwner /\ Monitor!AddressKnown)
<1>1. Init => MonitorProofs!IInv
  <2>1. Monitor!Init => MonitorProofs!Init
    BY DEF Monitor!Init, MonitorProofs!Init
  <2> QED BY <2>1, UidsAssumption, SelectorAssumption, BoundsAssumption,
             MonitorProofs!InitIInv DEF Init
<1>2. MonitorProofs!IInv => Monitor!StatesHaveOwner /\ Monitor!AddressKnown
  BY DEF MonitorProofs!IInv, MonitorProofs!StatesHaveOwner, MonitorProofs!AddressKnown,
         Monitor!StatesHaveOwner, Monitor!AddressKnown
<1> QED BY <1>1, <1>2, MonitorPreserved, PTL DEF Spec

-----------------------------------------------------------------------------
(* HealthManager and the Frontend controller in the composition. *)

\* Any list of endpoints that is not empty may be reported.
AllReports == Seq([ip : Uids \cup {NoIP}, healthy : BOOLEAN]) \ {<<>>}

PublicationProofs == INSTANCE HealthPublication_proofs WITH
    IPs <- Uids, Reports <- AllReports, MaxReports <- 0

\* The assumptions of HealthPublication.
LEMMA PublicationAssumptions ==
  /\ NoIP \notin Uids
  /\ \A r \in AllReports : r \in Seq(PublicationProofs!Endpoint) /\ r # <<>>
  /\ NoFrontend \notin Frontends /\ NoPort \notin Ports
  /\ 0 \in Nat /\ MaxEdits \in Nat /\ MaxFaults \in Nat
BY UidsAssumption, NoFrontendAssumption, NoPortAssumption, BoundsAssumption
   DEF AllReports, PublicationProofs!Endpoint

\* A step of the monitor leaves all that is the publication's alone, but for the
\* bounds the two components share.
MonitorOnly ==
    /\ UNCHANGED <<publicationVars, reports>>
    /\ edits' = edits \/ (edits < MaxEdits /\ edits' = edits + 1)
    /\ faults' = faults \/ (faults < MaxFaults /\ faults' = faults + 1)

LEMMA PublicationCluster ==
  ASSUME NEW f \in Frontends, Publication!Changes(f) \/ Publication!Cluster(f)
  PROVE  PublicationProofs!Changes(f) \/ PublicationProofs!Cluster(f)
BY DEF Publication!Changes, Publication!Cluster, Publication!EditFrontend,
       Publication!GetsPort, Publication!DeliverService, Publication!DeliverSlice,
       Publication!CollectService, Publication!CollectSlice, Publication!There,
       Publication!Ported, Publication!Absent, Publication!NoService, Publication!NoSlice,
       Publication!monitorVars, Publication!apiVars, Publication!cacheVars,
       Publication!workerVars,
       PublicationProofs!Changes, PublicationProofs!Cluster, PublicationProofs!EditFrontend,
       PublicationProofs!GetsPort, PublicationProofs!DeliverService,
       PublicationProofs!DeliverSlice, PublicationProofs!CollectService,
       PublicationProofs!CollectSlice, PublicationProofs!There,
       PublicationProofs!Ported, PublicationProofs!Absent,
       PublicationProofs!NoService, PublicationProofs!NoSlice,
       PublicationProofs!monitorVars, PublicationProofs!apiVars,
       PublicationProofs!cacheVars, PublicationProofs!workerVars

LEMMA PublicationQueue ==
  /\ \A f \in Frontends : Publication!Reconcile(f) => PublicationProofs!Reconcile(f)
  /\ Publication!Resync => PublicationProofs!Resync
  /\ Publication!SendEvent => PublicationProofs!SendEvent
  /\ Publication!Channel => PublicationProofs!Channel
BY DEF Publication!Reconcile, Publication!Resync, Publication!SendEvent,
       Publication!Channel, Publication!StartController, Publication!EnqueueEvent,
       Publication!ChannelReady, Publication!ChannelHolds, Publication!There,
       Publication!Ported,
       Publication!monitorVars, Publication!apiVars, Publication!cacheVars,
       Publication!workerVars,
       PublicationProofs!Reconcile, PublicationProofs!Resync, PublicationProofs!SendEvent,
       PublicationProofs!Channel, PublicationProofs!StartController,
       PublicationProofs!EnqueueEvent, PublicationProofs!ChannelReady,
       PublicationProofs!ChannelHolds, PublicationProofs!There,
       PublicationProofs!Ported,
       PublicationProofs!monitorVars, PublicationProofs!apiVars,
       PublicationProofs!cacheVars, PublicationProofs!workerVars

LEMMA PublicationWorker == Publication!Worker => PublicationProofs!Worker
BY DEF Publication!Worker, Publication!KeepService, Publication!WriteService,
       Publication!WriteServiceFails, Publication!ReadHealth, Publication!SkipWrite,
       Publication!WriteSlice, Publication!WriteSliceFails, Publication!WantedService,
       Publication!WantedSlice, Publication!Refused, Publication!SliceRefused,
       Publication!Return, Publication!Requeue, Publication!Fault, Publication!NoSlice,
       Publication!monitorVars, Publication!apiVars, Publication!cacheVars,
       PublicationProofs!Worker, PublicationProofs!KeepService,
       PublicationProofs!WriteService, PublicationProofs!WriteServiceFails,
       PublicationProofs!ReadHealth, PublicationProofs!SkipWrite,
       PublicationProofs!WriteSlice, PublicationProofs!WriteSliceFails,
       PublicationProofs!WantedService, PublicationProofs!WantedSlice,
       PublicationProofs!Refused, PublicationProofs!SliceRefused,
       PublicationProofs!Return, PublicationProofs!Requeue, PublicationProofs!Fault,
       PublicationProofs!NoSlice, PublicationProofs!monitorVars,
       PublicationProofs!apiVars, PublicationProofs!cacheVars

LEMMA PublicationRestart == Publication!Restart => PublicationProofs!Restart
BY DEF Publication!Restart, Publication!Fault, Publication!ChannelOff, Publication!There,
       Publication!Return, Publication!NoSlice, Publication!apiVars,
       PublicationProofs!Restart, PublicationProofs!Fault, PublicationProofs!ChannelOff,
       PublicationProofs!There, PublicationProofs!Return, PublicationProofs!NoSlice,
       PublicationProofs!apiVars

\* What is handed over is a list of endpoints.
LEMMA ListsAreReports ==
  ASSUME NEW f \in Frontends, report[f] \in SUBSET Monitor!Endpoint,
         IsFiniteSet(report[f]), report[f] # {}, NEW list \in Lists(f)
  PROVE  list \in AllReports
<1>1. PICK order \in SetToSeqs(report[f]) :
        list = [i \in 1..Len(order) |-> EndpointOf(order[i])]
  BY DEF Lists
<1>2. Cardinality(report[f]) \in Nat
  BY FS_CardinalityType
<1>3. order \in [1..Cardinality(report[f]) -> report[f]]
  BY DEF SetToSeqs
<1>4. order \in Seq(report[f]) /\ Len(order) \in Nat
  BY <1>2, <1>3
<1>5. \A i \in 1..Len(order) :
         EndpointOf(order[i]) \in [ip : Uids \cup {NoIP}, healthy : BOOLEAN]
  BY <1>4 DEF EndpointOf, Monitor!Endpoint
<1>6. list \in Seq([ip : Uids \cup {NoIP}, healthy : BOOLEAN])
  BY <1>1, <1>4, <1>5
<1> QED BY <1>6, ListsFilled DEF AllReports

LEMMA PublicationUpdate ==
  ASSUME NEW f \in Frontends, NEW list \in AllReports, Publication!Update(f, list),
         UNCHANGED reports
  PROVE  PublicationProofs!Reported(f)
BY DEF Publication!Update, Publication!Changed, Publication!CachedHealth, Publication!Store,
       Publication!apiVars, Publication!cacheVars, Publication!workerVars,
       PublicationProofs!Reported, PublicationProofs!Update, PublicationProofs!Changed,
       PublicationProofs!CachedHealth, PublicationProofs!Store, PublicationProofs!apiVars,
       PublicationProofs!cacheVars, PublicationProofs!workerVars

\* A step of the monitor, also a report it collects, is none of the publication's
\* business.
LEMMA MonitorAlone ==
  ASSUME \/ OfMonitor(Monitor!Changes)
         \/ \E u \in Uids : OfMonitor(Monitor!PodGetsAddress(u) \/ Monitor!Watch(u))
         \/ Tick
         \/ \E u \in Uids : OfMonitor(Monitor!Scrape(u))
         \/ UpdateHealthManager
  PROVE  MonitorOnly
<1> USE DEF OfMonitor, MonitorOnly
<1>1. CASE OfMonitor(Monitor!Changes)
  BY <1>1 DEF Monitor!Changes, Monitor!PodChanges, Monitor!HAProxyStarts,
              Monitor!HealthChanges, Monitor!EditBackend, Monitor!Edit
<1>2. CASE \E u \in Uids : OfMonitor(Monitor!PodGetsAddress(u) \/ Monitor!Watch(u))
  BY <1>2 DEF Monitor!PodGetsAddress, Monitor!Watch, Monitor!OnAdd, Monitor!OnUpdate,
              Monitor!OnDelete, Monitor!DropTombstone, Monitor!OnUpdateReplaced
<1>3. CASE Tick \/ UpdateHealthManager
  BY <1>3 DEF Tick, UpdateHealthManager, Monitor!Tick, Monitor!UpdateHealthManager
<1>4. CASE \E u \in Uids : OfMonitor(Monitor!Scrape(u))
  BY <1>4 DEF Monitor!Scrape, Monitor!ScrapeResponse, Monitor!ScrapeFails,
              Monitor!ScrapeEnds, Monitor!ScrapeMetric
<1> QED BY <1>1, <1>2, <1>3, <1>4

\* Every step of the pipeline is one of the publication or of the monitor alone.
LEMMA PublicationImplemented ==
  ASSUME OutboxFilled, MonitorProofs!TypeOK, [Next]_vars
  PROVE  PublicationProofs!Step \/ MonitorOnly
<1> USE DEF OfPublication, PublicationProofs!Step
<1>1. ASSUME NEW f \in Frontends, HandOver(f) PROVE PublicationProofs!Reported(f)
  <2>1. PICK list \in Lists(f) : Publication!Update(f, list)
    BY <1>1 DEF HandOver
  <2>2. report[f] \in SUBSET Monitor!Endpoint
    BY DEF MonitorProofs!TypeOK, MonitorProofs!Endpoint, Monitor!Endpoint
  <2>3. IsFiniteSet(report[f]) /\ report[f] # {}
    BY <1>1 DEF HandOver, OutboxFilled
  <2>4. list \in AllReports
    BY <2>2, <2>3, ListsAreReports
  <2> QED BY <1>1, <2>1, <2>4, PublicationUpdate DEF HandOver
<1>2. CASE Cluster
  BY <1>2, MonitorAlone, PublicationCluster DEF Cluster
<1>3. CASE Loop
  BY <1>1, <1>3, MonitorAlone, PublicationQueue DEF Loop
<1>4. CASE Restart
  BY <1>4, PublicationRestart DEF Restart
<1>5. CASE Controller \/ OfPublication(Publication!Resync)
  BY <1>5, PublicationQueue, PublicationWorker DEF Controller
<1>6. CASE \E f \in Frontends : OfPublication(Publication!Changes(f) \/ Publication!Reconcile(f))
  BY <1>6, PublicationCluster, PublicationQueue
<1>7. CASE UNCHANGED vars
  BY <1>7 DEF vars, MonitorOnly
<1> QED BY <1>2, <1>3, <1>4, <1>5, <1>6, <1>7, MonitorAlone DEF Next

PublicationInv ==
    PublicationProofs!IInv /\ PublicationProofs!CacheIsLastReport /\ PublicationProofs!Kept

LEMMA PublicationPreserved ==
  ASSUME OutboxFilled, MonitorProofs!TypeOK, PublicationInv, [Next]_vars
  PROVE  PublicationInv'
<1>1. CASE PublicationProofs!Step
  <2>1. PublicationProofs!IInv'
    BY <1>1, PublicationAssumptions, PublicationProofs!NextIInv DEF PublicationInv
  <2>2. PublicationProofs!TypeInv
    BY DEF PublicationInv, PublicationProofs!IInv
  <2>3. PublicationProofs!CacheIsLastReport'
    BY <1>1, <2>2, PublicationAssumptions, PublicationProofs!NextCache DEF PublicationInv
  <2>4. PublicationProofs!Kept'
    BY <1>1, <2>2, PublicationAssumptions, PublicationProofs!NextKept DEF PublicationInv
  <2> QED BY <2>1, <2>3, <2>4 DEF PublicationInv
<1>2. CASE MonitorOnly
  <2>1. faults' = faults \/ faults' # 0
    <3>1. faults \in Nat
      BY BoundsAssumption
         DEF PublicationInv, PublicationProofs!IInv, PublicationProofs!TypeInv,
             PublicationProofs!TypeOK
    <3> QED BY <1>2, <3>1 DEF MonitorOnly
  <2>2. PublicationProofs!Kept'
    BY <1>2, <2>1 DEF MonitorOnly, publicationVars, PublicationInv, PublicationProofs!Kept
  <2>3. PublicationProofs!IInv' /\ PublicationProofs!CacheIsLastReport'
    BY <1>2, BoundsAssumption
       DEF MonitorOnly, publicationVars, PublicationInv, PublicationProofs!IInv,
           PublicationProofs!TypeInv, PublicationProofs!TypeOK, PublicationProofs!Running,
           PublicationProofs!ServiceOfFrontend, PublicationProofs!There,
           PublicationProofs!Ported, PublicationProofs!RequestCurrent,
           PublicationProofs!OwnService, PublicationProofs!WantCurrent,
           PublicationProofs!Announced, PublicationProofs!StaleExplained,
           PublicationProofs!Pending, PublicationProofs!Published,
           PublicationProofs!Fronted, PublicationProofs!CacheIsLastReport
  <2> QED BY <2>2, <2>3 DEF PublicationInv
<1> QED BY <1>1, <1>2, PublicationImplemented

\* What HealthManager was last told of a Frontend is what updateHealthManager last
\* collected for it, unless that is yet to be handed over.
LastIsReport ==
    \A f \in Frontends : (f \notin outbox /\ report[f] # {}) => last[f] \in Lists(f)

LEMMA LastPreserved ==
  ASSUME OutboxFilled, PublicationInv, LastIsReport, [Next]_vars
  PROVE  LastIsReport'
<1>1. \A f \in Frontends : report'[f] = report[f] => Lists(f)' = Lists(f)
  BY DEF Lists
<1>2. last \in [Frontends -> AllReports \cup {<<>>}]
  BY DEF PublicationInv, PublicationProofs!IInv, PublicationProofs!TypeInv,
         PublicationProofs!TypeOK
<1>3. CASE UpdateHealthManager
  <2>1. outbox = {}
    BY <1>3 DEF UpdateHealthManager, Monitor!UpdateHealthManager, OutboxFilled
  <2>2. \A f \in Frontends : f \notin outbox' => report'[f] = report[f]
    BY <1>3 DEF UpdateHealthManager, Monitor!UpdateHealthManager, Reported
  <2>3. UNCHANGED last
    BY <1>3 DEF UpdateHealthManager, publicationVars
  <2> QED BY <1>1, <2>1, <2>2, <2>3 DEF LastIsReport
<1>4. ASSUME NEW f \in Frontends, HandOver(f) PROVE LastIsReport'
  <2>1. PICK list \in Lists(f) : Publication!Update(f, list)
    BY <1>4 DEF HandOver
  <2>2. last' = [last EXCEPT ![f] = list]
    BY <2>1 DEF Publication!Update
  <2>3. UNCHANGED report /\ outbox' = outbox \ {f}
    BY <1>4 DEF HandOver, monitorVars
  <2> QED BY <1>1, <1>2, <2>2, <2>3 DEF LastIsReport
<1>5. CASE Restart
  BY <1>5 DEF Restart, Monitor!Restart, LastIsReport
<1>6. CASE UNCHANGED <<report, last, outbox>>
  BY <1>1, <1>6 DEF LastIsReport
<1>7. CASE MonitorFrame \/ UNCHANGED vars
  BY <1>6, <1>7 DEF MonitorFrame, vars, monitorVars, publicationVars
<1>8. ASSUME UNCHANGED <<monitorVars, outbox>>,
             \/ \E f \in Frontends : \/ Publication!Changes(f) \/ Publication!Reconcile(f)
                                     \/ Publication!Cluster(f)
             \/ Publication!Resync \/ Publication!SendEvent \/ Publication!Channel
             \/ Publication!Worker
      PROVE  LastIsReport'
  <2>1. UNCHANGED last
    BY <1>8 DEF Publication!Changes, Publication!Cluster, Publication!Channel,
                Publication!EditFrontend, Publication!GetsPort, Publication!Reconcile,
                Publication!Worker, Publication!DeliverService, Publication!DeliverSlice,
                Publication!CollectService, Publication!CollectSlice, Publication!Resync,
                Publication!SendEvent, Publication!StartController,
                Publication!EnqueueEvent, Publication!KeepService,
                Publication!WriteService, Publication!WriteServiceFails,
                Publication!ReadHealth, Publication!SkipWrite, Publication!WriteSlice,
                Publication!WriteSliceFails, Publication!monitorVars
  <2> QED BY <1>6, <1>8, <2>1 DEF monitorVars
<1> QED BY <1>3, <1>4, <1>5, <1>7, <1>8, Steps DEF OfPublication

-----------------------------------------------------------------------------
(* From the monitor to the slice. *)

\* The order in which the endpoints are handed over leaves none of them out.
LEMMA ListsComplete ==
  ASSUME NEW f \in Frontends, IsFiniteSet(report[f]), NEW list \in Lists(f)
  PROVE  /\ {list[i] : i \in DOMAIN list} = {EndpointOf(e) : e \in report[f]}
         /\ (\A d, e \in report[f] : d # e => d.ip # e.ip)
               => PublicationProofs!DistinctAddresses(list)
<1> DEFINE D == 1..Cardinality(report[f])
<1>1. PICK order \in SetToSeqs(report[f]) :
        list = [i \in 1..Len(order) |-> EndpointOf(order[i])]
  BY DEF Lists
<1>2. Cardinality(report[f]) \in Nat
  BY FS_CardinalityType
<1>3. order \in [D -> report[f]] /\ \A i, j \in D : i # j => order[i] # order[j]
  BY DEF SetToSeqs
<1>4. Len(order) = Cardinality(report[f])
  BY <1>2, <1>3
<1>5. list = [i \in D |-> EndpointOf(order[i])] /\ DOMAIN list = D /\ Len(list) = Cardinality(report[f])
  BY <1>1, <1>2, <1>4
<1>6. IsFiniteSet(D) /\ Cardinality(D) = Cardinality(report[f])
  BY <1>2, FS_Interval
<1>7. \A e \in report[f] : \E i \in D : order[i] = e
  <2> HIDE DEF D
  <2>1. order \in Injection(D, report[f])
    BY <1>3 DEF Injection, IsInjective
  <2>2. order \in Surjection(D, report[f])
    BY <1>6, <2>1, FS_Injection
  <2> QED BY <2>2 DEF Surjection
<1>8. {list[i] : i \in DOMAIN list} = {EndpointOf(e) : e \in report[f]}
  BY <1>3, <1>5, <1>7
<1>9. ASSUME \A d, e \in report[f] : d # e => d.ip # e.ip
      PROVE  PublicationProofs!DistinctAddresses(list)
  <2>1. \A i \in D : list[i].ip = order[i].ip
    BY <1>5 DEF EndpointOf
  <2>2. \A i \in D : order[i] \in report[f]
    BY <1>3
  <2>3. ASSUME NEW i \in D, NEW j \in D, i # j PROVE list[i].ip # list[j].ip
    BY <1>3, <1>9, <2>1, <2>2, <2>3
  <2> HIDE DEF D
  <2>4. 1..Len(list) = D
    BY <1>5 DEF D
  <2> QED BY <2>3, <2>4 DEF PublicationProofs!DistinctAddresses
<1> QED BY <1>8, <1>9

PipelineInv == OutboxFilled /\ MonitorProofs!IInv /\ PublicationInv /\ LastIsReport

LEMMA InitPipeline == Init => PipelineInv
<1> SUFFICES ASSUME Init PROVE PipelineInv
  OBVIOUS
<1>1. MonitorProofs!IInv
  <2>1. MonitorProofs!Init
    BY DEF Init, Monitor!Init, MonitorProofs!Init
  <2> QED BY <2>1, UidsAssumption, SelectorAssumption, BoundsAssumption,
             MonitorProofs!InitIInv
<1>2. PublicationInv
  <2>1. PublicationProofs!Init
    BY DEF Init, Publication!Init, Publication!ChannelOff, Publication!There,
           Publication!Absent, Publication!NoService, Publication!NoSlice,
           PublicationProofs!Init, PublicationProofs!ChannelOff, PublicationProofs!There,
           PublicationProofs!Absent, PublicationProofs!NoService,
           PublicationProofs!NoSlice
  <2>2. PublicationProofs!IInv
    BY <2>1, PublicationAssumptions, PublicationProofs!InitIInv
  <2>3. PublicationProofs!CacheIsLastReport
    BY <2>1 DEF PublicationProofs!Init, PublicationProofs!CacheIsLastReport
  <2>4. PublicationProofs!Kept
    BY <2>1, PublicationAssumptions, PublicationProofs!InitKept
  <2> QED BY <2>2, <2>3, <2>4 DEF PublicationInv
<1>3. LastIsReport
  BY DEF Init, Monitor!Init, LastIsReport
<1> QED BY <1>1, <1>2, <1>3, InitOutbox DEF PipelineInv

LEMMA NextPipeline == PipelineInv /\ [Next]_vars => PipelineInv'
<1> SUFFICES ASSUME PipelineInv, [Next]_vars PROVE PipelineInv'
  OBVIOUS
<1>1. MonitorProofs!TypeOK
  BY DEF PipelineInv, MonitorProofs!IInv
<1> QED BY <1>1, NextOutbox, MonitorPreserved, PublicationPreserved, LastPreserved
        DEF PipelineInv

\* What HealthPublication_proofs shows of HealthManager, HealthCache and the
\* Frontend reconciler holds when their reports are those HAProxyMonitor collects:
\* no change of HealthCache is lost on its way to the slice but in the two ways
\* StaleExplained names, and HealthCache holds what it was last told.
THEOREM PublicationInPipeline ==
  Spec => [](Publication!StaleExplained /\ Publication!CacheIsLastReport)
<1>1. PipelineInv => Publication!StaleExplained /\ Publication!CacheIsLastReport
  BY DEF PipelineInv, PublicationInv, PublicationProofs!IInv,
         PublicationProofs!StaleExplained, PublicationProofs!Pending,
         PublicationProofs!Published, PublicationProofs!Fronted, PublicationProofs!Ported,
         PublicationProofs!There, PublicationProofs!CacheIsLastReport,
         PublicationProofs!DistinctAddresses, PublicationProofs!ToSet,
         Publication!StaleExplained, Publication!Pending, Publication!Published,
         Publication!Fronted, Publication!Ported, Publication!There,
         Publication!CacheIsLastReport, Publication!DistinctAddresses, Publication!ToSet
<1> QED BY <1>1, InitPipeline, NextPipeline, PTL DEF Spec

\* For every set of pods, Backends and Frontends: a slice shows exactly the
\* endpoints updateHealthManager last collected for its Frontend, unless they are
\* not handed over, a reconcile is on its way, the change was passed over, or an
\* address is reported twice (updateHealthManager, HealthManager.Update,
\* HealthCache.Update, ReconcileService).
THEOREM SlicesFollowReports == Spec => []SlicesShowReport
<1>1. PipelineInv => SlicesShowReport
  <2> SUFFICES ASSUME PipelineInv, NEW f \in Publication!Ported, report[f] # {}, \A d, e \in report[f] : d # e => d.ip # e.ip,
                      f \notin outbox, ~Publication!Pending(f), f \notin missed
               PROVE  ToSet(slices[f].endpoints) = {EndpointOf(e) : e \in report[f]}
    BY DEF SlicesShowReport
  <2>0. f \in Frontends /\ f \in PublicationProofs!Ported
    BY DEF Publication!Ported, Publication!There, PublicationProofs!Ported,
           PublicationProofs!There
  <2>1. last[f] \in Lists(f) /\ IsFiniteSet(report[f])
    BY <2>0 DEF PipelineInv, LastIsReport, OutboxFilled
  <2>2. ToSet(last[f]) = {EndpointOf(e) : e \in report[f]}
    BY <2>0, <2>1, ListsComplete DEF ToSet
  <2>3. ToSet(cache[f]) = ToSet(last[f])
    BY <2>0, <2>1, ListsComplete
       DEF PipelineInv, PublicationInv, PublicationProofs!CacheIsLastReport,
           PublicationProofs!ToSet, ToSet
  <2>4. slices[f].endpoints = cache[f]
    BY <2>0 DEF PipelineInv, PublicationInv, PublicationProofs!IInv,
                PublicationProofs!StaleExplained, PublicationProofs!Pending,
                PublicationProofs!Published, Publication!Pending
  <2> QED BY <2>2, <2>3, <2>4
<1> QED BY <1>1, InitPipeline, NextPipeline, PTL DEF Spec

\* For every set of pods, Backends and Frontends: while the operator runs, a
\* slice that lists endpoints is not emptied by a write, also when every pod of
\* the Frontend is gone (updateHealthManager reports nothing then, HealthCache
\* keeps its entry, and ReconcileService writes what HealthCache holds).
THEOREM SlicesNotEmptied == Spec => LastEndpointsStay
<1> DEFINE Stays == \A f \in Frontends :
             (slices[f].endpoints # <<>> /\ slices'[f].there /\ faults = 0)
                 => slices'[f].endpoints # <<>>
<1>1. PipelineInv /\ [Next]_vars => [Stays]_vars
  <2> SUFFICES ASSUME PipelineInv, Next, NEW f \in Frontends,
                      slices[f].endpoints # <<>>, slices'[f].there, faults = 0
               PROVE  slices'[f].endpoints # <<>>
    OBVIOUS
  <2>1. OutboxFilled /\ MonitorProofs!TypeOK /\ PublicationProofs!TypeInv /\ PublicationProofs!Kept
    BY DEF PipelineInv, MonitorProofs!IInv, PublicationInv, PublicationProofs!IInv
  <2>2. CASE PublicationProofs!Step
    BY <2>1, <2>2, PublicationAssumptions, PublicationProofs!EndpointsStay
  <2>3. CASE MonitorOnly
    BY <2>3 DEF MonitorOnly, publicationVars
  <2> QED BY <2>1, <2>2, <2>3, PublicationImplemented
<1> QED BY <1>1, InitPipeline, NextPipeline, PTL DEF Spec, LastEndpointsStay

=============================================================================
