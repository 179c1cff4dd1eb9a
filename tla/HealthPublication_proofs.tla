---------------------- MODULE HealthPublication_proofs ----------------------
(***************************************************************************)
(* Invariance proofs for HealthPublication, for every set of Frontends and *)
(* of reports and every number of changes and faults.                      *)
(***************************************************************************)
EXTENDS HealthPublication, FiniteSetTheorems, TLAPS

-----------------------------------------------------------------------------
(* The inductive invariant. *)

\* While a reconcile runs it has a request; the channel's goroutine has a
\* Frontend only while it holds an event.
Running ==
    /\ pc # "idle" => req \in Frontends
    /\ channel.state = "holds" <=> channel.frontend # NoFrontend

TypeInv == TypeOK /\ Running

\* A Service is owned by the Frontend of its name or by a predecessor of it.  One
\* owned by the Frontend there is has its port, and the one in the cache, if owned
\* by the Frontend there is, is the one there is.
ServiceOfFrontend ==
    \A f \in Frontends :
        /\ services[f].owner <= frontends[f].uid
        /\ svcCache[f].owner <= frontends[f].uid
        /\ (f \in There /\ services[f].there /\ services[f].owner = frontends[f].uid)
               => f \in Ported /\ services[f].port = frontends[f].port
        /\ (f \in There /\ svcCache[f].there /\ svcCache[f].owner = frontends[f].uid)
               => services[f] = svcCache[f]

\* The Service of a Frontend is its own.
OwnService(f) ==
    /\ f \in Ported
    /\ services[f].there
    /\ services[f].owner = frontends[f].uid
    /\ services[f].port = frontends[f].port

\* What a reconcile holds is still so, or the Frontend is queued again.  No Service
\* is of a later Frontend than the one the reconcile is about.
RequestCurrent ==
    /\ pc = "service" =>
           /\ owner <= frontends[req].uid
           /\ services[req].owner <= owner
           /\ svcCache[req].owner <= owner
           /\ \/ req \in queue
              \/ req \in There /\ owner = frontends[req].uid
           /\ (req \in There /\ owner = frontends[req].uid)
                  => req \in Ported /\ port = frontends[req].port
    /\ pc \in {"slice", "write"} =>
           \/ req \in queue
           \/ OwnService(req) /\ services[req].uid = owner /\ services[req].port = port
    /\ pc = "write" => want.there /\ want.owner = owner /\ want.port = port

\* A change of HealthCache after the reconcile has read it is on its way.
Announced(f) ==
    f \in queue \/ sending = f \/ channel.frontend = f \/ f \in missed

WantCurrent == pc = "write" => want.endpoints = cache[req] \/ Announced(req)

IInv ==
    /\ TypeInv
    /\ ServiceOfFrontend
    /\ RequestCurrent
    /\ WantCurrent
    /\ StaleExplained


-----------------------------------------------------------------------------
(* The steps the invariant is preserved by. *)

\* The monitor reports a Frontend, whether or not the report is one of those
\* that MaxReports bounds: HealthPipeline takes its reports from HealthMonitor.
Reported(f) ==
    /\ \E r \in Reports : Update(f, r)
    /\ UNCHANGED reports \/ Report(f)

Step ==
    \/ \E f \in Frontends : Changes(f) \/ Cluster(f) \/ Reported(f) \/ Reconcile(f)
    \/ Resync
    \/ SendEvent
    \/ Channel
    \/ Worker
    \/ Restart

LEMMA NextIsStep == [Next]_vars => [Step]_vars
BY DEF Next, Step, Report, Reported

-----------------------------------------------------------------------------
(* Type correctness. *)

LEMMA InitType == Init => TypeInv
<1> SUFFICES ASSUME Init PROVE TypeInv
  OBVIOUS
<1>1. Absent \in FrontendObj
  BY DEF Absent, FrontendObj, PortOrNil
<1>0. \A o \in [there : {TRUE}, uid : {0}, port : Ports] : o \in FrontendObj
  <2> TAKE o \in [there : {TRUE}, uid : {0}, port : Ports]
  <2>1. o = [there |-> TRUE, uid |-> 0, port |-> o.port] /\ o.port \in Ports
    OBVIOUS
  <2>2. [there |-> TRUE, uid |-> 0, port |-> o.port] \in FrontendObj
    BY <2>1 DEF FrontendObj, PortOrNil
  <2> QED BY <2>1, <2>2
<1>2. frontends \in [Frontends -> FrontendObj]
  BY <1>0, <1>1 DEF Init
<1>3. NoService \in ServiceObj /\ NoSlice \in Slice
  BY DEF NoService, ServiceObj, NoSlice, Slice, PortOrNil
<1> QED BY <1>2, <1>3, LimitsAssumption
        DEF Init, TypeInv, TypeOK, Running, PortOrNil, ChannelOff, There

LEMMA ReturnType ==
  ASSUME TypeInv, Return
  PROVE  /\ pc' = "idle" /\ req' = NoFrontend /\ owner' \in Nat
         /\ port' \in PortOrNil /\ base' \in Slice /\ want' \in Slice
BY DEF Return, NoSlice, Slice, PortOrNil

\* A Service that is written has the owner and the port of the reconcile; one that
\* was there keeps its UID.
LEMMA ServiceWritten ==
  ASSUME TypeInv, WriteService
  PROVE  /\ req \in Frontends
         /\ services' \in [Frontends -> ServiceObj]
         /\ services'[req].there
         /\ services'[req].owner = owner /\ services'[req].port = port
         /\ \A g \in Frontends : g # req => services'[g] = services[g]
<1> USE DEF TypeInv, TypeOK, Running
<1>1. req \in Frontends /\ services[req] \in ServiceObj /\ services \in [Frontends -> ServiceObj]
  BY DEF WriteService
<1>2. WantedService(services[req]).owner = owner /\ WantedService(services[req]).port = port
  BY <1>1 DEF WantedService, ServiceObj
<1> DEFINE uid == IF services[req].there THEN services[req].uid ELSE services[req].uid + 1
           new == [there |-> TRUE, uid |-> uid, rv |-> services[req].rv + 1, owner |-> owner,
                   port |-> port]
<1>3. services' = [services EXCEPT ![req] = new]
  BY <1>2 DEF WriteService
<1>4. new \in ServiceObj
  <2>1. services[req].uid \in Nat /\ services[req].rv \in Nat
    BY <1>1 DEF ServiceObj
  <2>2. uid \in Nat
    BY <2>1
  <2>3. owner \in Nat /\ port \in PortOrNil
    OBVIOUS
  <2> HIDE DEF uid
  <2> QED BY ONLY <2>1, <2>2, <2>3 DEF ServiceObj
<1> QED BY <1>1, <1>3, <1>4

LEMMA NextType == TypeInv /\ [Step]_vars => TypeInv'
<1> SUFFICES ASSUME TypeInv, [Step]_vars PROVE TypeInv'
  OBVIOUS
<1> USE LimitsAssumption DEF TypeInv, TypeOK, Running, monitorVars, apiVars, cacheVars,
                             workerVars
<1>1. ASSUME NEW f \in Frontends, EditFrontend(f) PROVE TypeInv'
  <2>1. [there |-> TRUE, uid |-> frontends[f].uid + 1, port |-> NoPort] \in FrontendObj
    BY DEF FrontendObj, PortOrNil
  <2>2. [Absent EXCEPT !.uid = frontends[f].uid] \in FrontendObj
    BY DEF FrontendObj, PortOrNil, Absent
  <2>3. frontends' \in [Frontends -> FrontendObj]
    BY <1>1, <2>1, <2>2 DEF EditFrontend
  <2> QED BY <1>1, <2>3 DEF EditFrontend
<1>2. ASSUME NEW f \in Frontends, GetsPort(f) PROVE TypeInv'
  <2>1. PICK p \in Ports : frontends' = [frontends EXCEPT ![f].port = p]
    BY <1>2 DEF GetsPort
  <2>2. [frontends[f] EXCEPT !.port = p] \in FrontendObj
    <3>1. frontends[f] \in FrontendObj
      OBVIOUS
    <3> QED BY ONLY <3>1 DEF FrontendObj, PortOrNil
  <2>3. frontends' \in [Frontends -> FrontendObj]
    BY <2>1, <2>2
  <2> QED BY <1>2, <2>3 DEF GetsPort
<1>3. ASSUME NEW f \in Frontends, DeliverService(f) \/ DeliverSlice(f) PROVE TypeInv'
  BY <1>3 DEF DeliverService, DeliverSlice
<1>4. ASSUME NEW f \in Frontends, CollectService(f) PROVE TypeInv'
  <2>1. [NoService EXCEPT !.uid = services[f].uid, !.rv = services[f].rv] \in ServiceObj
    BY DEF ServiceObj, NoService, PortOrNil
  <2>2. services' \in [Frontends -> ServiceObj]
    BY <1>4, <2>1 DEF CollectService
  <2> QED BY <1>4, <2>2 DEF CollectService
<1>5. ASSUME NEW f \in Frontends, CollectSlice(f) PROVE TypeInv'
  <2>1. [NoSlice EXCEPT !.rv = slices[f].rv] \in Slice
    BY DEF Slice, NoSlice, PortOrNil
  <2>2. slices' \in [Frontends -> Slice]
    BY <1>5, <2>1 DEF CollectSlice
  <2> QED BY <1>5, <2>2 DEF CollectSlice
<1>6. ASSUME NEW f \in Frontends, Reported(f) PROVE TypeInv'
  BY <1>6 DEF Reported, Report, Update, Store
<1>7. ASSUME NEW f \in Frontends, Reconcile(f) PROVE TypeInv'
  BY <1>7 DEF Reconcile, FrontendObj
<1>8. ASSUME Resync PROVE TypeInv'
  BY <1>8 DEF Resync, There
<1>9. ASSUME SendEvent PROVE TypeInv'
  BY <1>9 DEF SendEvent, ChannelHolds
<1>10. ASSUME StartController \/ EnqueueEvent PROVE TypeInv'
  <2>1. channel' = [state |-> "ready", frontend |-> NoFrontend] /\ queue' \in SUBSET Frontends
    <3>1. channel.state = "holds" => channel.frontend \in Frontends
      OBVIOUS
    <3> QED BY <1>10, <3>1 DEF StartController, EnqueueEvent, ChannelReady
  <2> QED BY <1>10, <2>1 DEF StartController, EnqueueEvent
<1>11. ASSUME KeepService PROVE TypeInv'
  <2>1. pc = "service" /\ req \in Frontends /\ svcCache[req].uid \in Nat
    BY <1>11 DEF KeepService, ServiceObj
  <2> QED BY <1>11, <2>1 DEF KeepService
<1>12. ASSUME WriteService PROVE TypeInv'
  <2>1. pc = "service" /\ req \in Frontends /\ services[req] \in ServiceObj
    BY <1>12 DEF WriteService
  <2>2. services' \in [Frontends -> ServiceObj] /\ services'[req].uid \in Nat
    BY <1>12, <2>1, ServiceWritten DEF ServiceObj
  <2> QED BY <1>12, <2>1, <2>2 DEF WriteService
<1>13. ASSUME ReadHealth PROVE TypeInv'
  <2>1. pc = "slice" /\ req \in Frontends /\ sliceCache[req] \in Slice
    BY <1>13 DEF ReadHealth
  <2>2. want' \in Slice /\ base' \in Slice
    BY <1>13, <2>1 DEF ReadHealth, WantedSlice, Slice
  <2> QED BY <1>13, <2>1, <2>2 DEF ReadHealth
<1>14. ASSUME SkipWrite PROVE TypeInv'
  BY <1>14, ReturnType DEF SkipWrite
<1>15. ASSUME WriteSlice PROVE TypeInv'
  <2>1. pc = "write" /\ req \in Frontends
    BY <1>15 DEF WriteSlice
  <2>2. [want EXCEPT !.rv = slices[req].rv + 1] \in Slice
    <3>1. want \in Slice /\ slices[req].rv + 1 \in Nat
      BY <2>1 DEF Slice
    <3> QED BY ONLY <3>1 DEF Slice
  <2>3. slices' \in [Frontends -> Slice]
    BY <1>15, <2>1, <2>2 DEF WriteSlice
  <2> QED BY <1>15, <2>3, ReturnType DEF WriteSlice
<1>16. ASSUME WriteServiceFails \/ WriteSliceFails PROVE TypeInv'
  BY <1>16, ReturnType DEF WriteServiceFails, WriteSliceFails, Requeue, Fault
<1>17. ASSUME Restart PROVE TypeInv'
  BY <1>17, ReturnType DEF Restart, Fault, ChannelOff, There
<1>18. CASE UNCHANGED vars
  BY <1>18 DEF vars
<1> QED BY <1>1, <1>2, <1>3, <1>4, <1>5, <1>6, <1>7, <1>8, <1>9, <1>10, <1>11, <1>12,
           <1>13, <1>14, <1>15, <1>16, <1>17, <1>18
        DEF Step, Changes, Cluster, Channel, Worker

\* HealthCache, the slices and what a reconcile wants to write are reports as
\* the monitor made them, none of them filtered or mixed on the way.
THEOREM TypeCorrect == Spec => []TypeOK
<1>1. TypeInv => TypeOK
  BY DEF TypeInv
<1> QED BY <1>1, InitType, NextType, NextIsStep, PTL DEF Spec

-----------------------------------------------------------------------------
(* HealthCache. *)

\* Without repeated addresses the map HealthCache.Update builds gives the health
\* of the endpoint with the address.
LEMMA CachedHealthDistinct ==
  ASSUME NEW old \in Seq(Endpoint), DistinctAddresses(old), NEW j \in 1..Len(old)
  PROVE  CachedHealth(old, old[j].ip) = old[j].healthy
<1> DEFINE ip == old[j].ip
           P(i) == old[i].ip = ip /\ \A k \in (i + 1)..Len(old) : old[k].ip # ip
<1>1. \A i \in 1..Len(old) : old[i].ip = ip => i = j
  BY DEF DistinctAddresses
<1>2. \A k \in (j + 1)..Len(old) : old[k].ip # ip
  BY <1>1
<1>3. P(j)
  BY <1>2
<1>4. (CHOOSE i \in 1..Len(old) : P(i)) = j
  BY <1>1, <1>3
<1> QED BY <1>4 DEF CachedHealth

\* Distinct addresses: as many endpoints as places.
LEMMA DistinctCardinality ==
  ASSUME NEW r \in Seq(Endpoint), DistinctAddresses(r)
  PROVE  IsFiniteSet(ToSet(r)) /\ Cardinality(ToSet(r)) = Len(r)
<1> DEFINE I == 1..Len(r)
           g == [i \in I |-> r[i]]
<1>1. DOMAIN r = I /\ Len(r) \in Nat
  OBVIOUS
<1>2. IsFiniteSet(I) /\ Cardinality(I) = Len(r)
  BY <1>1, FS_Interval
<1>3. g \in Bijection(I, ToSet(r))
  BY <1>1 DEF Bijection, Injection, Surjection, IsInjective, ToSet, DistinctAddresses
<1> QED BY <1>2, <1>3, FS_Bijection DEF ExistsBijection

\* A list without repeated addresses that HealthCache.Update finds in the cached
\* one, which is as long, leaves no room for repeated addresses there.
LEMMA OldDistinct ==
  ASSUME NEW old \in Seq(Endpoint), NEW new \in Seq(Endpoint),
         DistinctAddresses(new), ~Changed(old, new)
  PROVE  DistinctAddresses(old)
<1> DEFINE I == 1..Len(new)
           g == [i \in I |-> CHOOSE j \in I : old[j].ip = new[i].ip]
<1>1. Len(old) = Len(new) /\ Len(new) \in Nat
  BY DEF Changed
<1>2. \A i \in I : g[i] \in I /\ old[g[i]].ip = new[i].ip
  <2>1. \A i \in I : \E j \in I : old[j].ip = new[i].ip
    BY <1>1 DEF Changed
  <2> QED BY <2>1
<1>3. IsFiniteSet(I)
  BY <1>1, FS_Interval
<1> HIDE DEF g
<1>4. g \in [I -> I]
  BY <1>2 DEF g
<1>5. g \in Injection(I, I)
  <2>1. ASSUME NEW i \in I, NEW k \in I, g[i] = g[k] PROVE i = k
    <3>1. new[i].ip = new[k].ip
      BY <1>2, <2>1
    <3> QED BY <3>1 DEF DistinctAddresses
  <2> QED BY <1>4, <2>1 DEF Injection, IsInjective
<1>6. \A j \in I : \E i \in I : g[i] = j
  <2> HIDE DEF I
  <2>1. g \in Surjection(I, I)
    BY <1>3, <1>5, FS_Injection
  <2> QED BY <2>1 DEF Surjection
<1> SUFFICES ASSUME NEW a \in I, NEW b \in I, a # b PROVE old[a].ip # old[b].ip
  BY <1>1 DEF DistinctAddresses
<1>7. PICK i \in I, k \in I : g[i] = a /\ g[k] = b
  BY <1>6
<1> QED BY <1>2, <1>7 DEF DistinctAddresses

\* What HealthCache.Update takes for unchanged is unchanged but for the order.
LEMMA UnchangedIsSame ==
  ASSUME NEW old \in Seq(Endpoint), NEW new \in Seq(Endpoint),
         DistinctAddresses(new), ~Changed(old, new)
  PROVE  ToSet(old) = ToSet(new)
<1> DistinctAddresses(old)
  BY OldDistinct
<1>1. Len(old) = Len(new)
  BY DEF Changed
<1>2. ASSUME NEW i \in 1..Len(new) PROVE new[i] \in ToSet(old)
  <2>1. PICK j \in 1..Len(old) : old[j].ip = new[i].ip
    BY DEF Changed
  <2>2. old[j].healthy = new[i].healthy
    BY <2>1, CachedHealthDistinct DEF Changed
  <2>3. old[j] \in Endpoint /\ new[i] \in Endpoint
    OBVIOUS
  <2>4. old[j] = new[i]
    BY ONLY <2>1, <2>2, <2>3 DEF Endpoint
  <2> QED BY <2>4 DEF ToSet
<1>3. ToSet(new) \subseteq ToSet(old)
  BY <1>2 DEF ToSet
<1> QED BY <1>1, <1>3, DistinctCardinality, FS_Subset

LEMMA ReportsAreLists == \A r \in Reports \cup {<<>>} : r \in Seq(Endpoint)
<1>1. <<>> \in Seq(Endpoint)
  OBVIOUS
<1> QED BY <1>1, ReportsAssumption

LEMMA NextCache == TypeInv /\ CacheIsLastReport /\ [Step]_vars => CacheIsLastReport'
<1> SUFFICES ASSUME TypeInv, CacheIsLastReport, [Step]_vars PROVE CacheIsLastReport'
  OBVIOUS
<1> USE DEF TypeInv, TypeOK
<1>1. ASSUME NEW f \in Frontends, NEW r \in Reports, Update(f, r) PROVE CacheIsLastReport'
  <2> SUFFICES ASSUME NEW g \in Frontends, DistinctAddresses(last'[g])
               PROVE  ToSet(cache'[g]) = ToSet(last'[g])
    BY DEF CacheIsLastReport
  <2>1. CASE g # f
    BY <1>1, <2>1 DEF Update, Store, CacheIsLastReport
  <2>2. CASE g = f /\ Changed(cache[f], r)
    BY <1>1, <2>2 DEF Update, Store
  <2>3. CASE g = f /\ ~Changed(cache[f], r)
    <3>1. last'[f] = r /\ cache'[f] = cache[f]
      BY <1>1, <2>3 DEF Update
    <3>2. cache[f] \in Seq(Endpoint) /\ r \in Seq(Endpoint)
      BY ReportsAreLists
    <3> QED BY <2>3, <3>1, <3>2, UnchangedIsSame
  <2> QED BY <2>1, <2>2, <2>3
<1>2. ASSUME Restart PROVE CacheIsLastReport'
  BY <1>2 DEF Restart, CacheIsLastReport
<1>3. CASE UNCHANGED <<cache, last>>
  BY <1>3 DEF CacheIsLastReport
<1> QED BY <1>1, <1>2, <1>3
        DEF Step, Changes, Cluster, Channel, Worker, EditFrontend, GetsPort, DeliverService,
            DeliverSlice, CollectService, CollectSlice, Reported, Reconcile, Resync, SendEvent,
            StartController, EnqueueEvent, KeepService, WriteService, WriteServiceFails,
            ReadHealth, SkipWrite, WriteSlice, WriteSliceFails, vars, monitorVars

\* For every set of reports: HealthCache holds what was last reported, in some
\* order, although HealthCache.Update keeps the old list when it finds the new
\* one unchanged; provided that no address repeats in the last list.
THEOREM CacheFollowsReports == Spec => []CacheIsLastReport
<1>1. Init => CacheIsLastReport
  BY DEF Init, CacheIsLastReport
<1> QED BY <1>1, InitType, NextType, NextCache, NextIsStep, PTL DEF Spec

-----------------------------------------------------------------------------
(* Slices are not emptied. *)

\* Before the first fault HealthCache has something of every Frontend whose slice
\* has, and so has the reconcile that is about to write it.
Kept ==
    faults = 0 =>
        /\ \A f \in Frontends : slices[f].endpoints # <<>> => cache[f] # <<>>
        /\ pc = "write" => /\ want.endpoints # <<>> => cache[req] # <<>>
                           /\ slices[req].endpoints # <<>> => want.endpoints # <<>>

\* HealthCache loses nothing but in a fault.
LEMMA CacheKept ==
  ASSUME TypeInv, [Step]_vars, faults' = 0
  PROVE  \A f \in Frontends : cache[f] # <<>> => cache'[f] # <<>>
<1> USE DEF TypeInv, TypeOK
<1>1. ASSUME NEW f \in Frontends, Reported(f)
      PROVE  \A g \in Frontends : cache[g] # <<>> => cache'[g] # <<>>
  BY <1>1, ReportsAssumption DEF Reported, Update, Store
<1>2. ~Restart
  BY LimitsAssumption DEF Restart, Fault
<1>3. CASE UNCHANGED cache
  BY <1>3
<1> QED BY <1>1, <1>2, <1>3
        DEF Step, Changes, Cluster, Channel, Worker, EditFrontend, GetsPort, DeliverService,
            DeliverSlice, CollectService, CollectSlice, Reconcile, Resync, SendEvent,
            StartController, EnqueueEvent, KeepService, WriteService, WriteServiceFails,
            ReadHealth, SkipWrite, WriteSlice, WriteSliceFails, vars, monitorVars

\* A slice that is written gets the endpoints wanted; a slice that changes otherwise
\* is removed.
LEMMA SliceStep ==
  ASSUME TypeInv, [Step]_vars, NEW f \in Frontends
  PROVE  \/ slices'[f] = slices[f]
         \/ slices'[f].endpoints = <<>> /\ ~slices'[f].there
         \/ WriteSlice /\ req = f /\ slices'[f].endpoints = want.endpoints
<1> USE DEF TypeInv, TypeOK
<1>1. ASSUME WriteSlice
      PROVE  slices'[f] = slices[f] \/ (req = f /\ slices'[f].endpoints = want.endpoints)
  <2>1. slices' = [slices EXCEPT ![req] = [want EXCEPT !.rv = slices[req].rv + 1]]
    BY <1>1 DEF WriteSlice
  <2>2. CASE req = f
    <3>1. slices'[f] = [want EXCEPT !.rv = slices[req].rv + 1]
      BY <2>1, <2>2
    <3>2. want \in Slice
      OBVIOUS
    <3> QED BY <2>2, <3>1, <3>2 DEF Slice
  <2>3. CASE req # f
    BY <2>1, <2>3
  <2> QED BY <2>2, <2>3
<1>2. ASSUME NEW g \in Frontends, CollectSlice(g)
      PROVE  slices'[f] = slices[f] \/ (slices'[f].endpoints = <<>> /\ ~slices'[f].there)
  <2>1. slices' = [slices EXCEPT ![g] = [NoSlice EXCEPT !.rv = slices[g].rv]]
    BY <1>2 DEF CollectSlice
  <2>2. CASE f = g
    BY <2>1, <2>2 DEF NoSlice
  <2>3. CASE f # g
    BY <2>1, <2>3
  <2> QED BY <2>2, <2>3
<1>3. CASE UNCHANGED slices
  BY <1>3
<1> QED BY <1>1, <1>2, <1>3
        DEF Step, Changes, Cluster, Channel, Worker, EditFrontend, GetsPort,
            DeliverService, DeliverSlice, CollectService, Reported, Update, Reconcile,
            Resync, SendEvent, StartController, EnqueueEvent, KeepService, WriteService,
            WriteServiceFails, ReadHealth, SkipWrite, WriteSliceFails, Restart, vars, apiVars

LEMMA InitKept == Init => Kept
BY DEF Init, Kept, NoSlice

LEMMA NextKept == TypeInv /\ Kept /\ [Step]_vars => Kept'
<1> SUFFICES ASSUME TypeInv, Kept, [Step]_vars, faults' = 0 PROVE Kept'
  BY DEF Kept
<1>1. faults = 0
  <2>1. faults \in Nat
    BY LimitsAssumption DEF TypeInv, TypeOK
  <2>2. faults' = faults \/ faults' = faults + 1
    BY DEF Step, Changes, Cluster, Channel, Worker, EditFrontend, GetsPort,
           DeliverService, DeliverSlice, CollectService, CollectSlice, Reported, Report,
           Update, Reconcile, Resync, SendEvent, StartController, EnqueueEvent, KeepService,
           WriteService, WriteServiceFails, ReadHealth, SkipWrite, WriteSlice,
           WriteSliceFails, Restart, Fault, vars
  <2> QED BY <2>1, <2>2
<1>2. \A f \in Frontends : slices'[f].endpoints # <<>> => cache'[f] # <<>>
  <2> SUFFICES ASSUME NEW f \in Frontends, slices'[f].endpoints # <<>> PROVE cache[f] # <<>>
    BY CacheKept
  <2>1. CASE WriteSlice /\ req = f /\ slices'[f].endpoints = want.endpoints
    BY <1>1, <2>1 DEF WriteSlice, Kept
  <2>2. CASE slices'[f] = slices[f]
    BY <1>1, <2>2 DEF Kept
  <2> QED BY <2>1, <2>2, SliceStep
<1>3. ASSUME pc' = "write"
      PROVE  /\ want'.endpoints # <<>> => cache'[req'] # <<>>
             /\ slices'[req'].endpoints # <<>> => want'.endpoints # <<>>
  <2>1. CASE ReadHealth
    <3>1. /\ pc = "slice" /\ want' = WantedSlice(sliceCache[req])
          /\ UNCHANGED <<cache, slices, req>>
      BY <2>1 DEF ReadHealth, monitorVars, apiVars
    <3>2. req \in Frontends /\ sliceCache[req] \in Slice
      BY <3>1 DEF TypeInv, TypeOK, Running
    <3>3. want'.endpoints = cache[req]
      BY <3>1, <3>2 DEF WantedSlice, Slice
    <3> QED BY <1>1, <3>1, <3>2, <3>3 DEF Kept
  <2>2. CASE pc = "write" /\ UNCHANGED <<want, req>> /\ ~WriteSlice
    <3>1. req \in Frontends
      BY <2>2 DEF TypeInv, Running
    <3> QED BY <1>1, <2>2, <3>1, CacheKept, SliceStep DEF Kept
  <2> QED BY <1>3, <2>1, <2>2
          DEF Step, Changes, Cluster, Channel, Worker, EditFrontend, GetsPort,
              DeliverService, DeliverSlice, CollectService, CollectSlice, Reported, Update,
              Reconcile, Resync, SendEvent, StartController, EnqueueEvent, KeepService,
              WriteService, WriteServiceFails, SkipWrite, WriteSlice, WriteSliceFails,
              Return, Restart, vars, workerVars
<1> QED BY <1>2, <1>3 DEF Kept

\* What LastEndpointsStay of HealthPipeline says of a step.
LEMMA EndpointsStay ==
  ASSUME TypeInv, Kept, [Step]_vars, NEW f \in Frontends,
         slices[f].endpoints # <<>>, slices'[f].there, faults = 0
  PROVE  slices'[f].endpoints # <<>>
<1>1. CASE WriteSlice /\ req = f /\ slices'[f].endpoints = want.endpoints
  BY <1>1 DEF WriteSlice, Kept
<1> QED BY <1>1, SliceStep

-----------------------------------------------------------------------------
(* Ownership, and what a reconcile holds. *)

\* A change of a Frontend queues it; with its UID it keeps its port.
LEMMA FrontendStep ==
  ASSUME TypeInv, NEW f \in Frontends, EditFrontend(f) \/ GetsPort(f)
  PROVE  /\ f \in queue' /\ queue \subseteq queue'
         /\ \A g \in Frontends : g # f => frontends'[g] = frontends[g]
         /\ frontends'[f].uid >= frontends[f].uid
         /\ (frontends'[f].uid = frontends[f].uid /\ frontends'[f].there)
               => frontends[f].there /\ (f \in Ported => frontends'[f] = frontends[f])
         /\ UNCHANGED <<monitorVars, channel, apiVars, cacheVars, workerVars, missed>>
<1>1. frontends \in [Frontends -> FrontendObj]
  BY DEF TypeInv, TypeOK
<1>2. queue' = queue \cup {f} /\ UNCHANGED <<monitorVars, channel, apiVars, cacheVars, workerVars, missed>>
  BY DEF EditFrontend, GetsPort
<1>3. CASE frontends' = [frontends EXCEPT ![f] =
                            [there |-> TRUE, uid |-> frontends[f].uid + 1, port |-> NoPort]]
  BY <1>1, <1>2, <1>3 DEF FrontendObj
<1>4. CASE frontends' = [frontends EXCEPT ![f] = [Absent EXCEPT !.uid = frontends[f].uid]]
  BY <1>1, <1>2, <1>4 DEF FrontendObj, Absent
<1>5. ASSUME GetsPort(f), NEW p \in Ports, frontends' = [frontends EXCEPT ![f].port = p]
      PROVE  /\ frontends'[f].uid = frontends[f].uid
             /\ \A g \in Frontends : g # f => frontends'[g] = frontends[g]
             /\ frontends[f].there /\ f \notin Ported
  BY <1>1, <1>5 DEF FrontendObj, GetsPort, There
<1>6. CASE GetsPort(f)
  <2>1. frontends[f].uid \in Nat
    BY <1>1 DEF FrontendObj
  <2> QED BY <1>2, <1>5, <1>6, <2>1 DEF GetsPort
<1> QED BY <1>3, <1>4, <1>6 DEF EditFrontend

\* Of one Frontend's Service, the claim of ServiceOfFrontend.
LEMMA ServiceOf ==
  ASSUME IInv, NEW f \in Frontends
  PROVE  /\ frontends[f].uid \in Nat /\ services[f].owner \in Nat /\ svcCache[f].owner \in Nat
         /\ services[f].owner <= frontends[f].uid /\ svcCache[f].owner <= frontends[f].uid
         /\ (frontends[f].there /\ services[f].there /\ services[f].owner = frontends[f].uid)
               => f \in Ported /\ services[f].port = frontends[f].port
         /\ (frontends[f].there /\ svcCache[f].there /\ svcCache[f].owner = frontends[f].uid)
               => services[f] = svcCache[f]
BY DEF IInv, TypeInv, TypeOK, FrontendObj, ServiceObj, ServiceOfFrontend, There

\* UIDs grow: a Service that a new Frontend owns is not one of a predecessor, and
\* the reconcile of a predecessor does not take one from its successor.
LEMMA NextService == IInv /\ [Step]_vars => ServiceOfFrontend'
<1> SUFFICES ASSUME IInv, [Step]_vars PROVE ServiceOfFrontend'
  OBVIOUS
<1> USE DEF ServiceOfFrontend, There, apiVars, cacheVars
<1>1. ASSUME NEW f \in Frontends, EditFrontend(f) \/ GetsPort(f) PROVE ServiceOfFrontend'
  <2> SUFFICES ASSUME NEW g \in Frontends PROVE ServiceOfFrontend!(g)'
    BY DEF ServiceOfFrontend
  <2>1. TypeInv /\ UNCHANGED <<services, svcCache>> /\ frontends' \in [Frontends -> FrontendObj]
    BY <1>1, FrontendStep, NextType DEF IInv, TypeInv, TypeOK
  <2>2. CASE g # f
    <3>1. frontends'[g] = frontends[g]
      BY <1>1, <2>1, <2>2, FrontendStep
    <3> QED BY <2>1, <3>1, ServiceOf DEF Ported
  <2>3. CASE g = f
    <3>1. frontends'[f].uid \in Nat /\ frontends[f].uid <= frontends'[f].uid
      BY <1>1, <2>1, FrontendStep DEF FrontendObj, TypeInv, TypeOK
    <3>2. services[f].owner <= frontends'[f].uid /\ svcCache[f].owner <= frontends'[f].uid
      BY <3>1, ServiceOf
    <3>3. ASSUME services[f].owner = frontends'[f].uid \/ svcCache[f].owner = frontends'[f].uid
          PROVE  frontends'[f].uid = frontends[f].uid
      BY <3>1, <3>3, ServiceOf
    <3>4. ASSUME services[f].there, services[f].owner = frontends'[f].uid, frontends'[f].there
          PROVE  f \in Ported' /\ services[f].port = frontends'[f].port
      <4>1. frontends[f].there /\ (f \in Ported => frontends'[f] = frontends[f])
        BY <1>1, <2>1, <3>3, <3>4, FrontendStep
      <4> QED BY <3>3, <3>4, <4>1, ServiceOf DEF Ported
    <3>5. ASSUME svcCache[f].there, svcCache[f].owner = frontends'[f].uid, frontends'[f].there
          PROVE  services[f] = svcCache[f]
      <4>1. frontends[f].there
        BY <1>1, <2>1, <3>3, <3>5, FrontendStep
      <4> QED BY <3>3, <3>5, <4>1, ServiceOf
    <3> QED BY <2>1, <2>3, <3>2, <3>4, <3>5
  <2> QED BY <2>2, <2>3
<1>2. ASSUME NEW f \in Frontends, DeliverService(f) PROVE ServiceOfFrontend'
  <2>1. UNCHANGED <<frontends, services>> /\ svcCache' = [svcCache EXCEPT ![f] = services[f]]
    BY <1>2 DEF DeliverService
  <2>2. \A g \in Frontends : svcCache'[g] \in {svcCache[g], services[g]}
    BY <2>1 DEF IInv, TypeInv, TypeOK
  <2> QED BY <2>1, <2>2, ServiceOf DEF Ported
<1>3. ASSUME NEW f \in Frontends, CollectService(f) PROVE ServiceOfFrontend'
  <2>1. /\ UNCHANGED <<frontends, svcCache>>
        /\ services' = [services EXCEPT ![f] = [NoService EXCEPT !.uid = services[f].uid,
                                                                 !.rv = services[f].rv]]
        /\ services[f].there
        /\ frontends[f].there => frontends[f].uid # services[f].owner
    BY <1>3 DEF CollectService
  <2>2. \A g \in Frontends : g # f => services'[g] = services[g]
    BY <2>1 DEF IInv, TypeInv, TypeOK
  <2>3. services'[f].owner = 0 /\ services'[f].there = FALSE
    BY <2>1 DEF IInv, TypeInv, TypeOK, NoService
  <2>4. ~(frontends[f].there /\ svcCache[f].there /\ svcCache[f].owner = frontends[f].uid)
    BY <2>1, ServiceOf
  <2>5. \A g \in Frontends : g # f => ServiceOfFrontend!(g)'
    BY <2>1, <2>2, ServiceOf DEF Ported
  <2>6. ServiceOfFrontend!(f)'
    BY <2>1, <2>3, <2>4, ServiceOf
  <2> QED BY <2>5, <2>6
<1>4. ASSUME WriteService PROVE ServiceOfFrontend'
  <2>1. TypeInv /\ pc = "service" /\ UNCHANGED <<frontends, svcCache>>
    BY <1>4 DEF WriteService, IInv
  <2>2. /\ req \in Frontends
        /\ services'[req].owner = owner /\ services'[req].port = port
        /\ \A g \in Frontends : g # req => services'[g] = services[g]
    BY <1>4, <2>1, ServiceWritten
  <2> SUFFICES ASSUME NEW g \in Frontends PROVE ServiceOfFrontend!(g)'
    BY DEF ServiceOfFrontend
  <2>3. CASE g # req
    BY <2>1, <2>2, <2>3, ServiceOf DEF Ported
  <2>4. owner \in Nat /\ owner <= frontends[req].uid /\ svcCache[req].owner <= owner
    BY <2>1 DEF IInv, TypeOK, TypeInv, RequestCurrent
  <2>5. (frontends[req].there /\ owner = frontends[req].uid)
            => req \in Ported /\ port = frontends[req].port
    BY <2>1, <2>2 DEF IInv, RequestCurrent
  <2>6. ASSUME frontends[req].there, svcCache[req].there, svcCache[req].owner = frontends[req].uid
        PROVE  FALSE
    <3>1. owner = frontends[req].uid
      BY <2>2, <2>4, <2>6, ServiceOf
    <3>2. services[req] = svcCache[req] /\ svcCache[req].port = frontends[req].port
      BY <2>2, <2>6, ServiceOf
    <3>3. svcCache[req].port = port /\ svcCache[req].owner = owner
      BY <2>5, <2>6, <3>1, <3>2
    <3>4. svcCache[req] \in ServiceObj /\ svcCache[req].there = TRUE
      BY <2>1, <2>2, <2>6 DEF TypeInv, TypeOK, ServiceObj
    <3>5. WantedService(svcCache[req]) = svcCache[req]
      BY <3>3, <3>4 DEF WantedService, ServiceObj
    <3> QED BY <1>4, <3>5 DEF WriteService
  <2>7. CASE g = req
    <3>1. svcCache[req].owner <= frontends[req].uid
      BY <2>2, ServiceOf
    <3>2. Ported' = Ported
      BY <2>1 DEF Ported
    <3> QED BY <2>1, <2>2, <2>4, <2>5, <2>6, <2>7, <3>1, <3>2
  <2> QED BY <2>3, <2>7
<1>5. ASSUME Restart PROVE ServiceOfFrontend'
  <2>1. UNCHANGED <<frontends, services>> /\ svcCache' = services
    BY <1>5 DEF Restart
  <2> QED BY <2>1, ServiceOf DEF Ported
<1>6. CASE UNCHANGED <<frontends, services, svcCache>>
  BY <1>6, ServiceOf DEF Ported
<1> QED BY <1>1, <1>2, <1>3, <1>4, <1>5, <1>6
        DEF Step, Changes, Cluster, Channel, Worker, DeliverSlice, CollectSlice, Reported,
            Update, Reconcile, Resync, SendEvent, StartController, EnqueueEvent, KeepService,
            WriteServiceFails, ReadHealth, SkipWrite, WriteSlice, WriteSliceFails, vars

\* A Frontend that is edited while its reconcile runs is queued, and a Service
\* that a Frontend owns is collected only after the Frontend was edited.
LEMMA NextRequest == IInv /\ [Step]_vars => RequestCurrent'
<1> SUFFICES ASSUME IInv, [Step]_vars PROVE RequestCurrent'
  OBVIOUS
<1> USE DEF RequestCurrent, OwnService, There, apiVars, cacheVars, workerVars
<1>0. /\ TypeInv /\ RequestCurrent /\ owner \in Nat
      /\ pc # "idle" => req \in Frontends
  BY DEF IInv, TypeInv, TypeOK, Running
<1>1. ASSUME NEW f \in Frontends, EditFrontend(f) \/ GetsPort(f) PROVE RequestCurrent'
  <2>1. /\ UNCHANGED <<services, svcCache, workerVars>> /\ f \in queue' /\ queue \subseteq queue'
    BY <1>0, <1>1, FrontendStep
  <2>2. CASE req = f
    <3>1. frontends'[f].uid \in Nat /\ frontends'[f].uid >= frontends[f].uid
      <4>1. frontends' \in [Frontends -> FrontendObj]
        BY <1>0, NextType DEF TypeInv, TypeOK
      <4> QED BY <1>0, <1>1, <4>1, FrontendStep DEF FrontendObj
    <3>2. pc = "service" => owner <= frontends'[f].uid
      BY <1>0, <2>2, <3>1, ServiceOf
    <3>3. ASSUME pc = "service", frontends'[f].there, owner = frontends'[f].uid
          PROVE  f \in Ported' /\ port = frontends'[f].port
      <4>1. owner = frontends[f].uid
        BY <1>0, <2>2, <3>1, <3>3, ServiceOf
      <4>2. frontends[f].there /\ (f \in Ported => frontends'[f] = frontends[f])
        BY <1>0, <1>1, <3>3, <4>1, FrontendStep
      <4> QED BY <1>0, <2>2, <3>3, <4>1, <4>2 DEF Ported
    <3> QED BY <1>0, <2>1, <2>2, <3>2, <3>3
  <2>3. CASE req # f /\ pc # "idle"
    <3>1. frontends'[req] = frontends[req]
      BY <1>0, <1>1, <2>3, FrontendStep
    <3> QED BY <1>0, <2>1, <2>3, <3>1 DEF Ported
  <2>4. CASE pc = "idle"
    BY <2>1, <2>4
  <2> QED BY <2>2, <2>3, <2>4
<1>2. ASSUME NEW f \in Frontends, CollectService(f) PROVE RequestCurrent'
  <2>1. /\ UNCHANGED <<frontends, svcCache, workerVars, queue>>
        /\ services' = [services EXCEPT ![f] = [NoService EXCEPT !.uid = services[f].uid,
                                                                 !.rv = services[f].rv]]
        /\ frontends[f].there => frontends[f].uid # services[f].owner
    BY <1>2 DEF CollectService
  <2>2. \A g \in Frontends : g # f => services'[g] = services[g]
    BY <1>0, <2>1 DEF TypeInv, TypeOK
  <2>3. services'[f].owner = 0
    BY <1>0, <2>1 DEF TypeInv, TypeOK, NoService
  <2>4. CASE pc = "service"
    BY <1>0, <2>1, <2>2, <2>3, <2>4 DEF Ported
  <2>5. CASE pc \in {"slice", "write"}
    <3>1. req \in queue \/ req # f
      BY <1>0, <2>1, <2>5 DEF Ported
    <3> QED BY <1>0, <2>1, <2>2, <2>5, <3>1 DEF Ported
  <2>6. CASE pc \notin {"service", "slice", "write"}
    BY <2>1, <2>6
  <2> QED BY <2>4, <2>5, <2>6
<1>3. ASSUME NEW f \in Frontends, DeliverService(f) PROVE RequestCurrent'
  <2>1. /\ UNCHANGED <<frontends, services, workerVars, queue>>
        /\ svcCache' = [svcCache EXCEPT ![f] = services[f]]
    BY <1>3 DEF DeliverService
  <2>2. \A g \in Frontends : svcCache'[g] \in {svcCache[g], services[g]}
    BY <1>0, <2>1 DEF TypeInv, TypeOK
  <2> QED BY <1>0, <2>1, <2>2 DEF Ported
<1>4. ASSUME NEW f \in Frontends, Reconcile(f) PROVE RequestCurrent'
  <2>1. pc = "idle" /\ UNCHANGED <<frontends, services, svcCache>>
    BY <1>4 DEF Reconcile
  <2>2. CASE f \in Ported
    <3>1. pc' = "service" /\ req' = f /\ owner' = frontends[f].uid /\ port' = frontends[f].port
      BY <1>4, <2>2 DEF Reconcile
    <3> QED BY <2>1, <2>2, <3>1, ServiceOf DEF Ported
  <2>3. CASE f \notin Ported
    BY <1>4, <2>1, <2>3 DEF Reconcile
  <2> QED BY <2>2, <2>3
<1>5. ASSUME KeepService PROVE RequestCurrent'
  <2>1. /\ pc = "service" /\ pc' = "slice" /\ owner' = svcCache[req].uid
        /\ UNCHANGED <<frontends, services, queue, req, port>>
        /\ WantedService(svcCache[req]) = svcCache[req]
    BY <1>5 DEF KeepService
  <2>2. req \in Frontends /\ svcCache[req] \in ServiceObj
    BY <1>0, <2>1 DEF TypeInv, TypeOK
  <2>3. svcCache[req].there /\ svcCache[req].owner = owner /\ svcCache[req].port = port
    BY <2>1, <2>2 DEF WantedService, ServiceObj
  <2>4. CASE req \notin queue
    <3>1. frontends[req].there /\ owner = frontends[req].uid
      BY <1>0, <2>1, <2>4
    <3>2. services[req] = svcCache[req]
      BY <2>2, <2>3, <3>1, ServiceOf
    <3>3. req \in Ported /\ services[req].port = frontends[req].port
      BY <2>2, <2>3, <3>1, <3>2, ServiceOf
    <3> QED BY <2>1, <2>3, <3>1, <3>2, <3>3 DEF Ported
  <2>5. CASE req \in queue
    BY <2>1, <2>5
  <2> QED BY <2>4, <2>5
<1>6. ASSUME WriteService PROVE RequestCurrent'
  <2>1. /\ pc = "service" /\ pc' = "slice" /\ owner' = services'[req].uid
        /\ UNCHANGED <<frontends, queue, req, port>>
    BY <1>6 DEF WriteService
  <2>2. /\ req \in Frontends /\ services'[req].there
        /\ services'[req].owner = owner /\ services'[req].port = port
    BY <1>0, <1>6, ServiceWritten
  <2>3. CASE req \notin queue
    <3>1. frontends[req].there /\ owner = frontends[req].uid
      BY <1>0, <2>1, <2>3
    <3>2. req \in Ported /\ port = frontends[req].port
      BY <1>0, <2>1, <2>2, <3>1
    <3> QED BY <2>1, <2>2, <3>1, <3>2 DEF Ported
  <2>4. CASE req \in queue
    BY <2>1, <2>4
  <2> QED BY <2>3, <2>4
<1>7. ASSUME ReadHealth PROVE RequestCurrent'
  <2>1. /\ pc = "slice" /\ pc' = "write" /\ want' = WantedSlice(sliceCache[req])
        /\ UNCHANGED <<frontends, services, queue, req, owner, port>>
    BY <1>7 DEF ReadHealth
  <2>2. sliceCache[req] \in Slice
    BY <1>0, <2>1 DEF TypeInv, TypeOK
  <2>3. want'.there /\ want'.owner = owner /\ want'.port = port
    BY <2>1, <2>2 DEF WantedSlice, Slice
  <2> QED BY <1>0, <2>1, <2>3 DEF Ported
<1>8. ASSUME Return PROVE RequestCurrent'
  BY <1>8 DEF Return
<1>9. CASE UNCHANGED <<frontends, services, svcCache, workerVars>> /\ queue \subseteq queue'
  BY <1>0, <1>9 DEF Ported
<1> QED BY <1>1, <1>2, <1>3, <1>4, <1>5, <1>6, <1>7, <1>8, <1>9
        DEF Step, Changes, Cluster, Channel, Worker, DeliverSlice, CollectSlice, Reported,
            Update, Resync, SendEvent, StartController, EnqueueEvent, WriteServiceFails,
            SkipWrite, WriteSlice, WriteSliceFails, Restart, vars

\* A report that comes after ReadHealth announces itself.
LEMMA NextWant == IInv /\ [Step]_vars => WantCurrent'
<1> SUFFICES ASSUME IInv, [Step]_vars PROVE WantCurrent'
  OBVIOUS
<1> USE DEF IInv, TypeInv, TypeOK, Running, WantCurrent, Announced, monitorVars, workerVars
<1>1. ASSUME NEW f \in Frontends, Reported(f) PROVE WantCurrent'
  <2>1. UNCHANGED <<channel, queue, missed, workerVars>> /\ sending = NoFrontend
    BY <1>1 DEF Reported, Update
  <2>2. UNCHANGED <<cache, sending>> \/ (sending' = f /\ \A g \in Frontends : g # f => cache'[g] = cache[g])
    BY <1>1 DEF Reported, Update, Store
  <2> QED BY <2>1, <2>2, NoFrontendAssumption
<1>2. ASSUME NEW f \in Frontends, Reconcile(f) PROVE WantCurrent'
  BY <1>2 DEF Reconcile
<1>3. ASSUME SendEvent PROVE WantCurrent'
  BY <1>3 DEF SendEvent, ChannelHolds
<1>4. ASSUME StartController \/ EnqueueEvent PROVE WantCurrent'
  BY <1>4, NoFrontendAssumption DEF StartController, EnqueueEvent, ChannelReady
<1>5. ASSUME ReadHealth PROVE WantCurrent'
  <2>1. /\ pc = "slice" /\ want' = WantedSlice(sliceCache[req]) /\ UNCHANGED <<cache, req>>
    BY <1>5 DEF ReadHealth
  <2>2. sliceCache[req] \in Slice
    BY <2>1
  <2>3. want'.endpoints = cache[req]
    BY <2>1, <2>2 DEF WantedSlice, Slice
  <2> QED BY <2>1, <2>3
<1>6. ASSUME KeepService \/ WriteService \/ Return PROVE WantCurrent'
  BY <1>6 DEF KeepService, WriteService, Return
<1>7. CASE UNCHANGED <<cache, sending, channel, missed, workerVars>> /\ queue \subseteq queue'
  BY <1>7
<1> QED BY <1>1, <1>2, <1>3, <1>4, <1>5, <1>6, <1>7
        DEF Step, Changes, Cluster, Channel, Worker, EditFrontend, GetsPort, DeliverService,
            DeliverSlice, CollectService, CollectSlice, Resync, WriteServiceFails, SkipWrite,
            WriteSlice, WriteSliceFails, Restart, vars

-----------------------------------------------------------------------------
(* No change is lost. *)

\* A reconcile of the Frontend is on its way, or its change was passed over.
Awaited(f) == Pending(f) \/ f \in missed

\* A reconcile that is on its way arrives: it ends by writing the slice or by
\* finding it right, or with a Frontend that is gone or has no port.
LEMMA AwaitedStep ==
  ASSUME IInv, [Step]_vars, NEW f \in Frontends, Awaited(f)
  PROVE  \/ Awaited(f)'
         \/ req = f /\ (SkipWrite \/ WriteSlice)
         \/ f \notin Ported'
<1> USE DEF IInv, TypeInv, TypeOK, Running, Awaited, Pending, monitorVars, workerVars
<1>1. CASE SkipWrite \/ WriteSlice
  BY <1>1 DEF SkipWrite, WriteSlice, Return
<1>2. ASSUME NEW g \in Frontends, Reported(g) PROVE Awaited(f)'
  BY <1>2, NoFrontendAssumption DEF Reported, Update
<1>3. ASSUME NEW g \in Frontends, Reconcile(g) PROVE Awaited(f)' \/ f \notin Ported'
  BY <1>3 DEF Reconcile, Ported, There
<1>4. ASSUME SendEvent PROVE Awaited(f)'
  BY <1>4, NoFrontendAssumption DEF SendEvent, ChannelHolds
<1>5. ASSUME StartController \/ EnqueueEvent PROVE Awaited(f)'
  BY <1>5, NoFrontendAssumption DEF StartController, EnqueueEvent, ChannelReady
<1>6. ASSUME KeepService \/ WriteService PROVE Awaited(f)'
  BY <1>6 DEF KeepService, WriteService
<1>7. ASSUME WriteServiceFails \/ WriteSliceFails PROVE Awaited(f)'
  BY <1>7 DEF WriteServiceFails, WriteSliceFails, Requeue, Return
<1>8. ASSUME ReadHealth PROVE Awaited(f)'
  BY <1>8 DEF ReadHealth
<1>9. ASSUME Restart PROVE Awaited(f)' \/ f \notin Ported'
  BY <1>9 DEF Restart, Ported, There
<1>10. CASE UNCHANGED <<sending, channel, missed, workerVars>> /\ queue \subseteq queue'
  BY <1>10
<1> QED BY <1>1, <1>2, <1>3, <1>4, <1>5, <1>6, <1>7, <1>8, <1>9, <1>10
        DEF Step, Changes, Cluster, Channel, Worker, EditFrontend, GetsPort, DeliverService,
            DeliverSlice, CollectService, CollectSlice, Resync, vars

\* Of a Frontend without a reconcile on its way nothing changes, unless it is
\* queued or announced, but by the garbage collector.
LEMMA QuietStep ==
  ASSUME IInv, [Step]_vars, NEW f \in Frontends, ~Awaited(f)
  PROVE  \/ Awaited(f)'
         \/ f \notin Ported'
         \/ /\ frontends'[f] = frontends[f]
            /\ services'[f] = services[f] \/ CollectService(f)
            /\ slices'[f] = slices[f] \/ CollectSlice(f)
            /\ cache'[f] = cache[f]
<1> USE DEF IInv, TypeInv, TypeOK, Running, Awaited, Pending, monitorVars, workerVars,
            apiVars, cacheVars
<1>1. Awaited(f)' \/ frontends'[f] = frontends[f]
  <2>1. ASSUME NEW g \in Frontends, EditFrontend(g) \/ GetsPort(g)
        PROVE  Awaited(f)' \/ frontends'[f] = frontends[f]
    BY <2>1, FrontendStep
  <2>2. CASE UNCHANGED frontends
    BY <2>2
  <2> QED BY <2>1, <2>2
          DEF Step, Changes, Cluster, Channel, Worker, DeliverService, DeliverSlice,
              CollectService, CollectSlice, Reported, Update, Reconcile, Resync, SendEvent,
              StartController, EnqueueEvent, KeepService, WriteService, WriteServiceFails,
              ReadHealth, SkipWrite, WriteSlice, WriteSliceFails, Restart, vars
<1>2. services'[f] = services[f] \/ CollectService(f)
  <2>1. ASSUME WriteService PROVE services'[f] = services[f]
    <3>1. req # f
      BY <2>1 DEF WriteService
    <3> QED BY <2>1, <3>1, ServiceWritten
  <2>2. ASSUME NEW g \in Frontends, CollectService(g), g # f PROVE services'[f] = services[f]
    BY <2>2 DEF CollectService
  <2>3. CASE UNCHANGED services
    BY <2>3
  <2> QED BY <2>1, <2>2, <2>3
          DEF Step, Changes, Cluster, Channel, Worker, EditFrontend, GetsPort,
              DeliverService, DeliverSlice, CollectSlice, Reported, Update, Reconcile, Resync,
              SendEvent, StartController, EnqueueEvent, KeepService, WriteServiceFails,
              ReadHealth, SkipWrite, WriteSlice, WriteSliceFails, Restart, vars
<1>3. slices'[f] = slices[f] \/ CollectSlice(f)
  <2>1. ASSUME WriteSlice PROVE slices'[f] = slices[f]
    BY <2>1 DEF WriteSlice
  <2>2. ASSUME NEW g \in Frontends, CollectSlice(g), g # f PROVE slices'[f] = slices[f]
    BY <2>2 DEF CollectSlice
  <2>3. CASE UNCHANGED slices
    BY <2>3
  <2> QED BY <2>1, <2>2, <2>3
          DEF Step, Changes, Cluster, Channel, Worker, EditFrontend, GetsPort,
              DeliverService, DeliverSlice, CollectService, Reported, Update, Reconcile,
              Resync, SendEvent, StartController, EnqueueEvent, KeepService, WriteService,
              WriteServiceFails, ReadHealth, SkipWrite, WriteSliceFails, Restart, vars
<1>4. Awaited(f)' \/ f \notin Ported' \/ cache'[f] = cache[f]
  <2>1. ASSUME NEW g \in Frontends, Reported(g) PROVE sending' = f \/ cache'[f] = cache[f]
    BY <2>1 DEF Reported, Update, Store
  <2>2. ASSUME Restart PROVE Awaited(f)' \/ f \notin Ported'
    BY <2>2 DEF Restart, Ported, There
  <2>3. CASE UNCHANGED cache
    BY <2>3
  <2> QED BY <2>1, <2>2, <2>3
          DEF Step, Changes, Cluster, Channel, Worker, EditFrontend, GetsPort,
              DeliverService, DeliverSlice, CollectService, CollectSlice, Reconcile, Resync,
              SendEvent, StartController, EnqueueEvent, KeepService, WriteService,
              WriteServiceFails, ReadHealth, SkipWrite, WriteSlice, WriteSliceFails, vars
<1> QED BY <1>1, <1>2, <1>3, <1>4

\* The reconcile that ends leaves the slice it wanted, of the Service it found.
LEMMA Written ==
  ASSUME IInv, SkipWrite \/ WriteSlice, NEW f \in Frontends, req = f, ~Awaited(f)'
  PROVE  Published(f)'
<1>1. pc = "write"
  BY DEF SkipWrite, WriteSlice
<1>2. UNCHANGED <<frontends, cache, services, queue, sending, channel>> /\ missed \subseteq missed'
  BY DEF SkipWrite, WriteSlice, monitorVars, apiVars
<1>3. ~Announced(f)
  BY <1>2 DEF Awaited, Pending, Announced
<1>4. /\ OwnService(f) /\ services[f].uid = owner /\ services[f].port = port
      /\ want.there /\ want.owner = owner /\ want.port = port /\ want.endpoints = cache[f]
  BY <1>1, <1>3 DEF IInv, WantCurrent, RequestCurrent, Announced
<1>5. /\ slices'[f].there /\ slices'[f].owner = want.owner /\ slices'[f].port = want.port
      /\ slices'[f].endpoints = want.endpoints
  <2>1. CASE SkipWrite
    <3>1. slices[f] = base /\ base = want /\ UNCHANGED slices
      BY <2>1 DEF SkipWrite, Awaited, apiVars
    <3> QED BY <1>4, <3>1
  <2>2. CASE WriteSlice
    <3>1. want \in Slice /\ slices \in [Frontends -> Slice]
      BY DEF IInv, TypeInv, TypeOK
    <3>2. slices' = [slices EXCEPT ![f] = [want EXCEPT !.rv = slices[f].rv + 1]]
      BY <2>2 DEF WriteSlice
    <3>3. slices'[f] = [want EXCEPT !.rv = slices[f].rv + 1]
      BY <3>1, <3>2
    <3> QED BY <1>4, <3>1, <3>3 DEF Slice
  <2> QED BY <2>1, <2>2
<1> QED BY <1>2, <1>4, <1>5 DEF OwnService, Published, Fronted

LEMMA NextStale == IInv /\ [Step]_vars => StaleExplained'
<1> SUFFICES ASSUME IInv, [Step]_vars, NEW f \in Frontends, f \in Ported', ~Awaited(f)'
             PROVE  Published(f)'
  BY DEF StaleExplained, Awaited, Ported, There
<1>1. CASE Awaited(f)
  BY <1>1, AwaitedStep, Written
<1>2. CASE ~Awaited(f)
  <2>1. /\ frontends'[f] = frontends[f]
        /\ services'[f] = services[f] \/ CollectService(f)
        /\ slices'[f] = slices[f] \/ CollectSlice(f)
        /\ cache'[f] = cache[f]
    BY <1>2, QuietStep
  <2>2. f \in Ported /\ Published(f)
    BY <1>2, <2>1 DEF IInv, StaleExplained, Awaited, Ported, There
  <2>3. ~CollectService(f) /\ ~CollectSlice(f)
    BY <2>2 DEF CollectService, CollectSlice, Published, Fronted, Ported
  <2> QED BY <2>1, <2>2, <2>3 DEF Published, Fronted
<1> QED BY <1>1, <1>2

LEMMA InitIInv == Init => IInv
<1> SUFFICES ASSUME Init PROVE IInv
  OBVIOUS
<1>1. TypeInv
  BY InitType
<1>2. ServiceOfFrontend
  BY <1>1 DEF Init, ServiceOfFrontend, NoService, TypeInv, TypeOK, FrontendObj
<1>3. StaleExplained
  BY DEF Init, StaleExplained, Ported, Pending
<1> QED BY <1>1, <1>2, <1>3 DEF Init, IInv, RequestCurrent, WantCurrent

LEMMA NextIInv == IInv /\ [Step]_vars => IInv'
BY NextType, NextService, NextRequest, NextWant, NextStale DEF IInv

\* For every set of Frontends, ports and reports: a Frontend with a port has its own
\* Service and its own slice, which shows what HealthCache holds, or a reconcile is on
\* its way, or the change was passed over in one of the two ways StaleExplained names
\* (HealthManager.Update, ReconcileService; also while the Frontend takes over the
\* Service and the slice of an earlier one and the garbage collector is after them).
THEOREM NoChangeLost == Spec => []StaleExplained
<1>1. IInv => StaleExplained
  BY DEF IInv
<1> QED BY <1>1, InitIInv, NextIInv, NextIsStep, PTL DEF Spec

=============================================================================
