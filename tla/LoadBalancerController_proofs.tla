-------------------- MODULE LoadBalancerController_proofs --------------------
(***************************************************************************)
(* Invariance proofs for LoadBalancerController, for every number of load  *)
(* balancers, Frontends, Backends and replicas, and that it implements     *)
(* FrontendAssignment.                                                     *)
(***************************************************************************)
EXTENDS LoadBalancerController, FrontendPorts_proofs

-----------------------------------------------------------------------------
(* Type correctness. *)

\* While a reconcile runs it has a request and the spec it read.
Running == pc # "idle" => req \in LBs /\ lb \in LBSpecs

TypeInv == TypeOK /\ Running

LEMMA EmptyMapType ==
  ASSUME NEW S, NEW T
  PROVE  IsMap(EmptyMap, S, T) /\ DOMAIN EmptyMap = {}
BY DEF IsMap, EmptyMap

LEMMA InitType == Init => TypeInv
<1> SUFFICES ASSUME Init PROVE TypeInv
  OBVIOUS
<1> USE NumbersAssumption, NoLBAssumption, SpecsAssumption
<1>1. frontends \in [Frontends -> FrontendObj] /\ feCache \in [Frontends -> FrontendObj]
  BY DEF Init, FrontendObj, Ports
<1>2. IsConfig(EmptyMap) /\ IsMap(EmptyMap, Frontends, FrontendObj)
  BY EmptyMapType DEF IsConfig
<1>3. ASSUME NEW l \in LBs PROVE IsConfigMap(configMaps[l]) /\ IsConfigMap(cmCache[l])
  <2>1. configMaps[l] = [phase |-> "absent", data |-> EmptyMap] /\ cmCache[l] = configMaps[l]
    BY DEF Init
  <2> QED BY <2>1, EmptyMapType DEF IsConfigMap
<1>4. todo \in SUBSET DOMAIN view
  BY DEF Init
<1> QED BY <1>1, <1>2, <1>3, <1>4 DEF Init, TypeInv, TypeOK, Running, NoSts

\* Ports in use in the list of a pass: finitely many naturals.
LEMMA UsedPortsType ==
  ASSUME TypeOK
  PROVE  UsedPorts \in SUBSET Nat /\ IsFiniteSet(UsedPorts)
<1>1. DOMAIN view \in SUBSET Frontends /\ view \in [DOMAIN view -> FrontendObj]
  BY DEF TypeOK, IsMap
<1>2. \A g \in DOMAIN view : view[g].port \in Ports
  BY <1>1 DEF FrontendObj
<1>3. UsedPorts \in SUBSET Nat
  BY <1>2 DEF UsedPorts, Ports
<1> DEFINE F == {g \in DOMAIN view : view[g].port # NoPort}
           p == [g \in F |-> view[g].port]
<1>4. IsFiniteSet(F)
  BY <1>1, FrontendsAssumption, FS_Subset
<1>5. p \in Surjection(F, UsedPorts)
  BY DEF Surjection, UsedPorts
<1> HIDE DEF F, p
<1>6. IsFiniteSet(UsedPorts)
  BY <1>4, <1>5, FS_Surjection
<1> QED BY <1>3, <1>6

LEMMA AssignedType ==
  ASSUME TypeInv, pc = "assign", NEW f \in DOMAIN view
  PROVE  /\ Assigned(f) \in FrontendObj
         /\ Assigned(f).port # NoPort
         /\ Assigned(f).lb # NoLB
<1>1. view[f] \in FrontendObj /\ req \in LBs
  BY DEF TypeInv, TypeOK, Running, IsMap
<1>2. NextPort(UsedPorts, StartingPort) \in Nat
  BY UsedPortsType, NextPortIsFree, NumbersAssumption DEF TypeInv
<1> DEFINE q == NextPort(UsedPorts, StartingPort)
<1> HIDE DEF q
<1>3. Assigned(f) = [view[f] EXCEPT !.lb = IF @ = NoLB THEN req ELSE @,
                                    !.port = IF @ = NoPort THEN q ELSE @]
  BY DEF Assigned, q
<1>4. q \in Nat
  BY <1>2 DEF q
<1> DEFINE l == IF view[f].lb = NoLB THEN req ELSE view[f].lb
           r == IF view[f].port = NoPort THEN q ELSE view[f].port
<1>5. view[f].lb \in LBs \cup {NoLB} /\ view[f].port \in Ports
  BY <1>1 DEF FrontendObj
<1>6. l \in LBs /\ l # NoLB
  BY <1>1, <1>5, NoLBAssumption
<1>7. r \in Nat /\ r # NoPort
  BY <1>4, <1>5 DEF Ports, NoPort
<1>8. Assigned(f) = [view[f] EXCEPT !.lb = l, !.port = r]
  BY <1>1, <1>3 DEF FrontendObj
<1> HIDE DEF l, r
<1> QED BY <1>1, <1>6, <1>7, <1>8 DEF FrontendObj, Ports

\* Writing a Frontend keeps its type.
LEMMA WriteFrontendType ==
  ASSUME TypeOK, NEW f \in Frontends, NEW o \in FrontendObj, WriteFrontend(f, o)
  PROVE  frontends' \in [Frontends -> FrontendObj]
<1> DEFINE w == [o EXCEPT !.rv = frontends[f].rv + 1]
<1>1. frontends[f].rv \in Nat
  BY DEF TypeOK, FrontendObj
<1>2. w \in FrontendObj
  BY <1>1 DEF FrontendObj
<1>3. frontends' = [frontends EXCEPT ![f] = w]
  BY DEF WriteFrontend
<1> HIDE DEF w
<1> QED BY <1>2, <1>3 DEF TypeOK

\* Merging the keys of the replicas into a ConfigMap keeps its type.
LEMMA MergeType ==
  ASSUME TypeInv, pc = "configmap", NEW m, IsConfigMap(m)
  PROVE  /\ IsConfigMap([phase |-> "present", data |-> Merge(m.data)])
         /\ DOMAIN Merge(m.data) = DOMAIN m.data \cup 0..(lb.replicas - 1)
<1> DEFINE d == Merge(m.data)
<1>1. lb.replicas \in 0..MaxReplicas /\ MaxReplicas \in Nat
  BY SpecsAssumption DEF TypeInv, Running
<1>2. DOMAIN d = DOMAIN m.data \cup 0..(lb.replicas - 1)
  BY DEF Merge
<1>3. DOMAIN d \subseteq Pods
  BY <1>1, <1>2 DEF IsConfigMap, Pods
<1>4. ASSUME NEW i \in DOMAIN d PROVE IsConfig(d[i])
  <2>1. d[i] = IF i < lb.replicas THEN config ELSE m.data[i]
    BY <1>2 DEF Merge
  <2>2. IsConfig(config)
    BY DEF TypeInv, TypeOK
  <2>3. ~(i < lb.replicas) => i \in DOMAIN m.data
    BY <1>1, <1>2
  <2> QED BY <2>1, <2>2, <2>3 DEF IsConfigMap
<1> HIDE DEF d
<1>5. IsConfigMap([phase |-> "present", data |-> d])
  BY <1>3, <1>4 DEF IsConfigMap
<1> QED BY <1>2, <1>5 DEF d

\* The list getFrontends returns is a map of cached objects.
LEMMA GetFrontendsType ==
  ASSUME TypeOK, NEW l, NEW spec
  PROVE  IsMap([f \in GetFrontends(l, spec) |-> feCache[f]], Frontends, FrontendObj)
BY DEF TypeOK, GetFrontends, IsMap

LEMMA ReturnType == ASSUME Return PROVE /\ pc' = "idle" /\ req' = NoLB /\ lb' = NoSpec
                                        /\ IsMap(view', Frontends, FrontendObj)
                                        /\ todo' \in SUBSET DOMAIN view'
                                        /\ IsConfig(config')
BY EmptyMapType DEF Return, IsConfig

LEMMA NextType == TypeInv /\ [Next]_vars => TypeInv'
<1> SUFFICES ASSUME TypeInv, [Next]_vars PROVE TypeInv'
  OBVIOUS
<1> USE NumbersAssumption, NoLBAssumption DEF TypeInv
<1>1. ASSUME NEW l \in LBs, EditLoadBalancer(l) PROVE TypeInv'
  BY <1>1 DEF EditLoadBalancer, Edit, TypeOK, Running, cacheVars, workerVars
<1>2. ASSUME NEW f \in Frontends, CreateFrontend(f) PROVE TypeInv'
  <2>1. PICK label \in Labels :
           WriteFrontend(f, [phase |-> "present", rv |-> 0, label |-> label,
                             lb |-> NoLB, port |-> NoPort])
    BY <1>2 DEF CreateFrontend
  <2>2. [phase |-> "present", rv |-> 0, label |-> label,
         lb |-> NoLB, port |-> NoPort] \in FrontendObj
    BY DEF FrontendObj, Ports
  <2>3. frontends' \in [Frontends -> FrontendObj]
    BY <2>1, <2>2, WriteFrontendType
  <2> QED BY <1>2, <2>3 DEF CreateFrontend, Edit, TypeOK, Running, cacheVars, workerVars
<1>3. ASSUME NEW f \in Frontends, RelabelFrontend(f) PROVE TypeInv'
  <2>1. PICK label \in Labels : WriteFrontend(f, [frontends[f] EXCEPT !.label = label])
    BY <1>3 DEF RelabelFrontend
  <2>2. [frontends[f] EXCEPT !.label = label] \in FrontendObj
    BY DEF TypeOK, FrontendObj
  <2>3. frontends' \in [Frontends -> FrontendObj]
    BY <2>1, <2>2, WriteFrontendType
  <2> QED BY <1>3, <2>3 DEF RelabelFrontend, Edit, TypeOK, Running, cacheVars, workerVars
<1>4. ASSUME NEW f \in Frontends, DeleteFrontend(f) PROVE TypeInv'
  <2>1. [frontends[f] EXCEPT !.phase = "absent"] \in FrontendObj
    BY DEF TypeOK, FrontendObj
  <2>2. frontends' \in [Frontends -> FrontendObj]
    BY <1>4, <2>1, WriteFrontendType DEF DeleteFrontend
  <2> QED BY <1>4, <2>2 DEF DeleteFrontend, Edit, TypeOK, Running, cacheVars, workerVars
<1>5. ASSUME NEW b \in Backends, EditBackend(b) PROVE TypeInv'
  <2>1. queue' \in SUBSET LBs
    BY <1>5, SelectorAssumption DEF EditBackend, EnqueueOwner, TypeOK
  <2> QED BY <1>5, <2>1 DEF EditBackend, Edit, TypeOK, Running, cacheVars, workerVars
<1>6. ASSUME NEW f \in Frontends, DeliverFrontend(f) PROVE TypeInv'
  <2>1. queue' \in SUBSET LBs
    BY <1>6, SelectorAssumption DEF DeliverFrontend, EnqueueOwner, TypeOK
  <2>2. feCache' \in [Frontends -> FrontendObj]
    BY <1>6 DEF DeliverFrontend, TypeOK
  <2> QED BY <1>6, <2>1, <2>2 DEF DeliverFrontend, TypeOK, Running, apiVars, workerVars
<1>7. ASSUME NEW l \in LBs, DeliverConfigMap(l) PROVE TypeInv'
  BY <1>7 DEF DeliverConfigMap, TypeOK, Running, apiVars, workerVars
<1>8. ASSUME NEW l \in LBs, StatefulSetEvent(l) PROVE TypeInv'
  BY <1>8 DEF StatefulSetEvent, TypeOK, Running, apiVars, cacheVars, workerVars
<1>9. ASSUME NEW l \in LBs, CollectStatefulSet(l) PROVE TypeInv'
  BY <1>9 DEF CollectStatefulSet, TypeOK, Running, cacheVars, workerVars
<1>10. ASSUME Resync PROVE TypeInv'
  BY <1>10 DEF Resync, Live, TypeOK, Running, apiVars, cacheVars, workerVars
<1>11. ASSUME NEW l \in LBs, Reconcile(l) PROVE TypeInv'
  <2>1. CASE loadBalancers[l] = NoSpec
    BY <1>11, <2>1 DEF Reconcile, TypeOK, Running, apiVars, cacheVars, workerVars
  <2>2. CASE loadBalancers[l] # NoSpec
    BY <1>11, <2>2 DEF Reconcile, TypeOK, Running, apiVars, cacheVars
  <2> QED BY <2>1, <2>2
<1>12. ASSUME EnsureHAProxyStatefulSet PROVE TypeInv'
  <2>1. lb.replicas \in 0..MaxReplicas /\ req \in LBs
    BY <1>12, SpecsAssumption DEF EnsureHAProxyStatefulSet, Running
  <2> QED BY <1>12, <2>1 DEF EnsureHAProxyStatefulSet, TypeOK, Running, cacheVars
<1>13. ASSUME EnsureHAProxyStatefulSetFails PROVE TypeInv'
  <2>1. queue' \in SUBSET LBs
    BY <1>13 DEF EnsureHAProxyStatefulSetFails, Requeue, TypeOK, Running
  <2> QED BY <1>13, <2>1, ReturnType
          DEF EnsureHAProxyStatefulSetFails, Requeue, Fault, NoFault, TypeOK, Running,
              apiVars, cacheVars
<1>14. ASSUME ReconcileFrontends PROVE TypeInv'
  <2>1. CASE lb.selector = InvalidSelector
    <3>1. queue' \in SUBSET LBs
      BY <1>14, <2>1 DEF ReconcileFrontends, Requeue, TypeOK, Running
    <3> QED BY <1>14, <2>1, <3>1, ReturnType
            DEF ReconcileFrontends, Requeue, TypeOK, Running, apiVars, cacheVars
  <2>2. CASE lb.selector # InvalidSelector
    <3>1. IsMap(view', Frontends, FrontendObj) /\ todo' \in SUBSET DOMAIN view'
      BY <1>14, <2>2, GetFrontendsType DEF ReconcileFrontends
    <3> QED BY <1>14, <2>2, <3>1
            DEF ReconcileFrontends, TypeOK, Running, apiVars, cacheVars
  <2> QED BY <2>1, <2>2
<1>15. ASSUME NEW f \in Frontends, AssignFrontend(f) PROVE TypeInv'
  <2>1. f \in DOMAIN view /\ pc = "assign"
    BY <1>15 DEF AssignFrontend, TypeOK
  <2>2. Assigned(f).lb \in LBs \cup {NoLB} /\ Assigned(f).port \in Ports
    BY <2>1, AssignedType DEF FrontendObj
  <2>3. frontends' \in [Frontends -> FrontendObj]
    BY <1>15, <2>2 DEF AssignFrontend, TypeOK, FrontendObj
  <2>4. faults' \in 0..MaxFaults
    BY <1>15 DEF AssignFrontend, Fault, NoFault, TypeOK
  <2> QED BY <1>15, <2>3, <2>4 DEF AssignFrontend, TypeOK, Running, cacheVars
<1>16. ASSUME ReconcileConfig PROVE TypeInv'
  <2>1. IsMap(view', Frontends, FrontendObj)
    BY <1>16, GetFrontendsType DEF ReconcileConfig
  <2> QED BY <1>16, <2>1 DEF ReconcileConfig, TypeOK, Running, apiVars, cacheVars
<1>17. ASSUME BuildConfig PROVE TypeInv'
  <2>1. CASE \E f \in DOMAIN view : BackendSelector[f] = InvalidSelector
    <3>1. queue' \in SUBSET LBs
      BY <1>17, <2>1 DEF BuildConfig, Requeue, TypeOK, Running
    <3> QED BY <1>17, <2>1, <3>1, ReturnType
            DEF BuildConfig, Requeue, TypeOK, Running, apiVars, cacheVars
  <2>2. CASE ~\E f \in DOMAIN view : BackendSelector[f] = InvalidSelector
    <3>1. config' = [f \in DOMAIN view |-> BackendSelector[f] \cap backends]
      BY <1>17, <2>2 DEF BuildConfig, GetBackends
    <3>2. IsConfig(config')
      BY <3>1 DEF IsConfig, IsMap, TypeOK
    <3> QED BY <1>17, <2>2, <3>2 DEF BuildConfig, TypeOK, Running, apiVars, cacheVars
  <2> QED BY <2>1, <2>2
<1>18. ASSUME CreateOrUpdateConfigMap PROVE TypeInv'
  <2>1. req \in LBs /\ pc = "configmap"
    BY <1>18 DEF CreateOrUpdateConfigMap, Running
  <2>2. DOMAIN configMaps' = LBs /\ \A l \in LBs : IsConfigMap(configMaps'[l])
    <3>1. IsConfigMap([phase |-> "present", data |-> Merge(cmCache[req].data)])
      BY <2>1, MergeType DEF TypeOK
    <3> QED BY <1>18, <2>1, <3>1 DEF CreateOrUpdateConfigMap, TypeOK
  <2> QED BY <1>18, <2>1, <2>2, ReturnType
          DEF CreateOrUpdateConfigMap, Done, TypeOK, Running, cacheVars
<1>19. ASSUME CreateOrUpdateConfigMapFails PROVE TypeInv'
  <2>1. queue' \in SUBSET LBs /\ faults' \in 0..MaxFaults
    BY <1>19 DEF CreateOrUpdateConfigMapFails, Requeue, Fault, NoFault, TypeOK, Running
  <2> QED BY <1>19, <2>1, ReturnType
          DEF CreateOrUpdateConfigMapFails, Requeue, TypeOK, Running, apiVars, cacheVars
<1>20. ASSUME Restart PROVE TypeInv'
  BY <1>20, ReturnType DEF Restart, Fault, Live, StatefulSetsThere, TypeOK, Running, apiVars
<1>21. ASSUME UNCHANGED vars PROVE TypeInv'
  BY <1>21 DEF vars, apiVars, cacheVars, workerVars, TypeOK, Running
<1> QED BY <1>1, <1>2, <1>3, <1>4, <1>5, <1>6, <1>7, <1>8, <1>9, <1>10, <1>11, <1>12,
           <1>13, <1>14, <1>15, <1>16, <1>17, <1>18, <1>19, <1>20, <1>21
        DEF Next, Users, Cluster, Worker

\* Every state of the controller has the types of the Kubernetes objects, the
\* caches and the local variables of Reconcile.
THEOREM TypeCorrect == Spec => []TypeOK
<1>1. TypeInv => TypeOK
  BY DEF TypeInv
<1> QED BY <1>1, InitType, NextType, PTL DEF Spec

-----------------------------------------------------------------------------
(* Copies of Frontends and their versions. *)

\* The three ways a step changes the Frontend f.
Edited(f) ==
    /\ frontends'[f].rv = frontends[f].rv + 1
    /\ frontends'[f].lb = frontends[f].lb
    /\ frontends'[f].port = frontends[f].port

Created(f) ==
    /\ frontends[f].phase = "absent"
    /\ frontends'[f].rv = frontends[f].rv + 1
    /\ frontends'[f].lb = NoLB
    /\ frontends'[f].port = NoPort

StatusWritten(f) ==
    /\ pc = "assign"
    /\ f \in DOMAIN view
    /\ frontends[f].rv = view[f].rv
    /\ frontends'[f].rv = frontends[f].rv + 1
    /\ frontends'[f].lb = Assigned(f).lb
    /\ frontends'[f].port = Assigned(f).port

\* The actions that write Frontends.
LEMMA FrontendActions ==
  ASSUME [Next]_vars
  PROVE  \/ \E g \in Frontends : \/ CreateFrontend(g) \/ RelabelFrontend(g)
                                 \/ DeleteFrontend(g) \/ AssignFrontend(g)
         \/ UNCHANGED frontends
BY DEF Next, Users, Cluster, Worker, vars, apiVars, EditLoadBalancer, EditBackend,
       DeliverFrontend, DeliverConfigMap, StatefulSetEvent, CollectStatefulSet, Resync,
       Reconcile, EnsureHAProxyStatefulSet, EnsureHAProxyStatefulSetFails,
       ReconcileFrontends, ReconcileConfig, BuildConfig, CreateOrUpdateConfigMap,
       CreateOrUpdateConfigMapFails, Restart

LEMMA FrontendStep ==
  ASSUME TypeInv, [Next]_vars, NEW f \in Frontends
  PROVE  frontends'[f] = frontends[f] \/ Edited(f) \/ Created(f) \/ StatusWritten(f)
<1> DEFINE Goal == frontends'[f] = frontends[f] \/ Edited(f) \/ Created(f) \/ StatusWritten(f)
<1>0. frontends \in [Frontends -> FrontendObj]
  BY DEF TypeInv, TypeOK
<1>1. ASSUME NEW g \in Frontends, CreateFrontend(g) PROVE Goal
  BY <1>0, <1>1 DEF CreateFrontend, WriteFrontend, Created, FrontendObj
<1>2. ASSUME NEW g \in Frontends, RelabelFrontend(g) PROVE Goal
  BY <1>0, <1>2 DEF RelabelFrontend, WriteFrontend, Edited, FrontendObj
<1>3. ASSUME NEW g \in Frontends, DeleteFrontend(g) PROVE Goal
  BY <1>0, <1>3 DEF DeleteFrontend, WriteFrontend, Edited, FrontendObj
<1>4. ASSUME NEW g \in Frontends, AssignFrontend(g) PROVE Goal
  <2>1. CASE frontends' = frontends
    BY <2>1
  <2>2. CASE frontends' # frontends
    <3>1. /\ pc = "assign" /\ g \in DOMAIN view /\ StatusUpdateAccepted(g)
          /\ frontends' = [frontends EXCEPT ![g].lb   = Assigned(g).lb,
                                            ![g].port = Assigned(g).port,
                                            ![g].rv   = @ + 1]
      BY <1>4, <2>2 DEF AssignFrontend, TypeInv, TypeOK
    <3>2. CASE g = f
      <4>1. /\ frontends'[f].rv = frontends[f].rv + 1
            /\ frontends'[f].lb = Assigned(f).lb
            /\ frontends'[f].port = Assigned(f).port
        BY <1>0, <3>1, <3>2 DEF FrontendObj
      <4> QED BY <3>1, <3>2, <4>1 DEF StatusWritten, StatusUpdateAccepted
    <3>3. CASE g # f
      BY <1>0, <3>1, <3>3
    <3> QED BY <3>2, <3>3
  <2> QED BY <2>1, <2>2
<1>5. CASE UNCHANGED frontends
  BY <1>5
<1> QED BY <1>1, <1>2, <1>3, <1>4, <1>5, FrontendActions

\* The cache only ever takes the object of the API server.
LEMMA CacheStep ==
  ASSUME TypeInv, [Next]_vars, NEW f \in Frontends
  PROVE  feCache'[f] \in {feCache[f], frontends[f]}
<1>1. ASSUME NEW g \in Frontends, DeliverFrontend(g) PROVE feCache'[f] \in {feCache[f], frontends[f]}
  BY <1>1 DEF DeliverFrontend, TypeInv, TypeOK
<1>2. feCache' = frontends \/ UNCHANGED feCache \/ \E g \in Frontends : DeliverFrontend(g)
  BY DEF Next, Users, Cluster, Worker, vars, cacheVars, EditLoadBalancer, EditBackend,
         CreateFrontend, RelabelFrontend, DeleteFrontend, AssignFrontend,
         DeliverConfigMap, StatefulSetEvent, CollectStatefulSet, Resync,
         Reconcile, EnsureHAProxyStatefulSet, EnsureHAProxyStatefulSetFails,
         ReconcileFrontends, ReconcileConfig, BuildConfig, CreateOrUpdateConfigMap,
         CreateOrUpdateConfigMapFails, Restart
<1> QED BY <1>1, <1>2

\* The list of a pass only ever takes cached objects.
LEMMA ViewStep ==
  ASSUME TypeInv, [Next]_vars, NEW f \in DOMAIN view'
  PROVE  f \in Frontends /\ (view'[f] = feCache[f] \/ (f \in DOMAIN view /\ view'[f] = view[f]))
<1>1. \/ view' = view
      \/ view' = EmptyMap
      \/ view' = [g \in GetFrontends(req, lb) |-> feCache[g]]
  BY DEF Next, Users, Cluster, Worker, vars, workerVars, EditLoadBalancer, EditBackend,
         CreateFrontend, RelabelFrontend, DeleteFrontend, AssignFrontend,
         DeliverFrontend, DeliverConfigMap, StatefulSetEvent, CollectStatefulSet, Resync,
         Reconcile, EnsureHAProxyStatefulSet, EnsureHAProxyStatefulSetFails,
         ReconcileFrontends, ReconcileConfig, BuildConfig, CreateOrUpdateConfigMap,
         CreateOrUpdateConfigMapFails, Restart, Requeue, Done, Return
<1>2. CASE view' = view
  BY <1>2 DEF TypeInv, TypeOK, IsMap
<1>3. CASE view' = EmptyMap
  BY <1>3 DEF EmptyMap
<1>4. CASE view' = [g \in GetFrontends(req, lb) |-> feCache[g]]
  BY <1>4 DEF GetFrontends
<1> QED BY <1>1, <1>2, <1>3, <1>4

\* A copy is never newer than the object, and is the object when as new.
Coherent(f, copy) ==
    /\ copy.rv <= frontends[f].rv
    /\ copy.rv = frontends[f].rv => copy = frontends[f]

VersionsCoherent ==
    /\ \A f \in Frontends : Coherent(f, feCache[f])
    /\ \A f \in DOMAIN view : Coherent(f, view[f])

LEMMA CoherentStep ==
  ASSUME TypeInv, [Next]_vars, NEW f \in Frontends, NEW copy \in FrontendObj, Coherent(f, copy)
  PROVE  /\ copy.rv <= frontends'[f].rv
         /\ copy.rv = frontends'[f].rv => copy = frontends'[f]
<1>1. frontends'[f] = frontends[f] \/ frontends'[f].rv = frontends[f].rv + 1
  BY FrontendStep DEF Edited, Created, StatusWritten
<1>2. frontends[f].rv \in Nat /\ copy.rv \in Nat
  BY DEF TypeInv, TypeOK, FrontendObj
<1> QED BY <1>1, <1>2 DEF Coherent

\* Versions stay coherent: every write takes a new version, and copies are
\* made of the API server's object or of an older copy.
LEMMA NextCoherent == TypeInv /\ VersionsCoherent /\ [Next]_vars => VersionsCoherent'
<1> SUFFICES ASSUME TypeInv, VersionsCoherent, [Next]_vars PROVE VersionsCoherent'
  OBVIOUS
<1>1. ASSUME NEW f \in Frontends
      PROVE  /\ feCache[f] \in FrontendObj /\ Coherent(f, feCache[f])
             /\ frontends[f] \in FrontendObj /\ Coherent(f, frontends[f])
  BY DEF TypeInv, TypeOK, VersionsCoherent, Coherent, FrontendObj
<1>2. ASSUME NEW f \in DOMAIN view
      PROVE  view[f] \in FrontendObj /\ Coherent(f, view[f])
  BY DEF TypeInv, TypeOK, IsMap, VersionsCoherent
<1>3. ASSUME NEW f \in Frontends PROVE Coherent(f, feCache[f])'
  <2>1. feCache'[f] \in {feCache[f], frontends[f]}
    BY CacheStep
  <2>2. feCache'[f] \in FrontendObj /\ Coherent(f, feCache'[f])
    BY <1>1, <2>1
  <2> QED BY <2>2, CoherentStep DEF Coherent
<1>4. ASSUME NEW f \in DOMAIN view' PROVE Coherent(f, view[f])'
  <2>1. f \in Frontends /\ (view'[f] = feCache[f] \/ (f \in DOMAIN view /\ view'[f] = view[f]))
    BY ViewStep
  <2>2. view'[f] \in FrontendObj /\ Coherent(f, view'[f])
    BY <1>1, <1>2, <2>1
  <2> QED BY <2>1, <2>2, CoherentStep DEF Coherent
<1> QED BY <1>3, <1>4 DEF VersionsCoherent

-----------------------------------------------------------------------------
(* Ports. *)

InRange(object) ==
    object.port # NoPort =>
        object.port \in StartingPort..(StartingPort + Cardinality(Frontends) - 1)

\* The port of a Frontend, and of every copy a pass may choose a port from.
PortsInRange ==
    /\ \A f \in Frontends : InRange(frontends[f]) /\ InRange(feCache[f])
    /\ \A f \in DOMAIN view : InRange(view[f])

\* A pass that has a port to give sees fewer ports than there are Frontends.
LEMMA UsedPortsBound ==
  ASSUME TypeOK, NEW f \in DOMAIN view, view[f].port = NoPort
  PROVE  /\ Cardinality(UsedPorts) \in Nat
         /\ Cardinality(Frontends) \in Nat
         /\ Cardinality(UsedPorts) <= Cardinality(Frontends) - 1
<1>1. DOMAIN view \in SUBSET Frontends
  BY DEF TypeOK, IsMap
<1> DEFINE F == {g \in DOMAIN view : view[g].port # NoPort}
           p == [g \in F |-> view[g].port]
           R == Frontends \ {f}
<1>2. p \in Surjection(F, UsedPorts)
  BY DEF Surjection, UsedPorts
<1>3. F \in SUBSET R /\ f \in Frontends
  BY <1>1
<1>4. IsFiniteSet(R) /\ Cardinality(R) = Cardinality(Frontends) - 1
  BY <1>3, FrontendsAssumption, FS_RemoveElement
<1> HIDE DEF F, p, R
<1>5. IsFiniteSet(F) /\ Cardinality(F) <= Cardinality(R)
  BY <1>3, <1>4, FS_Subset
<1>6. IsFiniteSet(UsedPorts) /\ Cardinality(UsedPorts) <= Cardinality(F)
  BY <1>2, <1>5, FS_Surjection
<1>7. /\ Cardinality(UsedPorts) \in Nat /\ Cardinality(F) \in Nat
      /\ Cardinality(R) \in Nat /\ Cardinality(Frontends) \in Nat
  BY <1>4, <1>5, <1>6, FrontendsAssumption, FS_CardinalityType
<1> QED BY <1>4, <1>5, <1>6, <1>7

LEMMA AssignedInRange ==
  ASSUME TypeInv, PortsInRange, pc = "assign", NEW f \in DOMAIN view
  PROVE  InRange(Assigned(f))
<1>1. view[f] \in FrontendObj /\ InRange(view[f])
  BY DEF TypeInv, TypeOK, IsMap, PortsInRange
<1> DEFINE q == NextPort(UsedPorts, StartingPort)
<1>2. Assigned(f).port = IF view[f].port = NoPort THEN q ELSE view[f].port
  BY <1>1 DEF Assigned, FrontendObj
<1>3. CASE view[f].port # NoPort
  BY <1>1, <1>2, <1>3 DEF InRange
<1>4. CASE view[f].port = NoPort
  <2>1. \A u \in UsedPorts : StartingPort <= u
    BY NumbersAssumption DEF UsedPorts, PortsInRange, InRange
  <2>2. q \in StartingPort..(StartingPort + Cardinality(UsedPorts))
    BY <2>1, UsedPortsType, NextPortIsBounded, NumbersAssumption DEF TypeInv
  <2>3. /\ Cardinality(UsedPorts) \in Nat /\ Cardinality(Frontends) \in Nat
        /\ Cardinality(UsedPorts) <= Cardinality(Frontends) - 1
    BY <1>4, UsedPortsBound DEF TypeInv
  <2> HIDE DEF q
  <2>4. q \in StartingPort..(StartingPort + Cardinality(Frontends) - 1)
    BY <2>2, <2>3, NumbersAssumption
  <2> QED BY <1>2, <1>4, <2>4 DEF InRange
<1> QED BY <1>3, <1>4

LEMMA NextInRange == TypeInv /\ PortsInRange /\ [Next]_vars => PortsInRange'
<1> SUFFICES ASSUME TypeInv, PortsInRange, [Next]_vars PROVE PortsInRange'
  OBVIOUS
<1>1. ASSUME NEW f \in Frontends PROVE InRange(frontends'[f])
  <2>1. frontends'[f] = frontends[f] \/ Edited(f) \/ Created(f) \/ StatusWritten(f)
    BY FrontendStep
  <2>2. CASE StatusWritten(f)
    BY <2>2, AssignedInRange DEF StatusWritten, InRange
  <2>3. CASE frontends'[f] = frontends[f] \/ Edited(f) \/ Created(f)
    BY <2>3 DEF PortsInRange, Edited, Created, InRange
  <2> QED BY <2>1, <2>2, <2>3
<1>2. ASSUME NEW f \in Frontends PROVE InRange(feCache'[f])
  BY CacheStep DEF PortsInRange
<1>3. ASSUME NEW f \in DOMAIN view' PROVE InRange(view'[f])
  BY ViewStep DEF PortsInRange
<1> QED BY <1>1, <1>2, <1>3 DEF PortsInRange, InRange

-----------------------------------------------------------------------------
(* The theorems about Frontends. *)

FrontendInv == TypeInv /\ VersionsCoherent /\ PortsInRange

LEMMA FrontendInvariant == Spec => []FrontendInv
<1>1. Init => FrontendInv
  <2> SUFFICES ASSUME Init PROVE FrontendInv
    OBVIOUS
  <2>1. TypeInv
    BY InitType
  <2>2. \A f \in Frontends : Coherent(f, feCache[f]) /\ InRange(frontends[f]) /\ InRange(feCache[f])
    BY <2>1 DEF Init, Coherent, InRange, TypeInv, TypeOK, FrontendObj
  <2>3. DOMAIN view = {}
    BY DEF Init, EmptyMap
  <2> QED BY <2>1, <2>2, <2>3 DEF FrontendInv, VersionsCoherent, PortsInRange
<1>2. FrontendInv /\ [Next]_vars => FrontendInv'
  BY NextType, NextCoherent, NextInRange DEF FrontendInv
<1> QED BY <1>1, <1>2, PTL DEF Spec

\* However Frontends come and go and however stale the lists are, ports stay
\* within the number of Frontends of the starting port.
THEOREM PortsStayBounded == Spec => []PortsBounded
<1>1. FrontendInv => PortsBounded
  BY DEF FrontendInv, PortsInRange, InRange, PortsBounded
<1> QED BY <1>1, FrontendInvariant, PTL

\* No step of the controller takes a claimed Frontend over or renumbers it.
THEOREM AssignmentsAreStable == Spec => AssignmentStable
<1> DEFINE Stable(f) == SameFrontend(f) =>
              /\ frontends[f].lb # NoLB => frontends'[f].lb = frontends[f].lb
              /\ frontends[f].port # NoPort => frontends'[f].port = frontends[f].port
<1>1. ASSUME FrontendInv, [Next]_vars, NEW f \in Frontends PROVE Stable(f)
  <2>1. frontends'[f] = frontends[f] \/ Edited(f) \/ Created(f) \/ StatusWritten(f)
    BY <1>1, FrontendStep DEF FrontendInv
  <2>2. CASE StatusWritten(f)
    <3>1. view[f] = frontends[f] /\ view[f] \in FrontendObj
      BY <1>1, <2>2 DEF FrontendInv, VersionsCoherent, Coherent, StatusWritten, TypeInv, TypeOK, IsMap
    <3>2. /\ view[f].lb # NoLB => Assigned(f).lb = view[f].lb
          /\ view[f].port # NoPort => Assigned(f).port = view[f].port
      BY <3>1 DEF Assigned, FrontendObj
    <3> QED BY <2>2, <3>1, <3>2 DEF StatusWritten
  <2>3. CASE frontends'[f] = frontends[f] \/ Edited(f) \/ Created(f)
    BY <2>3 DEF Edited, Created, SameFrontend
  <2> QED BY <2>1, <2>2, <2>3
<1>2. FrontendInv /\ [Next]_vars => [\A f \in Frontends : Stable(f)]_vars
  BY <1>1
<1> QED BY <1>2, FrontendInvariant, PTL DEF Spec, AssignmentStable

\* The port given to a Frontend is not that of any other Frontend which the
\* pass saw in its present version.
THEOREM PortsAreFresh == Spec => FreshPort
<1> DEFINE Fresh(f, g) ==
              (GivenPort(f) /\ f # g /\ g \in DOMAIN view /\ view[g].rv = frontends[g].rv)
                 => frontends'[f].port # frontends[g].port
<1>1. ASSUME FrontendInv, [Next]_vars, NEW f \in Frontends, NEW g \in Frontends,
             GivenPort(f), g \in DOMAIN view, view[g].rv = frontends[g].rv
      PROVE  frontends'[f].port # frontends[g].port
  <2> DEFINE q == NextPort(UsedPorts, StartingPort)
  <2>1. StatusWritten(f)
    BY <1>1, FrontendStep DEF FrontendInv, Edited, Created, GivenPort
  <2>2. view[f] = frontends[f] /\ view[f] \in FrontendObj
    BY <1>1, <2>1 DEF FrontendInv, VersionsCoherent, Coherent, StatusWritten, TypeInv, TypeOK, IsMap
  <2>3. frontends'[f].port = q
    BY <1>1, <2>1, <2>2 DEF StatusWritten, Assigned, FrontendObj, GivenPort
  <2>4. q \in Nat /\ q \notin UsedPorts
    BY <1>1, UsedPortsType, NextPortIsFree, NumbersAssumption DEF FrontendInv, TypeInv
  <2>5. view[g] = frontends[g]
    BY <1>1 DEF FrontendInv, VersionsCoherent, Coherent
  <2>6. frontends[g].port = NoPort \/ frontends[g].port \in UsedPorts
    BY <1>1, <2>5 DEF UsedPorts
  <2> HIDE DEF q
  <2> QED BY <2>3, <2>4, <2>6 DEF NoPort
<1>2. FrontendInv /\ [Next]_vars => [\A f, g \in Frontends : Fresh(f, g)]_vars
  BY <1>1
<1> QED BY <1>2, FrontendInvariant, PTL DEF Spec, FreshPort

-----------------------------------------------------------------------------
(* ConfigMaps and StatefulSets. *)

\* From EnsureHAProxyStatefulSet on, the StatefulSet has the replicas of the
\* spec that Reconcile read, unless it was collected with its owner.
Scaled ==
    pc \notin {"idle", "statefulset"} => statefulSets[req] \in {lb.replicas, NoSts}

\* Keys are only added to a ConfigMap, so a cached copy has no key that the
\* object lacks.
KeysCoherent ==
    \A l \in LBs :
        /\ l \in cmFresh => cmCache[l] = configMaps[l]
        /\ DOMAIN cmCache[l].data \subseteq DOMAIN configMaps[l].data

CoverInv == TypeInv /\ Scaled /\ KeysCoherent /\ ConfigCoversReplicas

LEMMA NextKeysCoherent == TypeInv /\ KeysCoherent /\ [Next]_vars => KeysCoherent'
<1> SUFFICES ASSUME TypeInv, KeysCoherent, [Next]_vars PROVE KeysCoherent'
  OBVIOUS
<1>1. CASE UNCHANGED <<configMaps, cmCache, cmFresh>>
  BY <1>1 DEF KeysCoherent
<1>2. ASSUME NEW l \in LBs, DeliverConfigMap(l) PROVE KeysCoherent'
  <2>1. /\ configMaps' = configMaps /\ cmFresh' = cmFresh \cup {l}
        /\ cmCache' = [cmCache EXCEPT ![l] = configMaps[l]]
    BY <1>2 DEF DeliverConfigMap, apiVars
  <2>2. \A k \in LBs : cmCache'[k] = IF k = l THEN configMaps[k] ELSE cmCache[k]
    BY <2>1 DEF TypeInv, TypeOK
  <2> QED BY <2>1, <2>2 DEF KeysCoherent
<1>3. ASSUME Restart PROVE KeysCoherent'
  BY <1>3 DEF Restart, apiVars, KeysCoherent
<1>4. ASSUME CreateOrUpdateConfigMap, ~UNCHANGED <<configMaps, cmFresh>> PROVE KeysCoherent'
  <2>1. req \in LBs /\ pc = "configmap" /\ cmCache' = cmCache
    BY <1>4 DEF CreateOrUpdateConfigMap, TypeInv, Running, cacheVars
  <2> DEFINE new == [phase |-> "present", data |-> Merge(cmCache[req].data)]
  <2>2. cmFresh' = cmFresh \ {req} /\ configMaps' = [configMaps EXCEPT ![req] = new]
    BY <1>4, <2>1 DEF CreateOrUpdateConfigMap
  <2>3. DOMAIN cmCache[req].data \subseteq DOMAIN new.data
    BY DEF Merge
  <2> HIDE DEF new
  <2>4. \A k \in LBs : configMaps'[k] = IF k = req THEN new ELSE configMaps[k]
    BY <2>1, <2>2 DEF TypeInv, TypeOK
  <2> QED BY <2>1, <2>2, <2>3, <2>4 DEF KeysCoherent
<1>5. \/ UNCHANGED <<configMaps, cmCache, cmFresh>>
      \/ \E l \in LBs : DeliverConfigMap(l)
      \/ Restart
      \/ CreateOrUpdateConfigMap /\ ~UNCHANGED <<configMaps, cmFresh>>
  BY DEF Next, Users, Cluster, Worker, vars, apiVars, cacheVars, EditLoadBalancer, EditBackend,
         CreateFrontend, RelabelFrontend, DeleteFrontend, AssignFrontend,
         DeliverFrontend, StatefulSetEvent, CollectStatefulSet, Resync,
         Reconcile, EnsureHAProxyStatefulSet, EnsureHAProxyStatefulSetFails,
         ReconcileFrontends, ReconcileConfig, BuildConfig, CreateOrUpdateConfigMap,
         CreateOrUpdateConfigMapFails
<1> QED BY <1>1, <1>2, <1>3, <1>4, <1>5

LEMMA NextScaled == TypeInv /\ Scaled /\ [Next]_vars => Scaled'
<1> SUFFICES ASSUME TypeInv, Scaled, [Next]_vars PROVE Scaled'
  OBVIOUS
<1>1. CASE UNCHANGED <<req, lb, statefulSets>> /\ (pc' = pc \/ pc \notin {"idle", "statefulset"})
  BY <1>1 DEF Scaled
<1>2. CASE pc' = "idle" \/ pc' = "statefulset"
  BY <1>2 DEF Scaled
<1>3. ASSUME EnsureHAProxyStatefulSet PROVE Scaled'
  BY <1>3 DEF EnsureHAProxyStatefulSet, Scaled, TypeInv, TypeOK, Running
<1>4. ASSUME NEW l \in LBs, CollectStatefulSet(l) PROVE Scaled'
  BY <1>4 DEF CollectStatefulSet, workerVars, Scaled, TypeInv, TypeOK, Running
<1>5. \/ UNCHANGED <<req, lb, statefulSets>> /\ (pc' = pc \/ pc \notin {"idle", "statefulset"})
      \/ pc' = "idle" \/ pc' = "statefulset"
      \/ EnsureHAProxyStatefulSet
      \/ \E l \in LBs : CollectStatefulSet(l)
  BY DEF Next, Users, Cluster, Worker, vars, apiVars, workerVars, EditLoadBalancer, EditBackend,
         CreateFrontend, RelabelFrontend, DeleteFrontend, AssignFrontend,
         DeliverFrontend, DeliverConfigMap, StatefulSetEvent, Resync,
         Reconcile, EnsureHAProxyStatefulSetFails,
         ReconcileFrontends, ReconcileConfig, BuildConfig, CreateOrUpdateConfigMap,
         CreateOrUpdateConfigMapFails, Restart, Requeue, Done, Return
<1> QED BY <1>1, <1>2, <1>3, <1>4, <1>5

LEMMA NextCovers == CoverInv /\ [Next]_vars => ConfigCoversReplicas'
<1> SUFFICES ASSUME CoverInv, [Next]_vars,
                    NEW l \in LBs, loadBalancers'[l] # NoSpec,
                    NEW i \in Pods, i < statefulSets'[l], ~Pending(l)'
             PROVE  i \in DOMAIN configMaps'[l].data
  BY DEF ConfigCoversReplicas, Live
<1>1. TypeInv /\ Scaled /\ KeysCoherent
  BY DEF CoverInv
<1>2. (loadBalancers[l] # NoSpec /\ i < statefulSets[l] /\ ~Pending(l)) => i \in DOMAIN configMaps[l].data
  BY DEF CoverInv, ConfigCoversReplicas, Live
<1>3. l \notin queue' /\ (pc' = "idle" \/ req' # l)
  BY DEF Pending
<1>4. CASE UNCHANGED <<loadBalancers, statefulSets, configMaps>> /\ ~Pending(l)
  BY <1>2, <1>4
<1>5. ASSUME CreateOrUpdateConfigMap PROVE i \in DOMAIN configMaps'[l].data
  <2>1. req \in LBs /\ pc = "configmap" /\ UNCHANGED <<loadBalancers, statefulSets, queue>>
    BY <1>1, <1>5 DEF CreateOrUpdateConfigMap, Done, TypeInv, Running
  <2>2. CASE l # req
    <3>1. configMaps'[l] = configMaps[l]
      BY <1>1, <1>5, <2>1, <2>2 DEF CreateOrUpdateConfigMap, TypeInv, TypeOK
    <3>2. ~Pending(l)
      BY <1>3, <2>1, <2>2 DEF Pending
    <3> QED BY <1>2, <2>1, <3>1, <3>2
  <2>3. CASE l = req
    <3>1. statefulSets[req] \in {lb.replicas, NoSts} /\ lb.replicas \in 0..MaxReplicas /\ i \in 0..(MaxReplicas - 1)
      BY <1>1, <2>1, SpecsAssumption DEF Scaled, TypeInv, Running, Pods
    <3>2. i \in 0..(lb.replicas - 1)
      BY <2>1, <2>3, <3>1, SpecsAssumption DEF NoSts
    <3>3. i \in DOMAIN Merge(cmCache[req].data)
      BY <3>2 DEF Merge
    <3>4. CASE configMaps' = [configMaps EXCEPT
                  ![req] = [phase |-> "present", data |-> Merge(cmCache[req].data)]]
      BY <1>1, <2>1, <2>3, <3>3, <3>4 DEF TypeInv, TypeOK
    <3>5. CASE ~MustSend(req) /\ UNCHANGED configMaps
      <4>1. Merge(cmCache[req].data) = cmCache[req].data
        BY <3>5 DEF MustSend
      <4>2. i \in DOMAIN cmCache[req].data
        BY <3>3, <4>1, Zenon
      <4> QED BY <1>1, <2>1, <2>3, <3>5, <4>2 DEF KeysCoherent
    <3> QED BY <1>5, <3>4, <3>5 DEF CreateOrUpdateConfigMap
  <2> QED BY <2>2, <2>3
<1>6. ASSUME NEW k \in LBs, Reconcile(k) PROVE i \in DOMAIN configMaps'[l].data
  <2>1. UNCHANGED <<loadBalancers, statefulSets, configMaps>>
    BY <1>6 DEF Reconcile, apiVars
  <2>2. CASE l \in queue
    <3>1. k = l
      BY <1>3, <1>6, <2>2 DEF Reconcile
    <3> QED BY <1>3, <1>6, <2>1, <3>1 DEF Reconcile
  <2>3. CASE l \notin queue
    BY <1>2, <1>6, <2>1, <2>3 DEF Reconcile, Pending
  <2> QED BY <2>2, <2>3
<1>7. ASSUME NEW k \in LBs, EditLoadBalancer(k) \/ CollectStatefulSet(k)
      PROVE  i \in DOMAIN configMaps'[l].data
  <2>1. k # l
    BY <1>3, <1>7 DEF EditLoadBalancer, CollectStatefulSet
  <2>2. loadBalancers'[l] = loadBalancers[l] /\ statefulSets'[l] = statefulSets[l]
        /\ configMaps' = configMaps /\ ~Pending(l)
    BY <1>1, <1>3, <1>7, <2>1
       DEF EditLoadBalancer, CollectStatefulSet, workerVars, Pending, TypeInv, TypeOK
  <2> QED BY <1>2, <2>2
<1>8. ASSUME EnsureHAProxyStatefulSet PROVE i \in DOMAIN configMaps'[l].data
  <2>1. req # l /\ ~Pending(l)
    BY <1>3, <1>8 DEF EnsureHAProxyStatefulSet, Pending
  <2>2. loadBalancers' = loadBalancers /\ statefulSets'[l] = statefulSets[l] /\ configMaps' = configMaps
    BY <1>1, <1>8, <2>1 DEF EnsureHAProxyStatefulSet, TypeInv, TypeOK
  <2> QED BY <1>2, <2>1, <2>2
<1>9. ASSUME Restart PROVE i \in DOMAIN configMaps'[l].data
  BY <1>3, <1>9 DEF Restart, Live, apiVars
<1>10. \/ UNCHANGED <<loadBalancers, statefulSets, configMaps>> /\ ~Pending(l)
       \/ CreateOrUpdateConfigMap
       \/ \E k \in LBs : Reconcile(k)
       \/ \E k \in LBs : EditLoadBalancer(k) \/ CollectStatefulSet(k)
       \/ EnsureHAProxyStatefulSet
       \/ Restart
  BY <1>3 DEF Pending, Next, Users, Cluster, Worker, vars, apiVars, workerVars, EditBackend,
         CreateFrontend, RelabelFrontend, DeleteFrontend, AssignFrontend, EnqueueOwner,
         DeliverFrontend, DeliverConfigMap, StatefulSetEvent, Resync,
         EnsureHAProxyStatefulSetFails, ReconcileFrontends, ReconcileConfig, BuildConfig,
         CreateOrUpdateConfigMapFails, Requeue, Return
<1> QED BY <1>4, <1>5, <1>6, <1>7, <1>8, <1>9, <1>10

LEMMA CoverInvariant == Spec => []CoverInv
<1>1. Init => CoverInv
  <2> SUFFICES ASSUME Init PROVE CoverInv
    OBVIOUS
  <2>1. TypeInv
    BY InitType
  <2>2. Scaled
    BY DEF Init, Scaled
  <2>3. KeysCoherent
    BY <2>1 DEF Init, KeysCoherent, TypeInv, TypeOK, IsConfigMap
  <2>4. ConfigCoversReplicas
    BY SpecsAssumption DEF Init, ConfigCoversReplicas, Live, Pending
  <2> QED BY <2>1, <2>2, <2>3, <2>4 DEF CoverInv
<1>2. CoverInv /\ [Next]_vars => CoverInv'
  BY NextType, NextScaled, NextKeysCoherent, NextCovers DEF CoverInv
<1> QED BY <1>1, <1>2, PTL DEF Spec

\* A pod the StatefulSet may start has its configuration key unless a
\* reconcile is queued or under way, whatever call failed on the way.
THEOREM ReplicasAreCovered == Spec => []ConfigCoversReplicas
<1>1. CoverInv => ConfigCoversReplicas
  BY DEF CoverInv
<1> QED BY <1>1, CoverInvariant, PTL

\* A ConfigMap written without keys is never given one: a write needs a fresh
\* cached copy, and on that copy the assignment to the nil map panics.
THEOREM EmptyConfigMapsStay == Spec => EmptyConfigMapStays
<1>1. ASSUME CoverInv, [Next]_vars, NEW l \in LBs, NeverFilled(l) PROVE NeverFilled(l)'
  <2>1. CASE configMaps' = configMaps
    BY <1>1, <2>1 DEF NeverFilled
  <2>2. CASE configMaps' # configMaps
    <3>1. /\ pc = "configmap" /\ ~NilMapPanic(req) /\ req \in cmFresh
          /\ configMaps' = [configMaps EXCEPT
                ![req] = [phase |-> "present", data |-> Merge(cmCache[req].data)]]
      BY <1>1, <2>2
      DEF Next, Users, Cluster, Worker, vars, apiVars, cacheVars, EditLoadBalancer, EditBackend,
          CreateFrontend, RelabelFrontend, DeleteFrontend, AssignFrontend,
          DeliverFrontend, DeliverConfigMap, StatefulSetEvent, CollectStatefulSet, Resync,
          Reconcile, EnsureHAProxyStatefulSet, EnsureHAProxyStatefulSetFails,
          ReconcileFrontends, ReconcileConfig, BuildConfig, CreateOrUpdateConfigMap,
          CreateOrUpdateConfigMapFails, Restart
    <3>2. req \in LBs /\ DOMAIN configMaps = LBs /\ cmCache[req] = configMaps[req]
      BY <1>1, <3>1 DEF CoverInv, TypeInv, TypeOK, Running, KeysCoherent
    <3>3. CASE l # req
      BY <1>1, <3>1, <3>2, <3>3 DEF NeverFilled
    <3>4. CASE l = req
      <4>1. /\ lb.replicas \in Nat /\ ~(lb.replicas > 0)
            /\ DOMAIN cmCache[req].data = {}
        BY <1>1, <3>1, <3>2, <3>4, SpecsAssumption
        DEF NeverFilled, NilMapPanic, CoverInv, TypeInv, Running
      <4>2. DOMAIN Merge(cmCache[req].data) = {}
        BY <4>1 DEF Merge
      <4>3. configMaps'[l] = [phase |-> "present", data |-> Merge(cmCache[req].data)]
        BY <3>1, <3>2, <3>4
      <4> QED BY <4>2, <4>3 DEF NeverFilled
    <3> QED BY <3>3, <3>4
  <2> QED BY <2>1, <2>2
<1>2. CoverInv /\ [Next]_vars => [\A l \in LBs : NeverFilled(l) => NeverFilled(l)']_vars
  BY <1>1
<1> QED BY <1>2, CoverInvariant, PTL DEF Spec, EmptyConfigMapStays

-----------------------------------------------------------------------------
(* The refinement of FrontendAssignment. *)

\* A Frontend has a load balancer exactly when it has a port: the status
\* update of ReconcileFrontends sets both.
Paired == \A f \in Frontends : frontends[f].lb = NoLB <=> frontends[f].port = NoPort

LEMMA NextPaired == TypeInv /\ Paired /\ [Next]_vars => Paired'
<1> SUFFICES ASSUME TypeInv, Paired, [Next]_vars, NEW f \in Frontends
             PROVE  frontends'[f].lb = NoLB <=> frontends'[f].port = NoPort
  BY DEF Paired
<1>1. frontends'[f] = frontends[f] \/ Edited(f) \/ Created(f) \/ StatusWritten(f)
  BY FrontendStep
<1>2. CASE StatusWritten(f)
  BY <1>2, AssignedType DEF StatusWritten
<1>3. CASE frontends'[f] = frontends[f] \/ Edited(f) \/ Created(f)
  BY <1>3 DEF Paired, Edited, Created
<1> QED BY <1>1, <1>2, <1>3

AssignmentInv == FrontendInv /\ Paired

LEMMA AssignmentInvariant == Spec => []AssignmentInv
<1>1. Init => Paired
  BY DEF Init, Paired
<1>2. FrontendInv /\ Paired /\ [Next]_vars => Paired'
  BY NextPaired DEF FrontendInv
<1> QED BY <1>1, <1>2, FrontendInvariant, PTL DEF Spec, AssignmentInv

\* The mapped state.
Mapped == [f \in Frontends |-> AssignmentOf(f)]

\* A step that writes one Frontend changes no other in the mapped state.
LEMMA MappedStep ==
  ASSUME NEW g \in Frontends, NEW value, AssignmentOf(g)' = value,
         \A f \in Frontends \ {g} : frontends'[f] = frontends[f]
  PROVE  Mapped' = [Mapped EXCEPT ![g] = value]
<1>1. \A f \in Frontends \ {g} : AssignmentOf(f)' = AssignmentOf(f)
  BY DEF AssignmentOf
<1> QED BY <1>1 DEF Mapped

LEMMA CreateImplements ==
  ASSUME TypeInv, NEW g \in Frontends, CreateFrontend(g)
  PROVE  Assignment!Create(g)
<1>1. frontends \in [Frontends -> FrontendObj] /\ frontends[g].phase = "absent"
  BY DEF TypeInv, TypeOK, CreateFrontend
<1>2. /\ frontends'[g].phase = "present"
      /\ frontends'[g].lb = NoLB /\ frontends'[g].port = NoPort
      /\ \A f \in Frontends \ {g} : frontends'[f] = frontends[f]
  BY <1>1 DEF CreateFrontend, WriteFrontend
<1>3. AssignmentOf(g)' = Assignment!Unassigned
  BY <1>2 DEF AssignmentOf, Assignment!Unassigned
<1>4. Mapped' = [Mapped EXCEPT ![g] = Assignment!Unassigned]
  BY <1>2, <1>3, MappedStep
<1>5. Mapped[g] = Assignment!Absent
  BY <1>1 DEF Mapped, AssignmentOf, Assignment!Absent
<1> QED BY <1>4, <1>5 DEF Assignment!Create, Assignment!Become, Mapped

LEMMA DeleteImplements ==
  ASSUME TypeInv, NEW g \in Frontends, DeleteFrontend(g)
  PROVE  Assignment!Delete(g)
<1>1. frontends \in [Frontends -> FrontendObj] /\ frontends[g].phase = "present"
  BY DEF TypeInv, TypeOK, DeleteFrontend
<1>2. /\ frontends'[g].phase = "absent"
      /\ \A f \in Frontends \ {g} : frontends'[f] = frontends[f]
  BY <1>1 DEF DeleteFrontend, WriteFrontend, FrontendObj
<1>3. AssignmentOf(g)' = Assignment!Absent
  BY <1>2 DEF AssignmentOf, Assignment!Absent
<1>4. Mapped' = [Mapped EXCEPT ![g] = Assignment!Absent]
  BY <1>2, <1>3, MappedStep
<1>5. Mapped[g] # Assignment!Absent
  <2>1. Mapped[g].there = TRUE /\ Assignment!Absent.there = FALSE
    BY <1>1 DEF Mapped, AssignmentOf, Assignment!Absent
  <2> QED BY <2>1
<1> QED BY <1>4, <1>5 DEF Assignment!Delete, Assignment!Become, Mapped

LEMMA RelabelImplements ==
  ASSUME TypeInv, NEW g \in Frontends, RelabelFrontend(g)
  PROVE  UNCHANGED Mapped
<1>1. frontends \in [Frontends -> FrontendObj]
  BY DEF TypeInv, TypeOK
<1>2. \A f \in Frontends : /\ frontends'[f].phase = frontends[f].phase
                           /\ frontends'[f].lb = frontends[f].lb
                           /\ frontends'[f].port = frontends[f].port
  BY <1>1 DEF RelabelFrontend, WriteFrontend, FrontendObj
<1> QED BY <1>2 DEF Mapped, AssignmentOf

\* The status update is accepted only for the version the pass read, so what
\* the pass saw without load balancer and port still has neither.
LEMMA AssignImplements ==
  ASSUME AssignmentInv, NEW g \in Frontends, AssignFrontend(g)
  PROVE  Assignment!Assign(g) \/ UNCHANGED Mapped
<1> USE DEF AssignmentInv, FrontendInv
<1>1. CASE UNCHANGED frontends
  BY <1>1 DEF Mapped, AssignmentOf
<1>2. CASE frontends' # frontends
  <2>1. /\ pc = "assign" /\ g \in DOMAIN view /\ StatusUpdateAccepted(g)
        /\ Assigned(g) # view[g]
        /\ frontends' = [frontends EXCEPT ![g].lb   = Assigned(g).lb,
                                          ![g].port = Assigned(g).port,
                                          ![g].rv   = @ + 1]
    BY <1>2 DEF AssignFrontend, TypeInv, TypeOK
  <2>2. frontends \in [Frontends -> FrontendObj] /\ view[g] \in FrontendObj
    BY <2>1 DEF TypeInv, TypeOK, IsMap
  <2>3. view[g] = frontends[g] /\ frontends[g].phase = "present"
    BY <2>1 DEF VersionsCoherent, Coherent, StatusUpdateAccepted
  <2> DEFINE l == Assigned(g).lb
             p == Assigned(g).port
  <2>4. /\ l \in LBs
        /\ p \in StartingPort..(StartingPort + Cardinality(Frontends) - 1)
    BY <2>1, AssignedType, AssignedInRange DEF InRange, FrontendObj
  <2>5. frontends[g].lb = NoLB \/ frontends[g].port = NoPort
    BY <2>1, <2>2, <2>3 DEF Assigned, FrontendObj
  <2>6. Mapped[g] = Assignment!Unassigned
    BY <2>3, <2>5 DEF Mapped, AssignmentOf, Assignment!Unassigned, Paired
  <2> HIDE DEF l, p
  <2>7. /\ frontends'[g].phase = "present" /\ frontends'[g].lb = l /\ frontends'[g].port = p
        /\ \A f \in Frontends \ {g} : frontends'[f] = frontends[f]
    BY <2>1, <2>2, <2>3 DEF FrontendObj, l, p
  <2>8. Mapped' = [Mapped EXCEPT ![g] = [there |-> TRUE, lb |-> l, port |-> p]]
    BY <2>7, MappedStep DEF AssignmentOf
  <2>9. Assignment!Become(g, [there |-> TRUE, lb |-> l, port |-> p])
    BY <2>8 DEF Assignment!Become, Mapped
  <2>10. Assignment!Assign(g)
    BY <2>4, <2>6, <2>9 DEF Assignment!Assign, Mapped
  <2> QED BY <2>10
<1> QED BY <1>1, <1>2

LEMMA InitImplements == Init => Assignment!Init
<1> SUFFICES ASSUME Init PROVE Assignment!Init
  OBVIOUS
<1>1. \A f \in Frontends : AssignmentOf(f) \in {Assignment!Absent, Assignment!Unassigned}
  BY DEF Init, AssignmentOf, Assignment!Absent, Assignment!Unassigned
<1> QED BY <1>1 DEF Assignment!Init

LEMMA NextImplements ==
  AssignmentInv /\ [Next]_vars => Assignment!Next \/ UNCHANGED Mapped
<1> SUFFICES ASSUME AssignmentInv, [Next]_vars PROVE Assignment!Next \/ UNCHANGED Mapped
  OBVIOUS
<1>1. ASSUME NEW g \in Frontends, CreateFrontend(g) PROVE Assignment!Next
  BY <1>1, CreateImplements DEF Assignment!Next, AssignmentInv, FrontendInv
<1>2. ASSUME NEW g \in Frontends, DeleteFrontend(g) PROVE Assignment!Next
  BY <1>2, DeleteImplements DEF Assignment!Next, AssignmentInv, FrontendInv
<1>3. ASSUME NEW g \in Frontends, RelabelFrontend(g) PROVE UNCHANGED Mapped
  BY <1>3, RelabelImplements DEF AssignmentInv, FrontendInv
<1>4. ASSUME NEW g \in Frontends, AssignFrontend(g) PROVE Assignment!Next \/ UNCHANGED Mapped
  BY <1>4, AssignImplements DEF Assignment!Next
<1>5. CASE UNCHANGED frontends
  BY <1>5 DEF Mapped, AssignmentOf
<1> QED BY <1>1, <1>2, <1>3, <1>4, <1>5, FrontendActions

\* Whatever the caches show, whichever calls fail and whenever the operator
\* restarts, users see Frontends assigned once, load balancer and port
\* together, and kept so until they are deleted (ReconcileFrontends).
THEOREM ControllerImplementsAssignment == Spec => ImplementsAssignment
<1>1. AssignmentInv /\ [Next]_vars => [Assignment!Next]_Mapped
  BY NextImplements
<1>2. Spec => [][Assignment!Next]_Mapped
  BY <1>1, AssignmentInvariant, PTL DEF Spec
<1> QED BY <1>2, InitImplements, PTL DEF Spec, ImplementsAssignment, Assignment!Spec, Mapped

=============================================================================
