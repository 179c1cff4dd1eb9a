---------------------- MODULE PeerServiceWatcher_proofs ----------------------
(***************************************************************************)
(* Invariance proofs for PeerServiceWatcher, for every set of Services and *)
(* addresses and every number of changes and faults.                       *)
(***************************************************************************)
EXTENDS PeerServiceWatcher, TLAPS

-----------------------------------------------------------------------------
(* The inductive invariant. *)

Event == [name : Names, svc : Service]

\* While onAdd runs it has a Service, and it updates a Peer that it has seen.
Handling ==
    /\ pc # "idle" => event \in Event
    /\ pc = "status" => peer.there

TypeInv == TypeOK /\ Handling

Queued(n) == \E i \in 1..Len(events) : events[i].name = n

Handled(n) == pc # "idle" /\ event.name = n

\* The last of the additions of a name that are queued or handled is that of
\* the Service as it was last added.
LastQueued(n) ==
    \A i \in 1..Len(events) :
        (events[i].name = n /\ \A j \in (i + 1)..Len(events) : events[j].name # n)
            => events[i].svc = added[n]

LastHandled(n) == Handled(n) /\ ~Queued(n) => event.svc = added[n]

LastAddition == \A n \in Names : LastQueued(n) /\ LastHandled(n)

\* The addresses onAdd copies.
Shows(p, svc) ==
    /\ p.there
    /\ p.localIP = svc.clusterIP
    /\ svc.ingress # NoIngress => p.remoteIP = svc.ingress

\* An addition that is over and did not lapse is in the Peer, whatever became of
\* the Service meanwhile.
AdditionsArrive ==
    \A n \in Names :
        (added[n] # NoService /\ n \notin lapsed)
            => Queued(n) \/ Handled(n) \/ Shows(peers[n], added[n])

IInv == TypeInv /\ LastAddition /\ AdditionsArrive

-----------------------------------------------------------------------------
(* Type correctness. *)

LEMMA NoPeerType == NoPeer \in Peer
BY DEF NoPeer, Peer

\* A Peer onAdd creates.
LEMMA CreatedType ==
  ASSUME NEW k \in Nat
  PROVE  /\ [NoPeer EXCEPT !.there = TRUE, !.rv = k] \in Peer
         /\ [NoPeer EXCEPT !.there = TRUE, !.rv = k].there
BY DEF NoPeer, Peer

\* The new version of an updated Peer.
LEMMA VersionType ==
  ASSUME NEW p \in Peer, NEW svc
  PROVE  /\ [p EXCEPT !.rv = @ + 1] \in Peer
         /\ Shows(p, svc) => Shows([p EXCEPT !.rv = @ + 1], svc)
BY DEF Peer, Shows

\* The status onAdd writes has the addresses of the Service.
LEMMA WithAddressesShows ==
  ASSUME NEW p \in Peer, NEW svc \in Service
  PROVE  /\ WithAddresses(p, svc) \in Peer
         /\ p.there => Shows(WithAddresses(p, svc), svc)
         /\ WithAddresses(p, svc).rv = p.rv
BY DEF WithAddresses, Peer, Service, Shows

LEMMA InitType == Init => TypeInv
<1> SUFFICES ASSUME Init PROVE TypeInv
  OBVIOUS
<1>1. events \in Seq([name : Names, svc : Service])
  BY DEF Init
<1> QED BY <1>1, NoPeerType, BoundsAssumption DEF Init, TypeInv, TypeOK, Handling

\* The additions the filter lets through.
LEMMA NotifyType ==
  ASSUME TypeOK, NEW n \in Names, NEW old, NEW new \in Service \cup {NoService}
  PROVE  /\ Notify(n, old, new) \in Seq(Event)
         /\ \/ Notify(n, old, new) = events
            \/ new # NoService /\ Notify(n, old, new) = Append(events, [name |-> n, svc |-> new])
<1>1. events \in Seq(Event)
  BY DEF TypeOK, Event
<1>2. new # NoService => [name |-> n, svc |-> new] \in Event
  BY DEF Event
<1> QED BY <1>1, <1>2 DEF Notify

\* onAdd takes the first addition off the queue.
LEMMA EventsType ==
  ASSUME TypeOK, events # <<>>
  PROVE  /\ Head(events) \in Event /\ Tail(events) \in Seq(Event)
         /\ Head(events) = events[1]
         /\ Len(events) \in Nat /\ Len(events) >= 1 /\ Len(Tail(events)) = Len(events) - 1
         /\ \A i \in 1..(Len(events) - 1) : Tail(events)[i] = events[i + 1]
<1>1. events \in Seq(Event)
  BY DEF TypeOK, Event
<1> QED BY <1>1

LEMMA NextType == TypeInv /\ [Next]_vars => TypeInv'
<1> SUFFICES ASSUME TypeInv, [Next]_vars PROVE TypeInv'
  OBVIOUS
<1> USE BoundsAssumption DEF TypeInv, TypeOK, Handling, apiVars, handlerVars, historyVars
<1>1. ASSUME NEW n \in Names, EditService(n) PROVE TypeInv'
  BY <1>1 DEF EditService, Edit
<1>2. ASSUME NEW n \in Names, DeletePeer(n) PROVE TypeInv'
  <2>1. [NoPeer EXCEPT !.rv = peers[n].rv] \in Peer
    BY DEF NoPeer, Peer
  <2> QED BY <1>2, <2>1 DEF DeletePeer, Edit
<1>3. ASSUME NEW n \in Names, DeliverPeer(n) PROVE TypeInv'
  BY <1>3 DEF DeliverPeer
<1>4. ASSUME NEW n \in Names, Observe(n) PROVE TypeInv'
  <2>1. services[n] \in Service \cup {NoService}
    OBVIOUS
  <2>2. events' \in Seq([name : Names, svc : Service])
    BY <1>4, <2>1, NotifyType DEF Observe, Event
  <2> QED BY <1>4, <2>1, <2>2 DEF Observe
<1>5. ASSUME OnAdd PROVE TypeInv'
  <2>1. Head(events) \in Event /\ Tail(events) \in Seq(Event)
    BY <1>5, EventsType DEF OnAdd
  <2>2. Head(events).name \in Names
    BY <2>1 DEF Event
  <2> QED BY <1>5, <2>1, <2>2 DEF OnAdd, Lost, Fault, Event
<1>6. ASSUME Create PROVE TypeInv'
  <2>1. event \in Event /\ event.name \in Names
    BY <1>6 DEF Create, Event
  <2>2. peers[event.name].rv + 1 \in Nat
    BY <2>1 DEF Peer
  <2> DEFINE created == [NoPeer EXCEPT !.there = TRUE, !.rv = peers[event.name].rv + 1]
  <2>3. created \in Peer /\ created.there
    BY <2>2, CreatedType
  <2>4. \/ /\ peer' = created /\ peers' = [peers EXCEPT ![event.name] = created]
           /\ pc' = "status" /\ UNCHANGED <<event, lapsed, faults>>
        \/ /\ faults' = faults \/ Fault
           /\ GiveUp
    BY <1>6 DEF Create
  <2> HIDE DEF created
  <2> QED BY <1>6, <2>1, <2>3, <2>4, NoPeerType DEF Create, GiveUp, Return, Lost, Fault
<1>7. ASSUME UpdateStatus PROVE TypeInv'
  <2>1. event \in Event /\ event.name \in Names /\ event.svc \in Service
    BY <1>7 DEF UpdateStatus, Event
  <2> DEFINE new == WithAddresses(peer, event.svc)
             updated == IF new = peer THEN peer ELSE [new EXCEPT !.rv = @ + 1]
  <2>2. new \in Peer
    BY <2>1, WithAddressesShows
  <2>3. updated \in Peer
    BY <2>2, VersionType
  <2>4. peers' = [peers EXCEPT ![event.name] = updated] \/ peers' = peers
    BY <1>7 DEF UpdateStatus, GiveUp
  <2> HIDE DEF updated
  <2>5. peers' \in [Names -> Peer]
    BY <2>1, <2>3, <2>4
  <2> QED BY <1>7, <2>1, <2>5, NoPeerType DEF UpdateStatus, GiveUp, Return, Lost, Fault
<1>8. ASSUME Restart PROVE TypeInv'
  <2>1. <<>> \in Seq([name : Names, svc : Service])
    OBVIOUS
  <2> QED BY <1>8, <2>1, NoPeerType DEF Restart, Return, Fault
<1>9. CASE UNCHANGED vars
  BY <1>9 DEF vars
<1> QED BY <1>1, <1>2, <1>3, <1>4, <1>5, <1>6, <1>7, <1>8, <1>9 DEF Next, Handler

\* The handler works on Services and writes Peers, whatever the order of the
\* changes, deliveries, failed calls and restarts.
THEOREM TypeCorrect == Spec => []TypeOK
<1>1. TypeInv => TypeOK
  BY DEF TypeInv
<1> QED BY <1>1, InitType, NextType, PTL DEF Spec

-----------------------------------------------------------------------------
(* Preservation of the inductive invariant. *)

\* What an addition does to the queue.
LEMMA ObserveStep ==
  ASSUME IInv, NEW n \in Names, Observe(n)
  PROVE  /\ UNCHANGED <<peers, pc, event, peer>>
         /\ \/ UNCHANGED <<events, added, lapsed>>
            \/ /\ events' = Append(events, [name |-> n, svc |-> services[n]])
               /\ added' = [added EXCEPT ![n] = services[n]]
               /\ lapsed' = lapsed \ {n}
<1>1. TypeOK /\ services[n] \in Service \cup {NoService}
  BY DEF IInv, TypeInv, TypeOK
<1>2. events' = events \/ events' = Append(events, [name |-> n, svc |-> services[n]])
  BY <1>1, NotifyType DEF Observe
<1> QED BY <1>2 DEF Observe, apiVars, historyVars

\* onAdd takes the first addition; the ones that follow stay.
LEMMA OnAddStep ==
  ASSUME IInv, OnAdd
  PROVE  /\ UNCHANGED <<peers, added>>
         /\ Head(events) \in Event /\ pc = "idle" /\ events' = Tail(events)
         /\ \A n \in Names : Queued(n) => Queued(n)' \/ Head(events).name = n
         /\ \A n \in Names : LastQueued(n) => LastQueued(n)'
         /\ \A n \in Names : (LastQueued(n) /\ Head(events).name = n /\ ~Queued(n)')
                                 => Head(events).svc = added[n]
         /\ \/ event' = Head(events) /\ pc' # "idle" /\ UNCHANGED lapsed
            \/ pc' = "idle" /\ Lost(Head(events).name, Tail(events))
<1>1. TypeOK /\ events # <<>> /\ events' = Tail(events)
  BY DEF IInv, TypeInv, OnAdd
<1>2. ASSUME NEW n \in Names, Queued(n) PROVE Queued(n)' \/ Head(events).name = n
  <2>1. PICK i \in 1..Len(events) : events[i].name = n
    BY <1>2 DEF Queued
  <2>2. CASE i = 1
    BY <1>1, <2>1, <2>2, EventsType
  <2>3. CASE i # 1
    <3>1. i - 1 \in 1..Len(events') /\ events'[i - 1] = events[i]
      BY <1>1, <2>3, EventsType
    <3> QED BY <2>1, <3>1 DEF Queued
  <2> QED BY <2>2, <2>3
<1>3. ASSUME NEW n \in Names, LastQueued(n) PROVE LastQueued(n)'
  <2> SUFFICES ASSUME NEW i \in 1..Len(events'), events'[i].name = n,
                      \A j \in (i + 1)..Len(events') : events'[j].name # n
               PROVE  events'[i].svc = added[n]
    BY DEF LastQueued, OnAdd
  <2>1. i + 1 \in 1..Len(events) /\ events[i + 1] = events'[i]
    BY <1>1, EventsType
  <2>2. ASSUME NEW j \in (i + 2)..Len(events) PROVE events[j].name # n
    <3>1. j - 1 \in (i + 1)..Len(events') /\ events'[j - 1] = events[j]
      BY <1>1, EventsType
    <3> QED BY <3>1
  <2>3. \A j \in ((i + 1) + 1)..Len(events) : events[j].name # n
    BY <1>1, <2>2, EventsType
  <2> QED BY <1>3, <2>1, <2>3 DEF LastQueued
<1>4. ASSUME NEW n \in Names, LastQueued(n), Head(events).name = n, ~Queued(n)'
      PROVE  Head(events).svc = added[n]
  <2>1. 1 \in 1..Len(events) /\ Head(events) = events[1]
    BY <1>1, EventsType
  <2>2. ASSUME NEW j \in 2..Len(events) PROVE events[j].name # n
    <3>1. j - 1 \in 1..Len(events') /\ events'[j - 1] = events[j]
      BY <1>1, EventsType
    <3> QED BY <1>4, <3>1 DEF Queued
  <2>3. \A j \in (1 + 1)..Len(events) : events[j].name # n
    BY <2>2
  <2> QED BY <1>4, <2>1, <2>3 DEF LastQueued
<1>5. /\ UNCHANGED <<peers, added>> /\ Head(events) \in Event /\ pc = "idle"
      /\ \/ event' = Head(events) /\ pc' # "idle" /\ UNCHANGED lapsed
         \/ pc' = "idle" /\ Lost(Head(events).name, Tail(events))
  BY <1>1, EventsType DEF OnAdd, apiVars
<1> QED BY <1>1, <1>2, <1>3, <1>4, <1>5

LEMMA NextLastAddition == IInv /\ [Next]_vars => LastAddition'
<1> SUFFICES ASSUME IInv, [Next]_vars, NEW m \in Names
             PROVE  LastQueued(m)' /\ LastHandled(m)'
  BY DEF LastAddition
<1>1. LastQueued(m) /\ LastHandled(m)
  BY DEF IInv, LastAddition
<1> USE DEF LastHandled
<1>2. ASSUME NEW n \in Names, Observe(n),
             events' = Append(events, [name |-> n, svc |-> services[n]]),
             added' = [added EXCEPT ![n] = services[n]]
      PROVE  LastQueued(m)' /\ LastHandled(m)'
  <2>1. /\ events \in Seq(Event) /\ added \in [Names -> Service \cup {NoService}]
        /\ Len(events) \in Nat
    BY DEF IInv, TypeInv, TypeOK, Event
  <2>2. /\ Len(events') = Len(events) + 1
        /\ events'[Len(events) + 1] = [name |-> n, svc |-> services[n]]
        /\ \A i \in 1..Len(events) : events'[i] = events[i]
    BY <1>2, <2>1
  <2>3. CASE m = n
    <3>1. Queued(n)'
      BY <2>1, <2>2 DEF Queued
    <3>2. ASSUME NEW i \in 1..Len(events'), events'[i].name = n,
                 \A j \in (i + 1)..Len(events') : events'[j].name # n
          PROVE  events'[i].svc = added'[n]
      <4>1. i = Len(events) + 1
        BY <2>1, <2>2, <3>2
      <4> QED BY <1>2, <2>1, <2>2, <4>1
    <3> QED BY <2>3, <3>1, <3>2 DEF LastQueued
  <2>4. CASE m # n
    <3>1. Queued(m) => Queued(m)'
      BY <2>1, <2>2 DEF Queued
    <3>2. added'[m] = added[m] /\ (Handled(m)' <=> Handled(m)) /\ event' = event
      BY <1>2, <2>1, <2>4 DEF Observe, Handled
    <3>3. ASSUME NEW i \in 1..Len(events'), events'[i].name = m,
                 \A j \in (i + 1)..Len(events') : events'[j].name # m
          PROVE  events'[i].svc = added'[m]
      <4>1. i \in 1..Len(events) /\ events'[i] = events[i]
        BY <2>1, <2>2, <2>4, <3>3
      <4>2. \A j \in (i + 1)..Len(events) : events[j].name # m
        BY <2>1, <2>2, <3>3, <4>1
      <4> QED BY <1>1, <3>2, <3>3, <4>1, <4>2 DEF LastQueued
    <3> QED BY <1>1, <3>1, <3>2, <3>3 DEF LastQueued
  <2> QED BY <2>3, <2>4
<1>3. ASSUME OnAdd
      PROVE  LastQueued(m)' /\ LastHandled(m)'
  BY <1>1, <1>3, OnAddStep DEF Handled
<1>4. ASSUME Restart
      PROVE  LastQueued(m)' /\ LastHandled(m)'
  BY <1>4 DEF Restart, Return, LastQueued, Handled
<1>5. CASE UNCHANGED <<events, added>> /\ (pc' = "idle" \/ (pc # "idle" /\ UNCHANGED event))
  BY <1>1, <1>5 DEF LastQueued, Handled, Queued
<1>6. CASE UNCHANGED <<events, added, pc, event>>
  BY <1>1, <1>6 DEF LastQueued, Handled, Queued
<1>7. ASSUME NEW n \in Names, Observe(n)
      PROVE  LastQueued(m)' /\ LastHandled(m)'
  BY <1>2, <1>6, <1>7, ObserveStep
<1> QED BY <1>3, <1>4, <1>5, <1>6, <1>7
        DEF Next, Handler, EditService, DeletePeer, DeliverPeer, Create, UpdateStatus, GiveUp,
            Return, vars, handlerVars, historyVars

\* onAdd ends with the status written, or the name lapses unless another
\* addition of it follows; the status is that of the last addition.
LEMMA NextAdditionsArrive == IInv /\ [Next]_vars => AdditionsArrive'
<1> DEFINE Arrives(m) == (added[m] # NoService /\ m \notin lapsed)
                            => Queued(m) \/ Handled(m) \/ Shows(peers[m], added[m])
<1> SUFFICES ASSUME IInv, [Next]_vars, NEW m \in Names PROVE Arrives(m)'
  BY DEF AdditionsArrive
<1>1. Arrives(m) /\ LastHandled(m) /\ LastQueued(m)
  BY DEF IInv, AdditionsArrive, LastAddition
<1>2. peers \in [Names -> Peer] /\ (pc # "idle" => event \in Event)
  BY DEF IInv, TypeInv, TypeOK, Handling
<1>3. ASSUME NEW n \in Names, EditService(n) \/ DeliverPeer(n) PROVE Arrives(m)'
  BY <1>1, <1>3 DEF EditService, DeliverPeer, apiVars, handlerVars, historyVars, Queued, Handled
<1>4. ASSUME NEW n \in Names, DeletePeer(n) PROVE Arrives(m)'
  BY <1>1, <1>2, <1>4 DEF DeletePeer, handlerVars, Queued, Handled
<1>5. ASSUME NEW n \in Names, Observe(n) PROVE Arrives(m)'
  <2>1. CASE UNCHANGED <<events, added, lapsed>>
    BY <1>1, <1>5, <2>1, ObserveStep DEF Queued, Handled
  <2>2. CASE /\ events' = Append(events, [name |-> n, svc |-> services[n]])
             /\ added' = [added EXCEPT ![n] = services[n]]
             /\ lapsed' = lapsed \ {n}
    <3>1. /\ events \in Seq(Event) /\ added \in [Names -> Service \cup {NoService}]
          /\ Len(events) \in Nat
      BY DEF IInv, TypeInv, TypeOK, Event
    <3>2. /\ Len(events') = Len(events) + 1
          /\ events'[Len(events) + 1].name = n
          /\ \A i \in 1..Len(events) : events'[i] = events[i]
      BY <2>2, <3>1
    <3>3. Queued(n)' /\ (Queued(m) => Queued(m)')
      BY <3>1, <3>2 DEF Queued
    <3> QED BY <1>1, <1>5, <2>2, <3>1, <3>3, ObserveStep DEF Handled
  <2> QED BY <1>5, <2>1, <2>2, ObserveStep
<1>6. ASSUME OnAdd PROVE Arrives(m)'
  <2>1. CASE event' = Head(events) /\ pc' # "idle" /\ UNCHANGED lapsed
    BY <1>1, <1>6, <2>1, OnAddStep DEF Handled
  <2>2. CASE pc' = "idle" /\ Lost(Head(events).name, Tail(events))
    <3>1. PICK h \in Names : h = Head(events).name
      BY <1>6, OnAddStep DEF Event
    <3>2. Queued(m) => Queued(m)' \/ m = h
      BY <1>6, <3>1, OnAddStep
    <3>3. lapsed' = IF Queued(h)' THEN lapsed ELSE lapsed \cup {h}
      BY <1>6, <2>2, <3>1, OnAddStep DEF Lost, Queued
    <3>4. ~Handled(m) /\ UNCHANGED <<peers, added>>
      BY <1>6, OnAddStep DEF Handled
    <3> QED BY <1>1, <3>2, <3>3, <3>4
  <2> QED BY <1>6, <2>1, <2>2, OnAddStep
<1>7. ASSUME pc # "idle", GiveUp, UNCHANGED <<events, added>> PROVE Arrives(m)'
  <2>1. lapsed' = IF Queued(event.name) THEN lapsed ELSE lapsed \cup {event.name}
    BY <1>7 DEF GiveUp, Lost, Queued
  <2> QED BY <1>1, <1>7, <2>1 DEF GiveUp, Queued, Handled
<1>8. ASSUME Create, ~GiveUp PROVE Arrives(m)'
  BY <1>1, <1>2, <1>8 DEF Create, Queued, Handled, Event
<1>9. ASSUME UpdateStatus, ~GiveUp PROVE Arrives(m)'
  <2>1. pc = "status" /\ event \in Event /\ event.name \in Names /\ event.svc \in Service
    BY <1>2, <1>9 DEF UpdateStatus, Event
  <2>2. peer \in Peer /\ peer.there
    BY <2>1 DEF IInv, TypeInv, TypeOK, Handling
  <2> DEFINE new == WithAddresses(peer, event.svc)
             updated == IF new = peer THEN peer ELSE [new EXCEPT !.rv = @ + 1]
  <2>3. new \in Peer /\ Shows(new, event.svc)
    BY <2>1, <2>2, WithAddressesShows
  <2>4. Shows(updated, event.svc)
    BY <2>3, VersionType
  <2>5. peers' = [peers EXCEPT ![event.name] = updated] /\ UNCHANGED <<events, added, lapsed>>
    BY <1>9 DEF UpdateStatus
  <2> HIDE DEF updated
  <2>6. CASE m # event.name
    BY <1>1, <1>2, <2>1, <2>5, <2>6 DEF Queued, Handled
  <2>7. CASE m = event.name
    BY <1>1, <1>2, <2>1, <2>4, <2>5, <2>7 DEF Queued, Handled, LastHandled
  <2> QED BY <2>6, <2>7
<1>10. ASSUME Restart PROVE Arrives(m)'
  BY <1>10 DEF Restart
<1>11. CASE UNCHANGED vars
  BY <1>1, <1>11 DEF vars, apiVars, handlerVars, historyVars, Queued, Handled
<1> HIDE DEF Arrives
<1> QED BY <1>3, <1>4, <1>5, <1>6, <1>7, <1>8, <1>9, <1>10, <1>11
        DEF Next, Handler, Create, UpdateStatus

LEMMA InitIInv == Init => IInv
<1> SUFFICES ASSUME Init PROVE IInv
  OBVIOUS
<1>1. TypeInv
  BY InitType
<1> QED BY <1>1 DEF Init, IInv, LastAddition, LastQueued, LastHandled, Handled, AdditionsArrive

\* For every set of Services: the Peer of a labelled Service shows its addresses
\* or its addition is on its way, unless the Service changed after it was added,
\* a call of onAdd failed, or the Peer was deleted (onAdd, onUpdate; several
\* additions of one name may be queued while an older one is handled).
THEOREM PeersFollow == Spec => []PeerFollowsService
<1>1. IInv /\ [Next]_vars => IInv'
  BY NextType, NextLastAddition, NextAdditionsArrive DEF IInv
<1>2. IInv => PeerFollowsService
  <2> SUFFICES ASSUME IInv, NEW n \in Names, Labelled(n), AddedAsIs(n), ~Pending(n)
               PROVE  Copied(n)
    BY DEF PeerFollowsService
  <2>1. added[n] = services[n] /\ added[n] # NoService /\ n \notin lapsed
    BY DEF Labelled, AddedAsIs
  <2>2. ~Queued(n) /\ ~Handled(n)
    BY DEF Pending, Queued, Handled
  <2> QED BY <2>1, <2>2 DEF IInv, AdditionsArrive, Shows, Copied
<1> QED BY <1>1, <1>2, InitIInv, PTL DEF Spec

=============================================================================
