------------------------- MODULE PeerServiceWatcher -------------------------
(***************************************************************************)
(* PeerServiceWatcher (internal/watchers/peerServiceWatcher.go): for every *)
(* Service with the peer label that the Service informer adds, a Peer of   *)
(* the same name is created and given the addresses of the Service.        *)
(*                                                                         *)
(* The handlers run one after the other in a goroutine of the informer.    *)
(* onUpdate and onDelete only log, so of the notifications the model keeps *)
(* the additions the label filter lets through.  An Observe may cover      *)
(* several changes of a Service: that is a list after a broken watch.      *)
(***************************************************************************)
EXTENDS Naturals, Sequences

CONSTANTS
    Names,            \* names of Services, and of their Peers
    IPs, NoIP,        \* addresses, and ""
    NoIngress,        \* status.loadBalancer has no ingress entry
    NoService,        \* the Service does not exist
    MaxEdits,         \* bound on changes of Services and Peers by others
    MaxFaults         \* bound on failed calls and operator restarts

\* Of the ingress entries the first counts; it may have a host name and no address.
Service == [labelled : BOOLEAN, clusterIP : IPs, ingress : IPs \cup {NoIP, NoIngress}]

ASSUME NamesAssumption ==
    /\ NoIP \notin IPs
    /\ NoIngress \notin IPs \cup {NoIP}
    /\ NoService \notin Service
ASSUME BoundsAssumption == MaxEdits \in Nat /\ MaxFaults \in Nat

VARIABLES
    services,    \* name -> the Service in the API server
    store,       \* name -> the Service in the informer's store
    events,      \* additions the handler has yet to be called with
    peers,       \* name -> the Peer in the API server
    peerCache,   \* name -> the Peer in the cache
    pc,          \* onAdd: which call comes next
    event,       \* onAdd: its Service
    peer,        \* onAdd: the Peer it read or created
    added,       \* history: name -> the Service as it was last added
    lapsed,      \* history: names whose last addition did not reach the Peer,
                 \* or whose Peer was deleted since
    edits, faults

apiVars     == <<services, peers>>
handlerVars == <<events, pc, event, peer>>
historyVars == <<added, lapsed>>
vars == <<apiVars, store, peerCache, handlerVars, historyVars, edits, faults>>

\* A Peer; it exists if "there".  Its resourceVersion is not reused.
Peer == [there : BOOLEAN, rv : Nat, localIP : IPs \cup {NoIP},
         remoteIP : IPs \cup {NoIP}]

NoPeer  == [there |-> FALSE, rv |-> 0, localIP |-> NoIP, remoteIP |-> NoIP]
NoEvent == [name |-> NoService, svc |-> NoService]

TypeOK ==
    /\ services \in [Names -> Service \cup {NoService}]
    /\ store \in [Names -> Service \cup {NoService}]
    /\ events \in Seq([name : Names, svc : Service])
    /\ peers \in [Names -> Peer]
    /\ peerCache \in [Names -> Peer]
    /\ pc \in {"idle", "create", "status"}
    /\ event \in [name : Names, svc : Service] \cup {NoEvent}
    /\ peer \in Peer
    /\ added \in [Names -> Service \cup {NoService}]
    /\ lapsed \in SUBSET Names
    /\ edits \in 0..MaxEdits
    /\ faults \in 0..MaxFaults

\* Start: the informer has notified the new handler of nothing yet.
Init ==
    /\ services \in [Names -> Service \cup {NoService}]
    /\ store = [n \in Names |-> NoService]
    /\ events = <<>>
    /\ peers = [n \in Names |-> NoPeer]
    /\ peerCache = peers
    /\ pc = "idle"
    /\ event = NoEvent
    /\ peer = NoPeer
    /\ added = store
    /\ lapsed = {}
    /\ edits = 0
    /\ faults = 0

-----------------------------------------------------------------------------
(* The cluster. *)

Edit == edits < MaxEdits /\ edits' = edits + 1

\* A Service is created, deleted, labelled, or gets, changes or loses its
\* ingress address; its cluster address stays.
EditService(n) ==
    /\ Edit
    /\ \E s \in Service \cup {NoService} :
          /\ s # services[n]
          /\ (s # NoService /\ services[n] # NoService) =>
                 s.clusterIP = services[n].clusterIP
          /\ services' = [services EXCEPT ![n] = s]
    /\ UNCHANGED <<peers, store, peerCache, handlerVars, historyVars, faults>>

DeletePeer(n) ==
    /\ Edit
    /\ peers[n].there
    /\ peers' = [peers EXCEPT ![n] = [NoPeer EXCEPT !.rv = peers[n].rv]]
    /\ lapsed' = lapsed \cup {n}
    /\ UNCHANGED <<services, store, peerCache, handlerVars, added, faults>>

DeliverPeer(n) ==
    /\ peerCache[n] # peers[n]
    /\ peerCache' = [peerCache EXCEPT ![n] = peers[n]]
    /\ UNCHANGED <<apiVars, store, handlerVars, historyVars, edits, faults>>

-----------------------------------------------------------------------------
(* Plausible slips. *)

\* The filter looks at the label the Service had before.
Notify_OldLabel(n, old, new) ==
    IF old # NoService /\ old.labelled THEN Append(events, [name |-> n, svc |-> new])
    ELSE events

\* The Peer is left empty when it had to be created.
Create_NoStatus ==
    /\ pc = "create"
    /\ ~peers[event.name].there
    /\ peers' = [peers EXCEPT ![event.name] =
                    [NoPeer EXCEPT !.there = TRUE, !.rv = peers[event.name].rv + 1]]
    /\ pc' = "idle" /\ event' = NoEvent /\ peer' = NoPeer
    /\ UNCHANGED <<services, store, peerCache, events, historyVars, edits, faults>>

\* Only an empty remote address is set.
WithAddresses_Once(p, svc) ==
    [p EXCEPT !.localIP = svc.clusterIP,
              !.remoteIP = IF @ = NoIP /\ svc.ingress # NoIngress
                           THEN svc.ingress ELSE @]

-----------------------------------------------------------------------------
(* The informer. *)

\* AddFunc with its filter; UpdateFunc and DeleteFunc do nothing.
Notify(n, old, new) ==
    IF old = NoService /\ new # NoService /\ new.labelled
    THEN Append(events, [name |-> n, svc |-> new])
    ELSE events

Observe(n) ==
    /\ store[n] # services[n]
    /\ store' = [store EXCEPT ![n] = services[n]]
    /\ events' = Notify(n, store[n], services[n])
    /\ IF events' = events
       THEN UNCHANGED historyVars
       ELSE added' = [added EXCEPT ![n] = services[n]] /\ lapsed' = lapsed \ {n}
    /\ UNCHANGED <<apiVars, peerCache, pc, event, peer, edits, faults>>

-----------------------------------------------------------------------------
(* onAdd. *)

Fault == faults < MaxFaults /\ faults' = faults + 1

Return == pc' = "idle" /\ event' = NoEvent /\ peer' = NoPeer

\* The addition of a Service is lost, unless another of its name follows.
Lost(n, following) ==
    lapsed' = IF \E i \in 1..Len(following) : following[i].name = n
              THEN lapsed ELSE lapsed \cup {n}

\* A call that fails is logged, and onAdd returns.
GiveUp == Return /\ Lost(event.name, events) /\ UNCHANGED peers

\* Get the Peer from the cache.
OnAdd ==
    /\ pc = "idle"
    /\ events # <<>>
    /\ events' = Tail(events)
    /\ LET n == Head(events).name
       IN  \/ /\ event' = Head(events)
              /\ peer' = peerCache[n]
              /\ pc' = IF peerCache[n].there THEN "status" ELSE "create"
              /\ UNCHANGED <<lapsed, faults>>
           \/ /\ Fault
              /\ Lost(n, Tail(events))
              /\ UNCHANGED <<pc, event, peer>>
    /\ UNCHANGED <<apiVars, store, peerCache, added, edits>>

\* Create a Peer the cache does not show; AlreadyExists is an error like others.
Create ==
    /\ pc = "create"
    /\ LET old == peers[event.name]
       IN  \/ /\ ~old.there
              /\ peer' = [NoPeer EXCEPT !.there = TRUE, !.rv = old.rv + 1]
              /\ peers' = [peers EXCEPT ![event.name] = peer']
              /\ pc' = "status"
              /\ UNCHANGED <<event, lapsed, faults>>
           \/ /\ IF old.there THEN faults' = faults ELSE Fault
              /\ GiveUp
    /\ UNCHANGED <<services, store, peerCache, events, added, edits>>

\* The status onAdd writes: a Service without ingress leaves the remote address
\* as it was, one whose ingress is a host name empties it.
WithAddresses(p, svc) ==
    [p EXCEPT !.localIP = svc.clusterIP,
              !.remoteIP = IF svc.ingress = NoIngress THEN @ ELSE svc.ingress]

\* The update conflicts if the Peer is no longer the one that was read.
UpdateStatus ==
    /\ pc = "status"
    /\ LET n   == event.name
           new == WithAddresses(peer, event.svc)
       IN  \/ /\ peers[n] = peer
              /\ peers' = [peers EXCEPT ![n] =
                              IF new = peer THEN peer ELSE [new EXCEPT !.rv = @ + 1]]
              /\ Return
              /\ UNCHANGED <<lapsed, faults>>
           \/ /\ IF peers[n] = peer THEN Fault ELSE faults' = faults
              /\ GiveUp
    /\ UNCHANGED <<services, store, peerCache, events, added, edits>>

\* The operator stops and starts again: every Service is added anew.
Restart ==
    /\ Fault
    /\ store' = [n \in Names |-> NoService]
    /\ events' = <<>>
    /\ peerCache' = peers
    /\ Return
    /\ added' = store'
    /\ UNCHANGED <<apiVars, lapsed, edits>>

-----------------------------------------------------------------------------
Handler == OnAdd \/ Create \/ UpdateStatus

Next ==
    \/ \E n \in Names : \/ EditService(n) \/ DeletePeer(n)
                        \/ Observe(n) \/ DeliverPeer(n)
    \/ Handler
    \/ Restart

Spec == Init /\ [][Next]_vars

\* The watch delivers and the goroutine of the handler runs.
Fairness == WF_vars(Handler) /\ \A n \in Names : WF_vars(Observe(n))

FairSpec == Spec /\ Fairness

-----------------------------------------------------------------------------
(* Properties. *)

\* The Peer has the addresses of the Service: the remote one is that of its
\* first ingress, if there is one.
Copied(n) ==
    /\ peers[n].there
    /\ peers[n].localIP = services[n].clusterIP
    /\ services[n].ingress # NoIngress => peers[n].remoteIP = services[n].ingress

Labelled(n) == services[n] # NoService /\ services[n].labelled

Pending(n) ==
    \/ store[n] # services[n]
    \/ event.name = n
    \/ \E i \in 1..Len(events) : events[i].name = n

\* Nothing went wrong with the last addition of the Service that there is.
AddedAsIs(n) == added[n] = services[n] /\ n \notin lapsed

\* The Peer of a labelled Service shows its addresses, or its addition is on
\* its way, or one of three things happened: the Service was changed, replaced
\* or labelled by an update, which onUpdate only logs; a call of onAdd was
\* refused or failed; someone deleted the Peer.  Neither a stale Peer in the
\* cache nor a Service deleted and created again goes wrong in another way.
PeerFollowsService ==
    \A n \in Names : Labelled(n) /\ AddedAsIs(n) => Copied(n) \/ Pending(n)

\* Whatever was dropped before, a Service that is not changed any more and
\* whose last addition succeeded (the one after a restart, say) ends up with a
\* Peer that shows its addresses.
EventuallyCopied ==
    \A n \in Names : <>[](Labelled(n) /\ AddedAsIs(n) => Copied(n))

=============================================================================
