--------------------------- MODULE ConfigBuilder ---------------------------
(***************************************************************************)
(* The HAProxy configuration: getBackends                                  *)
(* (internal/controller/globalloadbalancer_controller.go) and BuildConfig  *)
(* (internal/haproxy/configbuilder.go), and how HAProxy reads it.          *)
(*                                                                         *)
(* A listed Frontend is [namespace, name, port, items]: port is            *)
(* Spec.Service.Port, items the Backends its selector matches, in the      *)
(* order of the cache.  A Backend is [namespace, name, host, servers].     *)
(* A configuration is a sequence of sections; LoadBalancerController keeps *)
(* of it which Backends each Frontend routes to.                           *)
(***************************************************************************)
EXTENDS Naturals, Sequences, SequencesExt

FrontendSection(name, port, items) ==
    [kind |-> "frontend", name |-> name, bind |-> port,
     uses |-> [i \in DOMAIN items |-> [backend |-> items[i].name, host |-> items[i].host]]]

BackendSection(backend) ==
    [kind |-> "backend", name |-> backend.name, servers |-> backend.servers]

-----------------------------------------------------------------------------
(* Plausible slips. *)

\* The list is declared outside the loop and the Backends pile up in it.
GetBackends_Accumulates(frontends) ==
    [n \in {f.name : f \in ToSet(frontends)} |->
        FlattenSeq([i \in 1..SelectLastInSeq(frontends, LAMBDA f : f.name = n) |->
                       frontends[i].items])]

\* The sections of all Backends are written after each Frontend.
LoadBalancerConfig_AllBackends(frontends) ==
    LET all == FlattenSeq([i \in DOMAIN frontends |->
                   [j \in DOMAIN frontends[i].items |-> BackendSection(frontends[i].items[j])]])
    IN  FlattenSeq([i \in DOMAIN frontends |->
            <<FrontendSection(frontends[i].name, frontends[i].port, frontends[i].items)>>
            \o all])

-----------------------------------------------------------------------------
(* The code. *)

\* The map is keyed by the name alone: of Frontends of the same name in several
\* namespaces the last one listed counts for all.
GetBackends(frontends) ==
    [n \in {f.name : f \in ToSet(frontends)} |->
        frontends[SelectLastInSeq(frontends, LAMBDA f : f.name = n)].items]

\* The loop over the Frontends: each is followed by the sections of its Backends.
LoadBalancerConfig(frontends) ==
    FlattenSeq([i \in DOMAIN frontends |->
        LET f     == frontends[i]
            items == GetBackends(frontends)[f.name]
        IN  <<FrontendSection(f.name, f.port, items)>>
            \o [j \in DOMAIN items |-> BackendSection(items[j])]])

\* The fixed text every replica starts with.
StatsSection      == FrontendSection("stats", 8404, <<>>)
PrometheusSection == FrontendSection("prometheus", 8405, <<>>)

\* The configuration of each replica.
BuildConfig(replicas, frontends) ==
    [i \in 0..(replicas - 1) |->
        <<StatsSection, PrometheusSection>> \o LoadBalancerConfig(frontends)]

-----------------------------------------------------------------------------
(* HAProxy. *)

\* Among names it refuses two frontends or two backends of one name, and a
\* use_backend without backend.  What else stops it is left out: a server name
\* twice in a backend, a port out of range, a host or an address that is empty.
NamesAccepted(config) ==
    /\ \A i, j \in DOMAIN config :
          (i # j /\ config[i].kind = config[j].kind) => config[i].name # config[j].name
    /\ \A s \in ToSet(config) : s.kind = "frontend" =>
          \A u \in ToSet(s.uses) :
              \E t \in ToSet(config) : t.kind = "backend" /\ t.name = u.backend

NoRoute == <<>>

\* Where a connection to a port with a server name (SNI) goes: the first rule
\* of the first section on that port that matches.
Route(config, port, host) ==
    LET s == config[SelectInSeq(config, LAMBDA t : t.kind = "frontend" /\ t.bind = port)]
        r == SelectInSeq(s.uses, LAMBDA u : u.host = host)
    IN  IF r = 0 THEN NoRoute
        ELSE config[SelectInSeq(config, LAMBDA t : /\ t.kind = "backend"
                                                   /\ t.name = s.uses[r].backend)].servers

=============================================================================
