-------------------------- MODULE MCConfigBuilder --------------------------
(***************************************************************************)
(* Enumerates the inputs of BuildConfig: every list of at most MaxLen      *)
(* Frontends, each with its namespace and name, a port and a selection.    *)
(***************************************************************************)
EXTENDS ConfigBuilder

CONSTANTS MaxLen,    \* longest list of Frontends
          Replicas,  \* Spec.Replicas
          Hosts      \* the server names connections ask for

VARIABLE frontends

Backend(namespace, name, host, servers) ==
    [namespace |-> namespace, name |-> name, host |-> host, servers |-> servers]

\* b exists in both namespaces; c serves the host of the first b.
B1 == Backend("n1", "b", "h1", <<"s1">>)
B2 == Backend("n2", "b", "h2", <<"s2">>)
C  == Backend("n1", "c", "h1", <<"s3">>)
D  == Backend("n1", "d", "h3", <<"s4">>)

Selections == {<<>>, <<B1>>, <<D>>, <<B1, D>>, <<B1, B2>>, <<C, B1>>}

\* Ports and a name of the fixed sections may be chosen by users, too.
Frontend == [namespace : {"n1", "n2"}, name : {"f", "g", "stats"},
             port : {443, 444, 8404}, items : Selections]

Init == frontends = <<>>

\* A namespace has one Frontend of a name.
Next ==
    /\ Len(frontends) < MaxLen
    /\ \E f \in Frontend :
          /\ \A g \in ToSet(frontends) : <<f.namespace, f.name>> # <<g.namespace, g.name>>
          /\ frontends' = Append(frontends, f)

Spec == Init /\ [][Next]_frontends

-----------------------------------------------------------------------------
Listed == DOMAIN frontends

Items(i) == ToSet(frontends[i].items)

Configs == {BuildConfig(Replicas, frontends)[i] : i \in 0..(Replicas - 1)}

\* No section of what BuildConfig writes is refused for its name exactly if
\* Frontends have names of their own, none of them that of a fixed section, and
\* Backends have names of their own and are selected by one Frontend each: a
\* Backend that two Frontends share is written twice, and then no Frontend works.
NamesAcceptedIfDisjoint ==
    \A config \in Configs :
        NamesAccepted(config) <=>
            /\ \A i, j \in Listed : i # j => frontends[i].name # frontends[j].name
            /\ \A i \in Listed : frontends[i].name \notin {"stats", "prometheus"}
            /\ \A i, j \in Listed : \A b \in Items(i), c \in Items(j) :
                  b.name = c.name => i = j /\ b = c

\* Whatever the other Frontends are, a connection to a Frontend whose name and
\* port no other has goes to the servers of the Backend it selects for that
\* server name, if no other Backend has its name or, in this Frontend, its host;
\* and a server name it selects no Backend for goes nowhere.  In particular
\* getBackends mixes up Frontends of the same name only.
RoutesFollowSelection ==
    \A config \in Configs, i \in Listed :
        LET f == frontends[i]
        IN  (/\ f.port \notin {8404, 8405}
             /\ \A j \in Listed \ {i} :
                   frontends[j].name # f.name /\ frontends[j].port # f.port)
            => \A host \in Hosts :
                  LET serving == {b \in Items(i) : b.host = host}
                  IN  /\ serving = {} => Route(config, f.port, host) = NoRoute
                      /\ \A b \in serving :
                            (/\ serving = {b}
                             /\ \A j \in Listed : \A c \in Items(j) :
                                   c.name = b.name => c = b)
                            => Route(config, f.port, host) = b.servers

=============================================================================
