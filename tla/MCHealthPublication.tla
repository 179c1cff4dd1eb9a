------------------------ MODULE MCHealthPublication ------------------------
(***************************************************************************)
(* Instances of HealthPublication for TLC.                                 *)
(***************************************************************************)
EXTENDS HealthPublication

CONSTANTS f1, i1, i2, p1, p2

Up(ip)   == [ip |-> ip, healthy |-> TRUE]
Down(ip) == [ip |-> ip, healthy |-> FALSE]

\* Two pods; the first, now listed last, is down; the second loses its address.
TwoPods == {<<Up(i1), Up(i2)>>, <<Up(i2), Down(i1)>>, <<Up(i1), Up(NoIP)>>}

\* At most one change and, after it, a restart; or one fault.  (A failed call does
\* what a refused one does, and those are not bounded.)
FewChanges == edits' + faults' > 1 => edits' = edits /\ (faults' # faults => Restart)

\* Nothing tells one port from another: the first is p1.
FewFairSpec ==
    /\ Init /\ \A f \in There : frontends[f].port = p1
    /\ [][Next /\ FewChanges]_vars
    /\ Fairness

=============================================================================
