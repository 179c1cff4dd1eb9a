--------------------------- MODULE FrontendAssignment ---------------------------
(***************************************************************************)
(* What the GlobalLoadBalancer reconciler promises about a Frontend: while *)
(* it exists it is assigned at most once, a load balancer and a port       *)
(* together, and keeps both until it is deleted.  There are no caches, no  *)
(* versions, no queue and no worker here.                                  *)
(***************************************************************************)
CONSTANTS LBs, NoLB, NoPort, Frontends,
          PortRange    \* the ports that may be given out

VARIABLE assignment    \* Frontend -> does it exist, its load balancer and port

Absent     == [there |-> FALSE, lb |-> NoLB, port |-> NoPort]
Unassigned == [there |-> TRUE, lb |-> NoLB, port |-> NoPort]

Init == assignment \in [Frontends -> {Absent, Unassigned}]

Become(f, value) == assignment' = [assignment EXCEPT ![f] = value]

Create(f) == assignment[f] = Absent /\ Become(f, Unassigned)

Delete(f) == assignment[f] # Absent /\ Become(f, Absent)

Assign(f) ==
    /\ assignment[f] = Unassigned
    /\ \E l \in LBs, p \in PortRange : Become(f, [there |-> TRUE, lb |-> l, port |-> p])

Next == \E f \in Frontends : Create(f) \/ Delete(f) \/ Assign(f)

Spec == Init /\ [][Next]_assignment

=============================================================================
