---------------------- MODULE MCLoadBalancerController ----------------------
(***************************************************************************)
(* Instances of LoadBalancerController for TLC.                            *)
(***************************************************************************)
EXTENDS LoadBalancerController, TLC

CONSTANTS l1, l2, f1, f2, b1, b2, a, b

LB(selector, replicas) == [selector |-> selector, replicas |-> replicas]

\* Load balancers that compete for the Frontends labelled a.
ClaimSpecs     == {LB(a, 0)}
AllBackends    == [f \in Frontends |-> Backends]

\* One load balancer that is scaled through zero and whose selectors, or those
\* of the Frontend f2, may be invalid.
ConfigSpecs    == {LB(a, 0), LB(a, 2), LB(InvalidSelector, 1)}
ConfigBackends == [f \in Frontends |-> IF f = f2 THEN InvalidSelector ELSE Backends]

NullSpecs      == {LB(NullSelector, 1)}
LabelSpecs     == {LB(a, 1)}

\* f1 and b1 carry a controller owner reference, f2 does not.
Owners   == [x \in Frontends \cup Backends |-> IF x = f2 THEN NoLB ELSE l1]
NoOwners == [x \in Frontends \cup Backends |-> NoLB]

\* Without owner references the load balancers, and the Frontends, are alike.
Alike == Permutations(LBs) \cup Permutations(Frontends)

=============================================================================
