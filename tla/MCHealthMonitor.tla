-------------------------- MODULE MCHealthMonitor --------------------------
(***************************************************************************)
(* Instances of HealthMonitor for TLC: the pods are successive ones of one *)
(* name.                                                                   *)
(***************************************************************************)
EXTENDS HealthMonitor

CONSTANTS u1, u2, b1, b2, f1, f2, n1, n2

Names == [u \in Uids |-> n1]

\* f1 selects every Backend, the selector of f2 is invalid.
Selects == [f \in Frontends |-> IF f = f2 THEN InvalidSelector ELSE Backends]

=============================================================================
