-------------------------- MODULE MCHealthPipeline --------------------------
(***************************************************************************)
(* Instances of HealthPipeline for TLC.                                    *)
(***************************************************************************)
EXTENDS HealthPipeline

CONSTANTS u1, b1, f1, n1, p1

Names == [u \in Uids |-> u]

Selects == [f \in Frontends |-> Backends]

\* At most one change and, after it, a restart; or one fault.  (A failed call does
\* what a refused one does, and those are not bounded.)
FewChanges == edits' + faults' > 1 => edits' = edits /\ (faults' # faults => Restart)

FewSpec == Init /\ [][Next /\ FewChanges]_vars /\ Fairness

=============================================================================
