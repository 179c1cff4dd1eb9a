--------------------------- MODULE FrontendPorts ---------------------------
(***************************************************************************)
(* Allocation of the internal port of a Frontend: GetNextPort of           *)
(* internal/controller/globalloadbalancer_controller.go.                   *)
(*                                                                         *)
(* GetNextPort is the code: sort the slice of ports, then the loop.        *)
(* NextPort says the same of the set of those ports; it is the form the    *)
(* controller module uses.  Run "ports" compares the two, and              *)
(* GetNextPort_proofs proves them equal for every slice.                   *)
(***************************************************************************)
EXTENDS Integers, Sequences, FiniteSets, FiniteSetsExt

\* FrontendStatus.Port is a *int32; NoPort is the nil pointer.
NoPort == -1

Ports == Nat \cup {NoPort}

-----------------------------------------------------------------------------
\* slices.Sort: the port at a place is one that fewer ports are below than the
\* place counts, and that as many at least do not exceed.
Sort(s) ==
    LET below(v) == {j \in 1..Len(s) : s[j] < v}
        upTo(v)  == {j \in 1..Len(s) : s[j] <= v}
    IN  [i \in 1..Len(s) |->
            CHOOSE v \in {s[j] : j \in 1..Len(s)} :
                Cardinality(below(v)) < i /\ i <= Cardinality(upTo(v))]

\* The loop of the code over the sorted slice: the first gap after a port, then
\* one past the last port.  Ports are far below the int32 limit (at most
\* StartingPort plus the number of Frontends), so the sum does not wrap.
FirstGap(sorted, minPort) ==
    LET gaps == {i \in 1..(Len(sorted) - 1) : sorted[i + 1] - sorted[i] > 1}
    IN  IF sorted = <<>> \/ sorted[1] > minPort THEN minPort
        ELSE IF gaps # {} THEN sorted[Min(gaps)] + 1
        ELSE sorted[Len(sorted)] + 1

-----------------------------------------------------------------------------
\* Plausible slips in GetNextPort and in the set form of it.
GetNextPort_Unsorted(ports, minPort) == FirstGap(ports, minPort)

NextPort_SkipsOne(ports, minPort) ==
    IF ports = {} \/ Min(ports) > minPort THEN minPort
    ELSE Min({p \in ports : p + 1 \notin ports}) + 2

NextPort_InclusiveGap(ports, minPort) ==
    IF ports = {} \/ Min(ports) >= minPort THEN minPort
    ELSE Min({p \in ports : p + 1 \notin ports}) + 1

-----------------------------------------------------------------------------
\* Sort, then scan.
GetNextPort(ports, minPort) == FirstGap(Sort(ports), minPort)

\* The same on the set of the ports: the port after the lowest one whose
\* successor is not in use.
NextPort(ports, minPort) ==
    IF ports = {} \/ Min(ports) > minPort THEN minPort
    ELSE Min({p \in ports : p + 1 \notin ports}) + 1

=============================================================================
