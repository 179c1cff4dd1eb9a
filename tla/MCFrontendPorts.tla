-------------------------- MODULE MCFrontendPorts --------------------------
(***************************************************************************)
(* Enumerates the inputs of GetNextPort: every slice of at most MaxLen     *)
(* ports below PortLimit, with repetitions and in any order.               *)
(***************************************************************************)
EXTENDS FrontendPorts

CONSTANTS MaxLen,     \* longest slice
          PortLimit,  \* ports are 0..PortLimit
          MinPort     \* r.StartingPort

VARIABLE ports

Init == ports = <<>>

Next == /\ Len(ports) < MaxLen
        /\ \E p \in 0..PortLimit : ports' = Append(ports, p)

Spec == Init /\ [][Next]_ports

-----------------------------------------------------------------------------
PortSet == {ports[i] : i \in DOMAIN ports}

\* The sort-and-scan loop of GetNextPort depends only on the set of the ports
\* (not on their order, not on ports that two Frontends share), and NextPort
\* is what it computes, also when some port is below the starting port.
ScanIsNextPort == GetNextPort(ports, MinPort) = NextPort(PortSet, MinPort)

\* When every port in use is at least the starting port, GetNextPort returns
\* the lowest port that is free: gaps left by deleted Frontends are reused
\* before the range grows.
LowestFreePort ==
    (\A p \in PortSet : p >= MinPort) =>
        LET q == GetNextPort(ports, MinPort)
        IN  /\ q \notin PortSet
            /\ q >= MinPort
            /\ \A p \in MinPort..(q - 1) : p \in PortSet

=============================================================================
