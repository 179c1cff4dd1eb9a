------------------------- MODULE GetNextPort_proofs -------------------------
(***************************************************************************)
(* GetNextPort as a whole, sort and loop: the properties MCFrontendPorts   *)
(* states of it, for every slice of ports and every starting port.         *)
(***************************************************************************)
EXTENDS MCFrontendPorts, FrontendPorts_proofs

LEMMA PortSetIs ==
  ASSUME ports \in Seq(Nat)
  PROVE  PortSet = Elements(ports) /\ PortSet \in SUBSET Nat
BY DEF PortSet, Elements

\* For every slice of ports and every starting port: GetNextPort depends on the
\* set of the ports only, not on their order, nor on ports that two Frontends
\* share, and NextPort is what it computes.
THEOREM ScanCorrect ==
  ASSUME ports \in Seq(Nat), MinPort \in Nat
  PROVE  ScanIsNextPort
<1>1. GetNextPort(ports, MinPort) = NextPort(Elements(ports), MinPort)
  BY SortSorts, LoopIsNextPort DEF GetNextPort
<1> QED BY <1>1, PortSetIs DEF ScanIsNextPort

\* For every slice of ports and every starting port: when no port in use is below
\* the starting port, GetNextPort returns the lowest one from there on that is
\* free, so that the gaps deleted Frontends leave are reused.
THEOREM LowestCorrect ==
  ASSUME ports \in Seq(Nat), MinPort \in Nat
  PROVE  LowestFreePort
<1> DEFINE q == GetNextPort(ports, MinPort)
<1>1. /\ Sort(ports) \in Seq(Nat) /\ Sorted(Sort(ports))
      /\ Elements(Sort(ports)) = PortSet /\ q = FirstGap(Sort(ports), MinPort)
  BY SortSorts, PortSetIs DEF GetNextPort
<1>2. /\ q \in Nat \ PortSet
      /\ (\A p \in PortSet : MinPort <= p) =>
            /\ MinPort <= q
            /\ \A p \in Nat : MinPort <= p /\ p < q => p \in PortSet
  <2> HIDE DEF q
  <2> QED BY <1>1, LoopFindsFreePort
<1> HIDE DEF q
<1> SUFFICES ASSUME \A p \in PortSet : p >= MinPort
             PROVE  q \notin PortSet /\ q >= MinPort /\ \A p \in MinPort..(q - 1) : p \in PortSet
  BY DEF LowestFreePort, q
<1>3. \A p \in PortSet : MinPort <= p
  BY PortSetIs
<1> QED BY <1>2, <1>3

=============================================================================
