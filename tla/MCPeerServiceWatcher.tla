------------------------ MODULE MCPeerServiceWatcher ------------------------
(***************************************************************************)
(* Instances of PeerServiceWatcher for TLC: Services do not interact, so   *)
(* there is one, with addresses that change.                               *)
(***************************************************************************)
EXTENDS PeerServiceWatcher

CONSTANTS s1, i1, i2

=============================================================================
