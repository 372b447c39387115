------------------------------ MODULE MCPeers ------------------------------
(* A phone that syncs and comes back, and a relay that does not sync. *)
EXTENDS Peers

CONSTANTS phone, relay

MCMaxConn == [p \in Peer |-> IF p = phone THEN 2 ELSE 1]
=============================================================================
