-------------------------- MODULE MCPeerDiscovery --------------------------
(* Instances of PeerDiscovery for TLC: node b is written in two ways. *)
EXTENDS PeerDiscovery

CONSTANTS a, b, c, d, b1, b2

(* A seed that lists b both ways, and a ring of nodes: one more than the
   pool holds, and than one refresh crawls. *)
TwoSpellings == [u \in Urls |-> IF u \in {b1, b2} THEN b ELSE u]
OneSeed      == <<a>>
Mesh == [n \in Nodes |-> CASE n = a -> <<b1, b2>>
                           [] n = b -> <<c>>
                           [] n = c -> <<d>>
                           [] OTHER -> <<a>>]
=============================================================================
