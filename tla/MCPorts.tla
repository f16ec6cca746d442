------------------------------ MODULE MCPorts ------------------------------
(* Instances of Ports for TLC. *)
EXTENDS Ports, TLC

CONSTANTS c1, c2, c3, p1, p2

MCOnePort  == <<p1>>
MCTwoPorts == <<p1, p2>>
SymConns   == Permutations({c1, c2, c3})
=============================================================================
