------------------------------ MODULE PortPool ------------------------------
(***************************************************************************)
(* What the master's port pool promises: a port is free, or belongs to one *)
(* node, or is lost for good, and it passes from node to node only by way  *)
(* of the pool.                                                            *)
(***************************************************************************)
CONSTANTS PortNumbers, Conns, Pool, Lost

VARIABLE owner

Init == owner = [p \in PortNumbers |-> Pool]

\* Ports change hands this way only.
Moves(p, from, to) == owner[p] = from /\ owner' = [owner EXCEPT ![p] = to]

Take(c, p)   == Moves(p, Pool, c)
Return(c, p) == Moves(p, c, Pool)
Lose(c, p)   == Moves(p, c, Lost)

Next == \E p \in PortNumbers, c \in Conns : Take(c, p) \/ Return(c, p) \/ Lose(c, p)

Spec == Init /\ [][Next]_owner
=============================================================================
