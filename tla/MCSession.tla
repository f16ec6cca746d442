----------------------------- MODULE MCSession -----------------------------
(* An instance of Session for TLC: one client, a node that may garble its
   connection and one that does not. *)
EXTENDS Session, TLC

CONSTANTS k1, w1, w2, t1, t2

MCConns == {k1, w1, w2}
MCKinds == t1 :> "Compute" @@ t2 :> "Compute"
MCRoles == k1 :> "Worker" @@ w1 :> "Worker" @@ w2 :> "Worker"

Timed(t)   == [task |-> t, timed |-> TRUE]
Untimed(t) == [task |-> t, timed |-> FALSE]

\* A task for which a second node must take over, and submit_and_wait followed
\* by a call as the command line client makes them.
MCScenes ==
    {[plan |-> k1 :> <<Untimed(t1)>>,            nodes |-> {w1, w2}, late |-> FALSE],
     [plan |-> k1 :> <<Timed(t1), Untimed(t2)>>, nodes |-> {w1},     late |-> TRUE]}
=============================================================================
