------------------------------ MODULE MCMaster ------------------------------
(* Instances of Master for TLC. *)
EXTENDS Master, TLC

CONSTANTS c1, c2, t1, t2, t3

MCConns2 == {c1, c2}

\* a client's task for a disk node, a task of a client or of the operator, and
\* a getglobalram of the shell
MCKinds   == t1 :> "DiskRead" @@ t2 :> "HttpRequest" @@ t3 :> "GetGlobalRam"
MCKindOne == t1 :> "HttpRequest"

MCWorker1 == c1 :> "Worker"
MCDisk2   == c1 :> "Worker" @@ c2 :> "Disk"

\* Bound: two tasks at a time, the one for a worker or the shell's.
MCTwoTasks == ~({t2, t3} \subseteq submitted)
=============================================================================
