------------------------------- MODULE System -------------------------------
(***************************************************************************)
(* The cluster: the master's task book (Master) and the nodes (Node), each *)
(* at one end of the streams between them.  Every step of the master that  *)
(* reads or writes a socket is a step of Master together with its effect   *)
(* on a stream; what Master leaves to chance - which message comes next,   *)
(* which write fails, whose heartbeat stays out - follows here from what   *)
(* the nodes do and which connections break.                               *)
(***************************************************************************)
EXTENDS Master, Sequences

CONSTANTS Nodes, ConnsOf, Flaky, NoConn

VARIABLES link, up, down, at, cur, open, job, resend, done, again, lost

N == INSTANCE Node

nodeVars == <<link, up, down, at, cur, open, job, resend, done, again, lost>>
others   == <<link, at, cur, open, job, resend, done, again>>
allVars  == <<vars, nodeVars>>

\* Every connection is one node's; tasks come from the operator.
ASSUME SystemAssumption ==
    /\ ConnsOf \in [Nodes -> SUBSET Conns]
    /\ \A p, q \in Nodes : p # q => ConnsOf[p] \cap ConnsOf[q] = {}
    /\ NoConn \notin Conns /\ Flaky \subseteq Conns
    /\ \A c \in Conns : \E p \in Nodes : c \in ConnsOf[p]
    /\ ShellIds = {} /\ Mortal = Conns /\ Garbling = {} /\ Silent = Conns

SystemInit == Init /\ N!NodeInit

-----------------------------------------------------------------------------
(* The master's handler of connection c *)

\* The token has arrived.
Handshake(c) ==
    /\ link[c] # "unused"
    /\ Accept(c)
    /\ N!Deliver(c, N!Frame("OK"))
    /\ UNCHANGED <<up, lost, others>>

\* A reply that cannot be written needs a broken connection.
Answers(c, kind) ==
    \/ pc'[c] = "check" /\ N!Deliver(c, N!Frame(kind))
    \/ pc'[c] = "ghost" /\ N!Broken(c) /\ down' = down

Handles(c) ==
    \/ N!Received(c, N!Frame("RegisterRole")) /\ RegisterRole(c) /\ down' = down
    \/ N!Received(c, N!Frame("GetConnectedNodes")) /\ Query(c) /\ Answers(c, "ConnectedNodes")
    \/ /\ N!Received(c, N!Frame("RequestConnection"))
       /\ Query(c)
       /\ \/ Answers(c, "ConnectionInfo")
          \/ pc'[c] = "check" /\ down' = down
    \/ N!Received(c, N!Frame("Heartbeat")) /\ Heartbeat(c) /\ Answers(c, "HeartbeatAck")
    \/ \E t \in Tasks :
          N!Received(c, N!TaskFrame("TaskResult", t)) /\ TaskResult(c, t) /\ down' = down

HandleMessage(c) ==
    /\ Handles(c)
    /\ IF pc'[c] = "ghost" THEN N!Hangup(c) ELSE N!Consume(c)
    /\ UNCHANGED others

\* The read fails once the frames that did arrive are read.
HandleEnd(c) ==
    /\ N!Broken(c)
    /\ up[c] = <<>>
    /\ Leave(c)
    /\ UNCHANGED nodeVars

Dispatch(c) ==
    \/ SendOk(c) /\ N!Deliver(c, N!TaskFrame("AssignTask", hand[c])) /\ UNCHANGED <<up, lost, others>>
    \/ N!Broken(c) /\ SendFail(c) /\ UNCHANGED nodeVars

MasterStep(c) ==
    \/ Handshake(c) \/ HandleMessage(c) \/ HandleEnd(c) \/ Dispatch(c)
    \/ HandlerStep(c) /\ UNCHANGED nodeVars

-----------------------------------------------------------------------------
\* A node in its loop, on a connection that works, is heard in time; a node
\* that executes a task, or dials, is not.
Beating(c) == link[c] = "up" /\ \E p \in Nodes : cur[p] = c /\ at[p] \in {"loop", "deaf"}

OutOfTime(c) == ~Beating(c) /\ Expire(c) /\ UNCHANGED nodeVars

Operator == \E t \in Tasks : AddTask(t) /\ UNCHANGED nodeVars

CleanupRuns == Cleanup /\ UNCHANGED nodeVars

NodeRuns(p) == N!NodeStep(p) /\ UNCHANGED vars

Breaks(c) == N!Break(c) /\ UNCHANGED vars

SystemNext ==
    \/ \E c \in Conns : MasterStep(c) \/ OutOfTime(c) \/ Breaks(c)
    \/ \E p \in Nodes : NodeRuns(p)
    \/ CleanupRuns \/ Operator

SystemSpec == SystemInit /\ [][SystemNext]_allVars

(* The master's tasks and the nodes' loops run; nothing else has to happen.  A
   node that has to reconnect may as well find no master and give up. *)
FairSystem ==
    /\ SystemSpec
    /\ \A c \in Conns : WF_allVars(MasterStep(c))
    /\ \A p \in Nodes : WF_allVars(NodeRuns(p))

-----------------------------------------------------------------------------
SystemTypeOK == TypeOK /\ N!NodeTypeOK

\* A node that has asked for the list of nodes reads exactly that: the master
\* sends it no task it would swallow, because it is not a worker before its first
\* heartbeat (node.rs:56-65, 333-338; lib.rs:120-123).
NoTaskSwallowed ==
    \A p \in Nodes :
        at[p] \in {"list", "relist"} /\ down[cur[p]] # <<>> =>
            Head(down[cur[p]]) = N!Frame("ConnectedNodes")

InFlight(t) ==
    \E c \in Conns : \E i \in 1..Len(up[c]) : up[c][i] = N!TaskFrame("TaskResult", t)

\* The result of a task that was executed is with the master, on its way, or in
\* open_tasks, unless a breaking connection swallowed it: no failed write or
\* reconnect of a node forgets one (node.rs:175-181, 339-344).
ResultKept ==
    \A p \in Nodes : \A t \in done[p] :
        \/ t \in completed \cup lost \cup open[p]
        \/ InFlight(t)
        \/ \E c \in Conns : hand[c] = t /\ pc[c] \in {"resultPending", "resultDone"}

\* No task is executed twice unless cleanup has removed a node: broken
\* connections, failed dispatches and results sent again never make the master
\* hand out a task that was executed.
RunTwiceOnlyAfterEviction == again # {} => evicted # {}

\* A task was written to a connection of the node that works.
AssignedTo(p, t) == \E c \in ConnsOf[p] : t \in given[c] /\ ~N!Broken(c)

\* Such a task is never out of sight of its node: its assignment is still on the
\* stream the node uses, or the node executes it, or has done so, or it is deaf.
\* Whatever the node does meanwhile - asks for the list, sends results again, dials
\* anew - it reads no assignment without executing it, and it leaves no stream
\* that works behind with one on it (node.rs:56-66, 115-186, 331-345).
AssignmentKept ==
    \A p \in Nodes, t \in Tasks : AssignedTo(p, t) =>
        \/ \E i \in 1..Len(down[cur[p]]) : down[cur[p]][i] = N!TaskFrame("AssignTask", t)
        \/ at[p] = "execute" /\ job[p] = t
        \/ t \in done[p]
        \/ at[p] = "deaf"

\* A node executes what it is assigned, unless the connection breaks or the node
\* went deaf before it read the assignment.  A deaf node's heartbeats keep its
\* entry, and with it the task, from cleanup (node.rs:115-126, lib.rs:363).
AssignedExecuted ==
    \A p \in Nodes, t \in Tasks :
        AssignedTo(p, t) ~> t \in done[p] \/ ~AssignedTo(p, t) \/ at[p] = "deaf"

\* A result left in open_tasks reaches the master in the end, if the node does
\* not give up and the result is not swallowed as well.
OpenResultDelivered ==
    \A p \in Nodes, t \in Tasks :
        t \in open[p] ~> t \in completed \cup lost \/ at[p] = "stopped"
=============================================================================
