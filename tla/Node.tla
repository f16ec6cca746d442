-------------------------------- MODULE Node --------------------------------
(***************************************************************************)
(* The nodes (CPCluster_node, node.rs) and their streams to the master:    *)
(* connect_to_master, heartbeat_loop and reconnect.  A step is the         *)
(* handling of one frame, one tick or one write.  What the master does at  *)
(* the other end of a stream is left to System.                            *)
(*                                                                         *)
(* A task is executed inside the loop that also sends the heartbeats: a    *)
(* node at work neither reads nor writes.  Left out: direct connections    *)
(* (they carry no task of the master), and which address is dialled.       *)
(***************************************************************************)
EXTENDS Naturals, Sequences, FiniteSets

CONSTANTS
    Nodes,
    Conns,      \* connections; a node dials each of its own once
    ConnsOf,    \* Bound: the connections each node may still dial
    Tasks,
    Flaky,      \* connections that may break
    NoTask, NoConn

VARIABLES
    link,      \* the state of each connection
    up, down,  \* the frames on their way to and from the master
    at,        \* where each node is
    cur,       \* the stream a node uses
    open,      \* open_tasks: results whose sending failed
    job,       \* the task a node executes or reports
    resend,    \* the results reconnect has still to send
    \* History, read only by properties.
    done,      \* the tasks each node has executed
    again,     \* the tasks executed twice, by anybody
    lost       \* the results that a broken connection swallowed

streams  == <<link, up, down>>
nodeVars == <<streams, at, cur, open, job, resend, done, again, lost>>

\* A deaf node is in its loop, but its stream is out of step: see CutFrame.
Steps == {"off", "auth", "list", "loop", "deaf", "execute", "report",
          "redial", "reauth", "relist", "resend", "stopped"}

Up == {"RegisterRole", "GetConnectedNodes", "RequestConnection", "Heartbeat", "TaskResult"}
Down == {"OK", "ConnectedNodes", "ConnectionInfo", "HeartbeatAck", "AssignTask"}

Frame(kind)        == [kind |-> kind, task |-> NoTask]
TaskFrame(kind, t) == [kind |-> kind, task |-> t]

Frames(kinds) == [kind : kinds, task : Tasks \cup {NoTask}]

NodeTypeOK ==
    /\ link   \in [Conns -> {"unused", "up", "broken"}]
    /\ up     \in [Conns -> Seq(Frames(Up))]
    /\ down   \in [Conns -> Seq(Frames(Down))]
    /\ at     \in [Nodes -> Steps]
    /\ open   \in [Nodes -> SUBSET Tasks]
    /\ resend \in [Nodes -> SUBSET Tasks]
    /\ done   \in [Nodes -> SUBSET Tasks]
    /\ again  \subseteq Tasks
    /\ lost   \subseteq Tasks
    /\ \A p \in Nodes : /\ cur[p] \in ConnsOf[p] \cup {NoConn}
                        /\ cur[p] # NoConn => link[cur[p]] # "unused"
                        /\ job[p] \in Tasks \cup {NoTask}
                        /\ job[p] # NoTask <=> at[p] \in {"execute", "report"}
                        /\ resend[p] \subseteq open[p]

NodeInit ==
    /\ link   = [c \in Conns |-> "unused"]
    /\ up     = [c \in Conns |-> <<>>]
    /\ down   = [c \in Conns |-> <<>>]
    /\ at     = [p \in Nodes |-> "off"]
    /\ cur    = [p \in Nodes |-> NoConn]
    /\ open   = [p \in Nodes |-> {}]
    /\ job    = [p \in Nodes |-> NoTask]
    /\ resend = [p \in Nodes |-> {}]
    /\ done   = [p \in Nodes |-> {}]
    /\ again  = {}
    /\ lost   = {}

Goto(p, step) == at' = [at EXCEPT ![p] = step]

ResultsIn(frames) == {frames[i].task : i \in {j \in DOMAIN frames : frames[j].kind = "TaskResult"}}

-----------------------------------------------------------------------------
(* Streams *)

\* A write that succeeds; on a connection that is broken without anybody having
\* noticed, nobody will ever read it.
Write(c, frames) ==
    \/ link[c] = "up" /\ up' = [up EXCEPT ![c] = @ \o frames] /\ lost' = lost
    \/ link[c] = "broken" /\ up' = up /\ lost' = lost \cup ResultsIn(frames)

Broken(c) == link[c] = "broken"

Arrived(p, kind) == down[cur[p]] # <<>> /\ Head(down[cur[p]]).kind = kind

Take(p) == down' = [down EXCEPT ![cur[p]] = Tail(@)]

\* A read fails when the connection is broken and its last frame was read.
ReadFails(p) == Broken(cur[p]) /\ down[cur[p]] = <<>>

\* The connection breaks, with any of the frames under way.
Break(c) ==
    /\ c \in Flaky
    /\ link[c] = "up"
    /\ link' = [link EXCEPT ![c] = "broken"]
    /\ \E i \in 0..Len(up[c]), j \in 0..Len(down[c]) :
          /\ up'   = [up   EXCEPT ![c] = SubSeq(@, 1, i)]
          /\ down' = [down EXCEPT ![c] = SubSeq(@, 1, j)]
          /\ lost' = lost \cup ResultsIn(SubSeq(up[c], i + 1, Len(up[c])))
    /\ UNCHANGED <<at, cur, open, job, resend, done, again>>

-----------------------------------------------------------------------------
(* connect_to_master and reconnect *)

Dial(p, c) ==
    /\ at[p] \in {"off", "redial"}
    /\ c \in ConnsOf[p]
    /\ link[c] = "unused"
    /\ link' = [link EXCEPT ![c] = "up"]
    /\ cur' = [cur EXCEPT ![p] = c]
    /\ Goto(p, IF at[p] = "off" THEN "auth" ELSE "reauth")
    /\ UNCHANGED <<up, down, open, job, resend, done, again, lost>>

\* The first connection announces the role; a write that fails ends the node.
Login(p) ==
    /\ at[p] = "auth"
    /\ Arrived(p, "OK")
    /\ Take(p)
    /\ \/ /\ Write(cur[p], <<Frame("RegisterRole"), Frame("GetConnectedNodes")>>)
          /\ Goto(p, "list")
       \/ /\ Broken(cur[p])
          /\ Goto(p, "stopped")
          /\ UNCHANGED <<up, lost>>
    /\ UNCHANGED <<link, cur, open, job, resend, done, again>>

\* Whatever frame comes is read as the answer, and a read that fails is ignored.
\* If the list names anybody (cleanup may have emptied it), the node asks for a
\* connection to the first; if it cannot, it ends.  The loop begins with a
\* heartbeat, whether or not that can be sent.
Listed(p) ==
    /\ at[p] = "list"
    /\ \/ /\ down[cur[p]] # <<>>
          /\ Take(p)
          /\ \/ /\ \/ Write(cur[p], <<Frame("RequestConnection"), Frame("Heartbeat")>>)
                   \/ Write(cur[p], <<Frame("Heartbeat")>>)
                /\ Goto(p, "loop")
             \/ Broken(cur[p]) /\ Goto(p, "stopped") /\ UNCHANGED <<up, lost>>
       \/ /\ ReadFails(p)
          /\ Goto(p, "loop")
          /\ UNCHANGED <<up, down, lost>>
    /\ UNCHANGED <<link, cur, open, job, resend, done, again>>

Relogin(p) ==
    /\ at[p] = "reauth"
    /\ Arrived(p, "OK")
    /\ Take(p)
    /\ \/ Write(cur[p], <<Frame("GetConnectedNodes")>>) /\ Goto(p, "relist")
       \/ Broken(cur[p]) /\ Goto(p, "resend") /\ UNCHANGED <<up, lost>>
    /\ resend' = [resend EXCEPT ![p] = IF at'[p] = "resend" THEN open[p] ELSE {}]
    /\ UNCHANGED <<link, cur, open, job, done, again>>

\* Mutant of Relisted: open_tasks is not looked at.
Relisted_SendsNone(p) ==
    /\ at[p] = "relist"
    /\ \/ down[cur[p]] # <<>> /\ Take(p)
       \/ ReadFails(p) /\ down' = down
    /\ Goto(p, "resend")
    /\ UNCHANGED <<link, up, cur, open, job, resend, done, again, lost>>

Relisted(p) ==
    /\ at[p] = "relist"
    /\ \/ down[cur[p]] # <<>> /\ Take(p)
       \/ ReadFails(p) /\ down' = down
    /\ resend' = [resend EXCEPT ![p] = open[p]]
    /\ Goto(p, "resend")
    /\ UNCHANGED <<link, up, cur, open, job, done, again, lost>>

\* Results sent again stay in open_tasks, and a write that fails is only logged.
Resend(p) ==
    /\ at[p] = "resend"
    /\ \/ \E t \in resend[p] :
            /\ resend' = [resend EXCEPT ![p] = @ \ {t}]
            /\ Write(cur[p], <<TaskFrame("TaskResult", t)>>)
            /\ at' = at
       \/ /\ resend[p] = {}
          /\ Goto(p, "loop")
          /\ UNCHANGED <<resend, up, lost>>
    /\ UNCHANGED <<link, down, cur, open, job, done, again>>

\* No answer to the token, or no address that answers: the node gives up.  Its
\* Disconnect goes to a stream that has failed already, and reaches nobody.
GiveUp(p) ==
    /\ \/ at[p] = "redial"
       \/ at[p] \in {"auth", "reauth"} /\ ReadFails(p)
    /\ Goto(p, "stopped")
    /\ UNCHANGED <<streams, cur, open, job, resend, done, again, lost>>

-----------------------------------------------------------------------------
(* heartbeat_loop *)

\* Bound: one heartbeat or its answer under way at a time.
Quiet(c) ==
    /\ \A i \in 1..Len(up[c])   : up[c][i].kind   # "Heartbeat"
    /\ \A i \in 1..Len(down[c]) : down[c][i].kind # "HeartbeatAck"

\* Mutant of Tick: the node dials anew although its connection works.
Tick_LeavesWorking(p) ==
    /\ at[p] \in {"loop", "deaf"}
    /\ \/ Quiet(cur[p]) /\ Write(cur[p], <<Frame("Heartbeat")>>) /\ at' = at
       \/ Goto(p, "redial") /\ UNCHANGED <<up, lost>>
    /\ UNCHANGED <<link, down, cur, open, job, resend, done, again>>

Tick(p) ==
    /\ at[p] \in {"loop", "deaf"}
    /\ \/ Quiet(cur[p]) /\ Write(cur[p], <<Frame("Heartbeat")>>) /\ at' = at
       \/ Broken(cur[p]) /\ Goto(p, "redial") /\ UNCHANGED <<up, lost>>
    /\ UNCHANGED <<link, down, cur, open, job, resend, done, again>>

\* The tick comes while a frame is half read: select! drops the read with what it
\* has got so far, and the next one takes four bytes from the middle of a message
\* for a length.  It waits for that many bytes, which are more than ever come.
CutFrame(p) ==
    /\ at[p] = "loop"
    /\ down[cur[p]] # <<>>
    /\ Take(p)
    /\ Goto(p, "deaf")
    /\ UNCHANGED <<link, up, cur, open, job, resend, done, again, lost>>

Swallow(p) ==
    /\ at[p] = "deaf"
    /\ down[cur[p]] # <<>>
    /\ Take(p)
    /\ UNCHANGED <<link, up, at, cur, open, job, resend, done, again, lost>>

\* Mutant of Ignored: an assignment is not looked at.
Ignored_AnyFrame(p) ==
    /\ at[p] = "loop"
    /\ down[cur[p]] # <<>>
    /\ Take(p)
    /\ UNCHANGED <<link, up, at, cur, open, job, resend, done, again, lost>>

Ignored(p) ==
    /\ at[p] = "loop"
    /\ down[cur[p]] # <<>>
    /\ Head(down[cur[p]]).kind # "AssignTask"
    /\ Take(p)
    /\ UNCHANGED <<link, up, at, cur, open, job, resend, done, again, lost>>

Assigned(p) ==
    /\ at[p] = "loop"
    /\ Arrived(p, "AssignTask")
    /\ Take(p)
    /\ job' = [job EXCEPT ![p] = Head(down[cur[p]]).task]
    /\ Goto(p, "execute")
    /\ UNCHANGED <<link, up, cur, open, resend, done, again, lost>>

StreamEnds(p) ==
    /\ \/ at[p] = "loop" /\ ReadFails(p)
       \/ at[p] = "deaf" /\ Broken(cur[p])
    /\ Goto(p, "redial")
    /\ UNCHANGED <<streams, cur, open, job, resend, done, again, lost>>

\* Mutant of Execute: the result is not noted before it is sent.
Execute_NotNoted(p) ==
    /\ at[p] = "execute"
    /\ Goto(p, "report")
    /\ again' = IF \E q \in Nodes : job[p] \in done[q] THEN again \cup {job[p]} ELSE again
    /\ done' = [done EXCEPT ![p] = @ \cup {job[p]}]
    /\ UNCHANGED <<streams, cur, open, job, resend, lost>>

\* The result is noted in open_tasks before it is sent.
Execute(p) ==
    /\ at[p] = "execute"
    /\ open' = [open EXCEPT ![p] = @ \cup {job[p]}]
    /\ Goto(p, "report")
    /\ again' = IF \E q \in Nodes : job[p] \in done[q] THEN again \cup {job[p]} ELSE again
    /\ done' = [done EXCEPT ![p] = @ \cup {job[p]}]
    /\ UNCHANGED <<streams, cur, job, resend, lost>>

\* Mutant of Report: the node stays at work.
Report_KeepsJob(p) ==
    /\ at[p] = "report"
    /\ Write(cur[p], <<TaskFrame("TaskResult", job[p])>>)
    /\ open' = [open EXCEPT ![p] = @ \ {job[p]}]
    /\ Goto(p, "loop")
    /\ UNCHANGED <<link, down, cur, job, resend, done, again>>

\* ... and forgotten as soon as the stream has taken it.
Report(p) ==
    /\ at[p] = "report"
    /\ \/ /\ Write(cur[p], <<TaskFrame("TaskResult", job[p])>>)
          /\ open' = [open EXCEPT ![p] = @ \ {job[p]}]
       \/ Broken(cur[p]) /\ UNCHANGED <<open, up, lost>>
    /\ job' = [job EXCEPT ![p] = NoTask]
    /\ Goto(p, "loop")
    /\ UNCHANGED <<link, down, cur, resend, done, again>>

-----------------------------------------------------------------------------
Connecting(p) ==
    \/ \E c \in Conns : Dial(p, c)
    \/ Login(p) \/ Listed(p) \/ Relogin(p) \/ Relisted(p) \/ Resend(p)

Looping(p) ==
    \/ Tick(p) \/ Ignored(p) \/ Assigned(p) \/ StreamEnds(p) \/ CutFrame(p) \/ Swallow(p)
    \/ Execute(p) \/ Report(p)

NodeStep(p) == Connecting(p) \/ Looping(p) \/ GiveUp(p)

-----------------------------------------------------------------------------
(* The master's end of a stream *)

Received(c, frame) == up[c] # <<>> /\ Head(up[c]) = frame

Consume(c) == up' = [up EXCEPT ![c] = Tail(@)] /\ lost' = lost

\* A handler that returns drops its socket, with what it has not read.
Hangup(c) ==
    /\ up' = [up EXCEPT ![c] = <<>>]
    /\ lost' = lost \cup ResultsIn(Tail(up[c]))

\* What the master writes to a broken connection, nobody reads.
Deliver(c, frame) ==
    down' = IF link[c] = "up" THEN [down EXCEPT ![c] = Append(@, frame)] ELSE down
=============================================================================
