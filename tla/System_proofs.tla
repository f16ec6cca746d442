---------------------------- MODULE System_proofs ----------------------------
(***************************************************************************)
(* The cluster is an instance of the master's environment: whatever the    *)
(* nodes and their streams do, the master takes only steps of Master.  So  *)
(* what is proved of the task book with peers that may do anything holds   *)
(* in the cluster, for any number of nodes, connections and tasks.         *)
(***************************************************************************)
EXTENDS System, MasterCustody_proofs, SequenceTheorems

\* The master's end of a stream reads, writes or fails only as Connection does.
LEMMA MasterStepIsNext == ASSUME NEW c \in Conns, MasterStep(c) PROVE Next \/ UNCHANGED vars
<1>1. CASE Handshake(c)
  BY <1>1 DEF Handshake, Next, Connection
<1>2. CASE HandleMessage(c)
  <2>1. Handles(c)
    BY <1>2 DEF HandleMessage
  <2>2. RegisterRole(c) \/ Query(c) \/ Heartbeat(c) \/ \E t \in Tasks : TaskResult(c, t)
    BY <2>1 DEF Handles
  <2>3. Message(c)
    BY <2>2 DEF Message
  <2> QED
    BY <2>3 DEF Next, Connection
<1>3. CASE HandleEnd(c)
  BY <1>3 DEF HandleEnd, Next, Connection, Message
<1>4. CASE Dispatch(c)
  BY <1>4 DEF Dispatch, Next, Connection
<1>5. CASE HandlerStep(c)
  BY <1>5 DEF Next, Connection
<1> QED
  BY <1>1, <1>2, <1>3, <1>4, <1>5 DEF MasterStep

\* Every step of the cluster is a step of the master or leaves the task book as
\* it is (lib.rs:239-401, node.rs:24-27).
THEOREM ClusterImplementsMaster == SystemSpec => Spec
<1>1. SystemInit => Init
  BY DEF SystemInit
<1>2. [SystemNext]_allVars => [Next]_vars
  <2> SUFFICES ASSUME SystemNext \/ UNCHANGED allVars PROVE Next \/ UNCHANGED vars
    OBVIOUS
  <2>1. CASE UNCHANGED allVars
    BY <2>1 DEF allVars
  <2>2. CASE \E c \in Conns : MasterStep(c) \/ OutOfTime(c) \/ Breaks(c)
    <3> PICK c \in Conns : MasterStep(c) \/ OutOfTime(c) \/ Breaks(c)
      BY <2>2
    <3>1. CASE MasterStep(c)
      BY <3>1, MasterStepIsNext
    <3>2. CASE OutOfTime(c)
      BY <3>2 DEF OutOfTime, Next, Connection
    <3>3. CASE Breaks(c)
      BY <3>3 DEF Breaks
    <3> QED
      BY <3>1, <3>2, <3>3
  <2>3. CASE \E p \in Nodes : NodeRuns(p)
    BY <2>3 DEF NodeRuns
  <2>4. CASE CleanupRuns
    BY <2>4 DEF CleanupRuns, Next
  <2>5. CASE Operator
    BY <2>5 DEF Operator, Next, Shell
  <2> QED
    BY <2>1, <2>2, <2>3, <2>4, <2>5 DEF SystemNext
<1> QED
  BY <1>1, <1>2, PTL DEF SystemSpec, Spec

\* In the cluster, too, no task is lost that no departed node received
\* (lib.rs:112-178, 213-237).
THEOREM ClusterLosesNothingUnsent == SystemSpec => []NeverLostUnsent
BY ClusterImplementsMaster, NothingUnsentIsLost, PTL

\* In the cluster, too, no task is with two nodes before the first eviction
\* (lib.rs:125-146).
THEOREM ClusterAssignsOnce == SystemSpec => []TrackedTwiceOnlyAfterEviction
BY ClusterImplementsMaster, AssignedOnce, PTL

-----------------------------------------------------------------------------
(* The nodes and their streams keep their types.  A connection that is not
   dialled yet is empty and unknown to the master; a node that has dialled has
   a stream; only reconnect has results to send again. *)

UpFrames   == {f \in N!Frames(N!Up) : f.kind = "TaskResult" => f.task \in Tasks}
DownFrames == {f \in N!Frames(N!Down) : f.kind = "AssignTask" => f.task \in Tasks}

StreamTypes ==
    /\ link \in [Conns -> {"unused", "up", "broken"}]
    /\ up   \in [Conns -> Seq(UpFrames)]
    /\ down \in [Conns -> Seq(DownFrames)]
    /\ lost \subseteq Tasks
    /\ \A c \in Conns : link[c] = "unused" => up[c] = <<>> /\ down[c] = <<>>

NodeTypes ==
    /\ at     \in [Nodes -> N!Steps]
    /\ cur    \in [Nodes -> Conns \cup {NoConn}]
    /\ open   \in [Nodes -> SUBSET Tasks]
    /\ job    \in [Nodes -> Tasks \cup {NoTask}]
    /\ resend \in [Nodes -> SUBSET Tasks]
    /\ done   \in [Nodes -> SUBSET Tasks]
    /\ again  \subseteq Tasks
    /\ \A p \in Nodes : /\ cur[p] \in ConnsOf[p] \cup {NoConn}
                        /\ cur[p] # NoConn => link[cur[p]] # "unused"
                        /\ at[p] # "off" => cur[p] # NoConn
                        /\ job[p] # NoTask <=> at[p] \in {"execute", "report"}
                        /\ at[p] # "resend" => resend[p] = {}
                        /\ resend[p] \subseteq open[p]

Undialled == \A c \in Conns : link[c] = "unused" => pc[c] = "new"

NodesInv == StreamTypes /\ NodeTypes /\ Undialled

LEMMA FrameTypes ==
  /\ \A kind \in N!Up \ {"TaskResult"} : N!Frame(kind) \in UpFrames
  /\ \A t \in Tasks : N!TaskFrame("TaskResult", t) \in UpFrames
  /\ \A kind \in N!Down \ {"AssignTask"} : N!Frame(kind) \in DownFrames
  /\ \A t \in Tasks : N!TaskFrame("AssignTask", t) \in DownFrames
  BY DEF UpFrames, DownFrames, N!Frames, N!Frame, N!TaskFrame, N!Up, N!Down

LEMMA TypesFollow == NodesInv => N!NodeTypeOK
<1> SUFFICES ASSUME NodesInv PROVE N!NodeTypeOK
    OBVIOUS
<1>1. UpFrames \subseteq N!Frames(N!Up) /\ DownFrames \subseteq N!Frames(N!Down)
    BY DEF UpFrames, DownFrames
<1>2. /\ \A s \in Seq(UpFrames) : s \in Seq(N!Frames(N!Up))
      /\ \A s \in Seq(DownFrames) : s \in Seq(N!Frames(N!Down))
    BY <1>1, SeqMonotonic
<1>3. up \in [Conns -> Seq(N!Frames(N!Up))] /\ down \in [Conns -> Seq(N!Frames(N!Down))]
    BY <1>2 DEF NodesInv, StreamTypes
<1> QED BY <1>3 DEF NodesInv, StreamTypes, NodeTypes, N!NodeTypeOK

LEMMA ResultTypes ==
  ASSUME NEW s \in Seq(UpFrames)
  PROVE  N!ResultsIn(s) \subseteq Tasks
<1>1. DOMAIN s = 1..Len(s) /\ \A i \in DOMAIN s : s[i] \in UpFrames
    BY LenProperties, ElementOfSeq
<1> QED BY <1>1 DEF N!ResultsIn, UpFrames

\* What the streams become when something is written, read or cut.
LEMMA Written ==
  ASSUME StreamTypes, NEW c \in Conns, NEW s \in Seq(UpFrames), N!Write(c, s)
  PROVE  /\ up' \in [Conns -> Seq(UpFrames)] /\ lost' \subseteq Tasks
         /\ \A d \in Conns : d # c \/ link[d] = "unused" => up'[d] = up[d]
<1>1. up[c] \o s \in Seq(UpFrames)
    BY ConcatProperties DEF StreamTypes
<1>2. N!ResultsIn(s) \subseteq Tasks
    BY ResultTypes
<1> QED BY <1>1, <1>2 DEF N!Write, StreamTypes

LEMMA Taken ==
  ASSUME StreamTypes, NEW p \in Nodes, cur[p] \in Conns, down[cur[p]] # <<>>, N!Take(p)
  PROVE  /\ down' \in [Conns -> Seq(DownFrames)]
         /\ \A d \in Conns : d # cur[p] \/ link[d] = "unused" => down'[d] = down[d]
<1>1. Tail(down[cur[p]]) \in Seq(DownFrames)
    BY HeadTailProperties DEF StreamTypes
<1> QED BY <1>1 DEF N!Take, StreamTypes

LEMMA CutTypes ==
  ASSUME NEW S, NEW s \in Seq(S), NEW i \in 0..Len(s)
  PROVE  /\ SubSeq(s, 1, i) \in Seq(S) /\ Len(SubSeq(s, 1, i)) = i
         /\ \A k \in 1..i : SubSeq(s, 1, i)[k] = s[k]
         /\ SubSeq(s, i + 1, Len(s)) \in Seq(S) /\ Len(SubSeq(s, i + 1, Len(s))) = Len(s) - i
         /\ \A k \in 1..Len(s) - i : SubSeq(s, i + 1, Len(s))[k] = s[i + k]
<1>1. Len(s) \in Nat /\ \A k \in 1..Len(s) : s[k] \in S
    BY LenProperties, ElementOfSeq
<1>2. \A k \in 1..i : s[k] \in S
    BY <1>1
<1>3. \A k \in i + 1..Len(s) : s[k] \in S
    BY <1>1
<1> DEFINE a == SubSeq(s, 1, i)
           b == SubSeq(s, i + 1, Len(s))
<1>4. /\ a \in Seq(S) /\ Len(a) = IF 1 <= i THEN i - 1 + 1 ELSE 0
      /\ \A k \in 1..i - 1 + 1 : a[k] = s[1 + k - 1]
    BY <1>1, <1>2, SubSeqProperties
<1>5. /\ b \in Seq(S) /\ Len(b) = IF i + 1 <= Len(s) THEN Len(s) - (i + 1) + 1 ELSE 0
      /\ \A k \in 1..Len(s) - (i + 1) + 1 : b[k] = s[(i + 1) + k - 1]
    BY <1>1, <1>3, SubSeqProperties
<1> HIDE DEF a, b
<1>6. Len(a) = i /\ \A k \in 1..i : a[k] = s[k]
    BY <1>1, <1>4
<1>7. Len(b) = Len(s) - i /\ \A k \in 1..Len(s) - i : b[k] = s[i + k]
    BY <1>1, <1>5
<1> QED BY <1>4, <1>5, <1>6, <1>7 DEF a, b

LEMMA NodesInit == SystemInit => NodesInv
<1> SUFFICES ASSUME SystemInit PROVE NodesInv
    OBVIOUS
<1>1. StreamTypes /\ NodeTypes
    BY SystemAssumption, EmptySeq
    DEF SystemInit, N!NodeInit, StreamTypes, NodeTypes, N!Steps
<1>2. Undialled
    BY DEF SystemInit, Init, Undialled
<1> QED BY <1>1, <1>2 DEF NodesInv

\* The streams after a step of a node.
LEMMA NodeStreams ==
  ASSUME NodesInv, NEW p \in Nodes, N!NodeStep(p)
  PROVE  StreamTypes' /\ \A c \in Conns : link[c] # "unused" => link'[c] = link[c]
<1>1. at[p] # "off" => cur[p] \in Conns /\ link[cur[p]] # "unused"
    BY DEF NodesInv, NodeTypes
<1> USE DEF NodesInv, NodeTypes
<1>2. ASSUME NEW c \in Conns, N!Dial(p, c) PROVE StreamTypes' /\ \A d \in Conns : link[d] # "unused" => link'[d] = link[d]
    BY <1>2 DEF N!Dial, StreamTypes
<1>3. ASSUME cur[p] \in Conns, link' = link,
             down' = down \/ (down[cur[p]] # <<>> /\ N!Take(p)),
             \/ up' = up /\ lost' = lost
             \/ \E s \in Seq(UpFrames) : N!Write(cur[p], s)
      PROVE  StreamTypes'
  <2>1. /\ down' \in [Conns -> Seq(DownFrames)]
        /\ \A d \in Conns : link[d] = "unused" => down'[d] = down[d]
      BY <1>3, Taken DEF StreamTypes
  <2>2. /\ up' \in [Conns -> Seq(UpFrames)] /\ lost' \subseteq Tasks
        /\ \A d \in Conns : link[d] = "unused" => up'[d] = up[d]
      BY <1>3, Written DEF StreamTypes
  <2> QED BY <1>3, <2>1, <2>2 DEF StreamTypes
<1>4. /\ <<N!Frame("RegisterRole"), N!Frame("GetConnectedNodes")>> \in Seq(UpFrames)
      /\ <<N!Frame("RequestConnection"), N!Frame("Heartbeat")>> \in Seq(UpFrames)
      /\ <<N!Frame("Heartbeat")>> \in Seq(UpFrames)
      /\ <<N!Frame("GetConnectedNodes")>> \in Seq(UpFrames)
      /\ \A t \in Tasks : <<N!TaskFrame("TaskResult", t)>> \in Seq(UpFrames)
  <2>1. N!Frame("RegisterRole") \in UpFrames /\ N!Frame("GetConnectedNodes") \in UpFrames
        /\ N!Frame("RequestConnection") \in UpFrames /\ N!Frame("Heartbeat") \in UpFrames
      BY FrameTypes DEF N!Up
  <2>2. \A t \in Tasks : N!TaskFrame("TaskResult", t) \in UpFrames
      BY FrameTypes
  <2> QED BY <2>1, <2>2
<1>5. CASE N!Login(p)
    BY <1>1, <1>3, <1>4, <1>5 DEF N!Login, N!Arrived
<1>6. CASE N!Listed(p)
    BY <1>1, <1>3, <1>4, <1>6 DEF N!Listed
<1>7. CASE N!Relogin(p)
    BY <1>1, <1>3, <1>4, <1>7 DEF N!Relogin, N!Arrived
<1>8. CASE N!Relisted(p)
    BY <1>1, <1>3, <1>8 DEF N!Relisted
<1>9. CASE N!Resend(p)
    BY <1>1, <1>3, <1>4, <1>9 DEF N!Resend
<1>10. CASE N!Tick(p)
    BY <1>1, <1>3, <1>4, <1>10 DEF N!Tick
<1>11. CASE N!Ignored(p) \/ N!CutFrame(p) \/ N!Swallow(p)
    BY <1>1, <1>3, <1>11 DEF N!Ignored, N!CutFrame, N!Swallow
<1>12. CASE N!Assigned(p)
    BY <1>1, <1>3, <1>12 DEF N!Assigned, N!Arrived
<1>13. CASE N!StreamEnds(p) \/ N!GiveUp(p)
    BY <1>13 DEF N!StreamEnds, N!GiveUp, N!streams, StreamTypes
<1>14. CASE N!Execute(p)
    BY <1>14 DEF N!Execute, N!streams, StreamTypes
<1>15. CASE N!Report(p)
    BY <1>1, <1>3, <1>4, <1>15 DEF N!Report
<1> QED BY <1>2, <1>5, <1>6, <1>7, <1>8, <1>9, <1>10, <1>11, <1>12, <1>13, <1>14, <1>15
        DEF N!NodeStep, N!Connecting, N!Looping, N!Login, N!Listed, N!Relogin, N!Relisted,
            N!Resend, N!Tick, N!Ignored, N!CutFrame, N!Swallow, N!Assigned, N!StreamEnds,
            N!GiveUp, N!Execute, N!Report, N!streams

LEMMA NodeTypesStep ==
  ASSUME NodesInv, NEW p \in Nodes, N!NodeStep(p)
  PROVE  NodeTypes'
<1>1. at[p] # "off" => cur[p] \in Conns
    BY DEF NodesInv, NodeTypes
<1>2. \A c \in Conns : link[c] # "unused" => link'[c] = link[c]
    BY NodeStreams
<1> USE SentinelAssumption, SystemAssumption DEF NodesInv, NodeTypes, N!Goto, N!Steps
<1>3. ASSUME NEW c \in Conns, N!Dial(p, c) PROVE NodeTypes'
    BY <1>2, <1>3 DEF N!Dial, StreamTypes
<1>4. CASE N!Login(p)
    BY <1>4 DEF N!Login
<1>5. CASE N!Listed(p)
    BY <1>5 DEF N!Listed
<1>6. CASE N!Relogin(p)
  <2>1. CASE N!Goto(p, "relist")
      BY <1>6, <2>1 DEF N!Relogin
  <2>2. CASE N!Goto(p, "resend")
      BY <1>6, <2>2 DEF N!Relogin
  <2> QED BY <1>6, <2>1, <2>2 DEF N!Relogin
<1>7. CASE N!Relisted(p)
    BY <1>7 DEF N!Relisted
<1>8. CASE N!Resend(p)
  <2>1. ASSUME NEW t \in resend[p], resend' = [resend EXCEPT ![p] = @ \ {t}], at' = at
        PROVE  NodeTypes'
      BY <1>8, <2>1 DEF N!Resend
  <2>2. CASE resend' = resend /\ N!Goto(p, "loop") /\ resend[p] = {}
      BY <1>8, <2>2 DEF N!Resend
  <2> QED BY <1>8, <2>1, <2>2 DEF N!Resend
<1>9. CASE N!Tick(p)
    BY <1>9 DEF N!Tick
<1>10. CASE N!Ignored(p) \/ N!CutFrame(p) \/ N!Swallow(p)
    BY <1>10 DEF N!Ignored, N!CutFrame, N!Swallow
<1>11. CASE N!Assigned(p)
  <2>1. Head(down[cur[p]]) \in DownFrames
      BY <1>1, <1>11, HeadTailProperties DEF N!Assigned, N!Arrived, StreamTypes
  <2>2. Head(down[cur[p]]).task \in Tasks
      BY <1>11, <2>1 DEF N!Assigned, N!Arrived, DownFrames
  <2> DEFINE t == Head(down[cur[p]]).task
  <2>3. /\ at[p] = "loop" /\ job' = [job EXCEPT ![p] = t] /\ at' = [at EXCEPT ![p] = "execute"]
        /\ UNCHANGED <<link, cur, open, resend, done, again>>
      BY <1>11 DEF N!Assigned
  <2> HIDE DEF t
  <2> QED BY <2>2, <2>3 DEF t
<1>12. CASE N!StreamEnds(p) \/ N!GiveUp(p)
    BY <1>12 DEF N!StreamEnds, N!GiveUp, N!streams
<1>13. CASE N!Execute(p)
    BY <1>13 DEF N!Execute, N!streams
<1>14. CASE N!Report(p)
    BY <1>14 DEF N!Report
<1> QED BY <1>3, <1>4, <1>5, <1>6, <1>7, <1>8, <1>9, <1>10, <1>11, <1>12, <1>13, <1>14
        DEF N!NodeStep, N!Connecting, N!Looping

\* The streams after a step of the master.
LEMMA Delivered ==
  ASSUME StreamTypes, NEW c \in Conns, NEW f \in DownFrames, N!Deliver(c, f)
  PROVE  /\ down' \in [Conns -> Seq(DownFrames)]
         /\ \A d \in Conns : d # c \/ link[d] # "up" => down'[d] = down[d]
         /\ link[c] = "up" => down'[c] = Append(down[c], f)
<1>1. Append(down[c], f) \in Seq(DownFrames)
    BY AppendProperties DEF StreamTypes
<1> QED BY <1>1 DEF N!Deliver, StreamTypes

LEMMA ReceivedKinds ==
  ASSUME StreamTypes, NEW c \in Conns, Handles(c)
  PROVE  /\ up[c] # <<>>
         /\ \/ down' = down
            \/ \E kind \in {"ConnectedNodes", "ConnectionInfo", "HeartbeatAck"} :
                  N!Deliver(c, N!Frame(kind))
  BY DEF Handles, Answers, N!Received

LEMMA MasterStreams ==
  ASSUME TypeOK, NodesInv, NEW c \in Conns, MasterStep(c)
  PROVE  StreamTypes' /\ link' = link
<1> USE DEF NodesInv
<1>1. CASE Handshake(c)
  <2>1. N!Frame("OK") \in DownFrames
      BY FrameTypes DEF N!Down
  <2> QED BY <1>1, <2>1, Delivered DEF Handshake, others, StreamTypes
<1>2. CASE HandleMessage(c)
  <2>1. up[c] # <<>> /\ down' \in [Conns -> Seq(DownFrames)]
        /\ \A d \in Conns : link[d] # "up" => down'[d] = down[d]
    <3>1. \A kind \in {"ConnectedNodes", "ConnectionInfo", "HeartbeatAck"} : N!Frame(kind) \in DownFrames
        BY FrameTypes DEF N!Down
    <3> QED BY <1>2, <3>1, ReceivedKinds, Delivered DEF HandleMessage, StreamTypes
  <2>2. Tail(up[c]) \in Seq(UpFrames)
      BY <2>1, HeadTailProperties DEF StreamTypes
  <2>3. N!ResultsIn(Tail(up[c])) \subseteq Tasks
      BY <2>2, ResultTypes
  <2>4. <<>> \in Seq(UpFrames)
      BY EmptySeq
  <2>5. link' = link /\ (N!Hangup(c) \/ N!Consume(c))
      BY <1>2 DEF HandleMessage, others
  <2> QED BY <2>1, <2>2, <2>3, <2>4, <2>5 DEF StreamTypes, N!Hangup, N!Consume
<1>3. CASE HandleEnd(c)
    BY <1>3 DEF HandleEnd, nodeVars, StreamTypes
<1>4. CASE Dispatch(c)
  <2>1. CASE UNCHANGED nodeVars
      BY <2>1 DEF nodeVars, StreamTypes
  <2>2. CASE UNCHANGED <<up, lost, others>> /\ N!Deliver(c, N!TaskFrame("AssignTask", hand[c])) /\ hand[c] \in Tasks
    <3>1. N!TaskFrame("AssignTask", hand[c]) \in DownFrames
        BY <2>2, FrameTypes
    <3> QED BY <2>2, <3>1, Delivered DEF StreamTypes, others
  <2>3. SendOk(c) => hand[c] \in Tasks
      BY SentinelAssumption DEF TypeOK, SendOk, InHandSteps
  <2> QED BY <1>4, <2>1, <2>2, <2>3 DEF Dispatch
<1>5. CASE HandlerStep(c) /\ UNCHANGED nodeVars
    BY <1>5 DEF nodeVars, StreamTypes
<1> QED BY <1>1, <1>2, <1>3, <1>4, <1>5 DEF MasterStep

\* A step of the master is nothing to the nodes, and one of a connection's
\* handler is nothing to the other handlers.
LEMMA MasterKeepsNodes ==
  ASSUME NEW c \in Conns, MasterStep(c)
  PROVE  UNCHANGED others
  BY DEF MasterStep, Handshake, HandleMessage, HandleEnd, Dispatch, nodeVars, others

LEMMA MasterSteps ==
  ASSUME NEW c \in Conns, MasterStep(c)
  PROVE  \/ Accept(c) /\ link[c] # "unused"
         \/ HandlerStep(c) \/ SendOk(c) \/ SendFail(c)
         \/ RegisterRole(c) \/ Query(c) \/ Heartbeat(c) \/ Leave(c)
         \/ \E t \in Tasks : TaskResult(c, t)
  BY DEF MasterStep, Handshake, HandleMessage, Handles, HandleEnd, Dispatch

LEMMA OwnHandler ==
  ASSUME TypeOK, NEW c \in Conns, MasterStep(c)
  PROVE  /\ \A d \in Conns : d # c => /\ pc'[d] = pc[d] /\ hand'[d] = hand[d]
                                      /\ nodes'[d] = nodes[d] /\ given'[d] = given[d]
         /\ evicted' = evicted
         /\ pc[c] = "new" => link[c] # "unused"
         /\ pc[c] # "new" => pc'[c] # "new"
<1> USE DEF TypeOK, Goto, Drops, Reply, maps, handlerVars, history
<1>1. CASE Accept(c) /\ link[c] # "unused"
    BY <1>1 DEF Accept
<1>2. CASE HandlerStep(c)
  <2>1. CASE CheckRole(c) \/ Pick(c) \/ Requeue(c) \/ ResultPending(c) \/ ResultDone(c)
      BY <2>1 DEF CheckRole, Pick, Requeue, ResultPending, ResultDone
  <2>2. CASE TrackActive(c) \/ UntrackActive(c)
      BY <2>2 DEF TrackActive, UntrackActive, Track, Untrack, AndModify
  <2> QED BY <1>2, <2>1, <2>2 DEF HandlerStep
<1>3. CASE SendOk(c) \/ SendFail(c)
    BY <1>3 DEF SendOk, SendFail
<1>4. CASE RegisterRole(c) \/ Heartbeat(c)
    BY <1>4 DEF RegisterRole, Heartbeat, AndModify
<1>5. CASE Query(c) \/ Leave(c)
    BY <1>5 DEF Query, Leave
<1>6. ASSUME NEW t \in Tasks, TaskResult(c, t)
      PROVE  /\ \A d \in Conns : d # c => /\ pc'[d] = pc[d] /\ hand'[d] = hand[d]
                                          /\ nodes'[d] = nodes[d] /\ given'[d] = given[d]
             /\ evicted' = evicted /\ pc[c] # "new" /\ pc'[c] # "new"
    BY <1>6 DEF TaskResult, Untrack, AndModify
<1> QED BY <1>1, <1>2, <1>3, <1>4, <1>5, <1>6, MasterSteps

\* Steps of nobody's handler.
LEMMA OtherSteps ==
  ASSUME SystemNext \/ UNCHANGED allVars
  PROVE  \/ \E c \in Conns : MasterStep(c)
         \/ \E c \in Conns : N!Break(c) /\ UNCHANGED vars
         \/ \E p \in Nodes : N!NodeStep(p) /\ UNCHANGED vars
         \/ UNCHANGED nodeVars /\ pc' = pc
  BY DEF SystemNext, OutOfTime, Breaks, NodeRuns, CleanupRuns, Operator, Expire, Cleanup,
         Scan, Evict, RequeueOrphans, AddTask, handlerVars, vars, allVars

LEMMA BreakStreams ==
  ASSUME StreamTypes, NEW c \in Conns, N!Break(c)
  PROVE  /\ StreamTypes' /\ link[c] = "up" /\ link' = [link EXCEPT ![c] = "broken"]
         /\ \A d \in Conns : d # c => up'[d] = up[d] /\ down'[d] = down[d]
         /\ \E i \in 0..Len(up[c]) : /\ up'[c] = SubSeq(up[c], 1, i)
                                     /\ lost' = lost \cup N!ResultsIn(SubSeq(up[c], i + 1, Len(up[c])))
         /\ \E j \in 0..Len(down[c]) : down'[c] = SubSeq(down[c], 1, j)
<1>1. PICK i \in 0..Len(up[c]), j \in 0..Len(down[c]) :
         /\ up'   = [up   EXCEPT ![c] = SubSeq(@, 1, i)]
         /\ down' = [down EXCEPT ![c] = SubSeq(@, 1, j)]
         /\ lost' = lost \cup N!ResultsIn(SubSeq(up[c], i + 1, Len(up[c])))
    BY DEF N!Break
<1>2. /\ SubSeq(up[c], 1, i) \in Seq(UpFrames) /\ SubSeq(down[c], 1, j) \in Seq(DownFrames)
      /\ SubSeq(up[c], i + 1, Len(up[c])) \in Seq(UpFrames)
    BY CutTypes DEF StreamTypes
<1>3. N!ResultsIn(SubSeq(up[c], i + 1, Len(up[c]))) \subseteq Tasks
    BY <1>2, ResultTypes
<1>4. link[c] = "up" /\ link' = [link EXCEPT ![c] = "broken"]
    BY DEF N!Break
<1> QED BY <1>1, <1>2, <1>3, <1>4 DEF StreamTypes

LEMMA NodesStep ==
  ASSUME TypeOK, NodesInv, [SystemNext]_allVars
  PROVE  NodesInv'
<1>1. ASSUME NEW c \in Conns, MasterStep(c) PROVE NodesInv'
  <2>1. StreamTypes' /\ NodeTypes' /\ link' = link
      BY <1>1, MasterStreams, MasterKeepsNodes DEF NodesInv, NodeTypes, others
  <2>2. Undialled'
      BY <1>1, <2>1, OwnHandler DEF NodesInv, Undialled
  <2> QED BY <2>1, <2>2 DEF NodesInv
<1>2. ASSUME NEW c \in Conns, N!Break(c), UNCHANGED vars PROVE NodesInv'
  <2>1. StreamTypes' /\ link[c] = "up" /\ link' = [link EXCEPT ![c] = "broken"]
      BY <1>2, BreakStreams DEF NodesInv
  <2>2. UNCHANGED <<at, cur, open, job, resend, done, again, pc>>
      BY <1>2 DEF N!Break, vars, handlerVars
  <2>3. NodeTypes' /\ Undialled'
      BY <2>1, <2>2, SystemAssumption DEF NodesInv, NodeTypes, StreamTypes, Undialled
  <2> QED BY <2>1, <2>3 DEF NodesInv
<1>3. ASSUME NEW p \in Nodes, N!NodeStep(p), UNCHANGED vars PROVE NodesInv'
  <2>1. StreamTypes' /\ NodeTypes' /\ \A c \in Conns : link[c] # "unused" => link'[c] = link[c]
      BY <1>3, NodeStreams, NodeTypesStep
  <2>2. Undialled'
      BY <1>3, <2>1 DEF NodesInv, Undialled, vars, handlerVars
  <2> QED BY <2>1, <2>2 DEF NodesInv
<1>4. CASE UNCHANGED nodeVars /\ pc' = pc
    BY <1>4 DEF NodesInv, StreamTypes, NodeTypes, Undialled, nodeVars
<1> QED BY <1>1, <1>2, <1>3, <1>4, OtherSteps

\* What is proved of the task book alone, of the task book in the cluster.
BookInv == TypeOK /\ CustodyInv /\ GivenOnce

LEMMA BookHolds == SystemSpec => []BookInv
<1>1. CustodyInv /\ GivenOnce => BookInv
    BY DEF BookInv, CustodyInv, Inv
<1> QED BY <1>1, ClusterImplementsMaster, CustodyHolds, PTL

LEMMA NodesHold == SystemSpec => [](BookInv /\ NodesInv)
<1>1. BookInv /\ NodesInv /\ [SystemNext]_allVars => NodesInv'
    BY NodesStep DEF BookInv
<1> QED BY <1>1, NodesInit, BookHolds, PTL DEF SystemSpec

\* The maps of the master, the frames on every stream and the variables of every
\* node keep their types: a node executes exactly while it has a task, it
\* has a stream from its first dialling on (node.rs:24-70), and what it has to
\* send again is in open_tasks (node.rs:339-344).
THEOREM SystemTypeCorrect == SystemSpec => []SystemTypeOK
<1>1. BookInv /\ NodesInv => SystemTypeOK
    BY TypesFollow DEF BookInv, SystemTypeOK
<1> QED BY <1>1, NodesHold, PTL

-----------------------------------------------------------------------------
(* Results are kept.  A result changes hands between a node, a stream and the
   master's handler, and each of them lets go only when the next one has it. *)

\* What a node writes is under way, or swallowed.
LEMMA WrittenResults ==
  ASSUME StreamTypes, NEW c \in Conns, NEW s \in Seq(UpFrames), N!Write(c, s)
  PROVE  /\ lost \subseteq lost'
         /\ \A t \in Tasks : InFlight(t) => InFlight(t)'
         /\ \A t \in Tasks, i \in 1..Len(s) :
              s[i] = N!TaskFrame("TaskResult", t) => InFlight(t)' \/ t \in lost'
<1>0. Len(s) \in Nat /\ DOMAIN s = 1..Len(s)
    BY LenProperties
<1>1. CASE link[c] = "up" /\ up' = [up EXCEPT ![c] = @ \o s] /\ lost' = lost
  <2> DEFINE u == up[c]
             w == u \o s
  <2>1. u \in Seq(UpFrames) /\ Len(u) \in Nat
      BY LenProperties DEF StreamTypes
  <2>2. /\ Len(w) = Len(u) + Len(s)
        /\ \A i \in 1..Len(u) + Len(s) : w[i] = IF i <= Len(u) THEN u[i] ELSE s[i - Len(u)]
      BY <2>1, ConcatProperties
  <2>3. up'[c] = w /\ \A d \in Conns : d # c => up'[d] = up[d]
      BY <1>1 DEF StreamTypes
  <2>4. ASSUME NEW t \in Tasks, InFlight(t) PROVE InFlight(t)'
    <3>0. PICK d \in Conns : \E i \in 1..Len(up[d]) : up[d][i] = N!TaskFrame("TaskResult", t)
        BY <2>4 DEF InFlight
    <3>1. PICK i \in 1..Len(up[d]) : up[d][i] = N!TaskFrame("TaskResult", t)
        BY <3>0
    <3>2. CASE d # c
        BY <2>3, <3>1, <3>2 DEF InFlight
    <3>3. CASE d = c
      <4>1. i \in 1..Len(w) /\ w[i] = N!TaskFrame("TaskResult", t)
          BY <1>0, <2>1, <2>2, <3>1, <3>3
      <4> QED BY <2>3, <4>1 DEF InFlight
    <3> QED BY <3>2, <3>3
  <2>5. ASSUME NEW t \in Tasks, NEW i \in 1..Len(s), s[i] = N!TaskFrame("TaskResult", t)
        PROVE  InFlight(t)'
    <3>1. Len(u) + i \in 1..Len(w) /\ (Len(u) + i) - Len(u) = i /\ ~(Len(u) + i <= Len(u))
        BY <1>0, <2>1, <2>2
    <3>2. w[Len(u) + i] = s[i]
        BY <1>0, <2>1, <2>2, <3>1
    <3> HIDE DEF w
    <3> QED BY <2>3, <2>5, <3>1, <3>2 DEF InFlight
  <2> QED BY <1>1, <2>4, <2>5
<1>2. CASE link[c] = "broken" /\ up' = up /\ lost' = lost \cup N!ResultsIn(s)
  <2>1. \A t \in Tasks, i \in 1..Len(s) : s[i] = N!TaskFrame("TaskResult", t) => t \in N!ResultsIn(s)
      BY <1>0 DEF N!ResultsIn, N!TaskFrame
  <2> QED BY <1>2, <2>1 DEF InFlight
<1> QED BY <1>1, <1>2 DEF N!Write

\* What a connection cuts off when it breaks is swallowed.
LEMMA BrokenResults ==
  ASSUME StreamTypes, NEW c \in Conns, N!Break(c)
  PROVE  /\ lost \subseteq lost'
         /\ \A t \in Tasks : InFlight(t) => InFlight(t)' \/ t \in lost'
<1>1. PICK k \in 0..Len(up[c]) :
        /\ up'[c] = SubSeq(up[c], 1, k)
        /\ lost' = lost \cup N!ResultsIn(SubSeq(up[c], k + 1, Len(up[c])))
    BY BreakStreams
<1> DEFINE u == up[c]
           a == SubSeq(u, 1, k)
           b == SubSeq(u, k + 1, Len(u))
<1>2. u \in Seq(UpFrames) /\ Len(u) \in Nat
    BY LenProperties DEF StreamTypes
<1>3. /\ a \in Seq(UpFrames) /\ Len(a) = k /\ \A i \in 1..k : a[i] = u[i]
      /\ b \in Seq(UpFrames) /\ Len(b) = Len(u) - k /\ \A i \in 1..Len(u) - k : b[i] = u[k + i]
    BY <1>2, CutTypes
<1>4. ASSUME NEW t \in Tasks, InFlight(t) PROVE InFlight(t)' \/ t \in lost'
  <2>0. PICK d \in Conns : \E i \in 1..Len(up[d]) : up[d][i] = N!TaskFrame("TaskResult", t)
      BY <1>4 DEF InFlight
  <2>1. PICK i \in 1..Len(up[d]) : up[d][i] = N!TaskFrame("TaskResult", t)
      BY <2>0
  <2>2. CASE d # c
      BY <2>1, <2>2, BreakStreams DEF InFlight
  <2>3. CASE d = c /\ i <= k
    <3>1. i \in 1..Len(a) /\ a[i] = N!TaskFrame("TaskResult", t)
        BY <1>2, <1>3, <2>1, <2>3
    <3> QED BY <1>1, <3>1 DEF InFlight
  <2>4. CASE d = c /\ i > k
    <3> DEFINE j == i - k
    <3>1. j \in 1..Len(b) /\ j \in 1..Len(u) - k /\ k + j = i
        BY <1>2, <1>3, <2>1, <2>4
    <3> HIDE DEF j
    <3>2. b[j] = N!TaskFrame("TaskResult", t) /\ j \in DOMAIN b
        BY <1>3, <2>1, <2>4, <3>1, LenProperties
    <3> HIDE DEF b
    <3>3. t \in N!ResultsIn(b)
        BY <3>2 DEF N!ResultsIn, N!TaskFrame
    <3> QED BY <1>1, <3>3 DEF b
  <2>5. k \in Nat /\ i \in Nat
      BY <1>2
  <2> QED BY <2>2, <2>3, <2>4, <2>5
<1> QED BY <1>1, <1>4

\* The master takes a frame from the stream.
LEMMA ConsumedResults ==
  ASSUME StreamTypes, NEW c \in Conns, up[c] # <<>>, N!Consume(c) \/ N!Hangup(c)
  PROVE  /\ lost \subseteq lost'
         /\ \A t \in Tasks : InFlight(t) =>
              InFlight(t)' \/ t \in lost' \/ Head(up[c]) = N!TaskFrame("TaskResult", t)
<1> DEFINE u == up[c]
           r == Tail(u)
<1>1. /\ u \in Seq(UpFrames) /\ Len(u) \in Nat /\ Len(u) >= 1
      /\ r \in Seq(UpFrames) /\ Len(r) = Len(u) - 1 /\ DOMAIN r = 1..Len(r)
      /\ Head(u) = u[1] /\ \A i \in 1..Len(r) : r[i] = u[i + 1]
    BY HeadTailProperties, LenProperties, EmptySeq DEF StreamTypes
<1>2. ASSUME NEW t \in Tasks, InFlight(t), Head(u) # N!TaskFrame("TaskResult", t)
      PROVE  InFlight(t)' \/ t \in lost'
  <2>0. PICK d \in Conns : \E i \in 1..Len(up[d]) : up[d][i] = N!TaskFrame("TaskResult", t)
      BY <1>2 DEF InFlight
  <2>1. PICK i \in 1..Len(up[d]) : up[d][i] = N!TaskFrame("TaskResult", t)
      BY <2>0
  <2>2. CASE d # c
    <3>1. up'[d] = up[d]
        BY <2>2 DEF N!Consume, N!Hangup, StreamTypes
    <3> QED BY <2>1, <3>1 DEF InFlight
  <2>3. CASE d = c
    <3> DEFINE j == i - 1
    <3>1. j \in 1..Len(r) /\ r[j] = N!TaskFrame("TaskResult", t)
        BY <1>1, <1>2, <2>1, <2>3
    <3> HIDE DEF j, r
    <3>2. CASE N!Consume(c)
      <4>1. up'[c] = r
          BY <3>2 DEF N!Consume, StreamTypes, r
      <4> QED BY <3>1, <4>1 DEF InFlight
    <3>3. CASE N!Hangup(c)
      <4>1. t \in N!ResultsIn(r)
          BY <1>1, <3>1 DEF N!ResultsIn, N!TaskFrame
      <4> QED BY <3>3, <4>1 DEF N!Hangup, r
    <3> QED BY <3>2, <3>3
  <2> QED BY <2>2, <2>3
<1> QED BY <1>2 DEF N!Consume, N!Hangup

\* What a node's step does to what it knows and to the results under way.
LEMMA NodeResults ==
  ASSUME NodesInv, NEW p \in Nodes, N!NodeStep(p)
  PROVE  /\ lost \subseteq lost'
         /\ \A t \in Tasks : InFlight(t) => InFlight(t)'
         /\ \A q \in Nodes, t \in Tasks : t \in done'[q] => t \in done[q] \/ t \in open'[q]
         /\ \A q \in Nodes, t \in Tasks :
              t \in open[q] => t \in open'[q] \/ InFlight(t)' \/ t \in lost'
<1>1. at[p] # "off" => cur[p] \in Conns
    BY DEF NodesInv, NodeTypes
<1>2. ASSUME NEW s \in Seq(UpFrames), cur[p] \in Conns, N!Write(cur[p], s), done' = done, open' = open
      PROVE  /\ lost \subseteq lost'
             /\ \A t \in Tasks : InFlight(t) => InFlight(t)'
    BY <1>2, WrittenResults DEF NodesInv
<1>3. /\ <<N!Frame("RegisterRole"), N!Frame("GetConnectedNodes")>> \in Seq(UpFrames)
      /\ <<N!Frame("RequestConnection"), N!Frame("Heartbeat")>> \in Seq(UpFrames)
      /\ <<N!Frame("Heartbeat")>> \in Seq(UpFrames)
      /\ <<N!Frame("GetConnectedNodes")>> \in Seq(UpFrames)
      /\ \A t \in Tasks : <<N!TaskFrame("TaskResult", t)>> \in Seq(UpFrames)
  <2>1. N!Frame("RegisterRole") \in UpFrames /\ N!Frame("GetConnectedNodes") \in UpFrames
        /\ N!Frame("RequestConnection") \in UpFrames /\ N!Frame("Heartbeat") \in UpFrames
      BY FrameTypes DEF N!Up
  <2>2. \A t \in Tasks : N!TaskFrame("TaskResult", t) \in UpFrames
      BY FrameTypes
  <2> QED BY <2>1, <2>2
<1>4. CASE up' = up /\ lost' = lost /\ done' = done /\ open' = open
    BY <1>4 DEF InFlight
<1>5. CASE N!Login(p)
    BY <1>1, <1>2, <1>3, <1>4, <1>5 DEF N!Login
<1>6. CASE N!Listed(p)
    BY <1>1, <1>2, <1>3, <1>4, <1>6 DEF N!Listed
<1>7. CASE N!Relogin(p)
    BY <1>1, <1>2, <1>3, <1>4, <1>7 DEF N!Relogin
<1>8. CASE N!Resend(p)
  <2>1. ASSUME NEW t \in resend[p], N!Write(cur[p], <<N!TaskFrame("TaskResult", t)>>)
        PROVE  lost \subseteq lost' /\ \A u \in Tasks : InFlight(u) => InFlight(u)'
    <3>1. t \in Tasks /\ cur[p] \in Conns /\ done' = done /\ open' = open
        BY <1>1, <1>8 DEF N!Resend, NodesInv, NodeTypes
    <3> QED BY <1>2, <1>3, <2>1, <3>1
  <2> QED BY <1>4, <1>8, <2>1 DEF N!Resend
<1>9. CASE N!Tick(p)
    BY <1>1, <1>2, <1>3, <1>4, <1>9 DEF N!Tick
<1>10. CASE N!Execute(p)
    BY <1>10 DEF N!Execute, N!streams, InFlight, NodesInv, NodeTypes
<1>11. CASE N!Report(p)
  <2> PICK t \in Tasks : t = job[p]
      BY <1>11 DEF N!Report, NodesInv, NodeTypes
  <2> DEFINE s == <<N!TaskFrame("TaskResult", t)>>
  <2>1. cur[p] \in Conns /\ done' = done
      BY <1>1, <1>11 DEF N!Report
  <2>2. CASE N!Write(cur[p], s) /\ open' = [open EXCEPT ![p] = @ \ {t}]
    <3>1. s \in Seq(UpFrames) /\ 1 \in 1..Len(s) /\ s[1] = N!TaskFrame("TaskResult", t)
        BY <1>3
    <3> HIDE DEF s
    <3>2. PICK c \in Conns : c = cur[p]
        BY <2>1
    <3>3. /\ lost \subseteq lost'
          /\ \A u \in Tasks : InFlight(u) => InFlight(u)'
          /\ InFlight(t)' \/ t \in lost'
        BY <2>2, <3>1, <3>2, WrittenResults DEF NodesInv
    <3>4. \A q \in Nodes, u \in Tasks : u \in open[q] => u \in open'[q] \/ u = t
        BY <2>2 DEF NodesInv, NodeTypes
    <3> QED BY <2>1, <3>3, <3>4
  <2> QED BY <1>4, <1>11, <2>1, <2>2 DEF N!Report
<1> QED BY <1>4, <1>5, <1>6, <1>7, <1>8, <1>9, <1>10, <1>11
        DEF N!NodeStep, N!Connecting, N!Looping, N!Dial, N!Relisted, N!Ignored, N!Assigned,
            N!StreamEnds, N!CutFrame, N!Swallow, N!GiveUp, N!streams

\* The master's handler takes a result in before it lets go of the stream.
LEMMA MasterResults ==
  ASSUME TypeOK, NodesInv, NEW c \in Conns, MasterStep(c)
  PROVE  /\ lost \subseteq lost' /\ completed \subseteq completed'
         /\ \A t \in Tasks : InFlight(t) =>
              InFlight(t)' \/ t \in lost' \/ (hand'[c] = t /\ pc'[c] = "resultPending")
         /\ \A d \in Conns, t \in Tasks :
              hand[d] = t /\ pc[d] \in ResultSteps =>
                (hand'[d] = t /\ pc'[d] \in ResultSteps) \/ t \in completed'
<1>1. completed \subseteq completed' /\ \A t \in Tasks :
        hand[c] = t /\ pc[c] \in ResultSteps =>
          (hand'[c] = t /\ pc'[c] \in ResultSteps) \/ t \in completed'
  <2>1. CASE HandlerStep(c)
      BY <2>1 DEF HandlerStep, CheckRole, Pick, TrackActive, Requeue, UntrackActive,
                  ResultPending, ResultDone, Goto, ResultSteps, TypeOK, maps
  <2>2. CASE ~HandlerStep(c)
    <3>1. pc[c] \in {"new", "send", "read"} /\ completed' = completed
        BY <2>2, MasterSteps DEF Accept, SendOk, SendFail, RegisterRole, Query, Heartbeat, Leave,
                                 TaskResult, maps
    <3> QED BY <3>1 DEF ResultSteps
  <2> QED BY <2>1, <2>2
<1>2. lost \subseteq lost' /\ \A t \in Tasks : InFlight(t) =>
        InFlight(t)' \/ t \in lost' \/ (hand'[c] = t /\ pc'[c] = "resultPending")
  <2>1. CASE HandleMessage(c)
    <3>1. up[c] # <<>> /\ (N!Consume(c) \/ N!Hangup(c)) /\ Handles(c)
        BY <2>1, ReceivedKinds DEF HandleMessage, NodesInv
    <3>2. \A t \in Tasks : Head(up[c]) = N!TaskFrame("TaskResult", t) =>
            hand'[c] = t /\ pc'[c] = "resultPending"
      <4>1. ASSUME NEW t \in Tasks, Head(up[c]) = N!TaskFrame("TaskResult", t)
            PROVE  TaskResult(c, t)
        <5>1. /\ \A u \in Tasks : N!TaskFrame("TaskResult", u) = N!TaskFrame("TaskResult", t) => u = t
              /\ \A kind : kind # "TaskResult" => N!Frame(kind) # N!TaskFrame("TaskResult", t)
            BY DEF N!Frame, N!TaskFrame
        <5>2. PICK u \in Tasks : Head(up[c]) = N!TaskFrame("TaskResult", u) /\ TaskResult(c, u)
            BY <3>1, <4>1, <5>1 DEF Handles, N!Received
        <5> QED BY <4>1, <5>1, <5>2
      <4> QED BY <4>1 DEF TaskResult, Goto, TypeOK
    <3> QED BY <3>1, <3>2, ConsumedResults DEF NodesInv
  <2>2. CASE up' = up /\ lost' = lost
      BY <2>2 DEF InFlight
  <2> QED BY <2>1, <2>2 DEF MasterStep, Handshake, HandleEnd, Dispatch, nodeVars
<1>3. \A d \in Conns : d # c => pc'[d] = pc[d] /\ hand'[d] = hand[d]
    BY OwnHandler
<1> QED BY <1>1, <1>2, <1>3

LEMMA ResultKeptStep ==
  ASSUME TypeOK, NodesInv, ResultKept, [SystemNext]_allVars
  PROVE  ResultKept'
<1> SUFFICES ASSUME NEW p \in Nodes, NEW t \in Tasks, t \in done'[p]
             PROVE  \/ t \in completed' \cup lost' \cup open'[p]
                    \/ InFlight(t)'
                    \/ \E c \in Conns : hand'[c] = t /\ pc'[c] \in ResultSteps
  <2>1. NodesInv'
      BY NodesStep
  <2> QED BY <2>1 DEF ResultKept, ResultSteps, NodesInv, NodeTypes
<1>1. t \in done[p] => \/ t \in completed \cup lost \cup open[p]
                       \/ InFlight(t)
                       \/ \E c \in Conns : hand[c] = t /\ pc[c] \in ResultSteps
    BY DEF ResultKept, ResultSteps
<1>2. ASSUME NEW c \in Conns, MasterStep(c)
      PROVE  \/ t \in completed' \cup lost' \cup open'[p]
             \/ InFlight(t)'
             \/ \E d \in Conns : hand'[d] = t /\ pc'[d] \in ResultSteps
  <2>1. done' = done /\ open' = open
      BY <1>2, MasterKeepsNodes DEF others
  <2> QED BY <1>1, <1>2, <2>1, MasterResults DEF ResultSteps
<1>3. ASSUME NEW c \in Conns, N!Break(c), UNCHANGED vars
      PROVE  \/ t \in completed' \cup lost' \cup open'[p]
             \/ InFlight(t)'
             \/ \E d \in Conns : hand'[d] = t /\ pc'[d] \in ResultSteps
  <2>1. done' = done /\ open' = open /\ completed' = completed /\ hand' = hand /\ pc' = pc
      BY <1>3 DEF N!Break, vars, maps, handlerVars
  <2> QED BY <1>1, <1>3, <2>1, BrokenResults DEF NodesInv
<1>4. ASSUME NEW q \in Nodes, N!NodeStep(q), UNCHANGED vars
      PROVE  \/ t \in completed' \cup lost' \cup open'[p]
             \/ InFlight(t)'
             \/ \E d \in Conns : hand'[d] = t /\ pc'[d] \in ResultSteps
  <2>1. completed' = completed /\ hand' = hand /\ pc' = pc
      BY <1>4 DEF vars, maps, handlerVars
  <2> QED BY <1>1, <1>4, <2>1, NodeResults
<1>5. CASE UNCHANGED <<nodeVars, completed, hand, pc>>
    BY <1>1, <1>5 DEF nodeVars, InFlight
<1>6. CASE UNCHANGED nodeVars /\ ~ \E c \in Conns : MasterStep(c)
  <2>1. UNCHANGED <<completed, hand, pc>>
      BY <1>6 DEF SystemNext, OutOfTime, Breaks, NodeRuns, CleanupRuns, Operator, Expire, Cleanup, Scan,
                  Evict, RequeueOrphans, AddTask, handlerVars, maps, vars, allVars
  <2> QED BY <1>5, <1>6, <2>1
<1> QED BY <1>2, <1>3, <1>4, <1>6, OtherSteps

\* The result of every executed task is with the master, under way, in the
\* node's open_tasks or swallowed by a broken connection, however often the node
\* fails to send it, reconnects and sends it again (node.rs:175-181, 339-344),
\* and whatever the handler that reads it is interrupted by (lib.rs:375-389).
THEOREM ResultsKept == SystemSpec => []ResultKept
<1>1. SystemInit => ResultKept
    BY DEF SystemInit, N!NodeInit, ResultKept
<1>2. BookInv /\ NodesInv /\ ResultKept /\ [SystemNext]_allVars => ResultKept'
    BY ResultKeptStep DEF BookInv
<1> QED BY <1>1, <1>2, NodesHold, PTL DEF SystemSpec

-----------------------------------------------------------------------------
(* No task before the first heartbeat.  While a node waits for the answer to
   its token and for the list of nodes, the master does not know it for a worker,
   so that the next frame it gets is the one it waits for. *)

RoleFrame == N!Frame("RegisterRole")
ListFrame == N!Frame("GetConnectedNodes")

Waiting(p) == at[p] \in {"auth", "reauth"}
Asking(p)  == at[p] \in {"list", "relist"}

\* What may be on the stream of such a node, and who it is for the master.
TokenOnly(c) == up[c] = <<>> /\ down[c] \in {<<>>, <<N!Frame("OK")>>}
ListOnly(c) ==
    /\ pc[c] # "new"
    /\ \/ down[c] = <<>> /\ up[c] \in {<<>>, <<RoleFrame>>, <<ListFrame>>, <<RoleFrame, ListFrame>>}
       \/ down[c] = <<N!Frame("ConnectedNodes")>> /\ up[c] = <<>>
Stranger(c) ==
    /\ pc[c] \in {"new", "check", "read", "ghost", "closed"}
    /\ Present(c) => ~nodes[c].isWorker
    /\ pc[c] = "new" => down[c] = <<>>

Introductions ==
    \A p \in Nodes :
        /\ Waiting(p) \/ Asking(p) => Stranger(cur[p])
        /\ Waiting(p) => TokenOnly(cur[p])
        /\ Asking(p)  => ListOnly(cur[p])

\* Two nodes never use the same stream, and nobody touches another's.
LEMMA OwnStream ==
  ASSUME NodesInv, NEW p \in Nodes, NEW q \in Nodes, cur[p] \in Conns, cur[q] = cur[p]
  PROVE  p = q
  BY SystemAssumption DEF NodesInv, NodeTypes

LEMMA NodeOwn ==
  ASSUME NodesInv, NEW p \in Nodes, N!NodeStep(p)
  PROVE  /\ \A d \in Conns : d # cur[p] => up'[d] = up[d] /\ down'[d] = down[d]
         /\ \A q \in Nodes : q # p => cur'[q] = cur[q] /\ at'[q] = at[q]
<1> USE DEF NodesInv, StreamTypes, NodeTypes, N!Goto, N!Take, N!Write, N!streams
<1>1. CASE N!Connecting(p) \/ N!GiveUp(p)
  <2>1. CASE N!Login(p) \/ N!Listed(p)
      BY <2>1 DEF N!Login, N!Listed
  <2>2. CASE N!Relogin(p) \/ N!Relisted(p) \/ N!Resend(p) \/ N!GiveUp(p) \/ \E c \in Conns : N!Dial(p, c)
      BY <2>2 DEF N!Relogin, N!Relisted, N!Resend, N!GiveUp, N!Dial
  <2> QED BY <1>1, <2>1, <2>2 DEF N!Connecting
<1>2. CASE N!Looping(p)
    BY <1>2 DEF N!Looping, N!Tick, N!Ignored, N!Assigned, N!StreamEnds, N!CutFrame, N!Swallow,
                N!Execute, N!Report
<1> QED BY <1>1, <1>2 DEF N!NodeStep

LEMMA MasterOwn ==
  ASSUME NodesInv, NEW c \in Conns, MasterStep(c)
  PROVE  \A d \in Conns : d # c => up'[d] = up[d] /\ down'[d] = down[d]
<1> USE DEF NodesInv, StreamTypes, N!Deliver, N!Consume, N!Hangup
<1>1. CASE HandleMessage(c)
    BY <1>1, ReceivedKinds DEF HandleMessage
<1> QED BY <1>1 DEF MasterStep, Handshake, HandleEnd, Dispatch, nodeVars

\* The frames a node introduces itself with, and what reading or cutting such a
\* short stream leaves.
LEMMA ShortTuples ==
  /\ \A f : Head(<<f>>) = f /\ Tail(<<f>>) = <<>>
  /\ \A f, g : Head(<<f, g>>) = f /\ Tail(<<f, g>>) = <<g>>
  OBVIOUS

LEMMA ShortCuts ==
  ASSUME NEW S, NEW s \in Seq(S), NEW k \in 0..Len(s)
  PROVE  /\ Len(s) = k => SubSeq(s, 1, k) = s
         /\ k = 0 => SubSeq(s, 1, k) = <<>>
         /\ k = 1 => SubSeq(s, 1, k) = <<s[1]>>
<1> DEFINE r == SubSeq(s, 1, k)
<1>1. r \in Seq(S) /\ Len(r) = k /\ \A i \in 1..k : r[i] = s[i]
    BY CutTypes
<1>2. Len(s) \in Nat
    BY LenProperties
<1> HIDE DEF r
<1>3. Len(s) = k => r = s
    BY <1>1, <1>2, SeqEqual
<1>4. k = 0 => r = <<>>
    BY <1>1, EmptySeq
<1>5. ASSUME k = 1 PROVE r = <<s[1]>>
  <2>1. s[1] \in S
      BY <1>5, ElementOfSeq
  <2>2. <<s[1]>> \in Seq(S) /\ Len(<<s[1]>>) = 1 /\ <<s[1]>>[1] = s[1]
      BY <2>1
  <2> QED BY <1>1, <1>5, <2>2, SeqEqual
<1> QED BY <1>3, <1>4, <1>5 DEF r

LEMMA FirstFrames ==
  /\ RoleFrame # ListFrame
  /\ \A kind : N!Frame(kind) = RoleFrame => kind = "RegisterRole"
  /\ \A kind : N!Frame(kind) = ListFrame => kind = "GetConnectedNodes"
  /\ \A t : N!TaskFrame("TaskResult", t) \notin {RoleFrame, ListFrame}
  BY DEF RoleFrame, ListFrame, N!Frame, N!TaskFrame

\* The master and a node that is still introducing itself.
LEMMA StrangerStep ==
  ASSUME TypeOK, NodesInv, NEW c \in Conns, MasterStep(c), Stranger(c), TokenOnly(c) \/ ListOnly(c)
  PROVE  /\ Stranger(c)'
         /\ TokenOnly(c) => TokenOnly(c)'
         /\ ListOnly(c) => ListOnly(c)'
<1>1. CASE Handshake(c)
  <2>1. /\ pc[c] = "new" /\ pc'[c] = "check" /\ up' = up /\ ~nodes'[c].isWorker
        /\ down[c] = <<>> /\ down'[c] \in {<<>>, <<N!Frame("OK")>>}
      BY <1>1, SentinelAssumption
      DEF Handshake, Accept, Goto, TypeOK, Stranger, N!Deliver, NodesInv, StreamTypes
  <2> QED BY <2>1 DEF Stranger, TokenOnly, ListOnly
<1>2. CASE HandleMessage(c)
  <2>1. up[c] \in {<<RoleFrame>>, <<ListFrame>>, <<RoleFrame, ListFrame>>} /\ down[c] = <<>> /\ ListOnly(c)
      BY <1>2, ReceivedKinds DEF HandleMessage, NodesInv, TokenOnly, ListOnly
  <2>2. /\ Head(up[c]) \in {RoleFrame, ListFrame} /\ Tail(up[c]) \in {<<>>, <<ListFrame>>}
        /\ Head(up[c]) = ListFrame => Tail(up[c]) = <<>>
      BY <2>1, ShortTuples, FirstFrames
  <2>3. \/ Head(up[c]) = RoleFrame /\ RegisterRole(c) /\ down' = down
        \/ Head(up[c]) = ListFrame /\ Query(c) /\ Answers(c, "ConnectedNodes")
    <3>1. Handles(c)
        BY <1>2 DEF HandleMessage
    <3>2. \A kind : Head(up[c]) = N!Frame(kind) => kind \in {"RegisterRole", "GetConnectedNodes"}
        BY <2>2, FirstFrames
    <3>3. \A t \in Tasks : Head(up[c]) # N!TaskFrame("TaskResult", t)
        BY <2>2, FirstFrames
    <3> QED BY <3>1, <3>2, <3>3 DEF Handles, N!Received, RoleFrame, ListFrame
  <2>4. up'[c] = <<>> \/ up'[c] = Tail(up[c])
      BY <1>2 DEF HandleMessage, N!Hangup, N!Consume, NodesInv, StreamTypes
  <2>5. /\ pc'[c] \in {"check", "ghost"}
        /\ Present(c)' => ~nodes'[c].isWorker
      BY <2>3, SentinelAssumption
      DEF RegisterRole, Query, Reply, Goto, AndModify, Present, Stranger, TypeOK, NodeInfo, maps
  <2>6. CASE Head(up[c]) = RoleFrame /\ down' = down
    <3>1. up'[c] \in {<<>>, <<ListFrame>>} /\ down'[c] = <<>>
        BY <2>1, <2>2, <2>4, <2>6
    <3> QED BY <2>1, <2>5, <3>1 DEF Stranger, ListOnly, TokenOnly
  <2>7. CASE Head(up[c]) = ListFrame /\ Answers(c, "ConnectedNodes")
    <3>1. up'[c] = <<>>
        BY <2>2, <2>4, <2>7
    <3>2. down'[c] \in {<<>>, <<N!Frame("ConnectedNodes")>>}
        BY <2>1, <2>7 DEF Answers, N!Deliver, NodesInv, StreamTypes
    <3>3. ListOnly(c)' /\ Stranger(c)'
        BY <2>5, <3>1, <3>2 DEF Stranger, ListOnly
    <3>4. ~TokenOnly(c)
        BY <2>1 DEF TokenOnly
    <3> QED BY <3>3, <3>4
  <2> QED BY <2>3, <2>6, <2>7
<1>3. CASE HandleEnd(c)
    BY <1>3, SentinelAssumption
    DEF HandleEnd, Leave, Goto, nodeVars, Present, TypeOK, Stranger, TokenOnly, ListOnly
<1>4. CASE Dispatch(c)
    BY <1>4 DEF Dispatch, SendOk, SendFail, Stranger
<1>5. CASE HandlerStep(c) /\ UNCHANGED nodeVars
  <2>1. CheckRole(c)
      BY <1>5 DEF HandlerStep, Stranger, Pick, TrackActive, Requeue, UntrackActive, ResultPending, ResultDone
  <2> QED BY <1>5, <2>1 DEF CheckRole, Goto, nodeVars, maps, Present, TypeOK, Stranger, TokenOnly, ListOnly
<1> QED BY <1>1, <1>2, <1>3, <1>4, <1>5 DEF MasterStep

\* A connection that breaks under it.
LEMMA StrangerBreaks ==
  ASSUME NodesInv, NEW c \in Conns, N!Break(c), UNCHANGED vars, Stranger(c)
  PROVE  /\ Stranger(c)'
         /\ TokenOnly(c) => TokenOnly(c)'
         /\ ListOnly(c) => ListOnly(c)'
<1>1. PICK i \in 0..Len(up[c]) : up'[c] = SubSeq(up[c], 1, i)
    BY BreakStreams DEF NodesInv
<1>2. PICK j \in 0..Len(down[c]) : down'[c] = SubSeq(down[c], 1, j)
    BY BreakStreams DEF NodesInv
<1>3. up[c] \in Seq(UpFrames) /\ down[c] \in Seq(DownFrames)
    BY DEF NodesInv, StreamTypes
<1>4. /\ \A f : Len(<<f>>) = 1 /\ <<f>>[1] = f
      /\ \A f, g : Len(<<f, g>>) = 2 /\ <<f, g>>[1] = f
      /\ Len(<<>>) = 0
    OBVIOUS
<1>5. ASSUME NEW S, NEW s \in Seq(S), NEW k \in 0..Len(s)
      PROVE  /\ s = <<>> => SubSeq(s, 1, k) = <<>>
             /\ \A f : s = <<f>> => SubSeq(s, 1, k) \in {<<>>, <<f>>}
             /\ \A f, g : s = <<f, g>> => SubSeq(s, 1, k) \in {<<>>, <<f>>, <<f, g>>}
  <2>1. s = <<>> => SubSeq(s, 1, k) = <<>>
      BY <1>4, ShortCuts
  <2>2. \A f : s = <<f>> => SubSeq(s, 1, k) \in {<<>>, <<f>>}
    <3> SUFFICES ASSUME NEW f, s = <<f>> PROVE SubSeq(s, 1, k) \in {<<>>, s}
        OBVIOUS
    <3>1. k = 0 \/ k = Len(s)
        BY <1>4
    <3> QED BY <3>1, ShortCuts
  <2>3. \A f, g : s = <<f, g>> => SubSeq(s, 1, k) \in {<<>>, <<f>>, <<f, g>>}
    <3> SUFFICES ASSUME NEW f, NEW g, s = <<f, g>> PROVE SubSeq(s, 1, k) \in {<<>>, <<f>>, s}
        OBVIOUS
    <3>1. (k = 0 \/ k = 1 \/ k = Len(s)) /\ s[1] = f
        BY <1>4
    <3> QED BY <3>1, ShortCuts
  <2> QED BY <2>1, <2>2, <2>3
<1>6. /\ down[c] = <<>> => down'[c] = <<>>
      /\ up[c] = <<>> => up'[c] = <<>>
      /\ \A f : down[c] = <<f>> => down'[c] \in {<<>>, <<f>>}
      /\ \A f : up[c] = <<f>> => up'[c] \in {<<>>, <<f>>}
      /\ \A f, g : up[c] = <<f, g>> => up'[c] \in {<<>>, <<f>>, <<f, g>>}
  <2>1. /\ down[c] = <<>> => down'[c] = <<>>
        /\ \A f : down[c] = <<f>> => down'[c] \in {<<>>, <<f>>}
      BY <1>2, <1>3, <1>5
  <2>2. /\ up[c] = <<>> => up'[c] = <<>>
        /\ \A f : up[c] = <<f>> => up'[c] \in {<<>>, <<f>>}
        /\ \A f, g : up[c] = <<f, g>> => up'[c] \in {<<>>, <<f>>, <<f, g>>}
    <3> DEFINE s == up[c]
               r == SubSeq(s, 1, i)
    <3>1. /\ s = <<>> => r = <<>>
          /\ \A f : s = <<f>> => r \in {<<>>, <<f>>}
          /\ \A f, g : s = <<f, g>> => r \in {<<>>, <<f>>, <<f, g>>}
        BY <1>3, <1>5
    <3>2. up'[c] = r
        BY <1>1
    <3> HIDE DEF s, r
    <3> QED BY <3>1, <3>2 DEF s
  <2> QED BY <2>1, <2>2
<1>7. pc' = pc /\ nodes' = nodes
    BY DEF vars, maps, handlerVars
<1>8. Stranger(c)'
    BY <1>6, <1>7 DEF Stranger, Present
<1>9. TokenOnly(c) => TokenOnly(c)'
    BY <1>6 DEF TokenOnly
<1>10. ListOnly(c) => ListOnly(c)'
    BY <1>6, <1>7 DEF ListOnly
<1> QED BY <1>8, <1>9, <1>10

\* Whatever else happens makes no node a worker.
LEMMA OutsiderSteps ==
  ASSUME TypeOK, SystemNext \/ UNCHANGED allVars
  PROVE  \/ \E c \in Conns : MasterStep(c)
         \/ \E c \in Conns : N!Break(c) /\ UNCHANGED vars
         \/ \E p \in Nodes : N!NodeStep(p) /\ UNCHANGED vars
         \/ /\ UNCHANGED <<nodeVars, pc, given>> /\ evicted \subseteq evicted'
            /\ \A d \in Conns : Present(d)' => Present(d) /\ (nodes'[d].isWorker => nodes[d].isWorker)
<1> DEFINE Calm == /\ UNCHANGED <<nodeVars, pc, given>> /\ evicted \subseteq evicted'
                   /\ \A d \in Conns :
                        Present(d)' => Present(d) /\ (nodes'[d].isWorker => nodes[d].isWorker)
<1>1. ASSUME NEW c \in Conns, OutOfTime(c) PROVE Calm
    BY <1>1, SentinelAssumption DEF OutOfTime, Expire, Present, TypeOK, NodeInfo, handlerVars, history
<1>2. CASE CleanupRuns
    BY <1>2, SentinelAssumption
    DEF CleanupRuns, Cleanup, Scan, Evict, RequeueOrphans, Present, TypeOK, maps, handlerVars, history
<1>3. CASE Operator
    BY <1>3 DEF Operator, AddTask, Present, handlerVars
<1>4. CASE UNCHANGED allVars
    BY <1>4 DEF allVars, vars, maps, handlerVars, history, Present
<1> QED BY <1>1, <1>2, <1>3, <1>4 DEF SystemNext, Breaks, NodeRuns

\* A node that dials is new to the master; one that gets past its token asks for the list.
LEMMA NodeIntroduces ==
  ASSUME BookInv, NodesInv, Introductions, NEW p \in Nodes, N!NodeStep(p), UNCHANGED vars
  PROVE  /\ Waiting(p)' \/ Asking(p)' => Stranger(cur[p])'
         /\ Waiting(p)' => TokenOnly(cur[p])'
         /\ Asking(p)'  => ListOnly(cur[p])'
<1> USE DEF N!Goto, N!Steps
<1>0. /\ at[p] # "off" => cur[p] \in Conns
      /\ at \in [Nodes -> N!Steps] /\ cur \in [Nodes -> Conns \cup {NoConn}]
      /\ pc' = pc /\ nodes' = nodes
    BY DEF NodesInv, NodeTypes, vars, maps, handlerVars
<1>1. ASSUME NEW c \in Conns, N!Dial(p, c)
      PROVE  Stranger(cur[p])' /\ TokenOnly(cur[p])' /\ ~Asking(p)'
  <2>1. pc[c] = "new" /\ up[c] = <<>> /\ down[c] = <<>> /\ ~Present(c)
      BY <1>1 DEF N!Dial, BookInv, CustodyInv, Inv, Bookkeeping, FreshConn, NodesInv, Undialled, StreamTypes
  <2>2. cur'[p] = c /\ at'[p] \in {"auth", "reauth"} /\ up' = up /\ down' = down
      BY <1>0, <1>1 DEF N!Dial
  <2> QED BY <1>0, <2>1, <2>2 DEF Stranger, TokenOnly, Asking, Present
<1> DEFINE c == cur[p]
<1>2. CASE N!Login(p) \/ N!Relogin(p)
  <2>1. Waiting(p) /\ c \in Conns /\ cur' = cur
      BY <1>0, <1>2 DEF N!Login, N!Relogin, Waiting
  <2>2. Stranger(c) /\ TokenOnly(c)
      BY <2>1 DEF Introductions
  <2>3. down[c] = <<N!Frame("OK")>> /\ down'[c] = Tail(down[c])
      BY <1>2, <2>1, <2>2 DEF N!Login, N!Relogin, N!Arrived, N!Take, TokenOnly, NodesInv, StreamTypes
  <2>4. down'[c] = <<>> /\ pc[c] # "new"
      BY <2>2, <2>3, ShortTuples DEF Stranger
  <2>5. <<>> \o <<RoleFrame, ListFrame>> = <<RoleFrame, ListFrame>> /\ <<>> \o <<ListFrame>> = <<ListFrame>>
      OBVIOUS
  <2>6. up'[c] \in {<<>>, <<RoleFrame, ListFrame>>, <<ListFrame>>}
      BY <1>2, <2>1, <2>2, <2>5
      DEF N!Login, N!Relogin, N!Write, TokenOnly, NodesInv, StreamTypes, RoleFrame, ListFrame
  <2>7. ~Waiting(p)'
      BY <1>0, <1>2 DEF N!Login, N!Relogin, Waiting
  <2>8. Stranger(c)' /\ ListOnly(c)'
      BY <1>0, <2>1, <2>2, <2>4, <2>6 DEF Stranger, ListOnly, Present
  <2> QED BY <2>7, <2>8
<1>3. CASE ~(\E d \in Conns : N!Dial(p, d)) /\ ~N!Login(p) /\ ~N!Relogin(p)
  <2>1. CASE N!Listed(p) \/ N!Relisted(p) \/ N!Resend(p) \/ N!GiveUp(p)
      BY <1>0, <2>1 DEF N!Listed, N!Relisted, N!Resend, N!GiveUp, Waiting, Asking
  <2>2. CASE N!Looping(p)
      BY <1>0, <2>2 DEF N!Looping, N!Tick, N!Ignored, N!Assigned, N!StreamEnds, N!CutFrame, N!Swallow,
                        N!Execute, N!Report, Waiting, Asking
  <2> QED BY <1>3, <2>1, <2>2 DEF N!NodeStep, N!Connecting
<1> QED BY <1>1, <1>2, <1>3

LEMMA IntroductionsStep ==
  ASSUME BookInv, NodesInv, Introductions, [SystemNext]_allVars
  PROVE  Introductions'
<1> SUFFICES ASSUME NEW p \in Nodes
             PROVE  /\ Waiting(p)' \/ Asking(p)' => Stranger(cur[p])'
                    /\ Waiting(p)' => TokenOnly(cur[p])'
                    /\ Asking(p)'  => ListOnly(cur[p])'
    BY DEF Introductions
<1> DEFINE Kept == at'[p] = at[p] /\ cur'[p] = cur[p]
<1>0. Waiting(p) \/ Asking(p) => cur[p] \in Conns /\ Stranger(cur[p])
    BY DEF Introductions, NodesInv, NodeTypes, Waiting, Asking
<1>1. ASSUME NEW c \in Conns, c = cur[p], Kept,
             Stranger(c) /\ (TokenOnly(c) \/ ListOnly(c)) =>
                /\ Stranger(c)'
                /\ TokenOnly(c) => TokenOnly(c)'
                /\ ListOnly(c) => ListOnly(c)'
      PROVE  /\ Waiting(p)' \/ Asking(p)' => Stranger(cur[p])'
             /\ Waiting(p)' => TokenOnly(cur[p])'
             /\ Asking(p)'  => ListOnly(cur[p])'
    BY <1>1 DEF Introductions, Waiting, Asking, Stranger, TokenOnly, ListOnly, Present
<1>2. ASSUME Kept, cur[p] \in Conns => /\ up'[cur[p]] = up[cur[p]] /\ down'[cur[p]] = down[cur[p]]
                                       /\ pc'[cur[p]] = pc[cur[p]]
                                       /\ Present(cur[p])' => /\ Present(cur[p])
                                                              /\ nodes'[cur[p]].isWorker => nodes[cur[p]].isWorker
      PROVE  /\ Waiting(p)' \/ Asking(p)' => Stranger(cur[p])'
             /\ Waiting(p)' => TokenOnly(cur[p])'
             /\ Asking(p)'  => ListOnly(cur[p])'
    BY <1>0, <1>2 DEF Introductions, Waiting, Asking, Stranger, TokenOnly, ListOnly, Present
<1> DEFINE Goal == /\ Waiting(p)' \/ Asking(p)' => Stranger(cur[p])'
                   /\ Waiting(p)' => TokenOnly(cur[p])'
                   /\ Asking(p)'  => ListOnly(cur[p])'
<1>3. ASSUME NEW c \in Conns, MasterStep(c) PROVE Goal
  <2>1. Kept
      BY <1>3, MasterKeepsNodes DEF others
  <2>2. CASE c = cur[p]
      BY <1>1, <1>3, <2>1, <2>2, StrangerStep DEF BookInv
  <2>3. CASE c # cur[p]
      BY <1>2, <1>3, <2>1, <2>3, MasterOwn, OwnHandler DEF BookInv, Present
  <2> QED BY <2>2, <2>3
<1>4. ASSUME NEW c \in Conns, N!Break(c), UNCHANGED vars PROVE Goal
  <2>1. Kept /\ pc' = pc /\ nodes' = nodes
      BY <1>4 DEF N!Break, vars, maps, handlerVars
  <2>2. CASE c = cur[p]
      BY <1>1, <1>4, <2>1, <2>2, StrangerBreaks
  <2>3. CASE c # cur[p]
      BY <1>2, <1>4, <2>1, <2>3, BreakStreams DEF NodesInv, Present
  <2> QED BY <2>2, <2>3
<1>5. ASSUME NEW q \in Nodes, N!NodeStep(q), UNCHANGED vars PROVE Goal
  <2>1. CASE q = p
      BY <1>5, <2>1, NodeIntroduces
  <2>2. CASE q # p
    <3>1. Kept /\ pc' = pc /\ nodes' = nodes
        BY <1>5, <2>2, NodeOwn DEF vars, maps, handlerVars
    <3>2. cur[p] \in Conns => cur[p] # cur[q]
        BY <2>2, OwnStream
    <3> QED BY <1>2, <1>5, <3>1, <3>2, NodeOwn DEF Present
  <2> QED BY <2>1, <2>2
<1>6. CASE /\ UNCHANGED <<nodeVars, pc>>
           /\ \A d \in Conns : Present(d)' => Present(d) /\ (nodes'[d].isWorker => nodes[d].isWorker)
    BY <1>2, <1>6 DEF nodeVars
<1> QED BY <1>3, <1>4, <1>5, <1>6, OutsiderSteps DEF BookInv

\* Between asking for the list of nodes and getting it, a node is sent nothing
\* else: it is no worker for the master until its first heartbeat, however often
\* its connection breaks and it starts again on another one (node.rs:56-65,
\* 333-338; lib.rs:120-123).
THEOREM NoTaskIsSwallowed == SystemSpec => []NoTaskSwallowed
<1>1. SystemInit => Introductions
    BY DEF SystemInit, N!NodeInit, Introductions, Waiting, Asking
<1>2. BookInv /\ NodesInv /\ Introductions /\ [SystemNext]_allVars => Introductions'
    BY IntroductionsStep
<1>3. Introductions => NoTaskSwallowed
    BY ShortTuples DEF Introductions, NoTaskSwallowed, Asking, ListOnly
<1> QED BY <1>1, <1>2, <1>3, NodesHold, PTL DEF SystemSpec

-----------------------------------------------------------------------------
(* No task is executed twice before the first eviction.  A task that was sent
   is in one place from then on: one frame on one stream, one node at work on
   it, or done.  It is given before any of that, and given only once. *)

Sent(c, i, t)  == i \in 1..Len(down[c]) /\ down[c][i] = N!TaskFrame("AssignTask", t)
Executes(p, t) == at[p] = "execute" /\ job[p] = t
Given(t)       == \E c \in Conns : t \in given[c]

Unread(t) ==
    \A c \in Conns, i \in Nat : Sent(c, i, t) =>
        /\ Given(t)
        /\ \A d \in Conns, j \in Nat : Sent(d, j, t) => d = c /\ j = i
        /\ \A p \in Nodes : ~Executes(p, t) /\ t \notin done[p]
AtWork(t) ==
    \A p \in Nodes : Executes(p, t) =>
        /\ Given(t)
        /\ \A q \in Nodes : t \notin done[q] /\ (Executes(q, t) => q = p)
DoneGiven(t) == \A p \in Nodes : t \in done[p] => Given(t)

OneToken(t)  == Unread(t) /\ AtWork(t) /\ DoneGiven(t)
ExecutedOnce == evicted = {} => again = {} /\ \A t \in Tasks : OneToken(t)

\* Frames that are read, cut or left alone, and nothing new for the nodes.
LEMMA TokenStays ==
  ASSUME NEW t \in Tasks, OneToken(t), NEW shift \in [Conns -> Nat],
         \A c \in Conns, i \in Nat : Sent(c, i, t)' => Sent(c, i + shift[c], t),
         \A c \in Conns : given[c] \subseteq given'[c],
         \A p \in Nodes : /\ Executes(p, t)' => Executes(p, t)
                          /\ t \in done'[p] => t \in done[p]
  PROVE  OneToken(t)'
<1>1. Given(t) => Given(t)'
    BY DEF Given
<1>2. Unread(t)'
  <2> SUFFICES ASSUME NEW c \in Conns, NEW i \in Nat, Sent(c, i, t)'
               PROVE  /\ Given(t)'
                      /\ \A d \in Conns, j \in Nat : Sent(d, j, t)' => d = c /\ j = i
                      /\ \A p \in Nodes : ~Executes(p, t)' /\ t \notin done'[p]
      BY DEF Unread
  <2>1. Sent(c, i + shift[c], t) /\ i + shift[c] \in Nat
      OBVIOUS
  <2>2. /\ Given(t)
        /\ \A d \in Conns, j \in Nat : Sent(d, j, t) => d = c /\ j = i + shift[c]
        /\ \A p \in Nodes : ~Executes(p, t) /\ t \notin done[p]
      BY <2>1 DEF OneToken, Unread
  <2>3. ASSUME NEW d \in Conns, NEW j \in Nat, Sent(d, j, t)' PROVE d = c /\ j = i
    <3>1. Sent(d, j + shift[d], t) /\ j + shift[d] \in Nat
        BY <2>3
    <3>2. d = c /\ j + shift[d] = i + shift[c]
        BY <2>2, <3>1
    <3> QED BY <3>2
  <2> QED BY <1>1, <2>2, <2>3
<1>3. AtWork(t)' /\ DoneGiven(t)'
    BY <1>1 DEF OneToken, AtWork, DoneGiven
<1> QED BY <1>2, <1>3 DEF OneToken

\* Only an assignment adds one to a stream.
LEMMA DeliveredTokens ==
  ASSUME StreamTypes, NEW c \in Conns, NEW f \in DownFrames, N!Deliver(c, f)
  PROVE  \A t \in Tasks, d \in Conns, i \in Nat : Sent(d, i, t)' =>
           \/ Sent(d, i, t)
           \/ f = N!TaskFrame("AssignTask", t) /\ d = c /\ i = Len(down[c]) + 1
<1> SUFFICES ASSUME NEW t \in Tasks, NEW d \in Conns, NEW i \in Nat, Sent(d, i, t)'
             PROVE  \/ Sent(d, i, t)
                    \/ f = N!TaskFrame("AssignTask", t) /\ d = c /\ i = Len(down[c]) + 1
    OBVIOUS
<1>1. CASE d # c \/ link[c] # "up"
    BY <1>1, Delivered DEF Sent, N!Deliver
<1>2. CASE d = c /\ link[c] = "up"
  <2> DEFINE s == down[c]
             r == Append(s, f)
  <2>1. s \in Seq(DownFrames) /\ Len(s) \in Nat
      BY LenProperties DEF StreamTypes
  <2>2. /\ Len(r) = Len(s) + 1 /\ r[Len(s) + 1] = f
        /\ \A j \in 1..Len(s) : r[j] = s[j]
      BY <2>1, AppendProperties
  <2>3. down'[c] = r
      BY <1>2, Delivered
  <2>4. i \in 1..Len(r) /\ r[i] = N!TaskFrame("AssignTask", t)
      BY <1>2, <2>3 DEF Sent
  <2> HIDE DEF r
  <2>5. i \in 1..Len(s) \/ i = Len(s) + 1
      BY <2>1, <2>2, <2>4
  <2> QED BY <1>2, <2>1, <2>2, <2>4, <2>5 DEF Sent
<1> QED BY <1>1, <1>2

LEMMA MasterTokens ==
  ASSUME TypeOK, NodesInv, NEW c \in Conns, MasterStep(c)
  PROVE  /\ \A d \in Conns : given[d] \subseteq given'[d]
         /\ \A t \in Tasks, d \in Conns, i \in Nat : Sent(d, i, t)' =>
              \/ Sent(d, i, t)
              \/ SendOk(c) /\ hand[c] = t /\ d = c /\ i = Len(down[c]) + 1
<1>1. \A d \in Conns : given[d] \subseteq given'[d]
  <2>1. given' = given \/ SendOk(c)
      BY MasterSteps
      DEF HandlerStep, CheckRole, Pick, TrackActive, Requeue, UntrackActive, ResultPending, ResultDone,
          Accept, SendFail, RegisterRole, Query, Heartbeat, Leave, TaskResult, history
  <2> QED BY <2>1 DEF SendOk, TypeOK
<1>2. /\ \A kind \in {"OK", "ConnectedNodes", "ConnectionInfo", "HeartbeatAck"} : N!Frame(kind) \in DownFrames
      /\ \A kind \in {"OK", "ConnectedNodes", "ConnectionInfo", "HeartbeatAck"}, t \in Tasks :
            N!Frame(kind) # N!TaskFrame("AssignTask", t)
  <2>1. \A kind \in {"OK", "ConnectedNodes", "ConnectionInfo", "HeartbeatAck"} : N!Frame(kind) \in DownFrames
      BY FrameTypes DEF N!Down
  <2> QED BY <2>1 DEF N!Frame, N!TaskFrame
<1>3. CASE down' = down
    BY <1>1, <1>3 DEF Sent
<1>4. ASSUME NEW kind \in {"OK", "ConnectedNodes", "ConnectionInfo", "HeartbeatAck"}, N!Deliver(c, N!Frame(kind))
      PROVE  \A t \in Tasks, d \in Conns, i \in Nat : Sent(d, i, t)' => Sent(d, i, t)
    BY <1>2, <1>4, DeliveredTokens DEF NodesInv
<1>5. CASE SendOk(c) /\ N!Deliver(c, N!TaskFrame("AssignTask", hand[c]))
  <2>1. hand[c] \in Tasks
      BY <1>5, SentinelAssumption DEF TypeOK, SendOk, InHandSteps
  <2>2. N!TaskFrame("AssignTask", hand[c]) \in DownFrames
      BY <2>1, FrameTypes
  <2>3. \A t : N!TaskFrame("AssignTask", hand[c]) = N!TaskFrame("AssignTask", t) => hand[c] = t
      BY DEF N!TaskFrame
  <2> QED BY <1>1, <1>5, <2>2, <2>3, DeliveredTokens DEF NodesInv
<1>6. CASE HandleMessage(c)
    BY <1>1, <1>3, <1>4, <1>6, ReceivedKinds DEF HandleMessage, NodesInv
<1> QED BY <1>1, <1>3, <1>4, <1>5, <1>6 DEF MasterStep, Handshake, HandleEnd, Dispatch, nodeVars

\* A node takes frames from the front of its stream ...
LEMMA TakenTokens ==
  ASSUME NodesInv, NEW p \in Nodes, N!NodeStep(p)
  PROVE  \E shift \in [Conns -> Nat] :
            /\ \A t \in Tasks, c \in Conns, i \in Nat : Sent(c, i, t)' => Sent(c, i + shift[c], t)
            /\ N!Assigned(p) => shift[cur[p]] = 1
<1>1. at[p] # "off" => cur[p] \in Conns
    BY DEF NodesInv, NodeTypes
<1>2. CASE cur[p] \in Conns /\ down[cur[p]] # <<>> /\ N!Take(p)
  <2> DEFINE c == cur[p]
             s == down[c]
             r == Tail(s)
  <2>1. /\ s \in Seq(DownFrames) /\ Len(s) \in Nat /\ Len(r) = Len(s) - 1
        /\ \A i \in 1..Len(r) : r[i] = s[i + 1]
      BY <1>2, HeadTailProperties, LenProperties DEF NodesInv, StreamTypes
  <2>2. down'[c] = r /\ \A d \in Conns : d # c => down'[d] = down[d]
      BY <1>2 DEF N!Take, NodesInv, StreamTypes
  <2> DEFINE shift == [d \in Conns |-> IF d = c THEN 1 ELSE 0]
  <2>3. ASSUME NEW t \in Tasks, NEW d \in Conns, NEW i \in Nat, Sent(d, i, t)'
        PROVE  Sent(d, i + shift[d], t)
    <3>1. CASE d = c
      <4>1. i \in 1..Len(r) /\ r[i] = N!TaskFrame("AssignTask", t)
          BY <2>2, <2>3, <3>1 DEF Sent
      <4>2. shift[d] = 1
          BY <3>1
      <4> HIDE DEF r, shift
      <4>3. i + 1 \in 1..Len(s) /\ s[i + 1] = N!TaskFrame("AssignTask", t)
          BY <2>1, <4>1
      <4> QED BY <3>1, <4>2, <4>3 DEF Sent
    <3>2. CASE d # c
      <4>1. shift[d] = 0 /\ i + 0 = i
          BY <3>2
      <4> QED BY <2>2, <2>3, <3>2, <4>1 DEF Sent
    <3> QED BY <3>1, <3>2
  <2>4. shift \in [Conns -> Nat] /\ shift[c] = 1
      BY <1>2
  <2> HIDE DEF shift
  <2> QED BY <2>3, <2>4
<1>3. CASE down' = down /\ ~N!Assigned(p)
  <2> DEFINE shift == [c \in Conns |-> 0]
  <2>1. \A c \in Conns, i \in Nat : i + shift[c] = i
      OBVIOUS
  <2>2. shift \in [Conns -> Nat]
      OBVIOUS
  <2> HIDE DEF shift
  <2>3. \A t \in Tasks, c \in Conns, i \in Nat : Sent(c, i, t)' => Sent(c, i + shift[c], t)
      BY <1>3, <2>1 DEF Sent
  <2> QED BY <1>3, <2>2, <2>3
<1>4. CASE N!Connecting(p) \/ N!GiveUp(p)
  <2>1. ~N!Assigned(p)
      BY <1>4 DEF N!Assigned, N!Connecting, N!GiveUp, N!Dial, N!Login, N!Listed, N!Relogin, N!Relisted, N!Resend
  <2> QED BY <1>1, <1>2, <1>3, <1>4, <2>1
      DEF N!Connecting, N!GiveUp, N!Dial, N!Login, N!Listed, N!Relogin, N!Relisted, N!Resend,
          N!Arrived, N!streams
<1>5. CASE N!Looping(p)
  <2>1. CASE N!Assigned(p)
      BY <1>1, <1>2, <2>1 DEF N!Assigned, N!Arrived
  <2>2. CASE ~N!Assigned(p)
      BY <1>1, <1>2, <1>3, <1>5, <2>2
      DEF N!Looping, N!Tick, N!Ignored, N!StreamEnds, N!CutFrame, N!Swallow, N!Execute, N!Report, N!streams
  <2> QED BY <2>1, <2>2
<1> QED BY <1>4, <1>5 DEF N!NodeStep

\* ... and works on the task it has read, once.
LEMMA WorkTokens ==
  ASSUME NodesInv, NEW p \in Nodes, N!NodeStep(p)
  PROVE  /\ \A q \in Nodes, t \in Tasks : Executes(q, t)' =>
              \/ Executes(q, t)
              \/ q = p /\ N!Assigned(p) /\ cur[p] \in Conns /\ Sent(cur[p], 1, t)
         /\ \A q \in Nodes, t \in Tasks : t \in done'[q] =>
              t \in done[q] \/ (q = p /\ N!Execute(p) /\ Executes(p, t))
         /\ again' = again \/ (N!Execute(p) /\ \E q \in Nodes : job[p] \in done[q])
         /\ N!Execute(p) => \A t \in Tasks : Executes(p, t) => t \in done'[p] /\ ~Executes(p, t)'
<1> USE DEF NodesInv, NodeTypes, N!Goto, N!Steps, Executes
<1>1. CASE N!Connecting(p) \/ N!GiveUp(p)
  <2>1. job' = job /\ done' = done /\ again' = again /\ ~N!Execute(p)
      BY <1>1 DEF N!Connecting, N!GiveUp, N!Dial, N!Login, N!Listed, N!Relogin, N!Relisted, N!Resend, N!Execute
  <2>2. \A q \in Nodes : at'[q] = "execute" => at[q] = "execute"
      BY <1>1 DEF N!Connecting, N!GiveUp, N!Dial, N!Login, N!Listed, N!Relogin, N!Relisted, N!Resend
  <2> QED BY <2>1, <2>2
<1>2. CASE N!Tick(p) \/ N!Ignored(p) \/ N!StreamEnds(p) \/ N!CutFrame(p) \/ N!Swallow(p) \/ N!Report(p)
  <2>1. done' = done /\ again' = again /\ ~N!Execute(p)
      BY <1>2 DEF N!Tick, N!Ignored, N!StreamEnds, N!CutFrame, N!Swallow, N!Report, N!Execute
  <2>2. \A q \in Nodes : at'[q] = "execute" => at[q] = "execute" /\ job'[q] = job[q]
      BY <1>2 DEF N!Tick, N!Ignored, N!StreamEnds, N!CutFrame, N!Swallow, N!Report
  <2> QED BY <2>1, <2>2
<1>3. CASE N!Assigned(p)
  <2>1. /\ at[p] = "loop" /\ cur[p] \in Conns /\ down[cur[p]] # <<>>
        /\ Head(down[cur[p]]).kind = "AssignTask"
        /\ at' = [at EXCEPT ![p] = "execute"] /\ job' = [job EXCEPT ![p] = Head(down[cur[p]]).task]
        /\ done' = done /\ again' = again
      BY <1>3 DEF N!Assigned, N!Arrived
  <2> DEFINE s == down[cur[p]]
             f == Head(s)
  <2>2. s \in Seq(DownFrames) /\ f = s[1] /\ f \in DownFrames /\ 1 \in 1..Len(s)
      BY <2>1, HeadTailProperties, EmptySeq DEF StreamTypes
  <2>3. f = N!TaskFrame("AssignTask", f.task)
      BY <2>1, <2>2 DEF DownFrames, N!Frames, N!TaskFrame
  <2>4. Sent(cur[p], 1, f.task)
      BY <2>2, <2>3 DEF Sent
  <2>5. job'[p] = f.task /\ \A q \in Nodes : q # p => job'[q] = job[q] /\ at'[q] = at[q]
      BY <2>1
  <2> HIDE DEF f, s
  <2>6. ~N!Execute(p)
      BY <2>1 DEF N!Execute
  <2> QED BY <1>3, <2>1, <2>4, <2>5, <2>6
<1>4. CASE N!Execute(p)
    BY <1>4 DEF N!Execute
<1> QED BY <1>1, <1>2, <1>3, <1>4 DEF N!NodeStep, N!Looping

LEMMA MasterExecutesOnce ==
  ASSUME BookInv, NodesInv, NEW c \in Conns, MasterStep(c), evicted = {}, NEW t \in Tasks, OneToken(t)
  PROVE  OneToken(t)'
<1>1. /\ \A p \in Nodes, u \in Tasks : Executes(p, u)' => Executes(p, u)
      /\ done' = done
    BY MasterKeepsNodes DEF others, Executes
<1>2. /\ \A d \in Conns : given[d] \subseteq given'[d]
      /\ \A u \in Tasks, d \in Conns, i \in Nat : Sent(d, i, u)' =>
           \/ Sent(d, i, u)
           \/ SendOk(c) /\ hand[c] = u /\ d = c /\ i = Len(down[c]) + 1
    BY MasterTokens DEF BookInv
<1>3. CASE SendOk(c) /\ hand[c] = t
  <2>1. pc[c] = "send" /\ t \in given'[c]
      BY <1>3 DEF SendOk, BookInv, TypeOK
  <2>2. ~Given(t)
      BY <1>3, <2>1 DEF BookInv, GivenOnce, Given, ResultSteps
  <2>3. /\ \A d \in Conns, i \in Nat : ~Sent(d, i, t)
        /\ \A p \in Nodes : ~Executes(p, t) /\ t \notin done[p]
      BY <2>2 DEF OneToken, Unread, AtWork, DoneGiven
  <2>4. Given(t)'
      BY <2>1 DEF Given
  <2>5. \A d \in Conns, i \in Nat : Sent(d, i, t)' => d = c /\ i = Len(down[c]) + 1
      BY <1>2, <2>3
  <2>6. Unread(t)'
      BY <1>1, <2>3, <2>4, <2>5 DEF Unread
  <2> QED BY <1>1, <2>3, <2>4, <2>6 DEF OneToken, AtWork, DoneGiven
<1>4. CASE ~(SendOk(c) /\ hand[c] = t)
  <2> DEFINE shift == [d \in Conns |-> 0]
  <2>1. shift \in [Conns -> Nat] /\ \A d \in Conns, i \in Nat : i + shift[d] = i
      OBVIOUS
  <2> HIDE DEF shift
  <2>2. \A d \in Conns, i \in Nat : Sent(d, i, t)' => Sent(d, i + shift[d], t)
      BY <1>2, <1>4, <2>1
  <2>3. \A p \in Nodes : (Executes(p, t)' => Executes(p, t)) /\ (t \in done'[p] => t \in done[p])
      BY <1>1
  <2> QED BY <1>2, <2>1, <2>2, <2>3, TokenStays
<1> QED BY <1>3, <1>4

LEMMA BreakTokens ==
  ASSUME NodesInv, NEW c \in Conns, N!Break(c), UNCHANGED vars, NEW t \in Tasks, OneToken(t)
  PROVE  OneToken(t)'
<1>1. PICK j \in 0..Len(down[c]) : down'[c] = SubSeq(down[c], 1, j)
    BY BreakStreams DEF NodesInv
<1> DEFINE s == down[c]
           r == SubSeq(s, 1, j)
<1>2. s \in Seq(DownFrames) /\ Len(s) \in Nat
    BY LenProperties DEF NodesInv, StreamTypes
<1>3. Len(r) = j /\ \A k \in 1..j : r[k] = s[k]
    BY <1>2, CutTypes
<1> DEFINE shift == [d \in Conns |-> 0]
<1>4. shift \in [Conns -> Nat] /\ \A d \in Conns, i \in Nat : i + shift[d] = i
    OBVIOUS
<1>5. ASSUME NEW d \in Conns, NEW i \in Nat, Sent(d, i, t)' PROVE Sent(d, i, t)
  <2>1. CASE d # c
      BY <1>5, <2>1, BreakStreams DEF Sent, NodesInv
  <2>2. CASE d = c
    <3>1. i \in 1..Len(r) /\ r[i] = N!TaskFrame("AssignTask", t)
        BY <1>1, <1>5, <2>2 DEF Sent
    <3> HIDE DEF r
    <3>2. i \in 1..Len(s) /\ s[i] = N!TaskFrame("AssignTask", t)
        BY <1>2, <1>3, <3>1
    <3> QED BY <2>2, <3>2 DEF Sent
  <2> QED BY <2>1, <2>2
<1>6. \A p \in Nodes : (Executes(p, t)' => Executes(p, t)) /\ (t \in done'[p] => t \in done[p])
    BY DEF N!Break, Executes
<1>7. given' = given
    BY DEF vars, history
<1> HIDE DEF shift, r, s
<1> QED BY <1>4, <1>5, <1>6, <1>7, TokenStays

LEMMA NodeExecutesOnce ==
  ASSUME NodesInv, NEW p \in Nodes, N!NodeStep(p), UNCHANGED vars,
         again = {}, \A t \in Tasks : OneToken(t)
  PROVE  again' = {} /\ \A t \in Tasks : OneToken(t)'
<1> PICK shift \in [Conns -> Nat] :
       /\ \A t \in Tasks, c \in Conns, i \in Nat : Sent(c, i, t)' => Sent(c, i + shift[c], t)
       /\ N!Assigned(p) => shift[cur[p]] = 1
    BY TakenTokens
<1>1. given' = given
    BY DEF vars, history
<1>2. again' = {}
  <2>1. N!Execute(p) => \E t \in Tasks : t = job[p] /\ Executes(p, t)
      BY DEF N!Execute, NodesInv, NodeTypes, Executes
  <2>2. N!Execute(p) => \A q \in Nodes : job[p] \notin done[q]
      BY <2>1 DEF OneToken, AtWork
  <2> QED BY <2>2, WorkTokens
<1>3. ASSUME NEW t \in Tasks PROVE OneToken(t)'
  <2> /\ \A q \in Nodes : Executes(q, t)' =>
           \/ Executes(q, t)
           \/ q = p /\ N!Assigned(p) /\ cur[p] \in Conns /\ Sent(cur[p], 1, t)
      /\ \A q \in Nodes : t \in done'[q] =>
           t \in done[q] \/ (q = p /\ N!Execute(p) /\ Executes(p, t))
      /\ N!Execute(p) /\ Executes(p, t) => t \in done'[p] /\ ~Executes(p, t)'
      BY WorkTokens
  <2>0. OneToken(t) /\ (Given(t)' <=> Given(t))
      BY <1>1 DEF Given
  <2>1. CASE N!Assigned(p) /\ cur[p] \in Conns /\ Sent(cur[p], 1, t)
    <3>1. /\ Given(t)
          /\ \A d \in Conns, j \in Nat : Sent(d, j, t) => d = cur[p] /\ j = 1
          /\ \A q \in Nodes : ~Executes(q, t) /\ t \notin done[q]
        BY <2>0, <2>1 DEF OneToken, Unread
    <3>2. \A d \in Conns, i \in Nat : ~Sent(d, i, t)'
      <4> SUFFICES ASSUME NEW d \in Conns, NEW i \in Nat, Sent(d, i, t)' PROVE FALSE
          OBVIOUS
      <4>1. Sent(d, i + shift[d], t) /\ i + shift[d] \in Nat
          OBVIOUS
      <4>2. d = cur[p] /\ i + shift[d] = 1
          BY <3>1, <4>1
      <4>3. shift[d] = 1
          BY <2>1, <4>2
      <4>4. i = 0
          BY <4>2, <4>3
      <4> QED BY <4>4 DEF Sent
    <3>3. /\ \A q \in Nodes : Executes(q, t)' => q = p
          /\ \A q \in Nodes : t \notin done'[q]
        BY <3>1
    <3> QED BY <2>0, <3>1, <3>2, <3>3 DEF OneToken, Unread, AtWork, DoneGiven
  <2>2. CASE N!Execute(p) /\ Executes(p, t)
    <3>1. /\ Given(t)
          /\ \A q \in Nodes : t \notin done[q] /\ (Executes(q, t) => q = p)
          /\ \A d \in Conns, i \in Nat : ~Sent(d, i, t)
        BY <2>0, <2>2 DEF OneToken, AtWork, Unread
    <3>2. \A d \in Conns, i \in Nat : ~Sent(d, i, t)'
      <4> SUFFICES ASSUME NEW d \in Conns, NEW i \in Nat, Sent(d, i, t)' PROVE FALSE
          OBVIOUS
      <4>1. Sent(d, i + shift[d], t) /\ i + shift[d] \in Nat
          OBVIOUS
      <4> QED BY <3>1, <4>1
    <3>3. \A q \in Nodes : ~Executes(q, t)'
      <4>1. ~(cur[p] \in Conns /\ Sent(cur[p], 1, t))
          BY <3>1
      <4> QED BY <2>2, <3>1, <4>1
    <3> QED BY <2>0, <3>1, <3>2, <3>3 DEF OneToken, Unread, AtWork, DoneGiven
  <2>3. CASE /\ ~(N!Assigned(p) /\ cur[p] \in Conns /\ Sent(cur[p], 1, t))
             /\ ~(N!Execute(p) /\ Executes(p, t))
    <3>1. \A q \in Nodes : (Executes(q, t)' => Executes(q, t)) /\ (t \in done'[q] => t \in done[q])
        BY <2>3
    <3> QED BY <1>1, <2>0, <3>1, TokenStays
  <2> QED BY <2>1, <2>2, <2>3
<1> QED BY <1>2, <1>3

LEMMA ExecutedOnceStep ==
  ASSUME BookInv, NodesInv, ExecutedOnce, [SystemNext]_allVars
  PROVE  ExecutedOnce'
<1>1. ASSUME NEW c \in Conns, MasterStep(c) PROVE ExecutedOnce'
  <2>1. evicted' = evicted /\ again' = again
      BY <1>1, OwnHandler, MasterKeepsNodes DEF BookInv, others
  <2> QED BY <1>1, <2>1, MasterExecutesOnce DEF ExecutedOnce
<1>2. ASSUME NEW c \in Conns, N!Break(c), UNCHANGED vars PROVE ExecutedOnce'
  <2>1. evicted' = evicted /\ again' = again
      BY <1>2 DEF N!Break, vars, history
  <2> QED BY <1>2, <2>1, BreakTokens DEF ExecutedOnce
<1>3. ASSUME NEW p \in Nodes, N!NodeStep(p), UNCHANGED vars PROVE ExecutedOnce'
  <2>1. evicted' = evicted
      BY <1>3 DEF vars, history
  <2> QED BY <1>3, <2>1, NodeExecutesOnce DEF ExecutedOnce
<1>4. CASE UNCHANGED <<nodeVars, pc, given>> /\ evicted \subseteq evicted'
    BY <1>4 DEF ExecutedOnce, OneToken, Unread, AtWork, DoneGiven, Sent, Executes, Given, nodeVars
<1> QED BY <1>1, <1>2, <1>3, <1>4, OutsiderSteps DEF BookInv

\* Breaking connections, failed dispatches, new streams of the same node and
\* results sent again never get a task executed a second time; an eviction can
\* (lib.rs:125-175, node.rs:115-150, 339-344).
THEOREM ExecutedOnceUntilEviction == SystemSpec => []RunTwiceOnlyAfterEviction
<1>1. SystemInit => ExecutedOnce
    BY DEF SystemInit, N!NodeInit, ExecutedOnce, OneToken, Unread, AtWork, DoneGiven, Sent, Executes
<1>2. BookInv /\ NodesInv /\ ExecutedOnce /\ [SystemNext]_allVars => ExecutedOnce'
    BY ExecutedOnceStep
<1>3. ExecutedOnce => RunTwiceOnlyAfterEviction
    BY DEF ExecutedOnce, RunTwiceOnlyAfterEviction
<1> QED BY <1>1, <1>2, <1>3, NodesHold, PTL DEF SystemSpec

-----------------------------------------------------------------------------
(* No assignment is lost on a connection that works.  A node leaves its stream
   only when that is broken, so that of its connections at most the one it uses
   works; and a frame it takes from there is an assignment only if it executes it,
   unless it is deaf. *)

CurrentWorks ==
    \A p \in Nodes : \A c \in ConnsOf[p] :
        link[c] = "up" => cur[p] = c /\ at[p] \notin {"off", "redial", "stopped"}

Kept(p, t) ==
    \/ \E i \in Nat : Sent(cur[p], i, t)
    \/ Executes(p, t)
    \/ t \in done[p]
    \/ at[p] = "deaf"

AllKept == \A p \in Nodes, t \in Tasks : AssignedTo(p, t) => Kept(p, t)

\* Where a node's step leads: it dials, or stays on its stream.
LEMMA NodeStays ==
  ASSUME NodesInv, NEW p \in Nodes, N!NodeStep(p)
  PROVE  \/ \E c \in Conns : N!Dial(p, c)
         \/ /\ link' = link /\ cur' = cur
            /\ at'[p] \in {"off", "redial", "stopped"} =>
                  N!Broken(cur[p]) \/ at[p] \in {"off", "redial", "stopped"}
            /\ at[p] = "deaf" => at'[p] = "deaf" \/ N!Broken(cur[p])
            /\ \A t \in Tasks : t \in done[p] => t \in done'[p]
            /\ \A t \in Tasks : Executes(p, t) => Executes(p, t)' \/ t \in done'[p]
<1> USE DEF N!Goto, N!streams, Executes
<1>1. at \in [Nodes -> N!Steps] /\ done \in [Nodes -> SUBSET Tasks]
    BY DEF NodesInv, NodeTypes
<1>2. CASE N!Login(p) \/ N!Listed(p)
    BY <1>1, <1>2 DEF N!Login, N!Listed
<1>3. CASE N!Relogin(p) \/ N!Relisted(p) \/ N!Resend(p) \/ N!GiveUp(p)
    BY <1>1, <1>3 DEF N!Relogin, N!Relisted, N!Resend, N!GiveUp, N!ReadFails
<1>4. CASE N!Tick(p) \/ N!Ignored(p) \/ N!StreamEnds(p)
    BY <1>1, <1>4 DEF N!Tick, N!Ignored, N!StreamEnds, N!ReadFails
<1>5. CASE N!Assigned(p) \/ N!CutFrame(p) \/ N!Swallow(p)
    BY <1>1, <1>5 DEF N!Assigned, N!CutFrame, N!Swallow
<1>6. CASE N!Execute(p) \/ N!Report(p)
    BY <1>1, <1>6 DEF N!Execute, N!Report
<1> QED BY <1>2, <1>3, <1>4, <1>5, <1>6 DEF N!NodeStep, N!Connecting, N!Looping

\* A node's step is nothing to the work of the others.
LEMMA NodeWorks ==
  ASSUME NodesInv, NEW p \in Nodes, N!NodeStep(p)
  PROVE  \A q \in Nodes : q # p => job'[q] = job[q] /\ done'[q] = done[q]
<1>1. job \in [Nodes -> Tasks \cup {NoTask}] /\ done \in [Nodes -> SUBSET Tasks]
    BY DEF NodesInv, NodeTypes
<1>2. CASE N!Connecting(p) \/ N!GiveUp(p)
    BY <1>2 DEF N!Connecting, N!GiveUp, N!Dial, N!Login, N!Listed, N!Relogin, N!Relisted, N!Resend
<1>3. CASE N!Looping(p)
    BY <1>1, <1>3 DEF N!Looping, N!Tick, N!Ignored, N!Assigned, N!StreamEnds, N!CutFrame, N!Swallow,
                      N!Execute, N!Report
<1> QED BY <1>2, <1>3 DEF N!NodeStep

LEMMA CurrentStep ==
  ASSUME TypeOK, NodesInv, CurrentWorks, [SystemNext]_allVars
  PROVE  CurrentWorks'
<1>1. ASSUME NEW c \in Conns, MasterStep(c) PROVE CurrentWorks'
  <2>1. link' = link /\ cur' = cur /\ at' = at
      BY <1>1, MasterStreams, MasterKeepsNodes DEF others
  <2> QED BY <2>1 DEF CurrentWorks
<1>2. ASSUME NEW c \in Conns, N!Break(c), UNCHANGED vars PROVE CurrentWorks'
  <2>1. link' = [link EXCEPT ![c] = "broken"] /\ cur' = cur /\ at' = at
      BY <1>2 DEF N!Break
  <2>2. \A d \in Conns : link'[d] = "up" => link[d] = "up"
      BY <2>1 DEF NodesInv, StreamTypes
  <2> QED BY <2>1, <2>2, SystemAssumption DEF CurrentWorks
<1>3. ASSUME NEW p \in Nodes, N!NodeStep(p), UNCHANGED vars PROVE CurrentWorks'
  <2> SUFFICES ASSUME NEW q \in Nodes, NEW d \in ConnsOf[q], link'[d] = "up"
               PROVE  cur'[q] = d /\ at'[q] \notin {"off", "redial", "stopped"}
      BY DEF CurrentWorks
  <2>0. d \in Conns
      BY SystemAssumption
  <2>1. CASE q # p
    <3>1. cur'[q] = cur[q] /\ at'[q] = at[q]
        BY <1>3, <2>1, NodeOwn
    <3>2. link[d] = "up"
      <4>1. ASSUME NEW c \in Conns, N!Dial(p, c) PROVE c # d /\ link'[d] = link[d]
        <5>1. c \in ConnsOf[p] /\ link' = [link EXCEPT ![c] = "up"]
            BY <4>1 DEF N!Dial
        <5>2. c # d
            BY <2>1, <5>1, SystemAssumption
        <5> QED BY <2>0, <5>1, <5>2 DEF NodesInv, StreamTypes
      <4> QED BY <1>3, <4>1, NodeStays
    <3> QED BY <3>1, <3>2 DEF CurrentWorks
  <2>2. CASE q = p /\ \E c \in Conns : N!Dial(p, c)
    <3>1. PICK c \in Conns : N!Dial(p, c)
        BY <2>2
    <3>2. /\ at[p] \in {"off", "redial"} /\ link' = [link EXCEPT ![c] = "up"]
          /\ cur' = [cur EXCEPT ![p] = c] /\ at' = [at EXCEPT ![p] = IF at[p] = "off" THEN "auth" ELSE "reauth"]
        BY <3>1 DEF N!Dial, N!Goto
    <3>3. link[d] # "up"
        BY <2>2, <3>2 DEF CurrentWorks
    <3>4. d = c
        BY <2>0, <3>2, <3>3 DEF NodesInv, StreamTypes
    <3> QED BY <2>2, <3>2, <3>4 DEF NodesInv, NodeTypes
  <2>3. CASE q = p /\ ~\E c \in Conns : N!Dial(p, c)
    <3>1. /\ link' = link /\ cur' = cur
          /\ at'[p] \in {"off", "redial", "stopped"} =>
                N!Broken(cur[p]) \/ at[p] \in {"off", "redial", "stopped"}
        BY <1>3, <2>3, NodeStays
    <3>2. cur[p] = d /\ at[p] \notin {"off", "redial", "stopped"} /\ ~N!Broken(d)
        BY <2>3, <3>1 DEF CurrentWorks, N!Broken
    <3> QED BY <2>3, <3>1, <3>2
  <2> QED BY <2>1, <2>2, <2>3
<1>4. CASE UNCHANGED nodeVars /\ pc' = pc
    BY <1>4 DEF CurrentWorks, nodeVars
<1> QED BY <1>1, <1>2, <1>3, <1>4, OtherSteps

\* The frame a node takes is no assignment, or it executes it, or it is deaf.
LEMMA NodeReads ==
  ASSUME NodesInv, NoTaskSwallowed, NEW p \in Nodes, N!NodeStep(p)
  PROVE  \/ down' = down
         \/ /\ cur[p] \in Conns /\ down[cur[p]] # <<>> /\ N!Take(p)
            /\ \/ at'[p] = "deaf"
               \/ N!Assigned(p)
               \/ Head(down[cur[p]]).kind # "AssignTask"
<1> USE DEF N!Goto, N!streams, N!Arrived
<1>1. at[p] # "off" => cur[p] \in Conns
    BY DEF NodesInv, NodeTypes
<1>2. at \in [Nodes -> N!Steps]
    BY DEF NodesInv, NodeTypes
<1>3. at[p] \in {"list", "relist"} /\ down[cur[p]] # <<>> => Head(down[cur[p]]).kind # "AssignTask"
    BY DEF NoTaskSwallowed, N!Frame
<1>4. CASE N!Login(p) \/ N!Relogin(p)
    BY <1>1, <1>4 DEF N!Login, N!Relogin
<1>5. CASE N!Listed(p) \/ N!Relisted(p)
    BY <1>1, <1>3, <1>5 DEF N!Listed, N!Relisted
<1>6. CASE N!Resend(p) \/ N!GiveUp(p) \/ \E c \in Conns : N!Dial(p, c)
    BY <1>6 DEF N!Resend, N!GiveUp, N!Dial
<1>7. CASE N!Ignored(p) \/ N!Assigned(p)
    BY <1>1, <1>7 DEF N!Ignored, N!Assigned
<1>8. CASE N!CutFrame(p) \/ N!Swallow(p)
    BY <1>1, <1>2, <1>8 DEF N!CutFrame, N!Swallow
<1>9. CASE N!Tick(p) \/ N!StreamEnds(p) \/ N!Execute(p) \/ N!Report(p)
    BY <1>9 DEF N!Tick, N!StreamEnds, N!Execute, N!Report
<1> QED BY <1>4, <1>5, <1>6, <1>7, <1>8, <1>9 DEF N!NodeStep, N!Connecting, N!Looping

\* An assignment that is taken off the stream is executed, if the node is not deaf.
LEMMA NodeKeepsSent ==
  ASSUME NodesInv, NoTaskSwallowed, NEW p \in Nodes, N!NodeStep(p), cur' = cur,
         NEW t \in Tasks, NEW i \in Nat, Sent(cur[p], i, t)
  PROVE  Kept(p, t)'
<1>1. CASE down' = down
    BY <1>1 DEF Sent, Kept
<1>2. CASE /\ cur[p] \in Conns /\ down[cur[p]] # <<>> /\ N!Take(p)
           /\ \/ at'[p] = "deaf"
              \/ N!Assigned(p)
              \/ Head(down[cur[p]]).kind # "AssignTask"
  <2> DEFINE s == down[cur[p]]
             r == Tail(s)
  <2>1. /\ s \in Seq(DownFrames) /\ Len(s) \in Nat /\ Head(s) = s[1] /\ Len(r) = Len(s) - 1
        /\ \A k \in 1..Len(r) : r[k] = s[k + 1]
      BY <1>2, HeadTailProperties, LenProperties DEF NodesInv, StreamTypes
  <2>2. down'[cur[p]] = r
      BY <1>2 DEF N!Take, NodesInv, StreamTypes
  <2>3. i \in 1..Len(s) /\ s[i] = N!TaskFrame("AssignTask", t)
      BY DEF Sent
  <2> HIDE DEF s, r
  <2>4. CASE i # 1
    <3>1. i - 1 \in Nat /\ i - 1 \in 1..Len(r) /\ (i - 1) + 1 = i
        BY <2>1, <2>3, <2>4
    <3>2. r[i - 1] = s[i]
        BY <2>1, <3>1
    <3>3. Sent(cur[p], i - 1, t)'
        BY <2>2, <2>3, <3>1, <3>2 DEF Sent
    <3> QED BY <3>1, <3>3 DEF Kept
  <2>5. CASE i = 1
    <3>1. Head(s).kind = "AssignTask" /\ Head(s).task = t
        BY <2>1, <2>3, <2>5 DEF N!TaskFrame
    <3>2. N!Assigned(p) => Executes(p, t)'
        BY <3>1 DEF N!Assigned, N!Goto, NodesInv, NodeTypes, Executes, s
    <3> QED BY <1>2, <3>1, <3>2 DEF Kept, s
  <2> QED BY <2>4, <2>5
<1> QED BY <1>1, <1>2, NodeReads

\* The master only adds to a stream, and what it has given is on it.
LEMMA MasterKeepsSent ==
  ASSUME TypeOK, NodesInv, NEW c \in Conns, MasterStep(c)
  PROVE  /\ \A t \in Tasks, d \in Conns, i \in Nat : Sent(d, i, t) => Sent(d, i, t)'
         /\ \A t \in Tasks, d \in Conns : t \in given'[d] \ given[d] =>
               d = c /\ pc[c] # "new" /\ (link[c] = "up" => \E i \in Nat : Sent(c, i, t)')
<1>1. /\ \A kind \in {"OK", "ConnectedNodes", "ConnectionInfo", "HeartbeatAck"} : N!Frame(kind) \in DownFrames
      /\ hand[c] \in Tasks => N!TaskFrame("AssignTask", hand[c]) \in DownFrames
    BY FrameTypes DEF N!Down
<1>2. ASSUME NEW f \in DownFrames, N!Deliver(c, f)
      PROVE  /\ \A t \in Tasks, d \in Conns, i \in Nat : Sent(d, i, t) => Sent(d, i, t)'
             /\ \A t \in Tasks : f = N!TaskFrame("AssignTask", t) /\ link[c] = "up" =>
                   \E i \in Nat : Sent(c, i, t)'
  <2>1. /\ \A d \in Conns : d # c \/ link[d] # "up" => down'[d] = down[d]
        /\ link[c] = "up" => down'[c] = Append(down[c], f)
      BY <1>2, Delivered DEF NodesInv
  <2> DEFINE s == down[c]
             r == Append(s, f)
  <2>2. /\ s \in Seq(DownFrames) /\ Len(s) \in Nat /\ Len(r) = Len(s) + 1 /\ r[Len(s) + 1] = f
        /\ \A k \in 1..Len(s) : r[k] = s[k]
      BY AppendProperties, LenProperties DEF NodesInv, StreamTypes
  <2>3. link[c] = "up" => down'[c] = r
      BY <2>1
  <2> HIDE DEF r
  <2>4. ASSUME NEW t \in Tasks, NEW d \in Conns, NEW i \in Nat, Sent(d, i, t) PROVE Sent(d, i, t)'
    <3>1. CASE d # c \/ link[d] # "up"
        BY <2>1, <2>4, <3>1 DEF Sent
    <3>2. CASE d = c /\ link[c] = "up"
        BY <2>2, <2>3, <2>4, <3>2 DEF Sent
    <3> QED BY <3>1, <3>2
  <2>5. ASSUME NEW t \in Tasks, f = N!TaskFrame("AssignTask", t), link[c] = "up"
        PROVE  \E i \in Nat : Sent(c, i, t)'
    <3>1. PICK n \in Nat : n = Len(s) + 1
        BY <2>2
    <3>2. n \in 1..Len(r) /\ r[n] = f
        BY <2>2, <3>1
    <3>3. Sent(c, n, t)'
        BY <2>3, <2>5, <3>2 DEF Sent
    <3> QED BY <3>1, <3>3
  <2> QED BY <2>4, <2>5
<1>3. CASE SendOk(c) /\ N!Deliver(c, N!TaskFrame("AssignTask", hand[c]))
  <2>1. hand[c] \in Tasks /\ pc[c] # "new"
      BY <1>3, SentinelAssumption DEF TypeOK, SendOk, InHandSteps
  <2>2. \A t \in Tasks, d \in Conns : t \in given'[d] \ given[d] => d = c /\ t = hand[c]
      BY <1>3 DEF SendOk, TypeOK
  <2>3. N!TaskFrame("AssignTask", hand[c]) \in DownFrames
      BY <1>1, <2>1
  <2>4. /\ \A t \in Tasks, d \in Conns, i \in Nat : Sent(d, i, t) => Sent(d, i, t)'
        /\ \A t \in Tasks : t = hand[c] /\ link[c] = "up" => \E i \in Nat : Sent(c, i, t)'
      BY <1>2, <1>3, <2>1, <2>3
  <2> QED BY <2>1, <2>2, <2>4
<1>4. CASE given' = given /\ (down' = down \/ \E kind \in {"OK", "ConnectedNodes", "ConnectionInfo", "HeartbeatAck"} :
                                                N!Deliver(c, N!Frame(kind)))
  <2>1. CASE down' = down
      BY <1>4, <2>1 DEF Sent
  <2>2. ASSUME NEW kind \in {"OK", "ConnectedNodes", "ConnectionInfo", "HeartbeatAck"}, N!Deliver(c, N!Frame(kind))
        PROVE  \A t \in Tasks, d \in Conns, i \in Nat : Sent(d, i, t) => Sent(d, i, t)'
      BY <1>1, <1>2, <2>2
  <2> QED BY <1>4, <2>1, <2>2
<1>5. Handshake(c) => given' = given
    BY DEF Handshake, Accept, history
<1>6. HandleMessage(c) => given' = given
    BY DEF HandleMessage, Handles, RegisterRole, Query, Heartbeat, TaskResult, history
<1>7. HandleEnd(c) => given' = given /\ down' = down
    BY DEF HandleEnd, Leave, history, nodeVars
<1>8. HandlerStep(c) => given' = given
    BY DEF HandlerStep, CheckRole, Pick, TrackActive, Requeue, UntrackActive, ResultPending, ResultDone, history
<1>9. SendFail(c) => given' = given
    BY DEF SendFail, history
<1>10. CASE HandleMessage(c)
    BY <1>4, <1>6, <1>10, ReceivedKinds DEF HandleMessage, NodesInv
<1> QED BY <1>3, <1>4, <1>5, <1>7, <1>8, <1>9, <1>10 DEF MasterStep, Handshake, Dispatch, nodeVars

LEMMA KeptStep ==
  ASSUME BookInv, NodesInv, NoTaskSwallowed, CurrentWorks, AllKept, [SystemNext]_allVars,
         NEW p \in Nodes, NEW t \in Tasks, AssignedTo(p, t)'
  PROVE  Kept(p, t)'
<1>1. PICK c \in ConnsOf[p] : t \in given'[c] /\ link'[c] # "broken"
    BY DEF AssignedTo, N!Broken
<1>2. c \in Conns
    BY SystemAssumption
<1>3. \A d \in Conns : t \in given[d] => link[d] # "unused"
    BY DEF BookInv, CustodyInv, Inv, Bookkeeping, FreshConn, NodesInv, Undialled
\* A connection that works and has a task is the one the node uses.
<1>4. t \in given[c] /\ link[c] # "broken" =>
        link[c] = "up" /\ cur[p] = c /\ at[p] \notin {"off", "redial", "stopped"} /\ Kept(p, t)
  <2>1. t \in given[c] /\ link[c] # "broken" => link[c] = "up"
      BY <1>2, <1>3 DEF NodesInv, StreamTypes
  <2>2. t \in given[c] /\ link[c] # "broken" => AssignedTo(p, t)
      BY DEF AssignedTo, N!Broken
  <2> QED BY <2>1, <2>2 DEF CurrentWorks, AllKept
<1>5. ASSUME NEW d \in Conns, MasterStep(d) PROVE Kept(p, t)'
  <2>1. link' = link /\ cur' = cur /\ at' = at /\ job' = job /\ done' = done
      BY <1>5, MasterStreams, MasterKeepsNodes DEF others, BookInv
  <2>2. /\ \A e \in Conns, i \in Nat : Sent(e, i, t) => Sent(e, i, t)'
        /\ t \in given'[c] \ given[c] =>
              c = d /\ pc[d] # "new" /\ (link[d] = "up" => \E i \in Nat : Sent(d, i, t)')
      BY <1>2, <1>5, MasterKeepsSent DEF BookInv
  <2>3. CASE t \in given[c]
    <3>1. cur[p] = c /\ Kept(p, t)
        BY <1>1, <1>4, <2>1, <2>3
    <3> QED BY <1>2, <2>1, <2>2, <3>1 DEF Kept, Executes
  <2>4. CASE t \notin given[c]
    <3>1. c = d /\ link[c] = "up" /\ \E i \in Nat : Sent(c, i, t)'
        BY <1>1, <1>2, <2>1, <2>2, <2>4 DEF NodesInv, StreamTypes, Undialled
    <3>2. cur'[p] = c
        BY <2>1, <3>1 DEF CurrentWorks
    <3> QED BY <3>1, <3>2 DEF Kept
  <2> QED BY <2>3, <2>4
<1>6. ASSUME NEW d \in Conns, N!Break(d), UNCHANGED vars PROVE Kept(p, t)'
  <2>1. given' = given /\ UNCHANGED <<at, cur, job, done>>
      BY <1>6 DEF N!Break, vars, history
  <2>2. link[d] = "up" /\ link' = [link EXCEPT ![d] = "broken"] /\ \A e \in Conns : e # d => down'[e] = down[e]
      BY <1>6, BreakStreams DEF NodesInv
  <2>3. c # d /\ link[c] # "broken"
      BY <1>1, <1>2, <2>2 DEF NodesInv, StreamTypes
  <2>4. cur[p] = c /\ Kept(p, t) /\ down'[c] = down[c]
      BY <1>1, <1>2, <1>4, <2>1, <2>2, <2>3
  <2> QED BY <2>1, <2>4 DEF Kept, Sent, Executes
<1>7. ASSUME NEW q \in Nodes, N!NodeStep(q), UNCHANGED vars PROVE Kept(p, t)'
  <2>1. given' = given
      BY <1>7 DEF vars, history
  <2>2. link[c] # "broken"
      BY <1>1, <1>2, <1>7, NodeStreams
  <2>3. link[c] = "up" /\ cur[p] = c /\ at[p] \notin {"off", "redial", "stopped"} /\ Kept(p, t)
      BY <1>1, <1>4, <2>1, <2>2
  <2>4. CASE q # p
    <3>1. cur'[p] = cur[p] /\ at'[p] = at[p] /\ cur[q] # c
        BY <1>2, <1>7, <2>3, <2>4, NodeOwn, OwnStream
    <3>2. down'[c] = down[c]
        BY <1>2, <1>7, <3>1, NodeOwn
    <3>3. Executes(p, t) => Executes(p, t)'
        BY <1>7, <2>4, <3>1, NodeWorks DEF Executes
    <3>4. t \in done[p] => t \in done'[p]
        BY <1>7, <2>4, NodeWorks
    <3> QED BY <2>3, <3>1, <3>2, <3>3, <3>4 DEF Kept, Sent
  <2>5. CASE q = p
    <3>1. ~\E d \in Conns : N!Dial(p, d)
        BY <2>3 DEF N!Dial
    <3>2. /\ cur' = cur
          /\ at[p] = "deaf" => at'[p] = "deaf"
          /\ t \in done[p] => t \in done'[p]
          /\ Executes(p, t) => Executes(p, t)' \/ t \in done'[p]
        BY <1>7, <2>3, <2>5, <3>1, NodeStays DEF N!Broken
    <3>3. ASSUME NEW i \in Nat, Sent(cur[p], i, t) PROVE Kept(p, t)'
        BY <1>7, <2>5, <3>2, <3>3, NodeKeepsSent
    <3> QED BY <2>3, <3>2, <3>3 DEF Kept
  <2> QED BY <2>4, <2>5
<1>8. CASE UNCHANGED <<nodeVars, pc, given>>
  <2>1. UNCHANGED <<link, down, at, cur, job, done>>
      BY <1>8 DEF nodeVars
  <2> QED BY <1>1, <1>4, <1>8, <2>1 DEF Kept, Sent, Executes
<1> QED BY <1>5, <1>6, <1>7, <1>8, OutsiderSteps DEF BookInv

\* What was written to a node's connection is executed, or still to be read, as
\* long as that connection works and the node is not deaf, however many nodes there
\* are and however often they have dialled before (node.rs:56-66, 115-186, 331-345).
THEOREM AssignmentsKept == SystemSpec => []AssignmentKept
<1>1. SystemInit => CurrentWorks /\ AllKept
  <2>1. SystemInit => CurrentWorks
      BY SystemAssumption DEF SystemInit, N!NodeInit, CurrentWorks
  <2>2. SystemInit => AllKept
      BY SystemAssumption DEF SystemInit, Init, AssignedTo, AllKept
  <2> QED BY <2>1, <2>2
<1>2. BookInv /\ NodesInv /\ CurrentWorks /\ [SystemNext]_allVars => CurrentWorks'
    BY CurrentStep DEF BookInv
<1>3. BookInv /\ NodesInv /\ NoTaskSwallowed /\ CurrentWorks /\ AllKept /\ [SystemNext]_allVars => AllKept'
    BY KeptStep DEF AllKept
<1>4. AllKept => AssignmentKept
    BY DEF AllKept, AssignmentKept, Kept, Sent, Executes
<1> QED BY <1>1, <1>2, <1>3, <1>4, NodesHold, NoTaskIsSwallowed, PTL DEF SystemSpec
=============================================================================
