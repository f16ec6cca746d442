---------------------------- MODULE Master_proofs ----------------------------
(* Theorems about Master, for every set of connections and tasks. *)
EXTENDS Master, TLAPS

\* What the handlers and the clock make of an entry is an entry again.
LEMMA EntryUpdates ==
    ASSUME NEW n \in NodeInfo, NEW t \in Tasks
    PROVE  /\ [n EXCEPT !.active = @ \cup {t}] \in NodeInfo
           /\ [n EXCEPT !.active = @ \ {t}] \in NodeInfo
  BY DEF NodeInfo

LEMMA EntryClock ==
    ASSUME NEW n \in NodeInfo
    PROVE  /\ [n EXCEPT !.fresh = TRUE, !.isWorker = TRUE] \in NodeInfo
           /\ [n EXCEPT !.fresh = FALSE] \in NodeInfo
  BY DEF NodeInfo

LEMMA TypeInit == Init => TypeOK
  BY SubsetAssumption DEF Init, TypeOK, Targets, Roles, HandlerSteps, InHandSteps

\* The type invariant is kept by every step.
LEMMA TypeStep == TypeOK /\ [Next]_vars => TypeOK'
<1> SUFFICES ASSUME TypeOK, [Next]_vars
             PROVE  TypeOK'
    OBVIOUS
<1> USE SentinelAssumption, RoleAssumption, SubsetAssumption
    DEF TypeOK, Targets, Roles, HandlerSteps, InHandSteps, maps,
        handlerVars, cleanupVars, shellVars, history, Goto, Drops
<1>1. ASSUME NEW c \in Conns, Accept(c) PROVE TypeOK'
    BY <1>1 DEF Accept, NodeInfo
<1>2. ASSUME NEW c \in Conns, HandlerStep(c) PROVE TypeOK'
  <2>1. CASE CheckRole(c)
    <3>1. Present(c) => nodes[c].role \in Roles
        BY DEF Present, NodeInfo
    <3> QED BY <2>1, <3>1 DEF CheckRole
  <2>2. CASE Pick(c)
      BY <2>2 DEF Pick, Eligible, RemovePending, IsPending
  <2>3. CASE TrackActive(c)
      BY <2>3, EntryUpdates DEF TrackActive, Track, AndModify, Present
  <2>4. CASE Requeue(c)
      BY <2>4 DEF Requeue, InsertPending
  <2>5. CASE UntrackActive(c)
      BY <2>5, EntryUpdates DEF UntrackActive, Untrack, AndModify, Present
  <2>6. CASE ResultPending(c)
      BY <2>6 DEF ResultPending, RemovePending
  <2>7. CASE ResultDone(c)
      BY <2>7 DEF ResultDone
  <2> QED BY <1>2, <2>1, <2>2, <2>3, <2>4, <2>5, <2>6, <2>7 DEF HandlerStep
<1>3. ASSUME NEW c \in Conns, SendOk(c) \/ SendFail(c) PROVE TypeOK'
    BY <1>3 DEF SendOk, SendFail
<1>4. ASSUME NEW c \in Conns, Message(c) PROVE TypeOK'
  <2>1. CASE RegisterRole(c)
    <3> DEFINE entry == [nodes[c] EXCEPT !.role = NodeRole[c]]
    <3>1. Present(c) => entry \in NodeInfo
        BY DEF Present, NodeInfo
    <3>2. nodes' = AndModify(c, entry)
        BY <2>1 DEF RegisterRole
    <3> HIDE DEF entry
    <3>3. nodes' \in [Conns -> NodeInfo \cup {NoEntry}]
        BY <3>1, <3>2 DEF AndModify
    <3> QED BY <2>1, <3>3 DEF RegisterRole
  <2>2. CASE Heartbeat(c)
    <3> DEFINE entry == [nodes[c] EXCEPT !.fresh = TRUE, !.isWorker = TRUE]
    <3>1. Present(c) => entry \in NodeInfo
        BY EntryClock DEF Present
    <3>2. nodes' = AndModify(c, entry)
        BY <2>2 DEF Heartbeat
    <3> HIDE DEF entry
    <3>3. nodes' \in [Conns -> NodeInfo \cup {NoEntry}]
        BY <3>1, <3>2 DEF AndModify
    <3> QED BY <2>2, <3>3 DEF Heartbeat, Reply
  <2>3. CASE Query(c)
      BY <2>3 DEF Query, Reply
  <2>4. CASE BadMessage(c)
      BY <2>4 DEF BadMessage
  <2>5. CASE Leave(c)
      BY <2>5 DEF Leave
  <2>6. ASSUME NEW t \in Tasks, SubmitTask(c, t) PROVE TypeOK'
      BY <2>6 DEF SubmitTask, InsertPending, Reply
  <2>7. ASSUME NEW t \in Tasks, TaskResult(c, t) PROVE TypeOK'
      BY <2>7, EntryUpdates DEF TaskResult, Untrack, AndModify, Present
  <2> QED BY <1>4, <2>1, <2>2, <2>3, <2>4, <2>5, <2>6, <2>7 DEF Message
<1>5. ASSUME NEW c \in Conns, Expire(c) PROVE TypeOK'
  <2> DEFINE entry == [nodes[c] EXCEPT !.fresh = FALSE]
  <2>1. entry \in NodeInfo
      BY <1>5, EntryClock DEF Expire, Present
  <2>2. nodes' = [nodes EXCEPT ![c] = entry]
      BY <1>5 DEF Expire
  <2> HIDE DEF entry
  <2>3. nodes' \in [Conns -> NodeInfo \cup {NoEntry}]
      BY <2>1, <2>2
  <2> QED BY <1>5, <2>3 DEF Expire
<1>6. CASE Cleanup
  <2>1. CASE Scan
      BY <2>1 DEF Scan, Present
  <2>2. ASSUME NEW c \in Conns, Evict(c) PROVE TypeOK'
      BY <2>2 DEF NodeInfo, Evict, Present, AfterEviction
  <2>3. CASE RequeueOrphans
      BY <2>3 DEF RequeueOrphans, AfterEviction
  <2> QED BY <1>6, <2>1, <2>2, <2>3 DEF Cleanup
<1>7. CASE Shell
  <2>1. ASSUME NEW t \in Tasks, AddTask(t) PROVE TypeOK'
      BY <2>1 DEF AddTask, InsertPending
  <2>2. ASSUME NEW r \in {"Worker", "Disk"}, ListNodes(r) PROVE TypeOK'
      BY <2>2 DEF ListNodes, Present
  <2>3. ASSUME NEW c \in Conns, NEW t \in ShellIds, AskNode(c, t) PROVE TypeOK'
      BY <2>3 DEF AskNode, InsertPending, IdsLeft
  <2>4. CASE TakeResult
      BY <2>4 DEF TakeResult
  <2>5. CASE AskTimeout
      BY <2>5 DEF AskTimeout, RemovePending
  <2> QED BY <1>7, <2>1, <2>2, <2>3, <2>4, <2>5 DEF Shell
<1>8. CASE UNCHANGED vars
    BY <1>8 DEF vars
<1> QED BY <1>1, <1>2, <1>3, <1>4, <1>5, <1>6, <1>7, <1>8 DEF Next, Connection

\* Every variable keeps its type, and a handler has a task of its own in hand
\* exactly at the steps at which the code has one in a local variable.
THEOREM TypeCorrect == Spec => []TypeOK
  BY TypeInit, TypeStep, PTL DEF Spec
-----------------------------------------------------------------------------
(* No task is forgotten that no departed node received.  NeverLostUnsent alone
   is not inductive: a node that leaves takes its active tasks along, and one
   has to know that it had received them; a handler that has written a task
   lets go of it, and one has to know that the node's entry, if any, has it. *)

\* A connection that is not accepted yet has no entry and received nothing.
FreshConn == \A c \in Conns : pc[c] = "new" => ~Present(c) /\ given[c] = {}

\* The cleanup has tasks in hand only on the way to put them back.
CleanupIdle == cpc # "orphans" => orphans = {}

\* What a handler is sending is in the node's entry, if there is one.
SendingTracked ==
    \A c \in Conns : pc[c] \in {"send", "requeue", "untrack"} /\ Present(c) =>
        hand[c] \in nodes[c].active

Bookkeeping == FreshConn /\ CleanupIdle /\ SendingTracked /\ ActiveWasSent

Inv == TypeOK /\ Bookkeeping /\ NeverLostUnsent

LEMMA BookkeepingStep == TypeOK /\ Bookkeeping /\ [Next]_vars => Bookkeeping'
<1> SUFFICES ASSUME TypeOK, Bookkeeping, [Next]_vars
             PROVE  Bookkeeping'
    OBVIOUS
<1> USE SentinelAssumption
    DEF Bookkeeping, FreshConn, CleanupIdle, SendingTracked, ActiveWasSent, TypeOK,
        HandlerSteps, InHandSteps, Present, maps, handlerVars, cleanupVars, shellVars,
        history, Goto, Drops
<1>1. ASSUME NEW c \in Conns, Accept(c) PROVE Bookkeeping'
    BY <1>1 DEF Accept, NodeInfo
<1>2. ASSUME NEW c \in Conns, HandlerStep(c) PROVE Bookkeeping'
  <2>1. CASE CheckRole(c)
      BY <2>1 DEF CheckRole
  <2>2. CASE Pick(c)
      BY <2>2 DEF Pick
  <2>3. CASE TrackActive(c)
      BY <2>3 DEF TrackActive, Track, AndModify, NodeInfo
  <2>4. CASE Requeue(c)
      BY <2>4 DEF Requeue, InsertPending
  <2>5. CASE UntrackActive(c)
      BY <2>5 DEF UntrackActive, Untrack, AndModify, NodeInfo
  <2>6. CASE ResultPending(c)
      BY <2>6 DEF ResultPending
  <2>7. CASE ResultDone(c)
      BY <2>7 DEF ResultDone
  <2> QED BY <1>2, <2>1, <2>2, <2>3, <2>4, <2>5, <2>6, <2>7 DEF HandlerStep
<1>3. ASSUME NEW c \in Conns, SendOk(c) \/ SendFail(c) PROVE Bookkeeping'
    BY <1>3 DEF SendOk, SendFail
<1>4. ASSUME NEW c \in Conns, Message(c) PROVE Bookkeeping'
  <2>1. CASE RegisterRole(c)
      BY <2>1 DEF RegisterRole, AndModify, NodeInfo
  <2>2. CASE Heartbeat(c)
      BY <2>2 DEF Heartbeat, AndModify, Reply, NodeInfo
  <2>3. CASE Query(c)
      BY <2>3 DEF Query, Reply
  <2>4. CASE BadMessage(c)
      BY <2>4 DEF BadMessage
  <2>5. CASE Leave(c)
      BY <2>5 DEF Leave
  <2>6. ASSUME NEW t \in Tasks, SubmitTask(c, t) PROVE Bookkeeping'
      BY <2>6 DEF SubmitTask, Reply
  <2>7. ASSUME NEW t \in Tasks, TaskResult(c, t) PROVE Bookkeeping'
      BY <2>7 DEF TaskResult, Untrack, AndModify, NodeInfo
  <2> QED BY <1>4, <2>1, <2>2, <2>3, <2>4, <2>5, <2>6, <2>7 DEF Message
<1>5. ASSUME NEW c \in Conns, Expire(c) PROVE Bookkeeping'
    BY <1>5 DEF Expire, NodeInfo
<1>6. CASE Cleanup
  <2>1. CASE Scan
      BY <2>1 DEF Scan
  <2>2. ASSUME NEW c \in Conns, Evict(c) PROVE Bookkeeping'
      BY <2>2 DEF Evict, AfterEviction
  <2>3. CASE RequeueOrphans
      BY <2>3 DEF RequeueOrphans, AfterEviction
  <2> QED BY <1>6, <2>1, <2>2, <2>3 DEF Cleanup
<1>7. CASE Shell
    BY <1>7 DEF Shell, AddTask, ListNodes, AskNode, TakeResult, AskTimeout
<1>8. CASE UNCHANGED vars
    BY <1>8 DEF vars
<1> QED BY <1>1, <1>2, <1>3, <1>4, <1>5, <1>6, <1>7, <1>8 DEF Next, Connection

LEMMA NeverLostStep == Inv /\ [Next]_vars => NeverLostUnsent'
<1> SUFFICES ASSUME Inv, [Next]_vars
             PROVE  NeverLostUnsent'
    OBVIOUS
<1> USE SentinelAssumption
    DEF Inv, Bookkeeping, FreshConn, CleanupIdle, SendingTracked, ActiveWasSent,
        NeverLostUnsent, Held, HeldBy, IsPending, TypeOK, HandlerSteps, InHandSteps,
        Targets, Present, maps, handlerVars, cleanupVars, shellVars, history, Goto, Drops
<1>1. ASSUME NEW c \in Conns, Accept(c) PROVE NeverLostUnsent'
    BY <1>1 DEF Accept, NodeInfo
<1>2. ASSUME NEW c \in Conns, HandlerStep(c) PROVE NeverLostUnsent'
  <2>1. CASE CheckRole(c)
      BY <2>1 DEF CheckRole
  <2>2. CASE Pick(c)
      BY <2>2 DEF Pick, Eligible, RemovePending
  <2>3. CASE TrackActive(c)
      BY <2>3 DEF TrackActive, Track, AndModify, NodeInfo
  <2>4. CASE Requeue(c)
      BY <2>4 DEF Requeue, InsertPending
  <2>5. CASE UntrackActive(c)
      BY <2>5 DEF UntrackActive, Untrack, AndModify, NodeInfo
  <2>6. CASE ResultPending(c)
      BY <2>6 DEF ResultPending, RemovePending
  <2>7. CASE ResultDone(c)
      BY <2>7 DEF ResultDone
  <2> QED BY <1>2, <2>1, <2>2, <2>3, <2>4, <2>5, <2>6, <2>7 DEF HandlerStep
<1>3. ASSUME NEW c \in Conns, SendOk(c) PROVE NeverLostUnsent'
    BY <1>3 DEF SendOk
<1>4. ASSUME NEW c \in Conns, SendFail(c) PROVE NeverLostUnsent'
    BY <1>4 DEF SendFail
<1>5. ASSUME NEW c \in Conns, Message(c) PROVE NeverLostUnsent'
  <2>1. CASE RegisterRole(c)
      BY <2>1 DEF RegisterRole, AndModify, NodeInfo
  <2>2. CASE Heartbeat(c)
      BY <2>2 DEF Heartbeat, AndModify, Reply, NodeInfo
  <2>3. CASE Query(c)
      BY <2>3 DEF Query, Reply
  <2>4. CASE BadMessage(c)
      BY <2>4 DEF BadMessage
  <2>5. CASE Leave(c)
      BY <2>5 DEF Leave
  <2>6. ASSUME NEW t \in Tasks, SubmitTask(c, t) PROVE NeverLostUnsent'
      BY <2>6 DEF SubmitTask, InsertPending, Reply
  <2>7. ASSUME NEW t \in Tasks, TaskResult(c, t) PROVE NeverLostUnsent'
      BY <2>7 DEF TaskResult, Untrack, AndModify, NodeInfo
  <2> QED BY <1>5, <2>1, <2>2, <2>3, <2>4, <2>5, <2>6, <2>7 DEF Message
<1>6. ASSUME NEW c \in Conns, Expire(c) PROVE NeverLostUnsent'
    BY <1>6 DEF Expire, NodeInfo
<1>7. CASE Cleanup
  <2>1. CASE Scan
      BY <2>1 DEF Scan
  <2>2. ASSUME NEW c \in Conns, Evict(c) PROVE NeverLostUnsent'
      BY <2>2 DEF Evict, AfterEviction
  <2>3. CASE RequeueOrphans
      BY <2>3 DEF RequeueOrphans, AfterEviction
  <2> QED BY <1>7, <2>1, <2>2, <2>3 DEF Cleanup
<1>8. CASE Shell
  <2>1. ASSUME NEW t \in Tasks, AddTask(t) PROVE NeverLostUnsent'
      BY <2>1 DEF AddTask, InsertPending
  <2>2. ASSUME NEW r \in {"Worker", "Disk"}, ListNodes(r) PROVE NeverLostUnsent'
      BY <2>2 DEF ListNodes
  <2>3. ASSUME NEW c \in Conns, NEW t \in ShellIds, AskNode(c, t) PROVE NeverLostUnsent'
      BY <2>3, SubsetAssumption DEF AskNode, InsertPending
  <2>4. CASE TakeResult
      BY <2>4 DEF TakeResult
  <2>5. CASE AskTimeout
      BY <2>5 DEF AskTimeout, RemovePending
  <2> QED BY <1>8, <2>1, <2>2, <2>3, <2>4, <2>5 DEF Shell
<1>9. CASE UNCHANGED vars
    BY <1>9 DEF vars
<1> QED BY <1>1, <1>2, <1>3, <1>4, <1>5, <1>6, <1>7, <1>8, <1>9 DEF Next, Connection

LEMMA InvInit == Init => Inv
<1> SUFFICES ASSUME Init
             PROVE  Inv
    OBVIOUS
<1>1. TypeOK
    BY TypeInit
<1>2. Bookkeeping
    BY DEF Init, Bookkeeping, FreshConn, CleanupIdle, SendingTracked, ActiveWasSent, Present
<1>3. NeverLostUnsent
    BY DEF Init, NeverLostUnsent
<1> QED BY <1>1, <1>2, <1>3 DEF Inv

LEMMA InvStep == Inv /\ [Next]_vars => Inv'
  BY TypeStep, BookkeepingStep, NeverLostStep DEF Inv

LEMMA InvHolds == Spec => []Inv
  BY InvInit, InvStep, PTL DEF Spec

\* A node's active tasks are tasks it received, or the one its handler is
\* sending, whatever fails and whoever interferes.
THEOREM ActiveOnlySent == Spec => []ActiveWasSent
<1>1. Inv => ActiveWasSent
    BY DEF Inv, Bookkeeping
<1> QED BY <1>1, InvHolds, PTL

\* Whatever the interleaving of dispatch, failed writes, results, cleanup and
\* the shell's timeouts, with any number of nodes and tasks: a task the master
\* answers for is held somewhere, or a node whose entry is gone received it.
THEOREM NothingUnsentIsLost == Spec => []NeverLostUnsent
<1>1. Inv => NeverLostUnsent
    BY DEF Inv
<1> QED BY <1>1, InvHolds, PTL
=============================================================================
