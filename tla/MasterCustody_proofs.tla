------------------------- MODULE MasterCustody_proofs -------------------------
(* Who may have a task: theorems about Master's roles, targets and unique
   assignment, for every set of connections and tasks. *)
EXTENDS Master_proofs

\* What a handler is in the middle of sending.
SendSteps == {"track", "send", "requeue", "untrack"}

Sending(c, t) == hand[c] = t /\ pc[c] \in SendSteps

ActiveAt(c, t) == Present(c) /\ t \in nodes[c].active

-----------------------------------------------------------------------------
(* Roles.  The role a handler read, the role in its node's entry and the task it
   is sending all agree with what the node announced. *)

Allowed(c) == {"Worker", NodeRole[c]}

RolesAgree ==
    \A c \in Conns :
        /\ duty[c] \in Allowed(c)
        /\ Present(c) => nodes[c].role \in Allowed(c)
        /\ pc[c] \in SendSteps => RoleForTask(hand[c]) \in Allowed(c)

RoleInv == RolesAgree /\ RoleHonoured

LEMMA RoleStep == TypeOK /\ RoleInv /\ [Next]_vars => RoleInv'
<1> SUFFICES ASSUME TypeOK, RoleInv, [Next]_vars
             PROVE  RoleInv'
    OBVIOUS
<1> USE SentinelAssumption
    DEF RoleInv, RolesAgree, RoleHonoured, Allowed, SendSteps, TypeOK, Present,
        maps, handlerVars, cleanupVars, shellVars, history, Goto, Drops
<1>1. ASSUME NEW c \in Conns, Accept(c) PROVE RoleInv'
    BY <1>1 DEF Accept
<1>2. ASSUME NEW c \in Conns, HandlerStep(c) PROVE RoleInv'
  <2>1. CASE CheckRole(c) \/ ResultPending(c) \/ ResultDone(c)
      BY <2>1 DEF CheckRole, ResultPending, ResultDone
  <2>2. CASE Pick(c)
      BY <2>2 DEF Pick, Eligible
  <2>3. CASE TrackActive(c)
      BY <2>3 DEF TrackActive, Track, AndModify, NodeInfo
  <2>4. CASE Requeue(c)
      BY <2>4 DEF Requeue
  <2>5. CASE UntrackActive(c)
      BY <2>5 DEF UntrackActive, Untrack, AndModify, NodeInfo
  <2> QED BY <1>2, <2>1, <2>2, <2>3, <2>4, <2>5 DEF HandlerStep
<1>3. ASSUME NEW c \in Conns, SendOk(c) \/ SendFail(c) PROVE RoleInv'
    BY <1>3 DEF SendOk, SendFail
<1>4. ASSUME NEW c \in Conns, Message(c) PROVE RoleInv'
  <2>1. CASE RegisterRole(c)
      BY <2>1 DEF RegisterRole, AndModify, NodeInfo
  <2>2. CASE Heartbeat(c)
      BY <2>2 DEF Heartbeat, AndModify, Reply, NodeInfo
  <2>3. CASE Query(c) \/ BadMessage(c) \/ Leave(c)
      BY <2>3 DEF Query, BadMessage, Leave, Reply
  <2>4. ASSUME NEW t \in Tasks, SubmitTask(c, t) PROVE RoleInv'
      BY <2>4 DEF SubmitTask, Reply
  <2>5. ASSUME NEW t \in Tasks, TaskResult(c, t) PROVE RoleInv'
      BY <2>5 DEF TaskResult, Untrack, AndModify, NodeInfo
  <2> QED BY <1>4, <2>1, <2>2, <2>3, <2>4, <2>5 DEF Message
<1>5. ASSUME NEW c \in Conns, Expire(c) PROVE RoleInv'
    BY <1>5 DEF Expire, NodeInfo
<1>6. CASE Cleanup
    BY <1>6 DEF Cleanup, Scan, Evict, RequeueOrphans
<1>7. CASE Shell
    BY <1>7 DEF Shell, AddTask, ListNodes, AskNode, TakeResult, AskTimeout
<1>8. CASE UNCHANGED vars
    BY <1>8 DEF vars
<1> QED BY <1>1, <1>2, <1>3, <1>4, <1>5, <1>6, <1>7, <1>8 DEF Next, Connection

\* No node is ever sent a Disk or Internet task without having announced that
\* role, although its handler reads the role once for many sends.
THEOREM RolesHonoured == Spec => []RoleHonoured
<1>1. Init => RoleInv
    BY DEF Init, RoleInv, RolesAgree, RoleHonoured, Allowed, SendSteps, Present
<1>2. RoleInv => RoleHonoured
    BY DEF RoleInv
<1> QED BY <1>1, <1>2, RoleStep, TypeCorrect, PTL DEF Spec

-----------------------------------------------------------------------------
(* Ids nobody has used yet are nowhere. *)

FreshTasks ==
    \A t \in Tasks \ submitted :
        /\ ~IsPending(t) /\ t \notin orphans
        /\ \A c \in Conns : ~ActiveAt(c, t) /\ t \notin given[c] /\ hand[c] # t

LEMMA FreshTasksStep == TypeOK /\ FreshTasks /\ [Next]_vars => FreshTasks'
<1> SUFFICES ASSUME TypeOK, FreshTasks, [Next]_vars
             PROVE  FreshTasks'
    OBVIOUS
<1> USE SentinelAssumption, SubsetAssumption
    DEF FreshTasks, ActiveAt, IsPending, TypeOK, InHandSteps, Targets, Present,
        maps, handlerVars, cleanupVars, shellVars, history, Goto, Drops
<1>1. ASSUME NEW c \in Conns, Accept(c) PROVE FreshTasks'
    BY <1>1 DEF Accept
<1>2. ASSUME NEW c \in Conns, HandlerStep(c) PROVE FreshTasks'
  <2>1. CASE CheckRole(c) \/ ResultPending(c) \/ ResultDone(c)
      BY <2>1 DEF CheckRole, ResultPending, ResultDone, RemovePending
  <2>2. CASE Pick(c)
      BY <2>2 DEF Pick, Eligible, RemovePending
  <2>3. CASE TrackActive(c)
      BY <2>3 DEF TrackActive, Track, AndModify, NodeInfo
  <2>4. CASE Requeue(c)
      BY <2>4 DEF Requeue, InsertPending
  <2>5. CASE UntrackActive(c)
      BY <2>5 DEF UntrackActive, Untrack, AndModify, NodeInfo
  <2> QED BY <1>2, <2>1, <2>2, <2>3, <2>4, <2>5 DEF HandlerStep
<1>3. ASSUME NEW c \in Conns, SendOk(c) \/ SendFail(c) PROVE FreshTasks'
    BY <1>3 DEF SendOk, SendFail
<1>4. ASSUME NEW c \in Conns, Message(c) PROVE FreshTasks'
  <2>1. CASE RegisterRole(c)
      BY <2>1 DEF RegisterRole, AndModify, NodeInfo
  <2>2. CASE Heartbeat(c)
      BY <2>2 DEF Heartbeat, AndModify, Reply, NodeInfo
  <2>3. CASE Query(c) \/ BadMessage(c) \/ Leave(c)
      BY <2>3 DEF Query, BadMessage, Leave, Reply
  <2>4. ASSUME NEW t \in Tasks, SubmitTask(c, t) PROVE FreshTasks'
      BY <2>4 DEF SubmitTask, InsertPending, Reply
  <2>5. ASSUME NEW t \in Tasks, TaskResult(c, t) PROVE FreshTasks'
      BY <2>5 DEF TaskResult, Untrack, AndModify, NodeInfo
  <2> QED BY <1>4, <2>1, <2>2, <2>3, <2>4, <2>5 DEF Message
<1>5. ASSUME NEW c \in Conns, Expire(c) PROVE FreshTasks'
    BY <1>5 DEF Expire, NodeInfo
<1>6. CASE Cleanup
    BY <1>6 DEF Cleanup, Scan, Evict, RequeueOrphans
<1>7. CASE Shell
  <2>1. ASSUME NEW t \in Tasks, AddTask(t) PROVE FreshTasks'
      BY <2>1 DEF AddTask, InsertPending
  <2>2. ASSUME NEW c \in Conns, NEW t \in ShellIds, AskNode(c, t) PROVE FreshTasks'
      BY <2>2 DEF AskNode, InsertPending
  <2>3. CASE TakeResult \/ AskTimeout \/ \E r \in {"Worker", "Disk"} : ListNodes(r)
      BY <2>3 DEF TakeResult, AskTimeout, ListNodes, RemovePending
  <2> QED BY <1>7, <2>1, <2>2, <2>3 DEF Shell
<1>8. CASE UNCHANGED vars
    BY <1>8 DEF vars
<1> QED BY <1>1, <1>2, <1>3, <1>4, <1>5, <1>6, <1>7, <1>8 DEF Next, Connection

-----------------------------------------------------------------------------
(* Targets.  Wherever a task the shell addressed is, the map that has it, or
   the handler, is the addressee's, or the addressee's entry is gone for good. *)

Released(t) ==
    askedOf[t] \in Conns => ~Present(askedOf[t]) /\ pc[askedOf[t]] # "new"

MayHave(c, t) == askedOf[t] = c \/ Released(t)

\* The target noted with a task in pending_tasks, or kept by a handler.
GoodTarget(g, t) == g = askedOf[t] \/ Released(t)

TargetsKept ==
    \A t \in ShellIds :
        /\ IsPending(t) => GoodTarget(pending[t], t)
        /\ t \in orphans => Released(t)
        /\ \A c \in Conns :
            /\ ActiveAt(c, t) \/ t \in given[c] \/ Sending(c, t) => MayHave(c, t)
            /\ Sending(c, t) => GoodTarget(keep[c], t)

TargetInv == TargetsKept /\ FreshTasks /\ FreshConn

LEMMA TargetStep == TypeOK /\ TargetInv /\ [Next]_vars => TargetsKept'
<1> SUFFICES ASSUME TypeOK, TargetInv, [Next]_vars
             PROVE  TargetsKept'
    OBVIOUS
<1> USE SentinelAssumption, SubsetAssumption
    DEF TargetInv, TargetsKept, FreshTasks, FreshConn, Released, MayHave, GoodTarget,
        ActiveAt, Sending, SendSteps, IsPending, TypeOK, HandlerSteps, InHandSteps,
        Targets, Present, maps, handlerVars, cleanupVars, shellVars, history, Goto, Drops
<1>1. ASSUME NEW c \in Conns, Accept(c) PROVE TargetsKept'
    BY <1>1 DEF Accept, NodeInfo
<1>2. ASSUME NEW c \in Conns, HandlerStep(c) PROVE TargetsKept'
  <2>1. CASE CheckRole(c) \/ ResultPending(c) \/ ResultDone(c)
      BY <2>1 DEF CheckRole, ResultPending, ResultDone, RemovePending
  <2>2. CASE Pick(c)
      BY <2>2 DEF Pick, Eligible, RemovePending
  <2>3. CASE TrackActive(c)
      BY <2>3 DEF TrackActive, Track, AndModify, NodeInfo
  <2>4. CASE Requeue(c)
      BY <2>4 DEF Requeue, InsertPending
  <2>5. CASE UntrackActive(c)
      BY <2>5 DEF UntrackActive, Untrack, AndModify, NodeInfo
  <2> QED BY <1>2, <2>1, <2>2, <2>3, <2>4, <2>5 DEF HandlerStep
<1>3. ASSUME NEW c \in Conns, SendOk(c) \/ SendFail(c) PROVE TargetsKept'
    BY <1>3 DEF SendOk, SendFail
<1>4. ASSUME NEW c \in Conns, Message(c) PROVE TargetsKept'
  <2>1. CASE RegisterRole(c)
      BY <2>1 DEF RegisterRole, AndModify, NodeInfo
  <2>2. CASE Heartbeat(c)
      BY <2>2 DEF Heartbeat, AndModify, Reply, NodeInfo
  <2>3. CASE Query(c) \/ BadMessage(c) \/ Leave(c)
      BY <2>3 DEF Query, BadMessage, Leave, Reply
  <2>4. ASSUME NEW t \in Tasks, SubmitTask(c, t) PROVE TargetsKept'
      BY <2>4 DEF SubmitTask, InsertPending, Reply
  <2>5. ASSUME NEW t \in Tasks, TaskResult(c, t) PROVE TargetsKept'
      BY <2>5 DEF TaskResult, Untrack, AndModify, NodeInfo
  <2> QED BY <1>4, <2>1, <2>2, <2>3, <2>4, <2>5 DEF Message
<1>5. ASSUME NEW c \in Conns, Expire(c) PROVE TargetsKept'
    BY <1>5 DEF Expire, NodeInfo
<1>6. CASE Cleanup
  <2>1. CASE Scan
      BY <2>1 DEF Scan
  <2>2. ASSUME NEW c \in Conns, Evict(c) PROVE TargetsKept'
      BY <2>2 DEF Evict
  <2>3. CASE RequeueOrphans
      BY <2>3 DEF RequeueOrphans
  <2> QED BY <1>6, <2>1, <2>2, <2>3 DEF Cleanup
<1>7. CASE Shell
  <2>1. ASSUME NEW t \in Tasks, AddTask(t) PROVE TargetsKept'
      BY <2>1 DEF AddTask, InsertPending
  <2>2. ASSUME NEW c \in Conns, NEW t \in ShellIds, AskNode(c, t) PROVE TargetsKept'
      BY <2>2 DEF AskNode, InsertPending, IdsLeft
  <2>3. CASE TakeResult \/ AskTimeout \/ \E r \in {"Worker", "Disk"} : ListNodes(r)
      BY <2>3 DEF TakeResult, AskTimeout, ListNodes, RemovePending
  <2> QED BY <1>7, <2>1, <2>2, <2>3 DEF Shell
<1>8. CASE UNCHANGED vars
    BY <1>8 DEF vars
<1> QED BY <1>1, <1>2, <1>3, <1>4, <1>5, <1>6, <1>7, <1>8 DEF Next, Connection

\* A task the shell addressed to one node is never sent to another one while the
\* addressee has its entry: not after a failed write, not after the cleanup of
\* some other node.
THEOREM TargetsHonoured == Spec => []TargetHonoured
<1>1. Init => TargetsKept /\ FreshTasks
    BY SubsetAssumption, SentinelAssumption
    DEF Init, TargetsKept, FreshTasks, Released, MayHave, GoodTarget, ActiveAt,
        Sending, SendSteps, IsPending, Present
<1>2. Inv /\ TargetsKept /\ FreshTasks /\ [Next]_vars => TargetsKept' /\ FreshTasks'
    BY TargetStep, FreshTasksStep DEF TargetInv, Inv, Bookkeeping
<1>3. Inv /\ TargetsKept => TargetHonoured
    BY SubsetAssumption
    DEF Inv, TypeOK, Targets, TargetsKept, TargetHonoured, Released, MayHave
<1> QED BY <1>1, <1>2, <1>3, InvHolds, PTL DEF Spec

-----------------------------------------------------------------------------
(* Unique assignment.  Before the first eviction a task is in one place only:
   pending, or in the hand of one handler, or active at one node. *)

ResultSteps == {"resultPending", "resultDone"}

OnePlace ==
    evicted = {} =>
        /\ cpc # "orphans"
        /\ \A c \in Conns : pc[c] \notin {"new", "closed"} => Present(c)
        /\ \A c \in Conns, t \in Tasks :
             /\ ActiveAt(c, t) /\ IsPending(t) => pc[c] = "untrack" /\ hand[c] = t
             /\ ActiveAt(c, t) => \A d \in Conns : ActiveAt(d, t) => d = c
             /\ hand[c] = t /\ pc[c] \in {"track", "send", "requeue"} => ~IsPending(t)
             /\ hand[c] = t /\ pc[c] = "track" =>
                  /\ \A d \in Conns : ~ActiveAt(d, t)
                  /\ \A d \in Conns \ {c} : hand[d] = t => pc[d] \in ResultSteps

LEMMA EntryKeepsActive ==
    ASSUME NEW n \in NodeInfo, NEW r \in Roles
    PROVE  [n EXCEPT !.role = r] \in NodeInfo /\ [n EXCEPT !.role = r].active = n.active
  BY DEF NodeInfo

LEMMA ClockKeepsActive ==
    ASSUME NEW n \in NodeInfo
    PROVE  /\ [n EXCEPT !.fresh = TRUE, !.isWorker = TRUE].active = n.active
           /\ [n EXCEPT !.fresh = FALSE].active = n.active
  BY DEF NodeInfo

LEMMA EntrySwap ==
    ASSUME TypeOK, NEW c \in Conns, NEW entry, nodes' = AndModify(c, entry),
           Present(c) => entry \in NodeInfo /\ entry.active = nodes[c].active
    PROVE  /\ \A d \in Conns : Present(d) => Present(d)'
           /\ \A d \in Conns, t \in Tasks : ActiveAt(d, t)' <=> ActiveAt(d, t)
  BY SentinelAssumption DEF TypeOK, AndModify, Present, ActiveAt

\* Steps that change an entry, and not what it works on.
LEMMA SameActive ==
    ASSUME TypeOK, NEW c \in Conns, pc[c] = "new" => ~Present(c),
           Accept(c) \/ RegisterRole(c) \/ Heartbeat(c) \/ Expire(c)
    PROVE  /\ \A d \in Conns : Present(d) => Present(d)'
           /\ Accept(c) => Present(c)'
           /\ \A d \in Conns, t \in Tasks : ActiveAt(d, t)' <=> ActiveAt(d, t)
<1> USE SentinelAssumption
    DEF TypeOK, ActiveAt, Present, Goto
<1>1. CASE Accept(c)
  <2>1. [fresh |-> TRUE, isWorker |-> FALSE, role |-> "Worker", active |-> {}] \in NodeInfo
      BY DEF NodeInfo, Roles
  <2> QED BY <1>1, <2>1 DEF Accept
<1>2. CASE RegisterRole(c)
  <2> DEFINE entry == [nodes[c] EXCEPT !.role = NodeRole[c]]
  <2>1. nodes' = AndModify(c, entry)
      BY <1>2 DEF RegisterRole
  <2>2. Present(c) => entry \in NodeInfo /\ entry.active = nodes[c].active
      BY EntryKeepsActive, RoleAssumption
  <2> HIDE DEF entry
  <2> QED BY <1>2, <2>1, <2>2, EntrySwap DEF RegisterRole, Accept
<1>3. CASE Heartbeat(c)
  <2> DEFINE entry == [nodes[c] EXCEPT !.fresh = TRUE, !.isWorker = TRUE]
  <2>1. nodes' = AndModify(c, entry)
      BY <1>3 DEF Heartbeat
  <2>2. Present(c) => entry \in NodeInfo /\ entry.active = nodes[c].active
      BY ClockKeepsActive, EntryClock
  <2> HIDE DEF entry
  <2> QED BY <1>3, <2>1, <2>2, EntrySwap DEF Heartbeat, Accept
<1>4. CASE Expire(c)
  <2> DEFINE entry == [nodes[c] EXCEPT !.fresh = FALSE]
  <2>1. Present(c) /\ nodes' = AndModify(c, entry)
      BY <1>4 DEF Expire, AndModify
  <2>2. Present(c) => entry \in NodeInfo /\ entry.active = nodes[c].active
      BY ClockKeepsActive, EntryClock
  <2>3. ~Accept(c)
      BY <2>1 DEF Accept
  <2> HIDE DEF entry
  <2> QED BY <2>1, <2>2, <2>3, EntrySwap
<1> QED BY <1>1, <1>2, <1>3, <1>4

LEMMA OnePlaceStep == Inv /\ FreshTasks /\ OnePlace /\ [Next]_vars => OnePlace'
<1> SUFFICES ASSUME Inv, FreshTasks, OnePlace, [Next]_vars
             PROVE  OnePlace'
    OBVIOUS
<1> USE SentinelAssumption, SubsetAssumption
    DEF Inv, Bookkeeping, CleanupIdle, SendingTracked, FreshTasks, FreshConn, OnePlace,
        ResultSteps, ActiveAt, IsPending, TypeOK, HandlerSteps, InHandSteps, Targets,
        Present, maps, handlerVars, cleanupVars, shellVars, history, Goto, Drops
<1>1. ASSUME NEW c \in Conns, Accept(c) PROVE OnePlace'
  <2> /\ \A d \in Conns : Present(d) => Present(d)'
      /\ Present(c)'
      /\ \A d \in Conns, t \in Tasks : ActiveAt(d, t)' <=> ActiveAt(d, t)
      BY <1>1, SameActive
  <2> HIDE DEF ActiveAt, Present
  <2> QED BY <1>1 DEF Accept
<1>2. ASSUME NEW c \in Conns, HandlerStep(c) PROVE OnePlace'
  <2>1. CASE CheckRole(c) \/ ResultPending(c) \/ ResultDone(c)
      BY <2>1 DEF CheckRole, ResultPending, ResultDone, RemovePending
  <2>2. CASE Pick(c)
    <3>1. nodes' = nodes /\ cpc' = cpc /\ evicted' = evicted
        BY <2>2 DEF Pick
    <3>2. \A d \in Conns, t \in Tasks : ActiveAt(d, t)' <=> ActiveAt(d, t)
        BY <3>1
    <3>3. \A d \in Conns : Present(d)' <=> Present(d)
        BY <3>1
    <3>4. CASE UNCHANGED <<pending, hand>> /\ pc[c] = "pick" /\ Goto(c, "read")
      <4> HIDE DEF ActiveAt, Present
      <4> QED BY <3>1, <3>2, <3>3, <3>4
    <3>5. ASSUME NEW t \in Tasks, pc[c] = "pick", Eligible(c, t), RemovePending(t),
                 hand' = [hand EXCEPT ![c] = t], Goto(c, "track")
          PROVE  OnePlace'
      <4>1. IsPending(t) /\ \A d \in Conns : ~ActiveAt(d, t)
          BY <3>5 DEF Eligible, ActiveSomewhere
      <4>2. evicted = {} => \A d \in Conns \ {c} : hand[d] = t => pc[d] \in ResultSteps
          BY <4>1
      <4>3. \A u \in Tasks : IsPending(u)' <=> IsPending(u) /\ u # t
          BY <3>5 DEF RemovePending
      <4> HIDE DEF ActiveAt, Present, IsPending
      <4> QED BY <3>1, <3>2, <3>3, <3>5, <4>1, <4>2, <4>3
    <3> QED BY <2>2, <3>4, <3>5 DEF Pick
  <2>3. CASE TrackActive(c)
    <3> DEFINE t == hand[c]
    <3>1. /\ pc[c] = "track" /\ t \in Tasks /\ pc' = [pc EXCEPT ![c] = "send"]
          /\ UNCHANGED <<pending, hand, cpc, evicted>>
        BY <2>3 DEF TrackActive
    <3>2. \A d \in Conns, u \in Tasks :
             ActiveAt(d, u)' <=> ActiveAt(d, u) \/ (d = c /\ u = t /\ Present(c))
        BY <2>3 DEF TrackActive, Track, AndModify, NodeInfo
    <3>3. \A d \in Conns : Present(d)' <=> Present(d)
        BY <2>3 DEF TrackActive, Track, AndModify, NodeInfo
    <3>4. \A u \in Tasks : IsPending(u)' <=> IsPending(u)
        BY <3>1
    <3>5. evicted = {} => /\ ~IsPending(t) /\ \A d \in Conns : ~ActiveAt(d, t)
                          /\ \A d \in Conns \ {c} : hand[d] = t => pc[d] \in ResultSteps
        BY <3>1
    <3> HIDE DEF ActiveAt, Present, IsPending
    <3> QED BY <3>1, <3>2, <3>3, <3>4, <3>5
  <2>4. CASE Requeue(c)
      BY <2>4 DEF Requeue, InsertPending
  <2>5. CASE UntrackActive(c)
      BY <2>5 DEF UntrackActive, Untrack, AndModify, NodeInfo
  <2> QED BY <1>2, <2>1, <2>2, <2>3, <2>4, <2>5 DEF HandlerStep
<1>3. ASSUME NEW c \in Conns, SendOk(c) \/ SendFail(c) PROVE OnePlace'
    BY <1>3 DEF SendOk, SendFail
<1>4. ASSUME NEW c \in Conns, Message(c) PROVE OnePlace'
  <2>1. CASE RegisterRole(c) \/ Heartbeat(c)
    <3> /\ \A d \in Conns : Present(d) => Present(d)'
        /\ \A d \in Conns, t \in Tasks : ActiveAt(d, t)' <=> ActiveAt(d, t)
        BY <2>1, SameActive
    <3> HIDE DEF ActiveAt, Present
    <3> QED BY <2>1 DEF RegisterRole, Heartbeat, Reply
  <2>3. CASE Query(c) \/ BadMessage(c) \/ Leave(c)
      BY <2>3 DEF Query, BadMessage, Leave, Reply
  <2>4. ASSUME NEW t \in Tasks, SubmitTask(c, t) PROVE OnePlace'
    <3>1. /\ t \notin submitted /\ pc[c] = "read" /\ pc'[c] \in {"check", "ghost"}
          /\ \A d \in Conns \ {c} : pc'[d] = pc[d]
          /\ UNCHANGED <<nodes, hand, cpc, evicted>>
        BY <2>4 DEF SubmitTask, Reply
    <3>2. \A u \in Tasks : IsPending(u)' => IsPending(u) \/ u = t
        BY <2>4 DEF SubmitTask, InsertPending
    <3>3. \A d \in Conns : ~ActiveAt(d, t) /\ hand[d] # t
        BY <3>1
    <3>4. /\ \A d \in Conns, u \in Tasks : ActiveAt(d, u)' <=> ActiveAt(d, u)
          /\ \A d \in Conns : Present(d)' <=> Present(d)
        BY <3>1
    <3> HIDE DEF ActiveAt, Present, IsPending
    <3> QED BY <3>1, <3>2, <3>3, <3>4
  <2>5. ASSUME NEW t \in Tasks, TaskResult(c, t) PROVE OnePlace'
      BY <2>5 DEF TaskResult, Untrack, AndModify, NodeInfo
  <2> QED BY <1>4, <2>1, <2>3, <2>4, <2>5 DEF Message
<1>5. ASSUME NEW c \in Conns, Expire(c) PROVE OnePlace'
  <2> /\ \A d \in Conns : Present(d) => Present(d)'
      /\ \A d \in Conns, t \in Tasks : ActiveAt(d, t)' <=> ActiveAt(d, t)
      BY <1>5, SameActive
  <2> HIDE DEF ActiveAt, Present
  <2> QED BY <1>5 DEF Expire
<1>6. CASE Cleanup
  <2>1. CASE Scan
      BY <2>1 DEF Scan
  <2>2. ASSUME NEW c \in Conns, Evict(c) PROVE OnePlace'
      BY <2>2 DEF Evict, AfterEviction
  <2>3. CASE RequeueOrphans
      BY <2>3 DEF RequeueOrphans
  <2> QED BY <1>6, <2>1, <2>2, <2>3 DEF Cleanup
<1>7. CASE Shell
  <2>1. ASSUME NEW t \in Tasks, AddTask(t) PROVE OnePlace'
      BY <2>1 DEF AddTask, InsertPending
  <2>2. ASSUME NEW c \in Conns, NEW t \in ShellIds, AskNode(c, t) PROVE OnePlace'
      BY <2>2 DEF AskNode, InsertPending, IdsLeft
  <2>3. CASE TakeResult \/ AskTimeout \/ \E r \in {"Worker", "Disk"} : ListNodes(r)
      BY <2>3 DEF TakeResult, AskTimeout, ListNodes, RemovePending
  <2> QED BY <1>7, <2>1, <2>2, <2>3 DEF Shell
<1>8. CASE UNCHANGED vars
    BY <1>8 DEF vars
<1> QED BY <1>1, <1>2, <1>3, <1>4, <1>5, <1>6, <1>7, <1>8 DEF Next, Connection

\* Failed writes, races of any number of handlers for a task, and late results
\* never record a task with two nodes; only an eviction can.
THEOREM AssignedOnce == Spec => []TrackedTwiceOnlyAfterEviction
<1>1. Init => FreshTasks /\ OnePlace
    BY SentinelAssumption
    DEF Init, FreshTasks, OnePlace, ActiveAt, IsPending, Present
<1>2. Inv /\ FreshTasks /\ OnePlace /\ [Next]_vars => FreshTasks' /\ OnePlace'
    BY FreshTasksStep, OnePlaceStep DEF Inv
<1>3. OnePlace => TrackedTwiceOnlyAfterEviction
    BY DEF OnePlace, TrackedTwiceOnlyAfterEviction, ActiveAt
<1> QED BY <1>1, <1>2, <1>3, InvHolds, PTL DEF Spec

-----------------------------------------------------------------------------
(* A task that was sent, successfully, is not sent again before the first
   eviction: it is neither pending nor in a handler's hand on its way out. *)

GivenOnce ==
    evicted = {} =>
        \A c \in Conns : \A t \in given[c] :
            /\ ~IsPending(t)
            /\ \A d \in Conns : hand[d] = t => pc[d] \in ResultSteps

CustodyInv == Inv /\ FreshTasks /\ OnePlace

\* The task that a handler sends is with no other, on its way out, and not yet given.
LEMMA SentAlone ==
    ASSUME CustodyInv, evicted = {}, NEW c \in Conns, NEW d \in Conns,
           pc[c] \in {"track", "send", "requeue"},
           hand[d] = hand[c], pc[d] \notin ResultSteps
    PROVE  c = d
<1>1. hand[c] \in Tasks /\ pc[d] \in {"track", "send", "requeue", "untrack"}
    BY SentinelAssumption DEF CustodyInv, Inv, TypeOK, InHandSteps, ResultSteps
<1>2. Present(c) /\ Present(d)
    BY <1>1 DEF CustodyInv, OnePlace
<1>3. /\ pc[c] # "track" => ActiveAt(c, hand[c])
      /\ pc[d] # "track" => ActiveAt(d, hand[c])
    BY <1>1, <1>2 DEF CustodyInv, Inv, Bookkeeping, SendingTracked, ActiveAt
<1> QED BY <1>1, <1>3 DEF CustodyInv, OnePlace, ResultSteps

LEMMA GivenOnceStep == CustodyInv /\ GivenOnce /\ [Next]_vars => GivenOnce'
<1> SUFFICES ASSUME CustodyInv, GivenOnce, [Next]_vars
             PROVE  GivenOnce'
    OBVIOUS
<1> USE SentinelAssumption, SubsetAssumption
    DEF CustodyInv, Inv, FreshTasks, GivenOnce, ResultSteps, IsPending, TypeOK,
        HandlerSteps, InHandSteps, Targets, maps, handlerVars, cleanupVars, shellVars,
        history, Goto, Drops
<1>1. ASSUME NEW c \in Conns, Accept(c) PROVE GivenOnce'
    BY <1>1 DEF Accept
<1>2. ASSUME NEW c \in Conns, HandlerStep(c) PROVE GivenOnce'
  <2>1. CASE CheckRole(c) \/ ResultPending(c) \/ ResultDone(c)
      BY <2>1 DEF CheckRole, ResultPending, ResultDone, RemovePending
  <2>2. CASE Pick(c)
      BY <2>2 DEF Pick, Eligible, RemovePending
  <2>3. CASE TrackActive(c) \/ UntrackActive(c)
      BY <2>3 DEF TrackActive, UntrackActive
  <2>4. CASE Requeue(c)
      BY <2>4 DEF Requeue, InsertPending
  <2> QED BY <1>2, <2>1, <2>2, <2>3, <2>4 DEF HandlerStep
<1>3. ASSUME NEW c \in Conns, SendOk(c) PROVE GivenOnce'
  <2>1. /\ pc[c] = "send" /\ hand[c] \in Tasks
        /\ given' = [given EXCEPT ![c] = @ \cup {hand[c]}]
        /\ hand' = [hand EXCEPT ![c] = NoTask] /\ pc' = [pc EXCEPT ![c] = "pick"]
        /\ pending' = pending /\ evicted' = evicted
      BY <1>3 DEF SendOk
  <2>2. evicted = {} => ~IsPending(hand[c])
      BY <2>1 DEF OnePlace
  <2>3. \A d \in Conns : evicted = {} /\ hand[d] = hand[c] /\ d # c => pc[d] \in ResultSteps
      BY <2>1, SentAlone
  <2> QED BY <2>1, <2>2, <2>3
<1>4. ASSUME NEW c \in Conns, SendFail(c) PROVE GivenOnce'
    BY <1>4 DEF SendFail
<1>5. ASSUME NEW c \in Conns, Message(c) PROVE GivenOnce'
  <2>1. CASE RegisterRole(c) \/ Heartbeat(c) \/ Query(c) \/ BadMessage(c) \/ Leave(c)
      BY <2>1 DEF RegisterRole, Heartbeat, Query, BadMessage, Leave, Reply
  <2>2. ASSUME NEW t \in Tasks, SubmitTask(c, t) PROVE GivenOnce'
      BY <2>2 DEF SubmitTask, InsertPending, Reply
  <2>3. ASSUME NEW t \in Tasks, TaskResult(c, t) PROVE GivenOnce'
      BY <2>3 DEF TaskResult
  <2> QED BY <1>5, <2>1, <2>2, <2>3 DEF Message
<1>6. ASSUME NEW c \in Conns, Expire(c) PROVE GivenOnce'
    BY <1>6 DEF Expire
<1>7. CASE Cleanup
    BY <1>7 DEF Cleanup, Scan, Evict, RequeueOrphans, OnePlace
<1>8. CASE Shell
  <2>1. ASSUME NEW t \in Tasks, AddTask(t) PROVE GivenOnce'
      BY <2>1 DEF AddTask, InsertPending
  <2>2. ASSUME NEW c \in Conns, NEW t \in ShellIds, AskNode(c, t) PROVE GivenOnce'
      BY <2>2 DEF AskNode, InsertPending, IdsLeft
  <2>3. CASE TakeResult \/ AskTimeout \/ \E r \in {"Worker", "Disk"} : ListNodes(r)
      BY <2>3 DEF TakeResult, AskTimeout, ListNodes, RemovePending
  <2> QED BY <1>8, <2>1, <2>2, <2>3 DEF Shell
<1>9. CASE UNCHANGED vars
    BY <1>9 DEF vars
<1> QED BY <1>1, <1>2, <1>3, <1>4, <1>5, <1>6, <1>7, <1>8, <1>9 DEF Next, Connection

LEMMA CustodyHolds == Spec => [](CustodyInv /\ GivenOnce)
<1>1. Init => FreshTasks /\ OnePlace /\ GivenOnce
    BY SentinelAssumption
    DEF Init, FreshTasks, OnePlace, GivenOnce, ActiveAt, IsPending, Present
<1>2. CustodyInv /\ GivenOnce /\ [Next]_vars => CustodyInv' /\ GivenOnce'
    BY InvStep, FreshTasksStep, OnePlaceStep, GivenOnceStep DEF CustodyInv, Inv
<1> QED BY <1>1, <1>2, InvInit, PTL DEF Spec, CustodyInv

\* No failed write, late result or re-queued task makes the master send a task a
\* second time; only an eviction can (lib.rs:125-175).
THEOREM SentOnce == Spec => []GivenOnce
  BY CustodyHolds, PTL
=============================================================================
