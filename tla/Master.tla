------------------------------- MODULE Master -------------------------------
(***************************************************************************)
(* The task book of the CPCluster master (CPCluster_masterNode).           *)
(*                                                                         *)
(* The master keeps three maps, each behind its own tokio mutex: the       *)
(* connected nodes (with the tasks each one is working on), the pending    *)
(* tasks and the completed tasks.  One handler runs per connection, next   *)
(* to the cleanup loop and the operator's shell.  A step of this module is *)
(* one critical section (or one socket operation): everything between two  *)
(* of them may be interleaved with the other actors, as tokio does.        *)
(*                                                                         *)
(* Left to other modules: the mutexes themselves (MasterLocks), the ports  *)
(* (Ports), the state file and peer masters.                               *)
(***************************************************************************)
EXTENDS Naturals, FiniteSets

CONSTANTS
    Conns,      \* the connections ever accepted; each peer address is used once
    Tasks,      \* the task ids ever used
    TaskKind,   \* the variant of the Task enum behind each id
    NodeRole,   \* the role a peer announces in RegisterRole
    ShellIds,   \* ids drawn by the shell itself, for getglobalram and getstorage
    Mortal,     \* connections whose peer may leave or whose socket may fail
    Garbling,   \* connections whose peer may send data that does not parse
    Silent,     \* connections whose heartbeats may stay out for too long
    NoEntry, NotPending, AnyNode, NoTask

Roles == {"Worker", "Disk", "Internet"}

Kinds == {"Compute", "HttpRequest", "ComplexMath", "StoreData", "RetrieveData",
          "GetGlobalRam", "GetStorage", "DiskWrite", "DiskRead", "Tcp", "Udp"}

\* One connected node; fresh says that its last heartbeat is at most twice the
\* failover timeout old.  The port it holds is the subject of Ports.
NodeInfo == [fresh : BOOLEAN, isWorker : BOOLEAN, role : Roles,
             active : SUBSET Tasks]

Targets == Conns \cup {AnyNode}

ASSUME KindAssumption     == TaskKind \in [Tasks -> Kinds]
ASSUME RoleAssumption     == NodeRole \in [Conns -> Roles]
ASSUME SubsetAssumption   == ShellIds \subseteq Tasks /\ Mortal \cup Garbling \cup Silent \subseteq Conns
ASSUME ShellKinds         == \A t \in ShellIds : TaskKind[t] \in {"GetGlobalRam", "GetStorage"}
ASSUME SentinelAssumption == /\ NoEntry \notin NodeInfo
                             /\ NotPending \notin Targets
                             /\ AnyNode \notin Conns
                             /\ NoTask \notin Tasks

\* role_for_task
RoleForTask(t) ==
    CASE TaskKind[t] \in {"GetStorage", "DiskWrite", "DiskRead"} -> "Disk"
      [] TaskKind[t] \in {"Tcp", "Udp"}                          -> "Internet"
      [] OTHER                                                   -> "Worker"

VARIABLES
    nodes,       \* connected_nodes: NoEntry where the map has no such address
    pending,     \* pending_tasks: the target of a pending id, or NotPending
    completed,   \* the keys of completed_tasks
    pc,          \* where each connection's handler is
    hand,        \* the task a handler has taken out of a map, if any
    keep,        \* the target of that task (a PendingTask keeps it)
    duty,        \* the role send_pending_tasks read when it started
    cpc, stale, orphans,            \* cleanup_dead_nodes: its step and locals
    spc, asking, candidates, wanted,   \* the shell: its step and locals
    \* What follows is history, read only by environment guards and properties.
    given,       \* the tasks written to each connection's socket
    submitted,   \* the ids used so far
    owed,        \* the ids the master answers for
    evicted,     \* the connections cleanup_dead_nodes took out of the map
    askedOf      \* the node the shell addressed a task of its own to

maps        == <<nodes, pending, completed>>
handlerVars == <<pc, hand, keep, duty>>
cleanupVars == <<cpc, stale, orphans>>
shellVars   == <<spc, asking, candidates, wanted>>
history     == <<given, submitted, owed, evicted, askedOf>>
vars        == <<maps, handlerVars, cleanupVars, shellVars, history>>

HandlerSteps == {"new", "check", "pick", "track", "send", "requeue", "untrack",
                 "read", "resultPending", "resultDone", "ghost", "closed"}

\* The steps at which a handler has a task of its own in hand.
InHandSteps == {"track", "send", "requeue", "untrack", "resultPending", "resultDone"}

TypeOK ==
    /\ nodes      \in [Conns -> NodeInfo \cup {NoEntry}]
    /\ pending    \in [Tasks -> Targets \cup {NotPending}]
    /\ completed  \subseteq Tasks
    /\ pc         \in [Conns -> HandlerSteps]
    /\ hand       \in [Conns -> Tasks \cup {NoTask}]
    /\ \A c \in Conns : hand[c] # NoTask <=> pc[c] \in InHandSteps
    /\ keep       \in [Conns -> Targets]
    /\ duty       \in [Conns -> Roles]
    /\ cpc        \in {"sleep", "evict", "orphans"}
    /\ stale      \subseteq Conns
    /\ orphans    \subseteq Tasks
    /\ spc        \in {"prompt", "ask", "wait", "taken"}
    /\ asking     \in Tasks \cup {NoTask}
    /\ candidates \subseteq Conns
    /\ wanted     \in Roles
    /\ given      \in [Conns -> SUBSET Tasks]
    /\ submitted  \subseteq Tasks
    /\ owed       \subseteq submitted
    /\ evicted    \subseteq Conns
    /\ askedOf    \in [Tasks -> Targets]

Init ==
    /\ nodes      = [c \in Conns |-> NoEntry]
    /\ pending    = [t \in Tasks |-> NotPending]
    /\ completed  = {}
    /\ pc         = [c \in Conns |-> "new"]
    /\ hand       = [c \in Conns |-> NoTask]
    /\ keep       = [c \in Conns |-> AnyNode]
    /\ duty       = [c \in Conns |-> "Worker"]
    /\ cpc = "sleep" /\ stale = {} /\ orphans = {}
    /\ spc = "prompt" /\ asking = NoTask
    /\ candidates = {} /\ wanted = "Worker"
    /\ given      = [c \in Conns |-> {}]
    /\ submitted  = {}
    /\ owed       = {}
    /\ evicted    = {}
    /\ askedOf    = [t \in Tasks |-> AnyNode]

-----------------------------------------------------------------------------
(* Helpers *)

Present(c) == nodes[c] # NoEntry

\* entry(addr).and_modify(..): nothing happens when the entry is gone.
AndModify(c, entry) == IF Present(c) THEN [nodes EXCEPT ![c] = entry] ELSE nodes

Track(c, t)   == AndModify(c, [nodes[c] EXCEPT !.active = @ \cup {t}])
Untrack(c, t) == AndModify(c, [nodes[c] EXCEPT !.active = @ \ {t}])

IsPending(t)       == pending[t] # NotPending
RemovePending(t)   == pending' = [pending EXCEPT ![t] = NotPending]
InsertPending(t,g) == pending' = [pending EXCEPT ![t] = g]

ActiveSomewhere(t) == \E d \in Conns : Present(d) /\ t \in nodes[d].active

Goto(c, step) == pc' = [pc EXCEPT ![c] = step]

\* The end of a message arm that writes a reply with `?': a failed write makes
\* handle_connection return at once, and nothing removes the node's entry.
Reply(c) == \/ Goto(c, "check")
            \/ c \in Mortal /\ Goto(c, "ghost")

Drops(c) == hand' = [hand EXCEPT ![c] = NoTask] /\ keep' = [keep EXCEPT ![c] = AnyNode]

-----------------------------------------------------------------------------
(* send_pending_tasks, run by c's handler after the handshake and after every
   message it has read *)

Accept(c) ==
    /\ pc[c] = "new"
    /\ nodes' = [nodes EXCEPT ![c] = [fresh |-> TRUE, isWorker |-> FALSE,
                                      role |-> "Worker", active |-> {}]]
    /\ Goto(c, "check")
    /\ UNCHANGED <<pending, completed, hand, keep, duty, cleanupVars, shellVars, history>>

\* Mutant of CheckRole: the node need not have sent a heartbeat.
CheckRole_NotYetWorker(c) ==
    /\ pc[c] = "check"
    /\ IF Present(c)
       THEN Goto(c, "pick") /\ duty' = [duty EXCEPT ![c] = nodes[c].role]
       ELSE Goto(c, "read") /\ duty' = duty
    /\ UNCHANGED <<maps, hand, keep, cleanupVars, shellVars, history>>

CheckRole(c) ==
    /\ pc[c] = "check"
    /\ IF Present(c) /\ nodes[c].isWorker
       THEN Goto(c, "pick") /\ duty' = [duty EXCEPT ![c] = nodes[c].role]
       ELSE Goto(c, "read") /\ duty' = duty
    /\ UNCHANGED <<maps, hand, keep, cleanupVars, shellVars, history>>

\* Mutants of Eligible: the role, or the tasks already being worked on, are not
\* looked at.
Eligible_AnyRole(c, t) ==
    IsPending(t) /\ pending[t] \in {AnyNode, c} /\ ~ActiveSomewhere(t)
Eligible_EvenActive(c, t) ==
    IsPending(t) /\ pending[t] \in {AnyNode, c} /\ RoleForTask(t) = duty[c]

Eligible(c, t) ==
    /\ IsPending(t)
    /\ pending[t] \in {AnyNode, c}
    /\ RoleForTask(t) = duty[c]
    /\ ~ActiveSomewhere(t)

\* Mutant of Pick: the task stays in the pending map.
Pick_LeavesPending(c) ==
    /\ pc[c] = "pick"
    /\ \/ \E t \in Tasks :
            /\ Eligible(c, t)
            /\ hand' = [hand EXCEPT ![c] = t]
            /\ keep' = [keep EXCEPT ![c] = pending[t]]
            /\ Goto(c, "track")
            /\ duty' = duty
       \/ /\ \A t \in Tasks : ~Eligible(c, t)
          /\ Goto(c, "read")
          /\ duty' = [duty EXCEPT ![c] = "Worker"]
          /\ UNCHANGED <<hand, keep>>
    /\ UNCHANGED <<maps, cleanupVars, shellVars, history>>

Pick(c) ==
    /\ pc[c] = "pick"
    /\ \/ \E t \in Tasks :
            /\ Eligible(c, t)
            /\ RemovePending(t)
            /\ hand' = [hand EXCEPT ![c] = t]
            /\ keep' = [keep EXCEPT ![c] = pending[t]]
            /\ Goto(c, "track")
            /\ duty' = duty
       \/ /\ \A t \in Tasks : ~Eligible(c, t)
          /\ Goto(c, "read")
          /\ duty' = [duty EXCEPT ![c] = "Worker"]
          /\ UNCHANGED <<pending, hand, keep>>
    /\ UNCHANGED <<nodes, completed, cleanupVars, shellVars, history>>

TrackActive(c) ==
    /\ pc[c] = "track"
    /\ nodes' = Track(c, hand[c])
    /\ Goto(c, "send")
    /\ UNCHANGED <<pending, completed, hand, keep, duty, cleanupVars, shellVars, history>>

SendOk(c) ==
    /\ pc[c] = "send"
    /\ given' = [given EXCEPT ![c] = @ \cup {hand[c]}]
    /\ Drops(c)
    /\ Goto(c, "pick")
    /\ UNCHANGED <<maps, duty, cleanupVars, shellVars, submitted, owed, evicted, askedOf>>

\* Mutants of SendFail: the handler returns at once, or goes on to untrack the
\* task without putting it back.
SendFail_Returns(c) ==
    /\ pc[c] = "send" /\ c \in Mortal
    /\ Goto(c, "read")
    /\ UNCHANGED <<maps, hand, keep, duty, cleanupVars, shellVars, history>>
SendFail_Forgets(c) ==
    /\ pc[c] = "send" /\ c \in Mortal
    /\ Goto(c, "untrack")
    /\ UNCHANGED <<maps, hand, keep, duty, cleanupVars, shellVars, history>>

SendFail(c) ==
    /\ pc[c] = "send"
    /\ c \in Mortal
    /\ Goto(c, "requeue")
    /\ UNCHANGED <<maps, hand, keep, duty, cleanupVars, shellVars, history>>

\* Mutant of Requeue: the task comes back without its target.
Requeue_NoTarget(c) ==
    /\ pc[c] = "requeue"
    /\ InsertPending(hand[c], AnyNode)
    /\ Goto(c, "untrack")
    /\ UNCHANGED <<nodes, completed, hand, keep, duty, cleanupVars, shellVars, history>>

Requeue(c) ==
    /\ pc[c] = "requeue"
    /\ InsertPending(hand[c], keep[c])
    /\ Goto(c, "untrack")
    /\ UNCHANGED <<nodes, completed, hand, keep, duty, cleanupVars, shellVars, history>>

\* Mutant of UntrackActive: the node keeps the task it never received.
UntrackActive_Keeps(c) ==
    /\ pc[c] = "untrack"
    /\ Drops(c)
    /\ duty' = [duty EXCEPT ![c] = "Worker"]
    /\ Goto(c, "read")
    /\ UNCHANGED <<maps, cleanupVars, shellVars, history>>

UntrackActive(c) ==
    /\ pc[c] = "untrack"
    /\ nodes' = Untrack(c, hand[c])
    /\ Drops(c)
    /\ duty' = [duty EXCEPT ![c] = "Worker"]
    /\ Goto(c, "read")
    /\ UNCHANGED <<pending, completed, cleanupVars, shellVars, history>>

-----------------------------------------------------------------------------
(* handle_connection: the messages *)

RegisterRole(c) ==
    /\ pc[c] = "read"
    /\ nodes' = AndModify(c, [nodes[c] EXCEPT !.role = NodeRole[c]])
    /\ Goto(c, "check")
    /\ UNCHANGED <<pending, completed, hand, keep, duty, cleanupVars, shellVars, history>>

Heartbeat(c) ==
    /\ pc[c] = "read"
    /\ nodes' = AndModify(c, [nodes[c] EXCEPT !.fresh = TRUE, !.isWorker = TRUE])
    /\ Reply(c)
    /\ UNCHANGED <<pending, completed, hand, keep, duty, cleanupVars, shellVars, history>>

SubmitTask(c, t) ==
    /\ pc[c] = "read"
    /\ t \notin submitted \cup ShellIds
    /\ submitted' = submitted \cup {t}
    /\ owed' = owed \cup {t}
    /\ InsertPending(t, AnyNode)
    /\ Reply(c)
    /\ UNCHANGED <<nodes, completed, hand, keep, duty, cleanupVars, shellVars, given, evicted, askedOf>>

\* GetConnectedNodes, GetTaskResult and RequestConnection answer without
\* changing the task book; an unknown message is only logged.
Query(c) ==
    /\ pc[c] = "read"
    /\ Reply(c)
    /\ UNCHANGED <<maps, hand, keep, duty, cleanupVars, shellVars, history>>

\* A node answers a task it was given, on the same connection or, after it has
\* reconnected, on another one (node.rs resends its open tasks).
TaskResult(c, t) ==
    /\ pc[c] = "read"
    /\ \E d \in Conns : t \in given[d]
    /\ nodes' = Untrack(c, t)
    /\ hand' = [hand EXCEPT ![c] = t]
    /\ Goto(c, "resultPending")
    /\ UNCHANGED <<pending, completed, keep, duty, cleanupVars, shellVars, history>>

ResultPending(c) ==
    /\ pc[c] = "resultPending"
    /\ RemovePending(hand[c])
    /\ Goto(c, "resultDone")
    /\ UNCHANGED <<nodes, completed, hand, keep, duty, cleanupVars, shellVars, history>>

ResultDone(c) ==
    /\ pc[c] = "resultDone"
    /\ completed' = completed \cup {hand[c]}
    /\ Drops(c)
    /\ Goto(c, "check")
    /\ UNCHANGED <<nodes, pending, duty, cleanupVars, shellVars, history>>

\* Data that does not parse: `?' again, the entry stays behind.
BadMessage(c) ==
    /\ pc[c] = "read"
    /\ c \in Garbling
    /\ Goto(c, "ghost")
    /\ UNCHANGED <<maps, hand, keep, duty, cleanupVars, shellVars, history>>

\* A Disconnect message, or a failed read: both leave the loop, and the entry
\* is removed with whatever it was working on.
Leave(c) ==
    /\ pc[c] = "read"
    /\ c \in Mortal
    /\ nodes' = [nodes EXCEPT ![c] = NoEntry]
    /\ Goto(c, "closed")
    /\ UNCHANGED <<pending, completed, hand, keep, duty, cleanupVars, shellVars, history>>

-----------------------------------------------------------------------------
(* Time and cleanup_dead_nodes *)

\* Twice the failover timeout passes since the last heartbeat.
Expire(c) ==
    /\ Present(c)
    /\ nodes[c].fresh
    /\ c \in Silent \/ pc[c] = "ghost"
    /\ nodes' = [nodes EXCEPT ![c].fresh = FALSE]
    /\ UNCHANGED <<pending, completed, handlerVars, cleanupVars, shellVars, history>>

\* Mutant of Scan: only workers can time out.
Scan_WorkersOnly ==
    /\ cpc = "sleep"
    /\ stale' = {c \in Conns : Present(c) /\ ~nodes[c].fresh /\ nodes[c].isWorker}
    /\ cpc' = IF stale' = {} THEN "sleep" ELSE "evict"
    /\ UNCHANGED <<maps, handlerVars, orphans, shellVars, history>>

Scan ==
    /\ cpc = "sleep"
    /\ stale' = {c \in Conns : Present(c) /\ ~nodes[c].fresh}
    /\ cpc' = IF stale' = {} THEN "sleep" ELSE "evict"
    /\ UNCHANGED <<maps, handlerVars, orphans, shellVars, history>>

AfterEviction(rest) == cpc' = IF rest = {} THEN "sleep" ELSE "evict"

\* Mutant of Evict: what the node was working on goes with its entry.
Evict_DropsTasks(c) ==
    /\ cpc = "evict"
    /\ c \in stale
    /\ stale' = stale \ {c}
    /\ nodes' = [nodes EXCEPT ![c] = NoEntry]
    /\ AfterEviction(stale')
    /\ evicted' = evicted \cup {c}
    /\ UNCHANGED <<pending, completed, handlerVars, orphans, shellVars, given, submitted, owed, askedOf>>

\* The heartbeat is not looked at again.
Evict(c) ==
    /\ cpc = "evict"
    /\ c \in stale
    /\ stale' = stale \ {c}
    /\ nodes' = [nodes EXCEPT ![c] = NoEntry]
    /\ IF Present(c)
       THEN cpc' = "orphans" /\ orphans' = nodes[c].active /\ evicted' = evicted \cup {c}
       ELSE AfterEviction(stale') /\ UNCHANGED <<orphans, evicted>>
    /\ UNCHANGED <<pending, completed, handlerVars, shellVars, given, submitted, owed, askedOf>>

RequeueOrphans ==
    /\ cpc = "orphans"
    /\ pending' = [t \in Tasks |-> IF t \in orphans THEN AnyNode ELSE pending[t]]
    /\ orphans' = {}
    /\ AfterEviction(stale)
    /\ UNCHANGED <<nodes, completed, handlerVars, stale, shellVars, history>>

-----------------------------------------------------------------------------
(* The operator's shell, one command at a time *)

AddTask(t) ==
    /\ spc = "prompt"
    /\ t \notin submitted \cup ShellIds
    /\ TaskKind[t] \in {"Compute", "HttpRequest"}
    /\ submitted' = submitted \cup {t}
    /\ owed' = owed \cup {t}
    /\ InsertPending(t, AnyNode)
    /\ UNCHANGED <<nodes, completed, handlerVars, cleanupVars, shellVars, given, evicted, askedOf>>

\* Bound: the shell has finitely many ids to draw.
IdsLeft(role) == {t \in ShellIds \ submitted : RoleForTask(t) = role}

\* getglobalram and getstorage list the nodes of a role, then ask one after
\* the other; with no such node, or none left, they are over.
ListNodes(role) ==
    /\ spc = "prompt"
    /\ IdsLeft(role) # {}
    /\ candidates' = {c \in Conns : Present(c) /\ nodes[c].fresh /\ nodes[c].role = role}
    /\ candidates' # {}
    /\ wanted' = role
    /\ spc' = "ask"
    /\ UNCHANGED <<maps, handlerVars, cleanupVars, asking, history>>

AskNode(c, t) ==
    /\ spc = "ask"
    /\ c \in candidates
    /\ t \in IdsLeft(wanted)
    /\ submitted' = submitted \cup {t}
    /\ owed' = owed \cup {t}
    /\ askedOf' = [askedOf EXCEPT ![t] = c]
    /\ InsertPending(t, c)
    /\ candidates' = candidates \ {c}
    /\ asking' = t
    /\ spc' = "wait"
    /\ UNCHANGED <<nodes, completed, handlerVars, cleanupVars, wanted, given, evicted>>

\* The poll finds the result and takes it out of the map; the save that
\* follows needs the mutex the poll still holds (MasterLocks), so the only way
\* on is the timeout.
TakeResult ==
    /\ spc = "wait"
    /\ asking \in completed
    /\ completed' = completed \ {asking}
    /\ owed' = owed \ {asking}
    /\ spc' = "taken"
    /\ UNCHANGED <<nodes, pending, handlerVars, cleanupVars, asking, candidates, wanted, given, submitted, evicted, askedOf>>

AskTimeout ==
    /\ spc \in {"wait", "taken"}
    /\ RemovePending(asking)
    /\ owed' = owed \ {asking}
    /\ asking' = NoTask
    /\ IF candidates # {} /\ IdsLeft(wanted) # {}
       THEN spc' = "ask" /\ UNCHANGED <<candidates, wanted>>
       ELSE spc' = "prompt" /\ candidates' = {} /\ wanted' = "Worker"
    /\ UNCHANGED <<nodes, completed, handlerVars, cleanupVars, given, submitted, evicted, askedOf>>

-----------------------------------------------------------------------------
HandlerStep(c) ==
    \/ CheckRole(c) \/ Pick(c) \/ TrackActive(c) \/ Requeue(c)
    \/ UntrackActive(c) \/ ResultPending(c) \/ ResultDone(c)

Message(c) ==
    \/ RegisterRole(c) \/ Heartbeat(c) \/ Query(c) \/ BadMessage(c) \/ Leave(c)
    \/ \E t \in Tasks : SubmitTask(c, t) \/ TaskResult(c, t)

Cleanup == Scan \/ (\E c \in Conns : Evict(c)) \/ RequeueOrphans

Shell ==
    \/ \E t \in Tasks : AddTask(t)
    \/ \E r \in {"Worker", "Disk"} : ListNodes(r)
    \/ \E c \in Conns, t \in ShellIds : AskNode(c, t)
    \/ TakeResult
    \/ AskTimeout

Connection(c) ==
    \/ Accept(c) \/ HandlerStep(c) \/ SendOk(c) \/ SendFail(c)
    \/ Message(c) \/ Expire(c)

Next == (\E c \in Conns : Connection(c)) \/ Cleanup \/ Shell

Spec == Init /\ [][Next]_vars

(* Fairness.  Handlers and the cleanup loop are tokio tasks that nothing keeps
   from running (MasterLocks says when a mutex does); the clock of a connection
   nobody reads any more runs out.  A peer outside Mortal connects, its socket
   accepts what is written, and it does not sit on a task for ever: it answers,
   or garbles the connection.  A peer that never garbles it also keeps sending
   heartbeats and announces its role.  Nobody else owes anything. *)
Reliable == Conns \ (Mortal \cup Garbling)

SettlesOwn(c, t) ==
    t \in given[c] \ completed /\ (TaskResult(c, t) \/ BadMessage(c))

Fairness ==
    /\ \A c \in Conns : /\ WF_vars(HandlerStep(c))
                        /\ WF_vars(pc[c] = "ghost" /\ Expire(c))
    /\ WF_vars(Cleanup)
    /\ \A c \in Conns \ Mortal : /\ WF_vars(Accept(c)) /\ WF_vars(SendOk(c))
                                 /\ \A t \in Tasks : SF_vars(SettlesOwn(c, t))
    /\ \A c \in Reliable : SF_vars(Heartbeat(c)) /\ SF_vars(RegisterRole(c))

FairSpec == Spec /\ Fairness

-----------------------------------------------------------------------------
(* What keeps a task from being forgotten.  A task is held when a map or a
   local variable of some actor will bring it back: it is pending or completed,
   a node works on it, a handler or the cleanup has it in hand.  A handler
   about to untrack does not count: it has put the task back already. *)

HeldBy(c, t) ==
    \/ Present(c) /\ t \in nodes[c].active /\ ~(pc[c] = "untrack" /\ hand[c] = t)
    \/ hand[c] = t /\ pc[c] \in {"track", "send", "requeue", "resultPending", "resultDone"}

Held(t) ==
    \/ IsPending(t)
    \/ t \in completed
    \/ t \in orphans
    \/ \E c \in Conns : HeldBy(c, t)

\* A task the master answers for is held, or it was written to a connection
\* whose entry is gone: no interleaving of dispatch, failed writes, results,
\* cleanup and shell timeouts loses a task that no departed node ever received
\* (send_pending_tasks, handle_connection, cleanup_dead_nodes).
NeverLostUnsent ==
    \A t \in owed : Held(t) \/ \E c \in Conns : t \in given[c] /\ ~Present(c)

\* A node's active tasks are tasks it really received, or the one its handler
\* is sending right now (lib.rs:147-175).
ActiveWasSent ==
    \A c \in Conns : Present(c) =>
        \A t \in nodes[c].active :
            t \in given[c] \/ (hand[c] = t /\ pc[c] \in {"send", "requeue", "untrack"})

\* A task the shell addressed to one node reaches another one only after the
\* addressee has lost its entry: a failed send puts it back under its target,
\* and only cleanup forgets the target (lib.rs:131, 161-165, 231).
TargetHonoured ==
    \A t \in ShellIds, c \in Conns :
        t \in given[c] => askedOf[t] \in {c, AnyNode} \/ ~Present(askedOf[t])

\* Only a node that announced the Disk or Internet role is ever sent a task of
\* that role, although the role is read once and used for many sends
\* (lib.rs:120-123, 132).
RoleHonoured ==
    \A c \in Conns : \A t \in given[c] : RoleForTask(t) \in {"Worker", NodeRole[c]}

\* Two nodes are recorded as working on the same task only if cleanup has
\* evicted a node meanwhile: re-queued tasks and failed sends never lead to a
\* second assignment on their own (lib.rs:133, 161-173).
TrackedTwiceOnlyAfterEviction ==
    \A c, d \in Conns : \A t \in Tasks :
        /\ c # d
        /\ Present(c) /\ t \in nodes[c].active
        /\ Present(d) /\ t \in nodes[d].active
        => evicted # {}

\* ROADMAP.md:19, for a node that disconnects: its tasks are held again.
DisconnectRequeues ==
    \A c \in Conns : pc[c] = "closed" => \A t \in owed \cap given[c] : Held(t)

\* A connection that handle_connection left with `?' keeps its entry, but not
\* for ever: its heartbeat runs out and cleanup removes it.
GhostsGo == \A c \in Conns : pc[c] = "ghost" ~> ~Present(c)

\* A task a client or the shell queued is completed in the end, as long as
\* peers that give up a task are peers whose entry stays for cleanup to find.
EventuallyCompleted == \A t \in Tasks \ ShellIds : t \in owed ~> t \in completed

\* ROADMAP.md:20: a pending task finds a node that is available.
PendingAssigned == \A t \in Tasks \ ShellIds : IsPending(t) ~> ~IsPending(t)
=============================================================================
