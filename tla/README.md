# CPCluster in TLA+

A verification project for CPCluster: models of the master, of the nodes and of
the cluster they form, TLC instances that check them, and theorems about them
checked with TLAPS. The definitions follow the Rust sources; the comments in the
modules name files and lines, and `PROJECT.json` maps each definition to the lines
it stands for. Below, `lib.rs`, `state.rs` and `shell.rs` are the ones of
`CPCluster_masterNode`, `node.rs` and `disk_store.rs` the ones of `CPCluster_node`;
the other files are named with their crate.

## 1. The system and its parts

| Part | State | Operations | What makes it correct | Modules |
|---|---|---|---|---|
| Master, task book (`lib.rs`, `state.rs`) | `connected_nodes` (heartbeat, role, `is_worker`, `active_tasks`), `pending_tasks`, `completed_tasks`, each behind a mutex; per connection a handler with locals | handshake, the `NodeMessage` arms of `handle_connection`, `send_pending_tasks` after each of them, `cleanup_dead_nodes` | no accepted task is forgotten; targets and roles are honoured; a task is with one node; a dead node's tasks come back and get done | `Master`, `Master_proofs`, `MasterCustody_proofs` |
| Master, mutexes | four fair tokio mutexes | every `lock().await`, in order, with the guards in scope | no set of tasks waits for itself; everybody gets through | `MasterLocks`, `MasterLocks_proofs` |
| Master, port pool | `available_ports`, `NodeInfo::port` | `RequestConnection`, `Disconnect`, `release_port`, removal of an entry | a port is with one node at a time; ports come back | `PortPool` (abstract), `Ports`, `Ports_proofs` |
| Master, shell (`shell.rs`) | the command being run, one thread | `addtask`, `getglobalram`, `getstorage`; `nodes`, `tasks`, `task <id>` only print | the answer asked for arrives; a timeout takes the task back | in `Master`, `MasterLocks` |
| Node (`node.rs`) | its stream, `open_tasks`, the task at work | `connect_to_master`, `heartbeat_loop`, `reconnect` | a result outlives a broken connection; no assigned task is swallowed | `Node`, `System`, `System_proofs` |
| Master, state file (`state.rs`) | `master_state.json`, snapshots on their way to it | `save_state`, `spawn_save_state`, `load_state` | a restart knows the tasks answered for | `Masters`, `Masters_proofs`; locking in `MasterLocks` |
| Master, peer masters (`lib.rs:32-102`) | a snapshot on its way | `collect_state`, `merge_state`, `connect_to_peer`, `handle_peer_connection` | no task is lost to the other's older view | `Masters`, `Masters_proofs`; locking in `MasterLocks` |
| Client (`cpcluster_client`) | a stream, a deadline, the call it is at | `submit_and_wait`, the program of `main.rs` | the result of *this* task, or an error; the program ends | `Session`, `Session_proofs` |
| Task execution (`CPCluster_node/src/lib.rs`) | the task in hand | `execute_node_task` | a result for every task; a read of a file finds the last write | `Executor`, `Executor_proofs` |
| Disk store (`disk_store.rs`) | files, an atomic usage counter | `new`, `store`, `load`, `stats` | the quota holds; a refusal has a reason | `Executor`, `Executor_proofs` |
| Memory store (`memory_store.rs`) | a map | `store`, `load`, `stats` | a datum is looked for where it was put | `Executor`, `Executor_proofs` |
| Internet ports (`internet_ports.rs`) | bound sockets, an index | `bind`, `udp_socket`, `tcp_port` | a task gets the reply to its own datagram | `Executor`, `Executor_proofs` (UDP) |
| Framing (`cpcluster_common`) | a half-read frame | `read_/write_length_prefixed` | a read that is dropped does not cut a frame in half | in `Node` (`CutFrame`) and `Session` (`cut`) |
| Direct connections (`node.rs:362-490`) | | `handle_connection` of a node | | not modelled: they never come up (section 6) |
| TLS, configuration files, command line of the node, scripts | | I/O | | not modelled |

**How they interact.** Every node has one TCP or TLS stream to the master; frames
are length-prefixed JSON. The master runs one tokio task per connection, next to
the cleanup loop, the shell thread, spawned saves and peer exchanges; they share
the maps and nothing else. A handler only writes to its node right after it has
read something from it: tasks are dispatched in the wake of heartbeats.
A node is a single loop that reads frames, sends heartbeats *and executes the
tasks*, so a node at work neither reads nor beats. Clients are connections that
never send a heartbeat, so that their entries are evicted while they wait. Peers
exchange whole snapshots, when one of them starts. Node processes share nothing but,
possibly, a storage directory.

**What is hard.** A task moves between the maps in separate critical sections, and
cleanup, results, failed writes and shell timeouts come in between. Handlers
that fail with `?` leave their entry behind; entries removed by cleanup leave a
handler behind. Maps are locked in two orders. Connections break with frames
under way, nodes reconnect under a new address, and results are sent again. A
long task looks like a dead node. Spawned saves overtake each other, a write of the file fails
unnoticed, a crash comes between the truncation of a file and its content, and a peer's older view is merged
into maps that have moved on. A timeout drops a read in the middle of a frame, and a
reply that comes late answers the next question. `PROJECT.json` lists these hazards
at their lines.

## 2. The modules

### Master

One action is one critical section (the code between taking and dropping a guard)
or one socket operation. `nodes`, `pending` and `completed` are the three maps;
`pc[c]`, `hand[c]`, `keep[c]` and `duty[c]` are where connection `c`'s handler is
and its local variables: the task taken out of a map, that task's target, the
role read at the start of `send_pending_tasks`. `cpc`, `stale`, `orphans`
are the same for `cleanup_dead_nodes`, `spc`, `asking`, `candidates`, `wanted` for
the shell.

| Code | Actions |
|---|---|
| accept, token, entry, first `send_pending_tasks` | `Accept`, then `CheckRole` |
| `send_pending_tasks` | `CheckRole`, `Pick`, `TrackActive`, `SendOk` or `SendFail`, `Requeue`, `UntrackActive` |
| `RegisterRole`, `Heartbeat`, `SubmitTask` | actions of these names; then `CheckRole` |
| `GetConnectedNodes`, `GetTaskResult`, `RequestConnection`, unknown | `Query` |
| `TaskResult` | `TaskResult`, `ResultPending`, `ResultDone` |
| a write or a parse that fails with `?` | `Reply`'s second alternative, `BadMessage`: the handler becomes a *ghost* |
| `Disconnect`, a failed read | `Leave` |
| `cleanup_dead_nodes` | `Scan`, `Evict`, `RequeueOrphans` |
| `addtask` / `getglobalram`, `getstorage` | `AddTask` / `ListNodes`, `AskNode`, `TakeResult`, `AskTimeout` |

Abstractions: a task is an id with its variant (its role follows from it), a
target is a connection or nobody; a peer address is used once (TCP ports are
ephemeral); a heartbeat is *fresh* or not, and `Expire` is the passage of twice
the failover timeout. `given`, `submitted`, `owed`, `evicted` and `askedOf` are
history for guards of the environment and for properties. Constants
say which peers may fail, garble their stream or fall silent.

### MasterLocks

An operation is the sequence of its `lock().await` calls, each marked `Alone`
(guards taken before are dropped) or `Also` (they are still in scope). The mutexes
are FIFO, as tokio's are. `Request`, `Grant`, `SpawnSave` and `Finish` run any
operation; `StartHandler`, `StartSync`, `StartCleanup`, `StartCommand` and
`AskNode`, `PollAgain`, `PollHit`, `AskTimeout` choose the next one as the code
does. After the handshake the entry is no worker's, so that `send_pending_tasks` returns at once
(`lib.rs:120-122, 262`): `Handshake` is an operation of its own, and `Messages` are the
ones a dispatch follows. A temporary guard lives to the end of its statement, which for the struct
literals of `save_state` and `collect_state` means that one task holds up to four
mutexes, and for the `if let` of the shell's poll that `completed_tasks` is held
through the body.

### PortPool and Ports

`PortPool` is the promise: a port is in the pool, with one node or lost, and
passes from node to node only through the pool. `Ports` is the code: the queue, the
port in each entry, and handlers that hold a port in a local between
`allocate_port` and the entry, and between the entry and the queue. `Abstract`
instantiates `PortPool` with `owner <- PoolOwner`, which computes where each port is.

### Node and System

`Node` is the other end: `at[p]` is where node `p` is in `connect_to_master`
(`auth`, `list`), `heartbeat_loop` (`loop`, `execute`, `report`) or `reconnect`
(`redial`, `reauth`, `relist`, `resend`); `open[p]` is `open_tasks`. A stream is
two FIFO queues of frames. `Break` cuts a connection with any of the frames
under way; until somebody notices, writes still "succeed" and reach nobody.
`lost` collects the results that vanish this way.

`System` extends `Master` and instantiates `Node`: each master action that reads or
writes is conjoined with its effect on the stream, so that `Master`'s
nondeterminism (which message comes, which write fails, whose heartbeat stays
out) is resolved by what nodes and connections do. A heartbeat runs out
(`OutOfTime`) unless its node is in its loop on a connection that works: a
node that dials, or executes a task, may be too late. A node is *deaf* when the
heartbeat's tick has come in the middle of a frame: `select!` drops the read with
what it has got, the next one takes the middle of a message for a length, and the node
goes on sending heartbeats while it swallows whatever comes.

| Code | Actions |
|---|---|
| `connect_to_master` | `Dial`, `Login`, `Listed` |
| `reconnect` | `Dial`, `Relogin`, `Relisted`, `Resend`, `GiveUp` |
| `heartbeat_loop` | `Tick`, `Ignored`, `Assigned`, `StreamEnds`, `Execute`, `Report`; `CutFrame`, `Swallow` |
| TCP | `Break`, `Write`, `Consume`, `Hangup`, `Deliver` (external) |

### Masters

`Masters` extends `Master` with what outlives a process and what comes from outside.
`MasterRuns` is a step of `Master` conjoined with the save it spawns, if it spawns
one (`Saving`) or not (`NotSaving`). A save copies the four maps in one step
(the struct literal of `save_state` holds all the guards), then `fs::write` empties the
file (`Truncate`) and writes it (`Fill`); two saves at once may leave a torn file, and a write
that fails (`WriteFails`, which nobody looks at, `state.rs:71`) the old one, an empty or a
torn one. The history of a snapshot, `missed`, is the tasks that the dispatcher had in its
hand, which are in no map then; `Restart` loads the maps only.
`Restart` stops the process at any point and starts it on the file: handlers, saves
and exchanges are gone, the new token turns the old nodes away, and their entries are
*ghosts* until cleanup finds them. An exchange is `collect_state` on one side, then
`merge_state` on the other, map by map, in both directions; `sync` is where it is.
`peer` holds the peer's maps; its own handlers and cleanup are `PeerSubmits`,
`PeerAssigns`, `PeerCompletes` and `PeerEvicts`, coarser versions of the ones here. There
is one exchange at a time, although `run()` has a task for each peer (`lib.rs:445-450`);
and `load_state` finds the file, none, or one that does not parse, but no error of the
file system.

### Session

`Session` extends `Master` with the programs of clients: one step of a client is one
read or one write on its stream, and `Serves` conjoins the handler's step in `Master`
with the request it reads and the reply it writes. `Plan(c)` is the program's calls in
order; `submit_and_wait` is a call with a deadline (`TimesOut`, at any point after the
acknowledgement), the loops of `main.rs` are calls without. A deadline
that comes during a read may find part of a frame read (`cut`): nothing can be read from
that stream any more. `Stubborn` clients call again after a call has failed.

### Executor

`Executor` is one or more node processes, each executing one task at a time:
`AssignTask` gives it one (from a master that knows it under the task's role),
`Reply` takes the result away. In between, each `await` of `execute_node_task` that
others can come before is a step.

| Code | Actions |
|---|---|
| set-up in `heartbeat_loop` | `Start` (empty memory, usage counted, ports bound, role announced) |
| `Compute`, `ComplexMath` | `Evaluate` |
| `StoreData`, `RetrieveData` | `StoreInMemory` or `Measure`, `Open`, `Fill`; `Retrieve` |
| `DiskWrite`, `DiskRead` | `Open`, `Fill`; `DiskRead`; `RejectsPath` for a path outside `storage_dir` |
| `GetGlobalRam`, `GetStorage` | `Statistics` |
| `HttpRequest`, `Tcp`, `Udp` | `Ask`, then `Answered` (a connection or socket of its own) or `Receive` (a bound UDP socket) |
| errors of the file system or the network | `ReadFails`, `WriteFails`, `NetworkFails` |
| a process ends, reconnects, is given up by the master | `Crash`, `Reconnect`, `Requeue` |

The history is in two parts. `kept` is the last write of each file, whoever made it;
`stored` is the last `StoreData` of each key anywhere, or the `DiskWrite` that has replaced
its file, with the place where it is: the memory of a process, a directory, or nowhere
since a restart emptied that memory. `Outside` are the tasks about a path outside
`storage_dir`. Errors where only a size is asked (a size of 0 is taken then), and the
directories `DiskWrite` makes before it looks at the path (`lib.rs:190-194` of the node),
are left out.

A file is a sequence of the tasks that wrote its bytes, so that an overwritten, torn
or stale one shows; the size of a directory is the number of its bytes, each
identified by its file and its place there. `Echo` is a server that sends a reply, perhaps a second one or a
late one, to a bound socket.

## 3. The runs

Every property of a passing run comes with a mutant in `PROJECT.json`: a plausible
bug in a mapped definition that makes TLC report that property.

| Run | Instance | What it shows |
|---|---|---|
| `master_tasks` | 2 connections (Worker, Disk), both may fail in every way; a client's `DiskRead`, and either an `HttpRequest` of the client or the operator or a `GetGlobalRam` of the shell | `NeverLostUnsent`, `ActiveWasSent`, `TargetHonoured`, `RoleHonoured` under every interleaving |
| `session` | 1 client, 2 workers of which one may garble its stream; two scenes: a call without a deadline, and a call with one followed by one without, with heartbeats that may stay out; fairness | `OwnAnswer`, `AnswerIsDone`, `ReplyComes`, `ProgramEnds`, `GhostsGo`, `EventuallyCompleted` |
| `master_disconnect` | 1 worker that may leave, 1 task | *violated*: `docs/ROADMAP.md:19` says the tasks of a node that disconnects are queued again; `lib.rs:394` drops them with the entry |
| `master_zombie` | 1 worker that may be late once, 1 task, fairness | *violated*: an evicted node that goes on is acknowledged and never used again (`lib.rs:363`), so a pending task waits for ever, against `docs/ROADMAP.md:20` |
| `locks_order` | a dispatching handler, a peer exchange, cleanup, the shell with `getglobalram`, two of them at work at a time, and a spawned save; fairness | `DeadlockNeedsInversion`: the master locks up by one inversion, or the shell by itself, and in no other way; `EveryoneFinishes`: whoever is not caught in that gets through |
| `locks_save` | a dispatching handler, a save, cleanup, the shell without `getglobalram` | *violated*: the handler spawns a save for a task submitted and goes on to dispatch; the save holds `connected_nodes` and waits for `pending_tasks`, the handler the other way round, and the master stops; `state.rs:75` says "without blocking the caller" |
| `locks_ask` | a client handler, a save, cleanup, shell with `getglobalram` | *violated*: the poll that finds a result saves with the guard of `completed_tasks` in scope and waits for itself until the timeout drops the result (`shell.rs:36-37`) |
| `ports_pool` | 3 connections, 2 ports, 2 requests each, every kind of departure (symmetric connections) | `PortExclusive`, `LeakExplained`, and `ImplementsPool` (refinement) |
| `ports_evict` | 1 connection that may fall silent, 1 port | *violated*: `cleanup_dead_nodes` removes the entry before `release_port` looks for the port in it, against `README.md:15` |
| `system` | 1 node, a first connection that may break at any point and a second one to reconnect on, 1 task of the operator, cleanup; fairness | `NoTaskSwallowed`, `ResultKept`, `AssignmentKept`, `TrackedTwiceOnlyAfterEviction`, `RunTwiceOnlyAfterEviction`, `OpenResultDelivered` and `AssignedExecuted` |
| `masters` | this master with up to two lives and two saves at once, or one save that may fail, or one or two exchanges with a peer; 1 node per life, 1 of the peer's, 2 tasks | `NeverLostInExchange`, `RestartKnows` |
| `executor` | 1 or 2 processes, 1 directory, a quota of 2, up to 3 names; nine scenes, among them two workers with a memory each; fairness | `ReadsBack`, `StoredIsFound`, `QuotaKept`, `RefusedForRoom`, `OwnReply`, `TasksAnswered` |

What the properties of the newer runs excuse is what the code does, and each excuse is
needed - without it TLC finds the behaviour (for the merge in `RestartKnows` in a longer
story, of two exchanges with a save):

- `NeverLostInExchange`: a task may be lost with an entry that has gone in this life,
  even if the peer later brings the entry back as it was.
- `RestartKnows`: a task is listed in the file or by a save that is writing, or a save is
  due or will be spawned (by the merge, the eviction or the result that has the task).
  Not once two saves have written at the same time or a write has failed, until the next
  snapshot. And not for a task that `send_pending_tasks` had in its hand at the newest
  snapshot, until it is completed or another snapshot lists it: a crash loses it
  (section 5). What a save under way lists is not in the file yet, and a crash during the
  write leaves an empty file: the property says that the save was begun, no more.
- `OwnAnswer`: not after a call on the stream has timed out. `ProgramEnds`: not after
  a timeout has cut a frame. `AssignmentKept` and `AssignedExecuted`: not on a deaf node.
- `QuotaKept`: a quota per node that uses the directory, and not after a `DiskWrite`,
  nor if a node counted the directory while another was writing.
- `ReadsBack`: about files only; not if two wrote the file at once, a write broke off or
  is going on, nor if the read itself fails. `StoredIsFound`: only of a `RetrieveData`
  that comes to the place where the datum is, which the master does not see to: at another
  worker, or after a restart of the one that had it in memory, there is no datum
  (section 5).
  `RefusedForRoom`: not once a file got smaller. `OwnReply`: not after a stray datagram.
  `TasksAnswered`: not while a process waits for the network, nor if no
  process is known under the task's role.

**Bounds.** *Master*: two connections are enough for every pairwise race between
handlers, and for cleanup against both; three in `session` let a node take over from
another while a client waits. Two tasks give one with and one without a target, of
two different roles; `master_tasks` has three, but not the last two in one behaviour
(the constraint `MCTwoTasks`). Addresses and ids are used once (`Conns`, `Tasks`,
`ShellIds` bound how many there are). The theorems lift these bounds for the safety
properties. *MasterLocks*: `Savers` bounds the saves alive at once, `MaxBusy` the
other actors at work at once, a call of `send_pending_tasks` dispatches at most one
task (the next round takes the same mutexes again), `Quiet` names the actors that
begin nothing in an instance. Both deadlocks need two actors at most, and `locks_order`
has every pair of kinds of actors, with a save besides. *Ports*: `MaxRequests = 2` lets
a node overwrite a port it has; with fewer ports than connections the queue runs empty.
*System*: `ConnsOf` bounds the reconnects of a node, here to one, which every path
through `reconnect` takes; `Flaky` says which connections may break; a stream
carries one heartbeat at a time (`Quiet` in `Node`). *Masters*: `Bounds` lists what a
behaviour may have - how many lives, exchanges from either side, tasks, saves at once,
whether heartbeats may stay out (`late`) and writes of the file fail (`failing`); a
restart with two saves, a restart with a save that may fail, an exchange with one
save, and both directions of the exchange are among them; not a restart in the middle of
an exchange, which only drops it. With no savers in a story, saves are not followed
(and `RestartKnows` not asked). *Session*: `Scenes` are the programs; two calls are what a late
reply needs to be taken for another. *Executor*: `Scenes` give the processes, their
configurations, the tasks, how many faults there are (`faults`) and how many replies a
server sends to a datagram (`replies`); sizes are 1 and 2 under a quota of 2, so that
one task fills it, two exceed it, and a file can grow and shrink.

**Deadlock checking** is off in `locks_order` (deadlock is the subject), in the
`ports_*` runs (every connection may be over), in `system` (the node may have
stopped with nothing left to do) and in `executor` (a process may wait for a server
for ever, or have nothing left to do).

**Fairness.** *Master*: handler steps between two socket operations and the
cleanup loop are tokio tasks nothing keeps from running, hence weak fairness; a
ghost's clock runs out. A peer outside `Mortal` connects and takes what is written
to it. Strong fairness is assumed only of what the peer does at a read
that keeps coming round: heartbeats and the role of peers that never garble, and
that a peer which has a task ends by answering or garbling. *MasterLocks*: an actor
inside an operation is scheduled, and a poll of the shell is repeated or times out;
nobody has to start another operation. *System*: weak fairness of each connection's
handler and of each node's loop, nothing of breaks, of the operator, of cleanup, or of
time. *Session*: Master's, and that a client's program runs and its requests are
served (weak); a call with a deadline that goes round its loop for ever meets it
(strong: the deadline is a point in time, and `TimesOut` is not enabled in every state
of the loop). *Executor*: processes are started and run, and the master hands out
tasks; no server has to answer and nothing is said of faults. `masters` checks safety
only.

## 4. What is proved

TLAPS checks the following for every value of the constants, that is for any number
of nodes, connections, tasks, ports, processes and files. The assumptions are the named
`ASSUME`s of the modules: sentinels differ from data, shell ids have shell kinds, the
port queue starts with every port once, a connection is of one node, and, where things
are counted, there are finitely many processes and file names. `System` is about nodes
only, all of which may fail, and `Masters` leaves the shell out (`SystemAssumption`,
`PeerAssumption`); the theorems about `Master` itself have the shell and clients in them. Every safety property
that a passing run checks, invariant or action property, is proved.

**`Master_proofs`**: `TypeCorrect`; `ActiveOnlySent` (`[]ActiveWasSent`);
`NothingUnsentIsLost` (`[]NeverLostUnsent`). `NeverLostUnsent` is not inductive: when
a handler lets go of a task after writing it, one has to know that its node's entry,
if there is one, has the task (`SendingTracked`); when an entry goes, that its
tasks were really sent (`ActiveWasSent`), and that a connection not yet accepted has
neither entry nor tasks (`FreshConn`); when cleanup reads a node's tasks,
that it had none in hand already (`CleanupIdle`). The inductive invariant is
`Inv == TypeOK /\ Bookkeeping /\ NeverLostUnsent`.

**`MasterCustody_proofs`**: `RolesHonoured` (by `RolesAgree`: the role a handler
has read, the entry's and the one of the task it is sending agree with what the node
announced), `TargetsHonoured` (by `TargetsKept`, which follows an addressed task
through maps and hands, and `FreshTasks`, that unused ids are nowhere),
`AssignedOnce` (by `OnePlace`: before the first eviction a task is pending, or in one
handler's hand, or active at one node). `SentOnce` is the step from there to the wire:
before the first eviction, a task that was sent is neither pending nor on its way out of
any hand (`GivenOnce`), so that nobody can send it again; `System_proofs` needs it.

**`MasterLocks_proofs`**: `TypeCorrect` (by `LocksInv`: whoever waits is in the queue of
the mutex it calls for, once, and nobody else is in any queue) and `DeadlockFree`
(`[]DeadlockNeedsInversion`). The argument is the one of ordered locking: `LockOrder` says
which guards an actor holds at each of its calls, and the mutexes an actor holds come
before the one it waits for in an order - nodes, ports, pending, completed for
saves and exchanges; pending, nodes for a dispatcher. With that, a set of actors that all
wait for one another has the inversion in it, or the shell in its poll (`ask = "taken"`,
the one operation `LockOrder` excepts), for any number of handlers, saves and exchanges.

**`Ports_proofs`**: `TypeCorrect`, `NoPortTwice` (with `TakenOut`: a port on its way
back to the queue is not in the entry any more), `LossesExplained` (with `Accounts`,
which keeps the ports a node has and has had apart), and `RefinesPool`: every step of
`Ports` is a step of `PortPool` or a stutter under `PoolOwner`.

**`System_proofs`**: `ClusterImplementsMaster` - whatever nodes and streams do,
the cluster's task book is a behaviour of `Master` - and with it
`ClusterLosesNothingUnsent` and `ClusterAssignsOnce`. What was proved against peers
that may do anything holds in the composition. What the composition adds:
`SystemTypeCorrect` (by `NodesInv`: a stream nobody has dialled is empty and unknown to
the master, a node at a step that reads has a stream, what is to be sent again is open);
`ResultsKept` (`[]ResultKept`; it is inductive over the types: each of the node, the
stream and the handler lets go of a result only when the next has it, or `lost` records
it); `NoTaskIsSwallowed` (`[]NoTaskSwallowed`, by `Introductions`: while a node waits for
the answer to its token or for the list, it is no worker for the master, and what is on
its stream is exactly its own question or the answer to it); `AssignmentsKept`
(`[]AssignmentKept`, by `CurrentWorks`: a node leaves a stream only when that is broken, so
that of its connections at most the one it uses works, and the frame it takes there is no
assignment unless it executes it, which in `list` and `relist` is `NoTaskSwallowed`; it is
the safety half of the `AssignedExecuted` that TLC checks); `ExecutedOnceUntilEviction`
(`[]RunTwiceOnlyAfterEviction`, by `ExecutedOnce`: a task that was sent is one frame on one
stream, or with one node, or done, and `SentOnce` keeps the master from adding another
frame).

**`Masters_proofs`**: `MastersTypeCorrect` (with `KnownIds`: every id in a map, a
snapshot, the file or a peer's book was submitted - what a merge adds to the tasks answered
for must be such an id); `NothingLostInExchange` (`[]NeverLostInExchange`);
`RestartsKnow` (`[]RestartKnows`). `NeverLostInExchange` is not inductive: an entry that
comes back from the peer out of date lists tasks that its handler was never given, and
takes them along when the handler leaves. `SafeTasks` therefore counts an entry only if
its handler was given the task or is gone already, and counts a task that a merge has
put here before it answers for it; `Entries` says where an entry may be missing.
`RestartKnows` is not inductive either, because an eviction can turn a task that is only
listed, or in a hand that will drop it, into a held one. `NearKnown` therefore speaks of
every task in a map or in `send_pending_tasks`'s hand (`Near`): a save for it follows
(`SaveFollows`), or the newest snapshot, written or still to be, lists it, or missed it in
that hand and it is not completed since (`Knows`). `OneWriter` says that one save writes
at a time, to a file that it has emptied; both hold until the newest snapshot is `spoilt`
by another that is writing, or by a write that fails. The theorem says what the file and
the saves list; for the tasks in a hand at the newest snapshot it says that there are no
others.

**`Session_proofs`**: `SessionImplementsMaster` (a session's task book is a behaviour of
`Master`), `SessionTypeCorrect`, `AnswersAreDone` (`[]AnswerIsDone`, by `ResultsDone`:
every result on its way to a client is of a task that is completed, and completed
tasks stay so), `AnswersAreOwn` (`[]OwnAnswer`, by `Ordered`: on a stream without a
timeout there is, while the client waits, exactly its request or exactly one reply that
fits it, and nothing otherwise - which is why the client may do without comparing ids)
and `RepliesCome` (`[]ReplyComes`, the safety half of `ProgramEnds`, for streams with
timeouts too). `ReplyComes` needs three facts: `NoWorker` (only a heartbeat makes a worker of an entry,
and clients send none, so that their handlers do not go to hand out tasks), `Served`
(nothing but the end of the program ends the handler, whatever cleanup does to the
entry) and `OnItsWay` (what a client waits for is in one direction of the stream).

**`Executor_proofs`**: `ReadsBackHolds` (`ReadsBack`, by `Files`: a file that is not
broken and not being written holds the payload of its last write; one that has been
emptied and not yet filled has one writer, or is broken), `StoredIsFoundHolds`
(`StoredIsFound`, by `Stored`: the datum last stored under a key is the entry of the memory,
or the last write of the file, where it is said to be) and `OwnReplyHolds`
(`[]OwnReply`, by `Replies`: without a stray datagram, a socket holds nothing but one
reply to the task that waits at it, and the server's first reply is then
spent); `ExecutorTypeCorrect`; `QuotaHolds` (`[]QuotaKept`) and `RefusalsHaveReason`
(`RefusedForRoom`). For the last two, `QuotaInv` relates the counters to the files:

- `Budget`: what is in a directory, together with the bytes that the stores under way
  found when they measured, and the *credit* of the disk nodes that are up, which
  is what they have not counted of their quota, fit into a quota for each sharer.
  `QuotaKept` by itself is not inductive: a store is admitted by a counter, and
  nothing in it relates counters to files. The bytes found are needed because another
  process may have emptied the file meanwhile, the credit because several processes
  are admitted before any of them has written.
- `Room`: a store that was admitted still has the room it was admitted for, since nobody
  else moves its process's counter.
- `Backed`: what a process has counted is in its directory, the file that it is storing
  counted as it found it, unless a file got smaller (`shrunk`).

A directory's size is the cardinality of a set of bytes, and credit is a set of pairs, so
that these facts follow from the library's theorems about finite sets. With a sum over
the files they would need an induction, which the installed provers cannot instantiate.

**Only model-checked**: liveness (`GhostsGo`, `EventuallyCompleted`, `ProgramEnds`,
`EveryoneFinishes`, `OpenResultDelivered`, `AssignedExecuted`, `TasksAnswered`), which
TLAPS does not reach: no backend reasons about fairness, which is about `ENABLED`.

## 5. Disagreements seen while modelling that no run states

- Between `Pick` and `TrackActive` a task is in no map; `task <id>` then prints
  that it does not exist. `Master` has the state; the print has no consequence.
- `reconnect` does not send `RegisterRole` (`node.rs:331`): a Disk or Internet node
  comes back as a Worker and is sent tasks of that role; the tasks of its own role wait.
- A completed task whose first assignee is evicted later is queued again
  (`lib.rs:228-231` does not look at `completed_tasks`), which is one way of running a
  task twice; `RunTwiceOnlyAfterEviction` says that there is none without an eviction.
- Results sent again stay in `open_tasks` (`node.rs:339-344`) and go out at every
  reconnect.
- A second `RequestConnection` overwrites the port of the first, and a failed
  read drops the entry with its port: `LeakExplained` names both causes.
- Only the requester hears of a direct connection, and the address it hears includes
  the peer's ephemeral port.
- `submit_and_wait` reads the acknowledgement without a timeout (`cpcluster_client`,
  line 27), and a reply that misses its deadline answers the next request; its README
  (5-6) says that the timeout keeps tasks from blocking for ever.
- Clients never beat: a client that waits longer than the failover timeout has no entry,
  and the next client may be told that there are no nodes, or count this one as a node.
- A deaf node (`node.rs:126`) keeps its entry and its tasks by its heartbeats.
- `DiskStore::store` never lowers the usage when a file shrinks (`disk_store.rs:34`);
  `DiskWrite` ignores the counter too (`lib.rs:209` of the node), against
  "up to `disk_space_mb`" (`README.md:19`); nodes that share a directory have a quota each.
- A task that `send_pending_tasks` has picked is in no map, so a snapshot taken then lists
  it nowhere, and neither the write to the node nor the way back into `pending_tasks`
  spawns a save (`lib.rs:147-175`): a crash before the next save loses it, against
  `state_file`, the "path where the master node persists its state"
  (`docs/DEVELOPER_GUIDE.md:50`). An error of the write itself is ignored (`state.rs:71`).
- `RetrieveData` is to "fetch bytes previously stored via `StoreData`"
  (`cpcluster_common/README.md:30`), but neither task has a target: another worker than
  the one with the datum, or that one after a restart, answers "Key not found".
- With role `Worker`, "tasks can use `DiskWrite` and `DiskRead` as a lightweight
  shared-memory channel between processes" (`CPCluster_node/README.md:62-64`), but the
  master sends these tasks to Disk nodes only (`lib.rs:104-110`). Disk nodes
  "apply the same mechanism [...] while respecting `disk_space_mb`" (64-65); their
  `DiskWrite` knows no quota.
- `StoreData` and `RetrieveData` ask for a Worker (`lib.rs:104-110`), so a disk store
  sees them only once its node has reconnected and is taken for a worker.
- A Udp task takes any datagram that waits in its socket, and waits for one without a
  timeout (`lib.rs:133` of the node).
- A restarted master has a new token (`lib.rs:406`): its nodes are refused when
  they reconnect, and give up with the results they hold.
- Peers "automatically synchronize" (`README.md:96`) once, when one starts; the exchange
  can bring back an entry or a task that has left meanwhile, and an outdated copy of a
  peer's node hides that node's later tasks.

## 6. What is left

Modelled: the master's task book, mutexes, ports, shell, state file and peers; the
node's connection and its execution of tasks with the stores behind it; the client.
Worth doing next:

1. The steps of the other liveness arguments that are safety, as `AssignmentKept` is for
   `AssignedExecuted`: that a task `EventuallyCompleted` speaks of goes from each place
   only to the next one or back.
2. `Executor` as the node's side of `System`: tasks with effects there, executed twice.

**Not modelled, and why.**

- *Direct connections between nodes* (`node.rs:362-490`): no link comes up. The
  address in `ConnectionInfo` is the peer's `ip:port` (`lib.rs:315-317`), and
  `handle_connection` adds another port to it (374), which no resolver takes;
  `is_local_ip` says no to it (375), so that a connection that is accepted is taken for
  TLS with that address as the server's name, which is refused (425).
- *The choice of a local port for Tcp tasks* (`internet_ports.rs:43-50`): that port is
  bound by the listener already, so the bind fails and the connection is made from
  another one (`lib.rs:86-94` of the node).
- *TLS set-up, configuration files, the join file, the node's command line, scripts*: I/O
  and library calls without protocol state.
- *Values*: what expressions evaluate to, the bytes of frames, the text of the shell.
