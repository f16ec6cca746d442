---------------------------- MODULE MasterLocks ----------------------------
(***************************************************************************)
(* The four tokio mutexes of the master, and in which order its tasks take *)
(* them.  A tokio mutex is fair: lock().await joins a queue, and the mutex *)
(* goes to the head of the queue.                                          *)
(*                                                                         *)
(* What an operation does to the maps is left to Master and Ports.  Here   *)
(* an operation is the sequence of its lock().await calls, each one made   *)
(* alone, or while the guards taken since the last one made alone are in   *)
(* scope.  A guard that is a temporary lives to the end of its statement;  *)
(* in save_state and collect_state that statement is the struct literal    *)
(* that locks all the maps.                                                *)
(***************************************************************************)
EXTENDS Naturals, SequencesExt

CONSTANTS
    Handlers,    \* connection handlers
    Workers,     \* those of Handlers whose node may be sent tasks
    Syncs,       \* tasks exchanging state with a peer master
    Savers,      \* Bound: the spawned saves alive at the same time
    Cleaner,     \* the cleanup loop
    Shell,       \* the shell thread
    ShellAsks,   \* whether the operator uses getglobalram and getstorage
    Quiet,       \* Bound: actors that begin nothing in this instance
    MaxBusy,     \* Bound: the operations under way at once, spawned saves aside
    Free

Actors == Handlers \cup Syncs \cup Savers \cup {Cleaner, Shell}

ASSUME WorkersAssumption == Workers \subseteq Handlers
ASSUME QuietAssumption   == Quiet \subseteq Actors
ASSUME ShellAssumption   == ShellAsks \in BOOLEAN
ASSUME FreeAssumption    == Free \notin Actors
ASSUME BusyAssumption    == MaxBusy \in Nat \ {0}

Nodes == "connected_nodes"
Ports == "available_ports"
Pend  == "pending_tasks"
Done  == "completed_tasks"
Mutexes == {Nodes, Ports, Pend, Done}

Alone(m) == [does |-> "alone", mutex |-> m]   \* drop the guards held, then lock
Also(m)  == [does |-> "also",  mutex |-> m]   \* lock with them still held
Spawn    == [does |-> "spawn", mutex |-> Nodes]   \* spawn_save_state

SaveState    == <<Alone(Nodes), Also(Ports), Also(Pend), Also(Done)>>
CollectState == <<Alone(Nodes), Also(Pend), Also(Done)>>
MergeState   == <<Alone(Nodes), Alone(Pend), Alone(Done), Spawn>>
ReleasePort  == <<Alone(Nodes), Alone(Ports), Spawn>>

\* send_pending_tasks reads the role; it then picks, tracks and, when the write
\* fails, puts back and untracks.  Bound: at most one task is sent per call.
PickTask == <<Alone(Pend), Also(Nodes)>>
Dispatches(a) ==
    IF a \in Workers
    THEN {<<Alone(Nodes)>> \o PickTask,
          <<Alone(Nodes)>> \o PickTask \o <<Alone(Nodes)>> \o PickTask,
          <<Alone(Nodes)>> \o PickTask \o <<Alone(Nodes), Alone(Pend), Alone(Nodes)>>}
    ELSE {<<Alone(Nodes)>>}

\* The new entry's is_worker is FALSE: send_pending_tasks returns after the role.
Handshake == <<Alone(Nodes), Spawn, Alone(Nodes)>>

\* The arms of handle_connection that go on to send_pending_tasks.
Messages ==
    {<<Alone(Nodes)>>,                                  \* RegisterRole, GetConnectedNodes, Heartbeat
     <<Alone(Ports), Spawn, Alone(Nodes), Alone(Nodes)>>,   \* RequestConnection
     <<Alone(Pend), Spawn>>,                            \* SubmitTask
     <<Alone(Done)>>,                                   \* GetTaskResult
     <<Alone(Nodes), Alone(Pend), Alone(Done), Spawn>>} \* TaskResult

\* A Disconnect and a failed read leave the loop.
Departures ==
    {ReleasePort \o <<Alone(Nodes), Spawn, Alone(Nodes), Spawn>>,
     <<Alone(Nodes), Spawn>>}

\* Mutant of CleanupPass: the guard that removed the node is kept while its
\* tasks are put back.
CleanupPass_OneScope == <<Alone(Nodes), Alone(Nodes), Also(Pend)>> \o ReleasePort \o <<Spawn>>
CleanupPass == <<Alone(Nodes), Alone(Nodes), Alone(Pend)>> \o ReleasePort \o <<Spawn>>

\* tasks, task <id> and addtask.
ShellCommands ==
    {<<Alone(Nodes), Alone(Pend), Alone(Done)>>,
     <<Alone(Pend), Alone(Nodes), Alone(Done)>>,
     <<Alone(Pend)>> \o SaveState}

\* submit_task_for_node: queue and save, poll, save inside the poll's if-let,
\* and what follows a timeout.
Submit       == <<Alone(Pend)>> \o SaveState
Poll         == <<Alone(Done)>>
SaveInPoll   == <<Also(Nodes), Also(Ports), Also(Pend), Also(Done)>>
AfterTimeout == <<Alone(Pend)>> \o SaveState

VARIABLES
    owner,     \* who holds each mutex
    queue,     \* who waits for it, first come first served
    todo,      \* the lock calls left of each actor's operation
    busy,      \* the actors in the middle of an operation
    waiting,   \* the actors waiting at the head of their todo
    ask        \* how far submit_task_for_node is

vars == <<owner, queue, todo, busy, waiting, ask>>

AskSteps == {"none", "submitted", "polling", "taken", "missed", "lost"}

Init ==
    /\ owner   = [m \in Mutexes |-> Free]
    /\ queue   = [m \in Mutexes |-> <<>>]
    /\ todo    = [a \in Actors |-> <<>>]
    /\ busy    = {}
    /\ waiting = {}
    /\ ask     = "none"

-----------------------------------------------------------------------------
Call(a) == Head(todo[a])

Released(a) == [m \in Mutexes |-> IF owner[m] = a THEN Free ELSE owner[m]]

\* lock().await
Request(a) ==
    /\ a \in busy \ waiting
    /\ todo[a] # <<>>
    /\ Call(a).does \in {"alone", "also"}
    /\ owner'   = IF Call(a).does = "alone" THEN Released(a) ELSE owner
    /\ queue'   = [queue EXCEPT ![Call(a).mutex] = Append(@, a)]
    /\ waiting' = waiting \cup {a}
    /\ UNCHANGED <<todo, busy, ask>>

\* Mutant of Grant: whoever comes first takes a free mutex, the queue or not.
Grant_Barging(a) ==
    /\ a \in waiting
    /\ LET m == Call(a).mutex
       IN  /\ owner[m] = Free
           /\ owner' = [owner EXCEPT ![m] = a]
           /\ queue' = [queue EXCEPT ![m] = SelectSeq(@, LAMBDA b : b # a)]
    /\ todo' = [todo EXCEPT ![a] = Tail(@)]
    /\ waiting' = waiting \ {a}
    /\ UNCHANGED <<busy, ask>>

Grant(a) ==
    /\ a \in waiting
    /\ LET m == Call(a).mutex
       IN  /\ owner[m] = Free
           /\ Head(queue[m]) = a
           /\ owner' = [owner EXCEPT ![m] = a]
           /\ queue' = [queue EXCEPT ![m] = Tail(@)]
    /\ todo' = [todo EXCEPT ![a] = Tail(@)]
    /\ waiting' = waiting \ {a}
    /\ UNCHANGED <<busy, ask>>

\* Start saver s.  Bound: with all of Savers busy nothing is spawned.
SpawnSave(a) ==
    /\ a \in busy \ waiting
    /\ todo[a] # <<>>
    /\ Call(a).does = "spawn"
    /\ owner' = Released(a)
    /\ \/ \E s \in Savers \ busy :
            /\ todo' = [todo EXCEPT ![a] = Tail(@), ![s] = SaveState]
            /\ busy' = busy \cup {s}
       \/ /\ Savers \subseteq busy
          /\ todo' = [todo EXCEPT ![a] = Tail(@)]
          /\ busy' = busy
    /\ UNCHANGED <<queue, waiting, ask>>

Finish(a) ==
    /\ a \in busy \ waiting
    /\ todo[a] = <<>>
    /\ a = Shell => ask \notin {"submitted", "polling"}   \* else it goes on to poll
    /\ owner' = Released(a)
    /\ busy' = busy \ {a}
    /\ ask' = IF a = Shell THEN "none" ELSE ask
    /\ UNCHANGED <<queue, todo, waiting>>

Start(a, calls) ==
    /\ a \notin busy \cup Quiet
    /\ Cardinality(busy \ Savers) < MaxBusy
    /\ busy' = busy \cup {a}
    /\ todo' = [todo EXCEPT ![a] = calls]
    /\ UNCHANGED <<owner, queue, waiting>>

StartHandler(h) ==
    /\ \/ Start(h, Handshake)
       \/ \E m \in Messages, d \in Dispatches(h) : Start(h, m \o d)
       \/ \E d \in Departures : Start(h, d)
    /\ UNCHANGED ask

\* handle_peer_connection merges first, connect_to_peer collects first.
StartSync(p) ==
    /\ \/ Start(p, MergeState \o CollectState)
       \/ Start(p, CollectState \o MergeState)
    /\ UNCHANGED ask

StartCleanup == Start(Cleaner, CleanupPass) /\ UNCHANGED ask

StartCommand == (\E cmd \in ShellCommands : Start(Shell, cmd)) /\ UNCHANGED ask

-----------------------------------------------------------------------------
(* submit_task_for_node *)

AskNode == ShellAsks /\ Start(Shell, Submit) /\ ask' = "submitted"

\* The wait begins, or the poll found nothing: lock completed_tasks again.
PollAgain ==
    /\ Shell \in busy \ waiting
    /\ todo[Shell] = <<>>
    /\ ask \in {"submitted", "polling"}
    /\ ask' = "polling"
    /\ owner' = Released(Shell)
    /\ todo' = [todo EXCEPT ![Shell] = Poll]
    /\ UNCHANGED <<queue, busy, waiting>>

\* The poll takes the result out of the map and saves.
PollHit ==
    /\ Shell \in busy \ waiting
    /\ todo[Shell] = <<>>
    /\ ask = "polling"
    /\ ask' = "taken"
    /\ todo' = [todo EXCEPT ![Shell] = SaveInPoll]
    /\ UNCHANGED <<owner, queue, busy, waiting>>

\* Mutant of AskTimeout: the dropped future keeps its place in the queues.
AskTimeout_StaysQueued ==
    /\ ask \in {"polling", "taken"}
    /\ ask' = IF ask = "taken" THEN "lost" ELSE "missed"
    /\ owner' = Released(Shell)
    /\ waiting' = waiting \ {Shell}
    /\ todo' = [todo EXCEPT ![Shell] = AfterTimeout]
    /\ UNCHANGED <<queue, busy>>

\* The future is dropped, with its guards and its place in a queue.
AskTimeout ==
    /\ ask \in {"polling", "taken"}
    /\ ask' = IF ask = "taken" THEN "lost" ELSE "missed"
    /\ owner' = Released(Shell)
    /\ queue' = [m \in Mutexes |-> RemoveFirst(queue[m], Shell)]
    /\ waiting' = waiting \ {Shell}
    /\ todo' = [todo EXCEPT ![Shell] = AfterTimeout]
    /\ UNCHANGED busy

Ask == AskNode \/ PollAgain \/ PollHit \/ AskTimeout

Step(a) == Request(a) \/ Grant(a) \/ SpawnSave(a) \/ Finish(a)

Next ==
    \/ \E a \in Actors : Step(a)
    \/ \E h \in Handlers : StartHandler(h)
    \/ \E p \in Syncs : StartSync(p)
    \/ StartCleanup \/ StartCommand
    \/ Ask

Spec == Init /\ [][Next]_vars

\* Every actor in an operation is scheduled, the shell goes on to poll, and its
\* clock runs out; nobody has to begin another operation.
FairSpec ==
    /\ Spec
    /\ \A a \in Actors : WF_vars(Step(a))
    /\ WF_vars(PollAgain) /\ WF_vars(AskTimeout)

-----------------------------------------------------------------------------
TypeOK ==
    /\ owner   \in [Mutexes -> Actors \cup {Free}]
    /\ waiting \subseteq busy
    /\ busy    \subseteq Actors
    /\ ask     \in AskSteps
    /\ \A m \in Mutexes : \A i \in 1..Len(queue[m]) :
            queue[m][i] \in waiting /\ Call(queue[m][i]).mutex = m

WaitsFor(a) == owner[Call(a).mutex]

\* Everyone in S waits for somebody in S.
Deadlocked(S) == S # {} /\ \A a \in S : a \in waiting /\ WaitsFor(a) \in S

\* A spawned save, an exchange or the shell's save holds connected_nodes and wants
\* pending_tasks; a dispatcher holds pending_tasks and wants connected_nodes.
Inverted(S) ==
    /\ \E a \in S \cap (Savers \cup Syncs \cup {Shell}) : owner[Nodes] = a /\ Call(a).mutex = Pend
    /\ \E b \in S \cap Workers : owner[Pend] = b /\ Call(b).mutex = Nodes

\* The only two ways for the master to lock itself up: a save or a state
\* exchange meets a dispatcher, or the shell saves inside its poll.  Every
\* other pair of operations takes the mutexes compatibly.
DeadlockNeedsInversion ==
    \A S \in SUBSET Actors :
        Deadlocked(S) => Inverted(S) \/ (Shell \in S /\ ask = "taken")

\* Every operation gets through unless it is itself in a deadlock, or waits for
\* somebody who is: no order of lock calls starves anybody, however the others
\* go on.
EveryoneFinishes ==
    \A a \in Actors : a \in busy ~> a \notin busy \/ \E S \in SUBSET Actors : a \in S /\ Deadlocked(S)

\* state.rs:75, "without blocking the caller": nobody is caught waiting for a
\* save that waits for them.
SaveNeverBlocksCaller == \A S \in SUBSET Actors : ~Deadlocked(S)

\* shell.rs:55, "getglobalram - show memory usage of a worker": a result that
\* the poll took out of the map is on its way to the operator, and the save in
\* between does not wait for a guard of the shell itself (the timeout would then
\* be the only way out, and it drops the result).
TakenIsShown == ask = "taken" => ~Deadlocked({Shell})
=============================================================================
