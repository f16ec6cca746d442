------------------------------ MODULE Masters ------------------------------
(***************************************************************************)
(* A master over its restarts, and next to a peer master.                  *)
(*                                                                         *)
(* Master runs as before; here the saves that its steps spawn write the    *)
(* maps to the state file, the process may stop at any moment and be       *)
(* started again on what the file says (state.rs), and the maps are        *)
(* exchanged with a peer's (collect_state, merge_state).  A map has an     *)
(* address for every connection ever made, here, in an earlier life, or    *)
(* with the peer.                                                          *)
(***************************************************************************)
EXTENDS Master

CONSTANTS
    Savers,       \* names for spawned saves
    LifeOf,       \* the life of this master in which a connection is made; 0: never,
                  \* it is a connection of the peer's nodes
    PeerTasks,    \* tasks submitted to the peer
    Bounds,       \* Bound: a behaviour has one of these: how often this master is
                  \* started, how many exchanges each side begins, which tasks are
                  \* submitted, whether heartbeats may stay out and whether writes of
                  \* the file may fail, and the savers there are, that is, how many
                  \* spawned saves are alive at once; with none, saves are not followed
    Empty, Torn,  \* a state file without, or with broken, content
    NoBook

PeerConns == {c \in Conns : LifeOf[c] = 0}

Book == [nodes     : [Conns -> NodeInfo \cup {NoEntry}],
         pending   : [Tasks -> Targets \cup {NotPending}],
         completed : SUBSET Tasks]

ASSUME LifeAssumption == LifeOf \in [Conns -> Nat]
ASSUME BoundAssumption ==
    \A b \in Bounds : /\ b.lives \in Nat \ {0} /\ b.calls \in Nat /\ b.peerCalls \in Nat
                      /\ b.tasks \subseteq Tasks /\ b.late \in BOOLEAN
                      /\ b.failing \in BOOLEAN /\ b.savers \subseteq Savers
ASSUME PeerAssumption == PeerTasks \subseteq Tasks /\ ShellIds = {}
ASSUME BookAssumption == {Empty, Torn, NoBook} \cap [book : Book, missed : SUBSET Tasks] = {}
                         /\ NoBook \notin Book

VARIABLES
    file,     \* state_file: Empty, Torn, or a snapshot
    saver,    \* the step of each spawned save_state
    snap,     \* the snapshot a save has taken
    life,     \* which start of the master this is
    calls, peerCalls,   \* exchanges that connect_to_peer and the peer may yet begin
    sync,     \* the step of the exchange under way
    caller,   \* who began it
    got,      \* the book on its way, or being merged
    peer,     \* the peer's maps
    savers,   \* the savers of this behaviour
    ids,      \* the tasks of this behaviour
    late,     \* heartbeats may stay out in this behaviour
    failing,  \* writes of the file may fail in this behaviour
    lives,    \* starts that are left
    spoilt,   \* history: the newest snapshot was taken while another save was writing,
              \* or a write has failed since
    left      \* history: the connections whose entry was removed in this life

saveVars == <<file, saver, snap, spoilt>>
syncVars == <<calls, peerCalls, sync, caller, got>>
lifeVars == <<savers, ids, late, failing, life, lives>>
mastersVars == <<vars, saveVars, syncVars, lifeVars, peer, left>>

SaveSteps == {"idle", "due", "open", "write"}
SyncSteps == {"none", "asked", "nodes", "pending", "completed", "collect", "reply"}

Snapshots == [book : Book, missed : SUBSET Tasks]

\* A handler, the cleanup or a save has a local exactly where the code has it.
MastersTypeOK ==
    /\ TypeOK
    /\ file   \in Snapshots \cup {Empty, Torn}
    /\ saver  \in [Savers -> SaveSteps]
    /\ snap   \in [Savers -> Snapshots \cup {NoBook}]
    /\ \A s \in Savers : snap[s] # NoBook <=> saver[s] \in {"open", "write"}
    /\ life   \in Nat \ {0} /\ {lives, calls, peerCalls} \subseteq Nat
    /\ savers \subseteq Savers /\ ids \subseteq Tasks /\ late \in BOOLEAN /\ failing \in BOOLEAN
    /\ left \subseteq Conns
    /\ sync   \in SyncSteps /\ caller \in {"here", "peer"}
    /\ got    \in Book \cup {NoBook}
    /\ got # NoBook <=> sync \notin {"none", "collect"}
    /\ peer   \in Book
    /\ spoilt  \in BOOLEAN

\* One node of the peer's is at work there from the start.
EmptyBook == [nodes     |-> [c \in Conns |-> NoEntry],
              pending   |-> [t \in Tasks |-> NotPending],
              completed |-> {}]

PeerNode == [fresh |-> TRUE, isWorker |-> TRUE, role |-> "Worker", active |-> {}]

MastersInit ==
    /\ Init
    /\ file   = Empty
    /\ saver  = [s \in Savers |-> "idle"]
    /\ snap   = [s \in Savers |-> NoBook]
    /\ spoilt  = FALSE
    /\ left   = {}
    /\ life   = 1
    /\ \E b \in Bounds : /\ lives = b.lives - 1 /\ calls = b.calls
                         /\ peerCalls = b.peerCalls
                         /\ ids = b.tasks /\ late = b.late /\ failing = b.failing
                         /\ savers = b.savers
    /\ sync   = "none" /\ caller = "here" /\ got = NoBook
    /\ peer   = [EmptyBook EXCEPT !.nodes =
                    [c \in Conns |-> IF c \in PeerConns THEN PeerNode ELSE NoEntry]]

-----------------------------------------------------------------------------
(* Saves *)

Here == [nodes |-> nodes, pending |-> pending, completed |-> completed]

\* The tasks a book lists.
TasksIn(b) ==
    {t \in Tasks : \/ b.pending[t] # NotPending
                   \/ t \in b.completed
                   \/ \E c \in Conns : b.nodes[c] # NoEntry /\ t \in b.nodes[c].active}

\* The tasks in a local of send_pending_tasks: picked, and not known to be sent.
InDispatch == {t \in Tasks : \E c \in Conns : hand[c] = t /\ pc[c] \in {"track", "send", "requeue"}}

\* Mutant of Spawn: a save that is under way is taken to be enough.
Spawn_Debounced ==
    /\ \/ (\E s \in Savers : saver[s] # "idle") /\ UNCHANGED saver
       \/ (\A s \in Savers : saver[s] = "idle") /\ \E s \in savers : saver' = [saver EXCEPT ![s] = "due"]
    /\ UNCHANGED <<file, snap, spoilt>>

\* Spawned saves of one step count as one.
Spawn == /\ \/ savers = {} /\ UNCHANGED saver
            \/ \E s \in savers : saver[s] = "idle" /\ saver' = [saver EXCEPT ![s] = "due"]
         /\ UNCHANGED <<file, snap, spoilt>>

Writing(s) == saver[s] \in {"open", "write"}

\* The struct literal of save_state holds all four guards to its end, so the
\* maps are copied in one step.
Snapshot(s) ==
    /\ saver[s] = "due"
    /\ saver' = [saver EXCEPT ![s] = "open"]
    /\ snap'  = [snap EXCEPT ![s] = [book |-> Here, missed |-> InDispatch \ TasksIn(Here)]]
    /\ spoilt' = \E r \in Savers \ {s} : Writing(r)
    /\ UNCHANGED <<vars, file, syncVars, lifeVars, peer, left>>

\* tokio::fs::write opens and truncates the file, then writes.
Truncate(s) ==
    /\ saver[s] = "open"
    /\ saver' = [saver EXCEPT ![s] = "write"]
    /\ file'  = Empty
    /\ UNCHANGED <<vars, snap, spoilt, syncVars, lifeVars, peer, left>>

\* A shorter text over a longer one leaves the end of the longer one behind.
Fill(s) ==
    /\ saver[s] = "write"
    /\ file' \in IF file = Empty THEN {snap[s]} ELSE {snap[s], Torn}
    /\ saver' = [saver EXCEPT ![s] = "idle"]
    /\ snap'  = [snap EXCEPT ![s] = NoBook]
    /\ UNCHANGED <<vars, spoilt, syncVars, lifeVars, peer, left>>

\* Nobody looks at the error of a write.  The file was not opened, or what was
\* written of the text is nothing or a part of it.
WriteFails(s) ==
    /\ failing /\ Writing(s)
    /\ file' \in IF saver[s] = "open" THEN {file} ELSE {file, Torn}
    /\ saver' = [saver EXCEPT ![s] = "idle"]
    /\ snap'  = [snap EXCEPT ![s] = NoBook]
    /\ spoilt' = TRUE
    /\ UNCHANGED <<vars, syncVars, lifeVars, peer, left>>

SaveStep(s) == Snapshot(s) \/ Truncate(s) \/ Fill(s) \/ WriteFails(s)

-----------------------------------------------------------------------------
(* Crash and restart *)

\* load_state: a file that is missing or does not parse is ignored.
Loaded == IF file \in {Empty, Torn} THEN EmptyBook ELSE file.book

\* The process stops, and run() starts it again: everything but the file is
\* gone.  The new life has a new token (lib.rs:406), so the nodes of the old one
\* are turned away and what they were given is never answered; their entries
\* stay, with nobody to read for them.
Restart ==
    /\ lives > 0
    /\ lives' = lives - 1 /\ life' = life + 1
    /\ nodes' = Loaded.nodes /\ pending' = Loaded.pending /\ completed' = Loaded.completed
    /\ pc' = [c \in Conns |-> IF nodes'[c] # NoEntry THEN "ghost"
                              ELSE IF pc[c] = "new" THEN "new" ELSE "closed"]
    /\ hand' = [c \in Conns |-> NoTask]
    /\ keep' = [c \in Conns |-> AnyNode]
    /\ duty' = [c \in Conns |-> "Worker"]
    /\ cpc' = "sleep" /\ stale' = {} /\ orphans' = {}
    /\ given' = [c \in Conns |-> {}]
    /\ owed'  = owed \cap (IF file \in {Empty, Torn} THEN {} ELSE TasksIn(file.book))
    /\ saver' = [s \in Savers |-> "idle"] /\ snap' = [s \in Savers |-> NoBook]
    /\ spoilt' = FALSE /\ left' = {}
    /\ sync' = "none" /\ caller' = "here" /\ got' = NoBook
    /\ UNCHANGED <<shellVars, submitted, evicted, askedOf, file, calls, peerCalls, peer,
                   savers, ids, late, failing>>

-----------------------------------------------------------------------------
(* The exchange with a peer *)

\* entry(k).or_insert(v), for a map of nodes and for one of pending tasks
OrInsert(old, new, none) == [k \in DOMAIN old |-> IF old[k] # none THEN old[k] ELSE new[k]]

Merge(a, b) == [nodes     |-> OrInsert(a.nodes, b.nodes, NoEntry),
                pending   |-> OrInsert(a.pending, b.pending, NotPending),
                completed |-> a.completed \cup b.completed]

\* connect_to_peer, at start-up: collect_state and the write
CallPeer ==
    /\ sync = "none" /\ calls > 0
    /\ calls' = calls - 1 /\ caller' = "here" /\ sync' = "asked"
    /\ got' = Here
    /\ UNCHANGED <<vars, saveVars, lifeVars, peerCalls, peer, left>>

\* The peer merges what it was sent and answers with its own maps.
PeerAnswers ==
    /\ sync = "asked"
    /\ peer' = Merge(peer, got)
    /\ got' = peer'
    /\ sync' = "nodes"
    /\ UNCHANGED <<vars, saveVars, lifeVars, calls, peerCalls, caller, left>>

\* handle_peer_connection, when the peer starts
PeerCalls ==
    /\ sync = "none" /\ peerCalls > 0
    /\ peerCalls' = peerCalls - 1 /\ caller' = "peer" /\ sync' = "nodes"
    /\ got' = peer
    /\ UNCHANGED <<vars, saveVars, lifeVars, calls, peer, left>>

\* merge_state locks one map after the other.
MergeStep(from, to) ==
    /\ sync = from /\ sync' = to
    /\ UNCHANGED <<hand, keep, duty, cleanupVars, shellVars, given, submitted, evicted, askedOf,
                   lifeVars, calls, peerCalls, caller, peer, left>>

\* An entry that nobody here reads for is a ghost.
Adopt(merged) ==
    /\ nodes' = merged
    /\ pc' = [c \in Conns |-> IF ~Present(c) /\ merged[c] # NoEntry /\ pc[c] \in {"new", "closed"}
                              THEN "ghost" ELSE pc[c]]

\* Mutant of MergeNodes: the peer's entry replaces the one that is here.
MergeNodes_Overwrites ==
    /\ MergeStep("nodes", "pending")
    /\ Adopt(OrInsert(got.nodes, nodes, NoEntry))
    /\ UNCHANGED <<pending, completed, owed, got, saveVars>>

MergeNodes ==
    /\ MergeStep("nodes", "pending")
    /\ Adopt(OrInsert(nodes, got.nodes, NoEntry))
    /\ UNCHANGED <<pending, completed, owed, got, saveVars>>

MergePending ==
    /\ MergeStep("pending", "completed")
    /\ pending' = OrInsert(pending, got.pending, NotPending)
    /\ UNCHANGED <<nodes, completed, pc, owed, got, saveVars>>

\* From here on this master answers for what the peer had pending or completed.
MergeCompleted ==
    /\ MergeStep("completed", IF caller = "here" THEN "none" ELSE "collect")
    /\ completed' = completed \cup got.completed
    /\ owed' = owed \cup got.completed \cup {t \in Tasks : got.pending[t] # NotPending}
    /\ got' = NoBook
    /\ Spawn
    /\ UNCHANGED <<nodes, pending, pc>>

CollectState ==
    /\ sync = "collect" /\ sync' = "reply"
    /\ got' = Here
    /\ UNCHANGED <<vars, saveVars, lifeVars, calls, peerCalls, caller, peer, left>>

PeerMerges ==
    /\ sync = "reply" /\ sync' = "none"
    /\ peer' = Merge(peer, got)
    /\ got' = NoBook
    /\ UNCHANGED <<vars, saveVars, lifeVars, calls, peerCalls, caller, left>>

\* A read or a write of the exchange fails: only a warning.
SyncFails ==
    /\ sync \in {"asked", "reply"} \/ (sync = "nodes" /\ caller = "here")
    /\ sync' = "none" /\ got' = NoBook
    /\ UNCHANGED <<vars, saveVars, lifeVars, calls, peerCalls, caller, peer, left>>

Exchange == \/ CallPeer \/ PeerAnswers \/ PeerCalls \/ MergeNodes \/ MergePending
            \/ MergeCompleted \/ CollectState \/ PeerMerges \/ SyncFails

-----------------------------------------------------------------------------
(* The peer goes about its business, in the same way as this master does. *)

PeerOnly == UNCHANGED <<maps, handlerVars, cleanupVars, shellVars, given, owed, evicted, askedOf,
                        saveVars, syncVars, lifeVars, left>>

PeerSubmits(t) ==
    /\ t \in (ids \cap PeerTasks) \ submitted
    /\ submitted' = submitted \cup {t}
    /\ peer' = [peer EXCEPT !.pending[t] = AnyNode]
    /\ PeerOnly

PeerAssigns(c, t) ==
    /\ c \in PeerConns /\ peer.nodes[c] # NoEntry
    /\ peer.pending[t] # NotPending
    /\ \A d \in Conns : peer.nodes[d] # NoEntry => t \notin peer.nodes[d].active
    /\ peer' = [peer EXCEPT !.pending[t] = NotPending, !.nodes[c].active = @ \cup {t}]
    /\ UNCHANGED submitted
    /\ PeerOnly

PeerCompletes(c, t) ==
    /\ c \in PeerConns /\ peer.nodes[c] # NoEntry
    /\ t \in peer.nodes[c].active
    /\ peer' = [peer EXCEPT !.nodes[c].active = @ \ {t}, !.pending[t] = NotPending,
                            !.completed = @ \cup {t}]
    /\ UNCHANGED submitted
    /\ PeerOnly

\* What it was told of nodes that do not beat there goes with its next cleanup.
PeerEvicts(c) ==
    /\ c \notin PeerConns /\ peer.nodes[c] # NoEntry
    /\ peer' = [peer EXCEPT !.nodes[c] = NoEntry,
                            !.pending = [t \in Tasks |-> IF t \in peer.nodes[c].active
                                                         THEN AnyNode ELSE @[t]]]
    /\ UNCHANGED submitted
    /\ PeerOnly

PeerStep == \/ \E t \in Tasks : PeerSubmits(t)
            \/ \E c \in Conns, t \in Tasks : PeerAssigns(c, t) \/ PeerCompletes(c, t)
            \/ \E c \in Conns : PeerEvicts(c)

-----------------------------------------------------------------------------
(* The steps of Master: which of them spawn a save *)

Opens(c) == LifeOf[c] = life /\ Accept(c)

Submits(c, t) == t \in ids \ PeerTasks /\ SubmitTask(c, t)

Saving ==
    \/ \E c \in Conns : Opens(c) \/ ResultDone(c) \/ Leave(c) \/ \E t \in Tasks : Submits(c, t)
    \/ \E t \in Tasks : t \in ids \ PeerTasks /\ AddTask(t)
    \/ Scan /\ stale' = {}
    \/ \E c \in Conns : ~Present(c) /\ Evict(c)
    \/ RequeueOrphans

NotSaving ==
    \/ \E c \in Conns :
        \/ CheckRole(c) \/ Pick(c) \/ TrackActive(c) \/ SendOk(c) \/ SendFail(c)
        \/ Requeue(c) \/ UntrackActive(c) \/ ResultPending(c)
        \/ RegisterRole(c) \/ Heartbeat(c) \/ Query(c) \/ BadMessage(c)
        \/ \E t \in Tasks : TaskResult(c, t)
        \/ (late \/ pc[c] = "ghost") /\ Expire(c)
        \/ Present(c) /\ Evict(c)
    \/ Scan /\ stale' # {}

MasterRuns ==
    /\ (Saving /\ Spawn) \/ (NotSaving /\ UNCHANGED saveVars)
    /\ left' = left \cup {c \in Conns : Present(c) /\ nodes'[c] = NoEntry}
    /\ UNCHANGED <<syncVars, lifeVars, peer>>

MastersNext == \/ MasterRuns \/ (\E s \in Savers : SaveStep(s)) \/ Restart
               \/ Exchange \/ PeerStep

MastersSpec == MastersInit /\ [][MastersNext]_mastersVars

-----------------------------------------------------------------------------
(* NeverLostUnsent with a peer and over restarts: a task a client, the operator
   or the peer gave this master is held, or was written to a connection that has
   lost its entry since.  An entry can come back, from the peer, in the state in
   which the peer was told of it; or_insert never replaces one (lib.rs:43-45). *)
NeverLostInExchange ==
    \A t \in owed : Held(t) \/ \E c \in left : t \in given[c]

(* What a restart would bring back of what this master answers for, be it a
   client's, the operator's or the peer's task: whatever is held is listed in the
   file, or by a save that is writing, or a save is due, or will follow the merge,
   the eviction or the result that has the task now.  There are two exceptions.
   When two saves were writing at once, or a write failed, the file may be old or
   broken until the next save.  And a task that send_pending_tasks had in its hand
   at the newest snapshot is in neither map (state.rs:58-69): a restart loses it,
   sent or put back, until its result or something else spawns a save. *)
Lists(s, t)  == s \notin {Empty, Torn, NoBook} /\ t \in TasksIn(s.book)
Misses(s, t) == s \notin {Empty, Torn, NoBook} /\ t \in s.missed

SaveFollows(t) ==
    \/ \E s \in Savers : saver[s] = "due"
    \/ sync \in {"pending", "completed"} /\ t \in TasksIn(got)
    \/ t \in orphans
    \/ \E c \in Conns : hand[c] = t /\ pc[c] \in {"resultPending", "resultDone"}

RestartKnows ==
    spoilt \/ savers = {} \/ \A t \in owed : Held(t) =>
        \/ SaveFollows(t)
        \/ \E b \in {file} \cup {snap[s] : s \in Savers} :
               Lists(b, t) \/ (Misses(b, t) /\ t \notin completed)
=============================================================================
