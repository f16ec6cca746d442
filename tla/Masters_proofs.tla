---------------------------- MODULE Masters_proofs ----------------------------
(***************************************************************************)
(* Theorems about a master that restarts on its state file and exchanges   *)
(* its maps with a peer's, for every number of restarts, exchanges, saves, *)
(* connections and tasks.                                                  *)
(***************************************************************************)
EXTENDS Masters, MasterCustody_proofs

\* What the master itself does is a step of Master.
LEMMA RunsAreSteps == MasterRuns => Next
<1>1. Saving => Next
    BY DEF Saving, Opens, Submits, Next, Connection, HandlerStep, Message, Cleanup, Shell
<1>2. NotSaving => Next
    BY DEF NotSaving, Next, Connection, HandlerStep, Message, Cleanup
<1> QED BY <1>1, <1>2 DEF MasterRuns

-----------------------------------------------------------------------------
(* Types.  The ids in the maps of both masters, in the books on their way, in
   the file and in the snapshots, and in the hands of handlers and cleanup, are
   ids that were submitted to one of the masters: this is what makes the tasks a
   merge adds to those answered for (owed) submitted ones. *)

BookKnown(b) == TasksIn(b) \subseteq submitted

KnownIds ==
    /\ FreshTasks /\ completed \subseteq submitted
    /\ BookKnown(peer)
    /\ got # NoBook => BookKnown(got)
    /\ file \notin {Empty, Torn} => BookKnown(file.book)
    /\ \A s \in Savers : snap[s] # NoBook => BookKnown(snap[s].book)

TypeInv == MastersTypeOK /\ KnownIds

LEMMA HereIsKnown ==
    ASSUME TypeOK, FreshTasks, completed \subseteq submitted
    PROVE  Here \in Book /\ BookKnown(Here)
  BY DEF TypeOK, Here, Book, FreshTasks, BookKnown, TasksIn, IsPending, ActiveAt, Present

LEMMA MergeTypes ==
  ASSUME NEW a \in Book, NEW b \in Book
  PROVE  /\ Merge(a, b) \in Book
         /\ \A c \in Conns : Merge(a, b).nodes[c] \in {a.nodes[c], b.nodes[c]}
         /\ \A t \in Tasks : Merge(a, b).pending[t] \in {a.pending[t], b.pending[t]}
         /\ Merge(a, b).completed = a.completed \cup b.completed
         /\ TasksIn(Merge(a, b)) \subseteq TasksIn(a) \cup TasksIn(b)
<1>1. /\ Merge(a, b) \in Book
      /\ \A c \in Conns : Merge(a, b).nodes[c] \in {a.nodes[c], b.nodes[c]}
      /\ \A t \in Tasks : Merge(a, b).pending[t] \in {a.pending[t], b.pending[t]}
      /\ Merge(a, b).completed = a.completed \cup b.completed
    BY DEF Merge, OrInsert, Book
<1> QED BY <1>1 DEF TasksIn

\* The peer's own steps.
LEMMA PeerTypes ==
  ASSUME peer \in Book, BookKnown(peer), submitted \subseteq Tasks, PeerStep
  PROVE  /\ peer' \in Book /\ BookKnown(peer)'
         /\ submitted \subseteq submitted' /\ submitted' \subseteq Tasks
<1>1. ASSUME NEW t \in Tasks, PeerSubmits(t)
      PROVE  /\ peer' \in Book /\ BookKnown(peer)'
             /\ submitted \subseteq submitted' /\ submitted' \subseteq Tasks
  <2>1. peer' = [peer EXCEPT !.pending = [@ EXCEPT ![t] = AnyNode]]
      BY <1>1 DEF PeerSubmits
  <2> QED BY <1>1, <2>1 DEF PeerSubmits, Book, Targets, BookKnown, TasksIn
<1>2. ASSUME NEW c \in Conns, NEW t \in Tasks, PeerAssigns(c, t)
      PROVE  /\ peer' \in Book /\ BookKnown(peer)'
             /\ submitted \subseteq submitted' /\ submitted' \subseteq Tasks
  <2>1. /\ peer.nodes \in [Conns -> NodeInfo \cup {NoEntry}] /\ peer.nodes[c] \in NodeInfo
        /\ peer.pending \in [Tasks -> Targets \cup {NotPending}] /\ peer.completed \subseteq Tasks
        /\ t \in TasksIn(peer) /\ submitted' = submitted
      BY <1>2 DEF PeerAssigns, PeerOnly, Book, TasksIn
  <2> DEFINE entry == [peer.nodes[c] EXCEPT !.active = @ \cup {t}]
             b == [nodes     |-> [peer.nodes EXCEPT ![c] = entry],
                   pending   |-> [peer.pending EXCEPT ![t] = NotPending],
                   completed |-> peer.completed]
  <2>2. peer' = b
      BY <1>2 DEF PeerAssigns, Book
  <2>3. entry \in NodeInfo /\ entry.active = peer.nodes[c].active \cup {t}
      BY <2>1 DEF NodeInfo
  <2> HIDE DEF entry
  <2>4. b \in Book
      BY <2>1, <2>3 DEF Book
  <2>5. TasksIn(b) \subseteq TasksIn(peer) \cup {t}
      BY <2>1, <2>3, SentinelAssumption DEF TasksIn
  <2> HIDE DEF b
  <2> QED BY <2>1, <2>2, <2>4, <2>5 DEF BookKnown, TasksIn
<1>3. ASSUME NEW c \in Conns, NEW t \in Tasks, PeerCompletes(c, t)
      PROVE  /\ peer' \in Book /\ BookKnown(peer)'
             /\ submitted \subseteq submitted' /\ submitted' \subseteq Tasks
  <2>1. /\ peer.nodes \in [Conns -> NodeInfo \cup {NoEntry}] /\ peer.nodes[c] \in NodeInfo
        /\ peer.pending \in [Tasks -> Targets \cup {NotPending}] /\ peer.completed \subseteq Tasks
        /\ t \in TasksIn(peer) /\ submitted' = submitted
      BY <1>3 DEF PeerCompletes, PeerOnly, Book, TasksIn
  <2> DEFINE entry == [peer.nodes[c] EXCEPT !.active = @ \ {t}]
             b == [nodes     |-> [peer.nodes EXCEPT ![c] = entry],
                   pending   |-> [peer.pending EXCEPT ![t] = NotPending],
                   completed |-> peer.completed \cup {t}]
  <2>2. peer' = b
      BY <1>3 DEF PeerCompletes, Book
  <2>3. entry \in NodeInfo /\ entry.active \subseteq peer.nodes[c].active
      BY <2>1 DEF NodeInfo
  <2> HIDE DEF entry
  <2>4. b \in Book
      BY <2>1, <2>3 DEF Book
  <2>5. TasksIn(b) \subseteq TasksIn(peer)
      BY <2>1, <2>3, SentinelAssumption DEF TasksIn
  <2> HIDE DEF b
  <2> QED BY <2>1, <2>2, <2>4, <2>5 DEF BookKnown, TasksIn
<1>4. ASSUME NEW c \in Conns, PeerEvicts(c)
      PROVE  /\ peer' \in Book /\ BookKnown(peer)'
             /\ submitted \subseteq submitted' /\ submitted' \subseteq Tasks
    BY <1>4 DEF PeerEvicts, Book, NodeInfo, Targets, BookKnown, TasksIn
<1> QED BY <1>1, <1>2, <1>3, <1>4 DEF PeerStep

LEMMA SpawnTypes ==
  ASSUME MastersTypeOK, Spawn
  PROVE  /\ saver' \in [Savers -> SaveSteps] /\ UNCHANGED <<file, snap, spoilt>>
         /\ \A s \in Savers : saver'[s] \in {"open", "write"} <=> saver[s] \in {"open", "write"}
  BY DEF Spawn, MastersTypeOK, SaveSteps

LEMMA KnownCompleted ==
  ASSUME TypeOK, FreshTasks, MasterRuns
  PROVE  completed' \subseteq completed \cup submitted
<1>1. Saving \/ NotSaving
    BY DEF MasterRuns
<1>2. CASE \E c \in Conns : ResultDone(c)
    BY <1>2, SentinelAssumption DEF ResultDone, TypeOK, InHandSteps, FreshTasks
<1>3. CASE ~ \E c \in Conns : ResultDone(c)
    BY <1>1, <1>3
    DEF Saving, NotSaving, Opens, Submits, Accept, Leave, SubmitTask, AddTask, Scan, Evict,
        RequeueOrphans, CheckRole, Pick, TrackActive, SendOk, SendFail, Requeue, UntrackActive,
        ResultPending, RegisterRole, Heartbeat, Query, BadMessage, TaskResult, Expire, maps
<1> QED BY <1>2, <1>3

LEMMA RunsTypes == TypeInv /\ MasterRuns => TypeInv'
<1> SUFFICES ASSUME TypeInv, MasterRuns PROVE TypeInv'
    OBVIOUS
<1> USE DEF TypeInv
<1>1. TypeOK'
    BY RunsAreSteps, TypeStep DEF MastersTypeOK
<1>2. /\ UNCHANGED <<syncVars, lifeVars, peer, file, snap, spoilt>>
      /\ saver' \in [Savers -> SaveSteps]
      /\ \A s \in Savers : saver'[s] \in {"open", "write"} <=> saver[s] \in {"open", "write"}
      /\ left' \subseteq Conns
    BY SpawnTypes DEF MasterRuns, saveVars, MastersTypeOK
<1>3. MastersTypeOK'
    BY <1>1, <1>2 DEF MastersTypeOK, syncVars, lifeVars
<1>4. submitted \subseteq submitted'
  <2>1. Saving \/ NotSaving
      BY DEF MasterRuns
  <2> QED BY <2>1
      DEF Saving, NotSaving, Opens, Submits, Accept, ResultDone, Leave, SubmitTask, AddTask, Scan, Evict,
          RequeueOrphans, CheckRole, Pick, TrackActive, SendOk, SendFail, Requeue, UntrackActive,
          ResultPending, RegisterRole, Heartbeat, Query, BadMessage, TaskResult, Expire, history
<1>5. FreshTasks'
    BY RunsAreSteps, FreshTasksStep DEF MastersTypeOK, KnownIds
<1>6. completed' \subseteq submitted'
    BY KnownCompleted, <1>4 DEF MastersTypeOK, KnownIds
<1>7. KnownIds'
    BY <1>2, <1>4, <1>5, <1>6 DEF KnownIds, BookKnown, syncVars
<1> QED BY <1>3, <1>7

LEMMA SaveTypes ==
  ASSUME TypeInv, NEW s \in Savers, SaveStep(s)
  PROVE  TypeInv'
<1> USE DEF TypeInv
<1>1. UNCHANGED <<vars, syncVars, lifeVars, peer, left>>
    BY DEF SaveStep, Snapshot, Truncate, Fill, WriteFails
<1>2. TypeOK' /\ FreshTasks' /\ completed' \subseteq submitted'
  <2>1. UNCHANGED vars
      BY <1>1
  <2> QED BY <2>1, TypeStep, FreshTasksStep DEF MastersTypeOK, KnownIds, vars, maps, history
<1>3. /\ saver' \in [Savers -> SaveSteps] /\ snap' \in [Savers -> Snapshots \cup {NoBook}]
      /\ spoilt' \in BOOLEAN /\ file' \in Snapshots \cup {Empty, Torn}
      /\ \A r \in Savers : snap'[r] # NoBook <=> saver'[r] \in {"open", "write"}
      /\ file' \notin {Empty, Torn} => BookKnown(file'.book)
      /\ \A r \in Savers : snap'[r] # NoBook => BookKnown(snap'[r].book)
  <2> DEFINE new == [book |-> Here, missed |-> InDispatch \ TasksIn(Here)]
  <2>1. /\ new \in Snapshots /\ new # NoBook /\ new.book = Here /\ BookKnown(Here)
      BY HereIsKnown, BookAssumption DEF MastersTypeOK, KnownIds, Snapshots, TasksIn, InDispatch
  <2> HIDE DEF new
  <2> USE DEF MastersTypeOK, KnownIds, SaveSteps
  <2>2. CASE Snapshot(s)
    <3>1. /\ saver[s] = "due" /\ saver' = [saver EXCEPT ![s] = "open"]
          /\ snap' = [snap EXCEPT ![s] = new] /\ spoilt' \in BOOLEAN /\ file' = file
        BY <2>2 DEF Snapshot, new
    <3> QED BY <2>1, <3>1
  <2>3. CASE Truncate(s)
      BY <2>3 DEF Truncate
  <2>4. CASE Fill(s)
      BY <2>4 DEF Fill
  <2>5. CASE WriteFails(s)
      BY <2>5 DEF WriteFails, Writing
  <2> QED BY <2>2, <2>3, <2>4, <2>5 DEF SaveStep
<1>4. submitted' = submitted
    BY <1>1 DEF vars, history
<1>5. MastersTypeOK'
    BY <1>1, <1>2, <1>3 DEF MastersTypeOK, syncVars, lifeVars
<1>6. KnownIds'
    BY <1>1, <1>2, <1>3, <1>4 DEF KnownIds, BookKnown, TasksIn, syncVars
<1> QED BY <1>5, <1>6

LEMMA LoadedTypes ==
  ASSUME TypeInv
  PROVE  Loaded \in Book /\ BookKnown(Loaded)
<1>1. CASE file \in {Empty, Torn}
    BY <1>1 DEF Loaded, EmptyBook, Book, BookKnown, TasksIn
<1>2. CASE file \notin {Empty, Torn}
    BY <1>2 DEF Loaded, TypeInv, MastersTypeOK, KnownIds, Snapshots
<1> QED BY <1>1, <1>2

LEMMA RestartTypes == TypeInv /\ Restart => TypeInv'
<1> SUFFICES ASSUME TypeInv, Restart PROVE TypeInv'
    OBVIOUS
<1>1. Loaded \in Book /\ BookKnown(Loaded)
    BY LoadedTypes
<1>2. /\ nodes' = Loaded.nodes /\ pending' = Loaded.pending /\ completed' = Loaded.completed
      /\ pc' = [c \in Conns |-> IF nodes'[c] # NoEntry THEN "ghost"
                                ELSE IF pc[c] = "new" THEN "new" ELSE "closed"]
      /\ hand' = [c \in Conns |-> NoTask] /\ keep' = [c \in Conns |-> AnyNode]
      /\ duty' = [c \in Conns |-> "Worker"]
      /\ cpc' = "sleep" /\ stale' = {} /\ orphans' = {}
      /\ given' = [c \in Conns |-> {}] /\ owed' \subseteq owed
      /\ UNCHANGED <<shellVars, submitted, evicted, askedOf>>
    BY DEF Restart
<1>3. TypeOK'
    BY <1>1, <1>2
    DEF TypeInv, MastersTypeOK, TypeOK, Book, HandlerSteps, InHandSteps, Targets, Roles, shellVars
<1>4. FreshTasks' /\ completed' \subseteq submitted'
    BY <1>1, <1>2, SentinelAssumption
    DEF FreshTasks, BookKnown, TasksIn, IsPending, ActiveAt, Present, Book
<1>5. /\ lives' \in Nat /\ life' \in Nat \ {0}
      /\ saver' = [s \in Savers |-> "idle"] /\ snap' = [s \in Savers |-> NoBook]
      /\ spoilt' = FALSE /\ left' = {}
      /\ sync' = "none" /\ caller' = "here" /\ got' = NoBook
      /\ UNCHANGED <<submitted, file, calls, peerCalls, peer, savers, ids, late, failing>>
    BY DEF Restart, TypeInv, MastersTypeOK
<1>6. MastersTypeOK'
    BY <1>3, <1>5 DEF TypeInv, MastersTypeOK, SaveSteps, SyncSteps
<1>7. KnownIds'
    BY <1>4, <1>5 DEF TypeInv, KnownIds, BookKnown
<1> QED BY <1>6, <1>7 DEF TypeInv

LEMMA PeerStepTypes == TypeInv /\ PeerStep => TypeInv'
<1> SUFFICES ASSUME TypeInv, PeerStep PROVE TypeInv'
    OBVIOUS
<1>1. PeerOnly
    BY DEF PeerStep, PeerSubmits, PeerAssigns, PeerCompletes, PeerEvicts
<1>2. peer' \in Book /\ BookKnown(peer)' /\ submitted \subseteq submitted' /\ submitted' \subseteq Tasks
    BY PeerTypes DEF TypeInv, MastersTypeOK, TypeOK, KnownIds
<1>3. TypeOK'
    BY <1>1, <1>2
    DEF TypeInv, MastersTypeOK, TypeOK, PeerOnly, maps, handlerVars, cleanupVars, shellVars
<1>4. MastersTypeOK'
    BY <1>1, <1>2, <1>3 DEF TypeInv, MastersTypeOK, PeerOnly, saveVars, syncVars, lifeVars
<1>5. KnownIds'
    BY <1>1, <1>2
    DEF TypeInv, KnownIds, BookKnown, PeerOnly, saveVars, syncVars, FreshTasks, IsPending, ActiveAt,
        Present, maps, handlerVars, cleanupVars
<1> QED BY <1>4, <1>5 DEF TypeInv

\* What or_insert makes of a map, and of the handlers of the entries that come back.
LEMMA InsertTypes ==
  ASSUME TypeOK, NEW b \in Book
  PROVE  /\ \A c \in Conns : OrInsert(nodes, b.nodes, NoEntry)[c] =
                               IF Present(c) THEN nodes[c] ELSE b.nodes[c]
         /\ OrInsert(nodes, b.nodes, NoEntry) \in [Conns -> NodeInfo \cup {NoEntry}]
         /\ \A t \in Tasks : OrInsert(pending, b.pending, NotPending)[t] =
                               IF IsPending(t) THEN pending[t] ELSE b.pending[t]
         /\ OrInsert(pending, b.pending, NotPending) \in [Tasks -> Targets \cup {NotPending}]
  BY DEF OrInsert, TypeOK, Book, Present, IsPending

LEMMA MergeNodesTypes == TypeInv /\ MergeNodes => TypeInv'
<1> SUFFICES ASSUME TypeInv, MergeNodes PROVE TypeInv'
    OBVIOUS
<1>1. got \in Book /\ BookKnown(got)
    BY DEF TypeInv, MastersTypeOK, KnownIds, MergeNodes, MergeStep
<1>2. /\ nodes' \in [Conns -> NodeInfo \cup {NoEntry}]
      /\ \A c \in Conns : nodes'[c] = IF Present(c) THEN nodes[c] ELSE got.nodes[c]
    BY <1>1, InsertTypes DEF MergeNodes, Adopt, TypeInv, MastersTypeOK
<1>3. /\ pc' \in [Conns -> HandlerSteps]
      /\ \A c \in Conns : pc'[c] = pc[c] \/ (pc[c] \in {"new", "closed"} /\ pc'[c] = "ghost")
    BY DEF MergeNodes, Adopt, TypeInv, MastersTypeOK, TypeOK, HandlerSteps
<1>4. /\ sync = "nodes" /\ sync' = "pending" /\ got' = got
      /\ UNCHANGED <<pending, completed, owed, saveVars, hand, keep, duty, cleanupVars, shellVars, given,
                     submitted, evicted, askedOf, lifeVars, calls, peerCalls, caller, peer, left>>
    BY DEF MergeNodes, MergeStep
<1>5. TypeOK'
    BY <1>2, <1>3, <1>4 DEF TypeInv, MastersTypeOK, TypeOK, InHandSteps, cleanupVars, shellVars
<1>6. FreshTasks'
    BY <1>1, <1>2, <1>4
    DEF TypeInv, KnownIds, FreshTasks, IsPending, ActiveAt, Present, BookKnown, TasksIn, cleanupVars
<1> QED BY <1>4, <1>5, <1>6
        DEF TypeInv, MastersTypeOK, KnownIds, BookKnown, SyncSteps, saveVars, lifeVars

LEMMA MergePendingTypes == TypeInv /\ MergePending => TypeInv'
<1> SUFFICES ASSUME TypeInv, MergePending PROVE TypeInv'
    OBVIOUS
<1>1. got \in Book /\ BookKnown(got)
    BY DEF TypeInv, MastersTypeOK, KnownIds, MergePending, MergeStep
<1>2. /\ pending' \in [Tasks -> Targets \cup {NotPending}]
      /\ \A t \in Tasks : pending'[t] = IF IsPending(t) THEN pending[t] ELSE got.pending[t]
    BY <1>1, InsertTypes DEF MergePending, TypeInv, MastersTypeOK
<1>3. /\ sync = "pending" /\ sync' = "completed" /\ got' = got
      /\ UNCHANGED <<nodes, completed, pc, owed, saveVars, hand, keep, duty, cleanupVars, shellVars, given,
                     submitted, evicted, askedOf, lifeVars, calls, peerCalls, caller, peer, left>>
    BY DEF MergePending, MergeStep
<1>4. TypeOK'
    BY <1>2, <1>3 DEF TypeInv, MastersTypeOK, TypeOK, cleanupVars, shellVars
<1>5. FreshTasks'
    BY <1>1, <1>2, <1>3
    DEF TypeInv, KnownIds, FreshTasks, IsPending, ActiveAt, Present, BookKnown, TasksIn, cleanupVars
<1> QED BY <1>3, <1>4, <1>5
        DEF TypeInv, MastersTypeOK, KnownIds, BookKnown, SyncSteps, saveVars, lifeVars

LEMMA MergeCompletedTypes == TypeInv /\ MergeCompleted => TypeInv'
<1> SUFFICES ASSUME TypeInv, MergeCompleted PROVE TypeInv'
    OBVIOUS
<1>1. got \in Book /\ BookKnown(got)
    BY DEF TypeInv, MastersTypeOK, KnownIds, MergeCompleted, MergeStep
<1>2. got.completed \subseteq submitted /\ {t \in Tasks : got.pending[t] # NotPending} \subseteq submitted
    BY <1>1 DEF BookKnown, TasksIn, Book
<1>3. /\ completed' = completed \cup got.completed
      /\ owed' = owed \cup got.completed \cup {t \in Tasks : got.pending[t] # NotPending}
      /\ got' = NoBook /\ sync' \in {"none", "collect"}
      /\ UNCHANGED <<nodes, pending, pc, hand, keep, duty, cleanupVars, shellVars, given,
                     submitted, evicted, askedOf, lifeVars, calls, peerCalls, caller, peer, left>>
    BY DEF MergeCompleted, MergeStep
<1>4. /\ saver' \in [Savers -> SaveSteps] /\ UNCHANGED <<file, snap, spoilt>>
      /\ \A s \in Savers : saver'[s] \in {"open", "write"} <=> saver[s] \in {"open", "write"}
    BY SpawnTypes DEF MergeCompleted, TypeInv
<1>5. TypeOK' /\ completed' \subseteq submitted'
    BY <1>2, <1>3 DEF TypeInv, MastersTypeOK, KnownIds, TypeOK, cleanupVars, shellVars
<1>6. FreshTasks'
    BY <1>3 DEF TypeInv, KnownIds, FreshTasks, IsPending, ActiveAt, Present, cleanupVars
<1>7. MastersTypeOK'
    BY <1>3, <1>4, <1>5 DEF TypeInv, MastersTypeOK, SyncSteps, lifeVars
<1>8. KnownIds'
    BY <1>3, <1>4, <1>5, <1>6 DEF TypeInv, KnownIds, BookKnown
<1> QED BY <1>7, <1>8 DEF TypeInv

LEMMA TalkTypes ==
  ASSUME TypeInv, CallPeer \/ PeerAnswers \/ PeerCalls \/ CollectState \/ PeerMerges \/ SyncFails
  PROVE  TypeInv'
<1>1. UNCHANGED <<vars, saveVars, lifeVars, left>>
    BY DEF CallPeer, PeerAnswers, PeerCalls, CollectState, PeerMerges, SyncFails
<1>2. TypeOK' /\ FreshTasks' /\ completed' \subseteq submitted'
  <2>1. UNCHANGED vars
      BY <1>1
  <2> QED BY <2>1, TypeStep, FreshTasksStep DEF TypeInv, MastersTypeOK, KnownIds, vars, maps, history
<1>3. Here \in Book /\ BookKnown(Here)
    BY HereIsKnown DEF TypeInv, MastersTypeOK, KnownIds
<1>4. /\ peer' \in Book /\ BookKnown(peer')
      /\ got' \in Book \cup {NoBook} /\ (got' # NoBook => BookKnown(got'))
      /\ got' # NoBook <=> sync' \notin {"none", "collect"}
      /\ sync' \in SyncSteps /\ caller' \in {"here", "peer"}
      /\ {calls', peerCalls'} \subseteq Nat
  <2> USE DEF TypeInv, MastersTypeOK, KnownIds, SyncSteps
  <2>1. CASE CallPeer \/ PeerCalls \/ CollectState
      BY <1>3, <2>1, BookAssumption DEF CallPeer, PeerCalls, CollectState
  <2>2. CASE PeerAnswers \/ PeerMerges
    <3>1. got \in Book /\ BookKnown(got)
        BY <2>2 DEF PeerAnswers, PeerMerges
    <3>2. Merge(peer, got) \in Book /\ BookKnown(Merge(peer, got))
        BY <3>1, MergeTypes DEF BookKnown
    <3> QED BY <2>2, <3>2, BookAssumption DEF PeerAnswers, PeerMerges
  <2>3. CASE SyncFails
      BY <2>3 DEF SyncFails
  <2> QED BY <2>1, <2>2, <2>3
<1>5. MastersTypeOK'
    BY <1>1, <1>2, <1>4 DEF TypeInv, MastersTypeOK, saveVars, lifeVars
<1>6. KnownIds'
  <2>1. submitted' = submitted
      BY <1>1 DEF vars, history
  <2> QED BY <1>1, <1>2, <1>4, <2>1 DEF TypeInv, KnownIds, BookKnown, TasksIn, saveVars
<1> QED BY <1>5, <1>6 DEF TypeInv

LEMMA TypeInvInit == MastersInit => TypeInv
<1> SUFFICES ASSUME MastersInit PROVE TypeInv
    OBVIOUS
<1>1. Init
    BY DEF MastersInit
<1>2. TypeOK /\ FreshTasks /\ completed \subseteq submitted
    BY <1>1, TypeInit, SentinelAssumption DEF Init, FreshTasks, IsPending, ActiveAt, Present
<1>3. /\ lives \in Nat /\ calls \in Nat /\ peerCalls \in Nat /\ ids \subseteq Tasks
      /\ late \in BOOLEAN /\ failing \in BOOLEAN
      /\ savers \subseteq Savers
    BY BoundAssumption DEF MastersInit
<1>4. PeerNode \in NodeInfo
    BY DEF PeerNode, NodeInfo, Roles
<1>5. peer \in Book /\ TasksIn(peer) = {}
    BY <1>4 DEF MastersInit, EmptyBook, Book, TasksIn, PeerNode
<1>6. MastersTypeOK
  <2>1. /\ file = Empty /\ saver = [s \in Savers |-> "idle"] /\ snap = [s \in Savers |-> NoBook]
        /\ spoilt = FALSE /\ left = {} /\ life = 1 /\ sync = "none" /\ caller = "here" /\ got = NoBook
      BY DEF MastersInit
  <2>2. spoilt \in BOOLEAN
      BY <2>1
  <2>3. life \in Nat \ {0}
      BY <2>1
  <2> QED BY <1>2, <1>3, <1>5, <2>1, <2>2, <2>3 DEF MastersTypeOK, SaveSteps, SyncSteps
<1>7. KnownIds
    BY <1>2, <1>5 DEF MastersInit, KnownIds, BookKnown
<1> QED BY <1>6, <1>7 DEF TypeInv

LEMMA TypeInvStep == TypeInv /\ [MastersNext]_mastersVars => TypeInv'
<1> SUFFICES ASSUME TypeInv, [MastersNext]_mastersVars PROVE TypeInv'
    OBVIOUS
<1>1. CASE Exchange
    BY <1>1, TalkTypes, MergeNodesTypes, MergePendingTypes, MergeCompletedTypes DEF Exchange
<1>2. CASE UNCHANGED mastersVars
  <2>1. TypeOK' /\ FreshTasks'
      BY <1>2, TypeStep, FreshTasksStep DEF TypeInv, MastersTypeOK, KnownIds, mastersVars
  <2> QED BY <1>2, <2>1
          DEF TypeInv, MastersTypeOK, KnownIds, BookKnown, TasksIn, mastersVars, vars, maps, history,
              saveVars, syncVars, lifeVars
<1> QED BY <1>1, <1>2, RunsTypes, SaveTypes, RestartTypes, PeerStepTypes DEF MastersNext

\* The maps of a master that starts again on its file and merges a peer's keep
\* their types, the file and the snapshots hold books, and a save or an exchange
\* has a book exactly while it needs one (state.rs:11-73, lib.rs:31-111): no id
\* comes out of a file or from a peer that was never submitted.
THEOREM MastersTypeCorrect == MastersSpec => []MastersTypeOK
<1>1. TypeInv => MastersTypeOK
    BY DEF TypeInv
<1> QED BY <1>1, TypeInvInit, TypeInvStep, PTL DEF MastersSpec

-----------------------------------------------------------------------------
(* Nothing is lost in an exchange.  NeverLostInExchange is not inductive: an
   entry that comes back from the peer lists tasks its node's handler never had, and goes
   with them when that handler leaves.  Safe names the places that do not give a
   task up without another one having it: an entry counts when its handler was
   given the task, or will never leave, for it is a ghost. *)

HoldSteps == {"track", "send", "requeue", "resultPending", "resultDone"}

InHand(t)       == \E c \in Conns : hand[c] = t /\ pc[c] \in HoldSteps
DepartedWith(t) == \E c \in left : t \in given[c]
AtWorkOn(c, t)  ==
    /\ ActiveAt(c, t)
    /\ pc[c] = "ghost" \/ t \in given[c]
    /\ ~(pc[c] = "untrack" /\ hand[c] = t)

Safe(t) ==
    \/ IsPending(t) \/ t \in completed \/ t \in orphans
    \/ InHand(t) \/ DepartedWith(t)
    \/ \E c \in Conns : AtWorkOn(c, t)

\* A merge has put the peer's pending tasks here before it answers for them.
Answered(t) == t \in owed \/ (sync = "completed" /\ got.pending[t] # NotPending)

SafeTasks == \A t \in Tasks : Answered(t) => Safe(t)

\* An entry is missing where nobody connected, or where it was removed; and a
\* handler that sends has recorded the task, if there was an entry to record it in.
Entries ==
    \A c \in Conns :
        /\ pc[c] \in {"new", "closed"} => ~Present(c)
        /\ pc[c] \notin {"new", "closed", "ghost"} => Present(c) \/ c \in left
        /\ pc[c] = "send" => ActiveAt(c, hand[c]) \/ c \in left

SafeInv == Entries /\ CleanupIdle /\ SafeTasks

Leaving == {c \in Conns : Present(c) /\ nodes'[c] = NoEntry}

LEMMA RunsCases ==
  ASSUME MasterRuns
  PROVE  /\ left' = left \cup Leaving
         /\ \/ \E c \in Conns : Accept(c) \/ HandlerStep(c) \/ SendOk(c) \/ SendFail(c) \/ Message(c) \/ Expire(c)
            \/ Cleanup
            \/ \E t \in Tasks : AddTask(t)
<1>1. Saving => \/ \E c \in Conns : Accept(c) \/ HandlerStep(c) \/ Message(c)
                \/ Cleanup
                \/ \E t \in Tasks : AddTask(t)
    BY DEF Saving, Opens, Submits, HandlerStep, Message, Cleanup
<1>2. NotSaving => \/ \E c \in Conns : HandlerStep(c) \/ SendOk(c) \/ SendFail(c) \/ Message(c) \/ Expire(c)
                   \/ Cleanup
    BY DEF NotSaving, HandlerStep, Message, Cleanup
<1> QED BY <1>1, <1>2 DEF MasterRuns, Leaving

LEMMA EntriesRuns ==
  ASSUME TypeOK, Entries, CleanupIdle, MasterRuns
  PROVE  Entries' /\ CleanupIdle'
<1> USE SentinelAssumption
    DEF TypeOK, Entries, CleanupIdle, Leaving, ActiveAt, Present, Goto, Drops,
        maps, handlerVars, cleanupVars
<1>0. left' = left \cup Leaving
    BY RunsCases
<1>1. ASSUME NEW c \in Conns, Accept(c) \/ Expire(c) \/ RegisterRole(c) \/ Heartbeat(c)
      PROVE  Entries' /\ CleanupIdle'
  <2>1. /\ \A d \in Conns : Present(d) => Present(d)'
        /\ Accept(c) => Present(c)'
        /\ \A d \in Conns, t \in Tasks : ActiveAt(d, t)' <=> ActiveAt(d, t)
      BY <1>1, SameActive
  <2>2. \A d \in Conns : d # c => nodes'[d] = nodes[d]
      BY <1>1 DEF Accept, Expire, RegisterRole, Heartbeat, AndModify
  <2>3. CASE Accept(c)
      BY <1>0, <2>1, <2>2, <2>3 DEF Accept
  <2>4. CASE Expire(c)
      BY <1>0, <2>1, <2>2, <2>4 DEF Expire, InHandSteps
  <2>5. CASE RegisterRole(c) \/ Heartbeat(c)
      BY <1>0, <2>1, <2>2, <2>5 DEF RegisterRole, Heartbeat, Reply, InHandSteps
  <2> QED BY <1>1, <2>3, <2>4, <2>5
<1>2. ASSUME NEW c \in Conns, HandlerStep(c) PROVE Entries' /\ CleanupIdle'
  <2>1. CASE CheckRole(c) \/ Pick(c) \/ Requeue(c) \/ ResultPending(c) \/ ResultDone(c)
      BY <1>0, <2>1 DEF CheckRole, Pick, Requeue, ResultPending, ResultDone
  <2>2. CASE TrackActive(c)
      BY <1>0, <2>2 DEF TrackActive, Track, AndModify, NodeInfo, InHandSteps
  <2>3. CASE UntrackActive(c)
      BY <1>0, <2>3 DEF UntrackActive, Untrack, AndModify, NodeInfo
  <2> QED BY <1>2, <2>1, <2>2, <2>3 DEF HandlerStep
<1>3. ASSUME NEW c \in Conns, SendOk(c) \/ SendFail(c) PROVE Entries' /\ CleanupIdle'
    BY <1>0, <1>3 DEF SendOk, SendFail
<1>4. ASSUME NEW c \in Conns, Message(c) PROVE Entries' /\ CleanupIdle'
  <2>1. CASE Query(c) \/ BadMessage(c) \/ \E t \in Tasks : SubmitTask(c, t)
      BY <1>0, <2>1 DEF Query, BadMessage, SubmitTask, Reply
  <2>2. CASE Leave(c)
      BY <1>0, <2>2 DEF Leave
  <2>3. ASSUME NEW t \in Tasks, TaskResult(c, t) PROVE Entries' /\ CleanupIdle'
      BY <1>0, <2>3 DEF TaskResult, Untrack, AndModify, NodeInfo
  <2> QED BY <1>1, <1>4, <2>1, <2>2, <2>3 DEF Message
<1>5. CASE Cleanup
    BY <1>0, <1>5 DEF Cleanup, Scan, Evict, RequeueOrphans, AfterEviction
<1>6. ASSUME NEW t \in Tasks, AddTask(t) PROVE Entries' /\ CleanupIdle'
    BY <1>0, <1>6 DEF AddTask
<1> QED BY <1>1, <1>2, <1>3, <1>4, <1>5, <1>6, RunsCases

\* The steps of the master give no task up.
LEMMA SafeRuns ==
  ASSUME TypeOK, Entries, CleanupIdle, MasterRuns, NEW t \in Tasks, Safe(t)
  PROVE  Safe(t)'
<1> USE SentinelAssumption
    DEF TypeOK, Entries, CleanupIdle, Safe, InHand, HoldSteps, DepartedWith, AtWorkOn, Leaving,
        IsPending, Goto, Drops, maps, handlerVars, cleanupVars, history
<1>0. left' = left \cup Leaving
    BY RunsCases
<1>1. ASSUME NEW c \in Conns, Accept(c) \/ Expire(c) \/ RegisterRole(c) \/ Heartbeat(c)
      PROVE  Safe(t)'
  <2>1. \A d \in Conns : ActiveAt(d, t)' <=> ActiveAt(d, t)
      BY <1>1, SameActive
  <2>2. UNCHANGED <<pending, completed, orphans, hand, given>> /\ left \subseteq left'
      BY <1>0, <1>1 DEF Accept, Expire, RegisterRole, Heartbeat
  <2>3. \A d \in Conns : d # c => pc'[d] = pc[d]
      BY <1>1 DEF Accept, Expire, RegisterRole, Heartbeat, Reply
  <2>4. pc'[c] = pc[c] \/ pc[c] \in {"new", "read"}
      BY <1>1 DEF Accept, Expire, RegisterRole, Heartbeat, Reply
  <2>5. pc[c] = "new" => ~ActiveAt(c, t)
      BY DEF ActiveAt
  <2>6. pc[c] = "read" => pc'[c] \in {"read", "check", "ghost"}
      BY <1>1 DEF Accept, Expire, RegisterRole, Heartbeat, Reply
  <2> QED BY <2>1, <2>2, <2>3, <2>4, <2>5, <2>6
<1> USE DEF ActiveAt, Present
<1>2. ASSUME NEW c \in Conns, HandlerStep(c) PROVE Safe(t)'
  <2>1. CASE CheckRole(c) \/ ResultPending(c) \/ ResultDone(c)
      BY <1>0, <2>1 DEF CheckRole, ResultPending, ResultDone, RemovePending
  <2>2. CASE Pick(c)
      BY <1>0, <2>2 DEF Pick, Eligible, RemovePending
  <2>3. CASE Requeue(c)
      BY <1>0, <2>3 DEF Requeue, InsertPending, InHandSteps, Targets
  <2>4. CASE TrackActive(c)
      BY <1>0, <2>4 DEF TrackActive, Track, AndModify, NodeInfo, InHandSteps
  <2>5. CASE UntrackActive(c)
      BY <1>0, <2>5 DEF UntrackActive, Untrack, AndModify, NodeInfo
  <2> QED BY <1>2, <2>1, <2>2, <2>3, <2>4, <2>5 DEF HandlerStep
<1>3. ASSUME NEW c \in Conns, SendOk(c) \/ SendFail(c) PROVE Safe(t)'
  <2>1. CASE SendOk(c)
      BY <1>0, <2>1 DEF SendOk, InHandSteps
  <2>2. CASE SendFail(c)
      BY <1>0, <2>2 DEF SendFail
  <2> QED BY <1>3, <2>1, <2>2
<1>4. ASSUME NEW c \in Conns, Message(c) PROVE Safe(t)'
  <2>1. CASE Query(c) \/ BadMessage(c)
      BY <1>0, <2>1 DEF Query, BadMessage, Reply
  <2>2. ASSUME NEW u \in Tasks, SubmitTask(c, u) PROVE Safe(t)'
      BY <1>0, <2>2 DEF SubmitTask, InsertPending, Reply, Targets
  <2>3. CASE Leave(c)
      BY <1>0, <2>3 DEF Leave
  <2>4. ASSUME NEW u \in Tasks, TaskResult(c, u) PROVE Safe(t)'
      BY <1>0, <2>4 DEF TaskResult, Untrack, AndModify, NodeInfo
  <2> QED BY <1>1, <1>4, <2>1, <2>2, <2>3, <2>4 DEF Message
<1>5. CASE Cleanup
  <2>1. CASE Scan
      BY <1>0, <2>1 DEF Scan
  <2>2. ASSUME NEW c \in Conns, Evict(c) PROVE Safe(t)'
      BY <1>0, <2>2 DEF Evict, AfterEviction
  <2>3. CASE RequeueOrphans
      BY <1>0, <2>3 DEF RequeueOrphans, Targets
  <2> QED BY <1>5, <2>1, <2>2, <2>3 DEF Cleanup
<1>6. ASSUME NEW u \in Tasks, AddTask(u) PROVE Safe(t)'
    BY <1>0, <1>6 DEF AddTask, InsertPending, Targets
<1> QED BY <1>1, <1>2, <1>3, <1>4, <1>5, <1>6, RunsCases

LEMMA SafeInvRuns ==
  ASSUME TypeInv, SafeInv, MasterRuns
  PROVE  SafeInv'
<1>1. Entries' /\ CleanupIdle'
    BY EntriesRuns DEF TypeInv, MastersTypeOK, SafeInv
<1>2. sync' = sync /\ got' = got
    BY DEF MasterRuns, syncVars
<1>3. \A t \in Tasks : t \in owed' => t \in owed \/ IsPending(t)'
  <2> USE SentinelAssumption DEF IsPending, TypeInv, MastersTypeOK, TypeOK
  <2>1. ASSUME NEW c \in Conns, NEW u \in Tasks, SubmitTask(c, u)
        PROVE  \A t \in Tasks : t \in owed' => t \in owed \/ IsPending(t)'
      BY <2>1 DEF SubmitTask, InsertPending, Targets
  <2>2. ASSUME NEW u \in Tasks, AddTask(u)
        PROVE  \A t \in Tasks : t \in owed' => t \in owed \/ IsPending(t)'
      BY <2>2 DEF AddTask, InsertPending, Targets
  <2>3. owed' = owed \/ (\E c \in Conns, u \in Tasks : SubmitTask(c, u)) \/ \E u \in Tasks : AddTask(u)
      BY RunsCases
      DEF HandlerStep, Message, Cleanup, Accept, CheckRole, Pick, TrackActive, Requeue, UntrackActive,
          ResultPending, ResultDone, SendOk, SendFail, RegisterRole, Heartbeat, Query, BadMessage, Leave,
          TaskResult, Expire, Scan, Evict, RequeueOrphans, history
  <2> QED BY <2>1, <2>2, <2>3
<1>4. ASSUME NEW t \in Tasks, Answered(t)' PROVE Safe(t)'
  <2>1. CASE IsPending(t)'
      BY <2>1 DEF Safe
  <2>2. CASE Answered(t)
      BY <2>2, SafeRuns DEF TypeInv, MastersTypeOK, SafeInv, SafeTasks
  <2> QED BY <1>2, <1>3, <1>4, <2>1, <2>2 DEF Answered
<1> QED BY <1>1, <1>4 DEF SafeInv, SafeTasks

\* What comes back from the file is the master's again, at nodes that are ghosts.
LEMMA SafeInvRestarts ==
  ASSUME TypeInv, SafeInv, Restart
  PROVE  SafeInv'
<1>1. /\ nodes' = Loaded.nodes /\ pending' = Loaded.pending /\ completed' = Loaded.completed
      /\ pc' = [c \in Conns |-> IF nodes'[c] # NoEntry THEN "ghost"
                                ELSE IF pc[c] = "new" THEN "new" ELSE "closed"]
      /\ cpc' = "sleep" /\ orphans' = {} /\ sync' = "none"
      /\ owed'  = owed \cap (IF file \in {Empty, Torn} THEN {} ELSE TasksIn(file.book))
    BY DEF Restart
<1>2. Entries' /\ CleanupIdle'
    BY <1>1 DEF Entries, CleanupIdle, Present
<1>3. ASSUME NEW t \in Tasks, Answered(t)' PROVE Safe(t)'
  <2>1. file \notin {Empty, Torn} /\ t \in TasksIn(file.book) /\ Loaded = file.book
      BY <1>1, <1>3 DEF Answered, Loaded
  <2>2. \/ pending'[t] # NotPending \/ t \in completed'
        \/ \E c \in Conns : nodes'[c] # NoEntry /\ t \in nodes'[c].active
      BY <1>1, <2>1 DEF TasksIn
  <2>3. \A c \in Conns : nodes'[c] # NoEntry => pc'[c] = "ghost"
      BY <1>1
  <2> QED BY <2>2, <2>3 DEF Safe, IsPending, AtWorkOn, ActiveAt, Present
<1> QED BY <1>2, <1>3 DEF SafeInv, SafeTasks

\* A merge adds to the maps.
LEMMA SafeInvMerges ==
  ASSUME TypeInv, SafeInv, MergeNodes \/ MergePending \/ MergeCompleted
  PROVE  SafeInv'
<1>1. got \in Book
    BY DEF TypeInv, MastersTypeOK, MergeNodes, MergePending, MergeCompleted, MergeStep
<1>2. UNCHANGED <<hand, given, left, cpc, orphans>>
    BY DEF MergeNodes, MergePending, MergeCompleted, MergeStep, cleanupVars
<1>3. CASE MergeNodes
  <2>1. \A c \in Conns : nodes'[c] = IF Present(c) THEN nodes[c] ELSE got.nodes[c]
      BY <1>1, <1>3, InsertTypes DEF MergeNodes, Adopt, TypeInv, MastersTypeOK
  <2>2. \A c \in Conns : pc'[c] = IF ~Present(c) /\ Present(c)' /\ pc[c] \in {"new", "closed"}
                                  THEN "ghost" ELSE pc[c]
      BY <1>3 DEF MergeNodes, Adopt, Present
  <2>3. UNCHANGED <<pending, completed, owed>> /\ sync' = "pending"
      BY <1>3 DEF MergeNodes, MergeStep
  <2>4. Entries' /\ CleanupIdle'
      BY <1>2, <2>1, <2>2 DEF SafeInv, Entries, CleanupIdle, ActiveAt, Present
  <2>5. ASSUME NEW t \in Tasks, Safe(t) PROVE Safe(t)'
    <3>1. ASSUME NEW c \in Conns, AtWorkOn(c, t) PROVE AtWorkOn(c, t)'
        BY <1>2, <2>1, <2>2, <3>1 DEF AtWorkOn, ActiveAt, Present
    <3>2. InHand(t) => InHand(t)'
        BY <1>2, <2>2 DEF InHand, HoldSteps
    <3> QED BY <1>2, <2>3, <2>5, <3>1, <3>2 DEF Safe, IsPending, DepartedWith
  <2> QED BY <2>3, <2>4, <2>5 DEF SafeInv, SafeTasks, Answered
<1>4. CASE MergePending
  <2>1. \A t \in Tasks : pending'[t] = IF IsPending(t) THEN pending[t] ELSE got.pending[t]
      BY <1>1, <1>4, InsertTypes DEF MergePending, TypeInv, MastersTypeOK
  <2>2. UNCHANGED <<nodes, completed, pc, owed, got>> /\ sync = "pending"
      BY <1>4 DEF MergePending, MergeStep
  <2>3. Entries' /\ CleanupIdle'
      BY <1>2, <2>2 DEF SafeInv, Entries, CleanupIdle, ActiveAt, Present
  <2>4. ASSUME NEW t \in Tasks, Safe(t) PROVE Safe(t)'
      BY <1>2, <2>1, <2>2, <2>4 DEF Safe, IsPending, InHand, DepartedWith, AtWorkOn, ActiveAt, Present
  <2>5. ASSUME NEW t \in Tasks, got.pending[t] # NotPending PROVE Safe(t)'
      BY <2>1, <2>5 DEF Safe, IsPending
  <2> QED BY <2>2, <2>3, <2>4, <2>5 DEF SafeInv, SafeTasks, Answered
<1>5. CASE MergeCompleted
  <2>1. /\ UNCHANGED <<nodes, pending, pc>> /\ completed' = completed \cup got.completed
        /\ owed' = owed \cup got.completed \cup {t \in Tasks : got.pending[t] # NotPending}
        /\ sync = "completed" /\ sync' \in {"none", "collect"}
      BY <1>5 DEF MergeCompleted, MergeStep
  <2>2. Entries' /\ CleanupIdle'
      BY <1>2, <2>1 DEF SafeInv, Entries, CleanupIdle, ActiveAt, Present
  <2>3. ASSUME NEW t \in Tasks, Safe(t) PROVE Safe(t)'
      BY <1>2, <2>1, <2>3 DEF Safe, IsPending, InHand, DepartedWith, AtWorkOn, ActiveAt, Present
  <2>4. ASSUME NEW t \in Tasks, t \in got.completed PROVE Safe(t)'
      BY <2>1, <2>4 DEF Safe
  <2> QED BY <2>1, <2>2, <2>3, <2>4 DEF SafeInv, SafeTasks, Answered
<1> QED BY <1>3, <1>4, <1>5

\* Nobody else touches the master's maps.
LEMMA SafeInvOthers ==
  ASSUME SafeInv,
         \/ \E s \in Savers : SaveStep(s)
         \/ PeerStep \/ UNCHANGED mastersVars
         \/ CallPeer \/ PeerAnswers \/ PeerCalls \/ CollectState \/ PeerMerges \/ SyncFails
  PROVE  SafeInv'
<1>1. UNCHANGED <<maps, handlerVars, cleanupVars, given, owed, left>>
      /\ (sync' = "completed" => sync = "completed" /\ got' = got)
    BY DEF SaveStep, Snapshot, Truncate, Fill, WriteFails, PeerStep, PeerSubmits, PeerAssigns, PeerCompletes,
           PeerEvicts, PeerOnly, CallPeer, PeerAnswers, PeerCalls, CollectState, PeerMerges, SyncFails,
           mastersVars, vars, history, syncVars
<1>2. Entries' /\ CleanupIdle'
    BY <1>1 DEF SafeInv, Entries, CleanupIdle, ActiveAt, Present, maps, handlerVars, cleanupVars
<1>3. \A t \in Tasks : /\ Safe(t)' <=> Safe(t)
                       /\ Answered(t)' => Answered(t)
    BY <1>1 DEF Safe, IsPending, InHand, DepartedWith, AtWorkOn, ActiveAt, Present, Answered,
                maps, handlerVars, cleanupVars
<1> QED BY <1>2, <1>3 DEF SafeInv, SafeTasks

LEMMA SafeInvHolds == MastersSpec => [](TypeInv /\ SafeInv)
<1>1. MastersInit => SafeInv
    BY DEF MastersInit, Init, SafeInv, Entries, CleanupIdle, SafeTasks, Answered, Present
<1>2. TypeInv /\ SafeInv /\ [MastersNext]_mastersVars => SafeInv'
    BY SafeInvRuns, SafeInvRestarts, SafeInvMerges, SafeInvOthers DEF MastersNext, Exchange
<1> QED BY <1>1, <1>2, TypeInvInit, TypeInvStep, PTL DEF MastersSpec

\* Neither a restart nor an exchange in the middle of dispatch, failed writes,
\* results and evictions loses a task: what the master answers for, its own
\* clients' or the peer's, is held, or was written to a connection that has lost
\* its entry since, although an entry may come back from the peer out of date
\* (state.rs:11-73, lib.rs:31-111).
THEOREM NothingLostInExchange == MastersSpec => []NeverLostInExchange
<1>1. TypeInv /\ SafeInv => NeverLostInExchange
  <2> SUFFICES ASSUME TypeInv, SafeInv, NEW t \in owed
               PROVE  Held(t) \/ \E c \in left : t \in given[c]
      BY DEF NeverLostInExchange
  <2>1. t \in Tasks /\ Safe(t)
      BY DEF TypeInv, MastersTypeOK, TypeOK, SafeInv, SafeTasks, Answered
  <2> QED BY <2>1 DEF Safe, Held, HeldBy, InHand, HoldSteps, DepartedWith, AtWorkOn, ActiveAt
<1> QED BY <1>1, SafeInvHolds, PTL

-----------------------------------------------------------------------------
(* What a restart knows.  Between saves tasks only move, among the maps and the
   locals, so that what the newest snapshot counts stays all there is, until
   a step that brings a task spawns the next save.  SaveInv counts a task as near
   while it is in a map or a local, even one that will not bring it back: an
   eviction can make such a task a held one again. *)

Near(t) == t \in TasksIn(Here) \cup InDispatch

NoWriter == \A s \in Savers : ~Writing(s)

\* A handler or the cleanup has t in a local, and will spawn a save.
SaveAhead(t) ==
    \/ t \in orphans
    \/ \E c \in Conns : hand[c] = t /\ pc[c] \in ResultSteps

Knows(b, t) == t \in TasksIn(b.book) \/ (t \in b.missed /\ t \notin completed)

Saved(t) ==
    \/ \E s \in Savers : Writing(s) /\ Knows(snap[s], t)
    \/ NoWriter /\ file \notin {Empty, Torn} /\ Knows(file, t)

\* One save at a time writes to an empty file.
OneWriter ==
    \A s \in Savers : /\ saver[s] = "write" => file = Empty
                      /\ Writing(s) => \A r \in Savers : Writing(r) => r = s

NearKnown == \A t \in owed : Near(t) => SaveFollows(t) \/ Saved(t)

SaveInv == spoilt \/ (OneWriter /\ (savers = {} \/ NearKnown))

Kept(t) ==
    \/ IsPending(t) \/ t \in completed
    \/ \E c \in Conns : ActiveAt(c, t) \/ (hand[c] = t /\ pc[c] \in {"track", "send", "requeue"})

LEMMA NearIsKept ==
  ASSUME NEW t \in Tasks
  PROVE  (Near(t) <=> Kept(t)) /\ (Near(t)' <=> Kept(t)')
<1>1. /\ t \in TasksIn(Here) <=> \/ IsPending(t) \/ t \in completed
                                 \/ \E c \in Conns : ActiveAt(c, t)
      /\ t \in TasksIn(Here)' <=> \/ IsPending(t)' \/ t \in completed'
                                  \/ \E c \in Conns : ActiveAt(c, t)'
    BY DEF TasksIn, Here, IsPending, ActiveAt, Present
<1>2. /\ t \in InDispatch <=> \E c \in Conns : hand[c] = t /\ pc[c] \in {"track", "send", "requeue"}
      /\ t \in InDispatch' <=> \E c \in Conns : hand'[c] = t /\ pc'[c] \in {"track", "send", "requeue"}
    BY DEF InDispatch
<1> QED BY <1>1, <1>2 DEF Near, Kept

LEMMA AheadFollows ==
  ASSUME NEW t
  PROVE  /\ SaveAhead(t) => SaveFollows(t)
         /\ SaveAhead(t)' => SaveFollows(t)'
         /\ SaveFollows(t) => SaveAhead(t) \/ \/ \E s \in Savers : saver[s] = "due"
                                              \/ sync \in {"pending", "completed"} /\ t \in TasksIn(got)
         /\ \/ \E s \in Savers : saver'[s] = "due"
            \/ sync' \in {"pending", "completed"} /\ t \in TasksIn(got)'
            => SaveFollows(t)'
  BY DEF SaveFollows, SaveAhead, ResultSteps

\* A step that spawns no save moves tasks, or takes a result or orphans aside.
LEMMA NearRuns ==
  ASSUME TypeOK, Entries, CleanupIdle, NotSaving, NEW t \in Tasks
  PROVE  /\ Near(t)' => Near(t) \/ SaveAhead(t)'
         /\ SaveAhead(t) => SaveAhead(t)'
         /\ UNCHANGED <<owed, completed>>
<1> USE SentinelAssumption
    DEF TypeOK, Entries, CleanupIdle, SaveAhead, ResultSteps, Goto, Drops, InHandSteps,
        maps, handlerVars, cleanupVars, history
<1> DEFINE Goal == /\ Near(t)' => Near(t) \/ SaveAhead(t)'
                   /\ SaveAhead(t) => SaveAhead(t)'
                   /\ UNCHANGED <<owed, completed>>
<1>1. ASSUME NEW c \in Conns, Expire(c) \/ RegisterRole(c) \/ Heartbeat(c) PROVE Goal
  <2>1. \A d \in Conns : ActiveAt(d, t)' <=> ActiveAt(d, t)
      BY <1>1, SameActive
  <2>2. /\ UNCHANGED <<pending, completed, orphans, hand, owed>>
        /\ pc' = pc \/ pc[c] = "read"
        /\ \A d \in Conns : d # c => pc'[d] = pc[d]
      BY <1>1 DEF Expire, RegisterRole, Heartbeat, Reply
  <2>3. Kept(t)' <=> Kept(t)
      BY <2>1, <2>2 DEF Kept, IsPending
  <2> QED BY <2>2, <2>3, NearIsKept
<1> USE NearIsKept DEF Kept, ActiveAt, Present, IsPending
<1>2. ASSUME NEW c \in Conns, CheckRole(c) \/ Pick(c) PROVE Goal
    BY <1>2 DEF CheckRole, Pick, Eligible, RemovePending
<1>3. ASSUME NEW c \in Conns, TrackActive(c) \/ UntrackActive(c) PROVE Goal
    BY <1>3 DEF TrackActive, UntrackActive, Track, Untrack, AndModify, NodeInfo
<1>4. ASSUME NEW c \in Conns, Requeue(c) \/ ResultPending(c) PROVE Goal
    BY <1>4 DEF Requeue, ResultPending, InsertPending, RemovePending
<1>5. ASSUME NEW c \in Conns, SendOk(c) \/ SendFail(c) \/ Query(c) \/ BadMessage(c) PROVE Goal
    BY <1>5 DEF SendOk, SendFail, Query, BadMessage, Reply
<1>6. ASSUME NEW c \in Conns, NEW u \in Tasks, TaskResult(c, u) PROVE Goal
    BY <1>6 DEF TaskResult, Untrack, AndModify, NodeInfo
<1>7. ASSUME NEW c \in Conns, Evict(c) PROVE Goal
    BY <1>7 DEF Evict, AfterEviction
<1>8. CASE Scan
    BY <1>8 DEF Scan
<1> QED BY <1>1, <1>2, <1>3, <1>4, <1>5, <1>6, <1>7, <1>8 DEF NotSaving

\* A step that leaves the files alone, and the tasks near, or that makes a save due.
LEMMA SaveInvKept ==
  ASSUME SaveInv, UNCHANGED <<file, snap, spoilt, savers>>,
         \A s \in Savers : saver'[s] = saver[s] \/ (~Writing(s) /\ saver'[s] = "due"),
         \/ savers = {}
         \/ \E s \in Savers : saver'[s] = "due"
         \/ /\ UNCHANGED <<saver, owed, completed>>
            /\ \A t \in owed : Near(t)' => Near(t) \/ SaveFollows(t)'
            /\ \A t \in owed : SaveFollows(t) => SaveFollows(t)'
  PROVE  SaveInv'
<1>1. \A s \in Savers : Writing(s)' <=> Writing(s)
    BY DEF Writing
<1>2. OneWriter => OneWriter'
    BY <1>1 DEF OneWriter, Writing
<1>3. completed' = completed => \A t : Saved(t) => Saved(t)'
    BY <1>1 DEF Saved, NoWriter, Knows, TasksIn
<1>4. spoilt \/ savers = {} \/ NearKnown'
  <2>1. CASE \E s \in Savers : saver'[s] = "due"
      BY <2>1 DEF NearKnown, SaveFollows
  <2>2. CASE ~ \E s \in Savers : saver'[s] = "due"
      BY <1>3, <2>2 DEF SaveInv, NearKnown
  <2> QED BY <2>1, <2>2
<1> QED BY <1>2, <1>4 DEF SaveInv

LEMMA SpawnSaves ==
  ASSUME MastersTypeOK, Spawn
  PROVE  /\ UNCHANGED <<file, snap, spoilt>>
         /\ \A s \in Savers : saver'[s] = saver[s] \/ (~Writing(s) /\ saver'[s] = "due")
         /\ savers = {} \/ \E s \in Savers : saver'[s] = "due"
  BY DEF Spawn, Writing, MastersTypeOK

LEMMA SaveInvRuns ==
  ASSUME TypeInv, SafeInv, SaveInv, MasterRuns
  PROVE  SaveInv'
<1>1. UNCHANGED <<sync, got, savers>>
    BY DEF MasterRuns, syncVars, lifeVars
<1>2. CASE Saving /\ Spawn
    BY <1>1, <1>2, SpawnSaves, SaveInvKept DEF TypeInv
<1>3. CASE NotSaving /\ UNCHANGED saveVars
  <2>1. owed \subseteq Tasks
      BY DEF TypeInv, MastersTypeOK, TypeOK
  <2>2. \A t \in Tasks : /\ Near(t)' => Near(t) \/ SaveAhead(t)'
                         /\ SaveAhead(t) => SaveAhead(t)'
                         /\ UNCHANGED <<owed, completed>>
      BY <1>3, NearRuns DEF TypeInv, MastersTypeOK, SafeInv
  <2>3. TasksIn(got)' = TasksIn(got)
      BY <1>1 DEF TasksIn
  <2>4. UNCHANGED <<file, saver, snap, spoilt>>
      BY <1>3 DEF saveVars
  <2>5. \A t \in owed : /\ Near(t)' => Near(t) \/ SaveFollows(t)'
                        /\ SaveFollows(t) => SaveFollows(t)'
      BY <1>1, <2>1, <2>2, <2>3, <2>4, AheadFollows
  <2>6. UNCHANGED <<owed, completed>>
      BY <1>3
      DEF NotSaving, CheckRole, Pick, TrackActive, SendOk, SendFail, Requeue, UntrackActive,
          ResultPending, RegisterRole, Heartbeat, Query, BadMessage, TaskResult, Expire, Evict,
          Scan, history, maps
  <2> QED BY <1>1, <2>4, <2>5, <2>6, SaveInvKept
<1> QED BY <1>2, <1>3 DEF MasterRuns

\* Nothing is nearer, and nothing less to be saved, for what the peer does.
LEMMA SaveInvOthers ==
  ASSUME TypeInv, SaveInv,
         \/ PeerStep \/ UNCHANGED mastersVars
         \/ CallPeer \/ PeerAnswers \/ PeerCalls \/ CollectState \/ PeerMerges \/ SyncFails
  PROVE  SaveInv'
<1>1. /\ UNCHANGED <<maps, handlerVars, cleanupVars, owed, saveVars, lifeVars>>
      /\ sync \in {"pending", "completed"} => sync' = sync /\ got' = got
    BY DEF PeerStep, PeerSubmits, PeerAssigns, PeerCompletes, PeerEvicts, PeerOnly, CallPeer, PeerAnswers,
           PeerCalls, CollectState, PeerMerges, SyncFails, mastersVars, vars, history, syncVars
<1>2. \A t : /\ Near(t)' => Near(t)
             /\ SaveFollows(t) => SaveFollows(t)'
    BY <1>1 DEF Near, Here, InDispatch, SaveFollows, TasksIn, maps, handlerVars, cleanupVars, saveVars
<1> QED BY <1>1, <1>2, SaveInvKept DEF saveVars, lifeVars, maps

\* A merge brings what the exchange has with it, and ends in a save.
LEMMA SaveInvMerges ==
  ASSUME TypeInv, SaveInv, MergeNodes \/ MergePending \/ MergeCompleted
  PROVE  SaveInv'
<1>1. CASE MergeCompleted
  <2>1. Spawn /\ savers' = savers
      BY <1>1 DEF MergeCompleted, MergeStep, lifeVars
  <2> QED BY <2>1, SpawnSaves, SaveInvKept DEF TypeInv
<1>2. CASE MergeNodes \/ MergePending
  <2>1. /\ got \in Book /\ got' = got /\ sync' \in {"pending", "completed"}
        /\ UNCHANGED <<completed, orphans, hand, savers, owed, file, saver, snap, spoilt>>
      BY <1>2 DEF TypeInv, MastersTypeOK, MergeNodes, MergePending, MergeStep, lifeVars, cleanupVars, saveVars
  <2>2. \A c \in Conns : nodes'[c] = nodes[c] \/ nodes'[c] = got.nodes[c]
    <3>1. CASE MergeNodes
        BY <2>1, <3>1, InsertTypes DEF MergeNodes, Adopt, TypeInv, MastersTypeOK
    <3>2. CASE MergePending
        BY <3>2 DEF MergePending
    <3> QED BY <1>2, <3>1, <3>2
  <2>3. \A t \in Tasks : pending'[t] = pending[t] \/ pending'[t] = got.pending[t]
    <3>1. CASE MergeNodes
        BY <3>1 DEF MergeNodes
    <3>2. CASE MergePending
        BY <2>1, <3>2, InsertTypes DEF MergePending, TypeInv, MastersTypeOK
    <3> QED BY <1>2, <3>1, <3>2
  <2>4. \A c \in Conns : pc'[c] = pc[c] \/ (pc[c] \in {"new", "closed"} /\ pc'[c] = "ghost")
      BY <1>2 DEF MergeNodes, Adopt, MergePending, TypeInv, MastersTypeOK, TypeOK
  <2>5. ASSUME NEW t \in Tasks
        PROVE  /\ Near(t)' => Near(t) \/ SaveFollows(t)'
               /\ SaveFollows(t) => SaveFollows(t)'
    <3>1. Near(t)' => Near(t) \/ t \in TasksIn(got)
        BY <2>1, <2>2, <2>3, <2>4 DEF Near, Here, InDispatch, TasksIn
    <3>2. TasksIn(got)' = TasksIn(got)
        BY <2>1 DEF TasksIn
    <3>3. \A c \in Conns : pc[c] \in ResultSteps => pc'[c] = pc[c]
        BY <2>4 DEF ResultSteps
    <3> QED BY <2>1, <3>1, <3>2, <3>3 DEF SaveFollows, ResultSteps
  <2> QED BY <2>1, <2>5, SaveInvKept DEF TypeInv, MastersTypeOK, TypeOK
<1> QED BY <1>1, <1>2

LEMMA SaveInvSaves ==
  ASSUME TypeInv, SaveInv, NEW s \in Savers, SaveStep(s)
  PROVE  SaveInv'
<1> USE DEF SaveInv
<1>1. UNCHANGED <<maps, handlerVars, cleanupVars, owed, sync, got, savers>>
    BY DEF SaveStep, Snapshot, Truncate, Fill, WriteFails, vars, history, syncVars, lifeVars
<1>2. \A t : /\ Near(t)' => Near(t)
             /\ SaveFollows(t) /\ (\A r \in Savers : saver[r] = "due" => saver'[r] = "due")
                  => SaveFollows(t)'
    BY <1>1 DEF Near, Here, InDispatch, SaveFollows, TasksIn, maps, handlerVars, cleanupVars
<1>3. /\ saver \in [Savers -> SaveSteps] /\ snap \in [Savers -> Snapshots \cup {NoBook}]
      /\ \A r \in Savers : Writing(r) => snap[r] \in Snapshots
      /\ owed \subseteq Tasks
    BY DEF TypeInv, MastersTypeOK, TypeOK, Writing
<1>4. \A b, t : Knows(b, t)' <=> Knows(b, t)
    BY <1>1 DEF Knows, TasksIn, maps
<1>5. CASE Snapshot(s)
  <2> DEFINE new == [book |-> Here, missed |-> InDispatch \ TasksIn(Here)]
  <2>1. /\ saver[s] = "due" /\ saver' = [saver EXCEPT ![s] = "open"] /\ snap' = [snap EXCEPT ![s] = new]
        /\ file' = file /\ (spoilt' <=> \E r \in Savers \ {s} : Writing(r))
      BY <1>5 DEF Snapshot
  <2>2. \A t \in Tasks : Near(t) => Knows(new, t)
      BY DEF Near, Knows, Here, TasksIn
  <2> HIDE DEF new
  <2>3. /\ snap'[s] = new /\ Writing(s)'
        /\ \A r \in Savers : r # s => snap'[r] = snap[r] /\ saver'[r] = saver[r]
      BY <1>3, <2>1 DEF Writing
  <2>4. ASSUME ~spoilt' PROVE OneWriter' /\ NearKnown'
    <3>1. \A r \in Savers : Writing(r)' => r = s
        BY <2>1, <2>3, <2>4 DEF Writing
    <3>2. saver'[s] = "open"
        BY <1>3, <2>1
    <3>3. OneWriter'
        BY <3>1, <3>2 DEF OneWriter, Writing
    <3>4. \A t \in owed' : Near(t)' => Saved(t)'
        BY <1>1, <1>2, <1>3, <1>4, <2>2, <2>3 DEF Saved
    <3> QED BY <3>3, <3>4 DEF NearKnown
  <2> QED BY <2>4
<1>6. CASE Truncate(s)
  <2>1. /\ saver[s] = "open" /\ saver' = [saver EXCEPT ![s] = "write"]
        /\ file' = Empty /\ snap' = snap /\ spoilt' = spoilt
      BY <1>6 DEF Truncate
  <2>2. \A r \in Savers : /\ Writing(r)' <=> Writing(r)
                          /\ saver'[r] = "due" <=> saver[r] = "due"
      BY <1>3, <2>1 DEF Writing
  <2>3. OneWriter => OneWriter'
      BY <2>1, <2>2 DEF OneWriter
  <2>4. Writing(s)
      BY <2>1 DEF Writing
  <2>5. \A t : Saved(t) => Saved(t)'
      BY <1>4, <2>1, <2>2, <2>4 DEF Saved, NoWriter
  <2>6. NearKnown => NearKnown'
      BY <1>1, <1>2, <2>2, <2>5 DEF NearKnown
  <2> QED BY <1>1, <2>1, <2>3, <2>6
<1>7. CASE Fill(s)
  <2>1. /\ saver[s] = "write" /\ saver' = [saver EXCEPT ![s] = "idle"]
        /\ file' \in IF file = Empty THEN {snap[s]} ELSE {snap[s], Torn}
        /\ snap' = [snap EXCEPT ![s] = NoBook] /\ spoilt' = spoilt
      BY <1>7 DEF Fill
  <2>2. /\ \A r \in Savers : r # s => /\ (Writing(r)' <=> Writing(r)) /\ snap'[r] = snap[r]
                                      /\ saver'[r] = saver[r]
        /\ ~Writing(s)' /\ Writing(s) /\ snap[s] \in Snapshots
        /\ \A r \in Savers : saver'[r] = "due" <=> saver[r] = "due"
      BY <1>3, <2>1 DEF Writing
  <2>3. ASSUME OneWriter PROVE OneWriter'
      BY <2>2, <2>3 DEF OneWriter, Writing
  <2>4. ASSUME OneWriter, NearKnown PROVE NearKnown'
    <3>1. file' = snap[s] /\ file' \notin {Empty, Torn}
        BY <2>1, <2>2, <2>4, BookAssumption DEF OneWriter, Snapshots
    <3>2. NoWriter'
        BY <2>2, <2>4 DEF NoWriter, OneWriter
    <3>3. \A t : Saved(t) => Saved(t)'
        BY <1>4, <2>2, <2>4, <3>1, <3>2 DEF Saved, NoWriter, OneWriter
    <3> QED BY <1>1, <1>2, <2>2, <2>4, <3>3 DEF NearKnown
  <2> QED BY <1>1, <2>1, <2>3, <2>4
<1>8. CASE WriteFails(s)
    BY <1>8 DEF WriteFails
<1> QED BY <1>5, <1>6, <1>7, <1>8 DEF SaveStep

\* A new life answers for what the file lists, and no more.
LEMMA SaveInvRestarts ==
  ASSUME TypeInv, SaveInv, Restart
  PROVE  SaveInv'
<1>1. /\ saver' = [s \in Savers |-> "idle"] /\ file' = file
      /\ owed'  = owed \cap (IF file \in {Empty, Torn} THEN {} ELSE TasksIn(file.book))
    BY DEF Restart
<1>2. \A s \in Savers : ~Writing(s)' /\ saver'[s] = "idle"
    BY <1>1 DEF Writing
<1>3. OneWriter'
    BY <1>1, <1>2 DEF OneWriter
<1>4. \A t \in owed' : Saved(t)'
    BY <1>1, <1>2 DEF Saved, NoWriter, Knows, TasksIn
<1> QED BY <1>3, <1>4 DEF SaveInv, NearKnown

\* What the file lists is what a restart brings back, and every task this master
\* answers for that is held anywhere is listed there, or in a save under way, or
\* a save follows; except while two saves or a failed write have spoilt the file,
\* and for what send_pending_tasks had in its hand at the newest snapshot, as long
\* as it has no result: no step of dispatch, result or eviction puts any other task
\* where neither the newest save nor one still to come has it (state.rs:46-80,
\* lib.rs:31-111, 112-178, 239-401).
THEOREM RestartsKnow == MastersSpec => []RestartKnows
<1>1. MastersInit => SaveInv
  <2> SUFFICES ASSUME MastersInit PROVE SaveInv
      OBVIOUS
  <2>1. saver = [s \in Savers |-> "idle"] /\ owed = {}
      BY DEF MastersInit, Init
  <2> QED BY <2>1 DEF SaveInv, OneWriter, NearKnown, Writing
<1>2. TypeInv /\ SafeInv /\ SaveInv /\ [MastersNext]_mastersVars => SaveInv'
    BY SaveInvRuns, SaveInvOthers, SaveInvMerges, SaveInvSaves, SaveInvRestarts DEF MastersNext, Exchange
<1>3. TypeInv /\ SaveInv => RestartKnows
  <2> SUFFICES ASSUME TypeInv, NearKnown, NEW t \in owed, Held(t), ~SaveFollows(t)
               PROVE  \E b \in {file} \cup {snap[s] : s \in Savers} :
                         Lists(b, t) \/ (Misses(b, t) /\ t \notin completed)
      BY DEF SaveInv, RestartKnows
  <2>1. t \in Tasks
      BY DEF TypeInv, MastersTypeOK, TypeOK
  <2>2. Near(t)
      BY <2>1, NearIsKept DEF Kept, Held, HeldBy, ActiveAt, SaveFollows
  <2>3. \A s \in Savers : Writing(s) => snap[s] \in Snapshots /\ snap[s] \notin {Empty, Torn, NoBook}
      BY BookAssumption DEF TypeInv, MastersTypeOK, Writing, Snapshots
  <2>4. file \notin {Empty, Torn} => file # NoBook
      BY BookAssumption DEF TypeInv, MastersTypeOK, Snapshots
  <2>5. Saved(t)
      BY <2>2 DEF NearKnown
  <2> QED BY <2>3, <2>4, <2>5 DEF Saved, Knows, Lists, Misses
<1> QED BY <1>1, <1>2, <1>3, SafeInvHolds, PTL DEF MastersSpec
=============================================================================
