------------------------- MODULE MasterLocks_proofs -------------------------
(***************************************************************************)
(* Theorems about MasterLocks, for every set of handlers, exchanges and    *)
(* saves and every number of operations under way.                         *)
(***************************************************************************)
EXTENDS MasterLocks, SequenceTheorems, TLAPS

Calls == [does : {"alone", "also", "spawn"}, mutex : Mutexes]

In(q, a)     == \E i \in 1..Len(q) : q[i] = a
NoneTwice(q) == \A i, j \in 1..Len(q) : q[i] = q[j] => i = j

\* Who waits is in one queue, once, and nobody else is in any.
LocksInv ==
    /\ owner \in [Mutexes -> Actors \cup {Free}]
    /\ queue \in [Mutexes -> Seq(Actors)]
    /\ todo  \in [Actors -> Seq(Calls)]
    /\ waiting \subseteq busy
    /\ busy \subseteq Actors
    /\ ask \in AskSteps
    /\ \A a \in waiting : todo[a] # <<>> /\ Call(a).does # "spawn"
    /\ \A m \in Mutexes : NoneTwice(queue[m])
    /\ \A m \in Mutexes, a \in Actors :
          In(queue[m], a) <=> a \in waiting /\ Call(a).mutex = m

Keepers == Savers \cup Syncs \cup {Shell}

\* Which call may follow which with the guards kept, in whose operations.
Follows(a, c, d) ==
    \/ a \in Keepers /\ c = Alone(Nodes) /\ d \in {Also(Ports), Also(Pend)}
    \/ a \in Keepers /\ c = Also(Ports)  /\ d = Also(Pend)
    \/ c = Also(Pend) /\ d = Also(Done)
    \/ a \in Workers /\ c = Alone(Pend)  /\ d = Also(Nodes)

Chained(a, s) == \A i \in 2..Len(s) : s[i].does = "also" => Follows(a, s[i-1], s[i])

Operation(a, s) ==
    /\ s \in Seq(Calls)
    /\ Chained(a, s)
    /\ s # <<>> => s[1].does # "also"

Held(a) == {m \in Mutexes : owner[m] = a}

\* The guards that an actor holds at a lock().await.
Holds(a) ==
    LET c == Call(a)
    IN  /\ c = Also(Ports) => a \in Keepers /\ Held(a) = {Nodes}
        /\ c = Also(Pend)  => a \in Keepers /\ Held(a) \in {{Nodes}, {Nodes, Ports}}
        /\ c = Also(Done)  => Held(a) \in {{Nodes, Pend}, {Nodes, Ports, Pend}}
        /\ c = Also(Nodes) => a \in Workers /\ Held(a) = {Pend}
        /\ a \in waiting /\ c.does = "alone" => Held(a) = {}

Ordered(a) == Chained(a, todo[a]) /\ (todo[a] # <<>> => Holds(a))

\* The shell's save inside its poll is the one operation out of order.
LockOrder == \A a \in Actors : (a = Shell /\ ask = "taken") \/ Ordered(a)

OrderInv == LocksInv /\ LockOrder

-----------------------------------------------------------------------------
(* The queue of a mutex, and an actor that leaves it. *)

LEMMA Removed ==
  ASSUME NEW S, NEW q \in Seq(S), NoneTwice(q), NEW k \in 1..Len(q)
  PROVE  RemoveFirst(q, q[k]) = RemoveAt(q, k)
<1>1. Len(q) \in Nat
    BY LenProperties
<1>2. {i \in 1..Len(q) : q[i] = q[k]} = {k}
    BY <1>1 DEF NoneTwice
<1>3. Min({k}) = k
    BY <1>1 DEF Min
<1> QED BY <1>1, <1>2, <1>3 DEF RemoveFirst, SelectInSeq

LEMMA RemovedAt ==
  ASSUME NEW S, NEW q \in Seq(S), NEW k \in 1..Len(q)
  PROVE  /\ RemoveAt(q, k) \in Seq(S)
         /\ Len(RemoveAt(q, k)) = Len(q) - 1
         /\ \A i \in 1..Len(q) - 1 :
                RemoveAt(q, k)[i] = IF i < k THEN q[i] ELSE q[i + 1]
<1> DEFINE before == SubSeq(q, 1, k - 1)
           after  == SubSeq(q, k + 1, Len(q))
<1>1. Len(q) \in Nat /\ \A i \in 1..Len(q) : q[i] \in S
    BY LenProperties, ElementOfSeq
<1>2. /\ before \in Seq(S) /\ Len(before) = k - 1
      /\ \A i \in 1..k - 1 : before[i] = q[i]
    BY <1>1, SubSeqProperties
<1>3. /\ after \in Seq(S) /\ Len(after) = Len(q) - k
      /\ \A i \in 1..Len(q) - k : after[i] = q[k + i]
  <2>1. \A i \in k + 1 .. Len(q) : q[i] \in S
      BY <1>1
  <2>2. /\ after \in Seq(S)
        /\ Len(after) = IF k + 1 <= Len(q) THEN Len(q) - (k + 1) + 1 ELSE 0
        /\ \A i \in 1..Len(q) - (k + 1) + 1 : after[i] = q[(k + 1) + i - 1]
      BY <1>1, <2>1, SubSeqProperties
  <2> HIDE DEF after
  <2> QED BY <1>1, <2>2
<1>4. RemoveAt(q, k) = before \o after
    BY DEF RemoveAt
<1> HIDE DEF before, after
<1>5. /\ before \o after \in Seq(S)
      /\ Len(before \o after) = Len(before) + Len(after)
      /\ \A i \in 1..Len(before) + Len(after) :
            (before \o after)[i] = IF i <= Len(before) THEN before[i] ELSE after[i - Len(before)]
    BY <1>2, <1>3, ConcatProperties
<1>6. \A i \in 1..Len(q) - 1 :
        (before \o after)[i] = IF i < k THEN q[i] ELSE q[i + 1]
  <2> TAKE i \in 1..Len(q) - 1
  <2>1. CASE i < k
      BY <1>1, <1>2, <1>3, <1>5, <2>1
  <2>2. CASE i >= k
    <3>1. i - (k - 1) \in 1..Len(q) - k /\ k + (i - (k - 1)) = i + 1
        BY <1>1, <2>2
    <3>2. after[i - (k - 1)] = q[i + 1]
        BY <1>3, <3>1
    <3> QED BY <1>1, <1>2, <1>3, <1>5, <2>2, <3>2
  <2>3. i < k \/ i >= k
      BY <1>1
  <2> QED BY <2>1, <2>2, <2>3
<1> QED BY <1>1, <1>2, <1>3, <1>4, <1>5, <1>6

\* The rest of the queue is still there, and is still without duplicates.
LEMMA Leaves ==
  ASSUME NEW S, NEW q \in Seq(S), NoneTwice(q), NEW e
  PROVE  LET r == RemoveFirst(q, e)
         IN  /\ r \in Seq(S)
             /\ NoneTwice(r)
             /\ \A b : In(r, b) <=> In(q, b) /\ b # e
<1>1. CASE \E k \in 1..Len(q) : q[k] = e
  <2>1. PICK k \in 1..Len(q) : q[k] = e
      BY <1>1
  <2> DEFINE r == RemoveFirst(q, e)
  <2>0. r = RemoveAt(q, k)
      BY <2>1, Removed
  <2> HIDE DEF r
  <2>2. /\ r \in Seq(S) /\ Len(q) \in Nat /\ Len(r) = Len(q) - 1
        /\ \A i \in 1..Len(q) - 1 : r[i] = IF i < k THEN q[i] ELSE q[i + 1]
    <3>1. Len(q) \in Nat
        BY LenProperties
    <3> QED BY ONLY q \in Seq(S), k \in 1..Len(q), <2>0, <3>1, RemovedAt
  <2>3. NoneTwice(r)
    <3> DEFINE at(i) == IF i < k THEN i ELSE i + 1
    <3>1. \A i \in 1..Len(r) : at(i) \in 1..Len(q) /\ r[i] = q[at(i)]
        BY <2>2
    <3>2. \A i, j \in 1..Len(r) : at(i) = at(j) => i = j
        BY <2>2
    <3> HIDE DEF at
    <3> QED BY <3>1, <3>2 DEF NoneTwice
  <2>4. \A i \in 1..Len(r) : r[i] # e /\ \E j \in 1..Len(q) : r[i] = q[j]
      BY <2>1, <2>2 DEF NoneTwice
  <2>5. ASSUME NEW j \in 1..Len(q), q[j] # e
        PROVE  \E i \in 1..Len(r) : r[i] = q[j]
    <3>1. CASE j < k
        BY <2>2, <3>1
    <3>2. CASE j > k
      <4>1. j - 1 \in 1..Len(r) /\ r[j - 1] = q[j]
          BY <2>2, <3>2
      <4> QED BY <4>1
    <3>3. j # k /\ j \in Int /\ k \in Int
        BY <2>1, <2>2, <2>5
    <3> QED BY <3>1, <3>2, <3>3
  <2>6. \A b : In(r, b) <=> In(q, b) /\ b # e
      BY <2>4, <2>5 DEF In
  <2> QED BY <2>2, <2>3, <2>6 DEF r
<1>2. CASE ~ \E k \in 1..Len(q) : q[k] = e
  <2>1. RemoveFirst(q, e) = q
      BY <1>2 DEF RemoveFirst
  <2> QED BY <1>2, <2>1 DEF In
<1> QED BY <1>1, <1>2

\* An actor that is not in the queue joins it at its end.
LEMMA Joins ==
  ASSUME NEW S, NEW q \in Seq(S), NoneTwice(q), NEW e \in S, ~In(q, e)
  PROVE  LET r == Append(q, e)
         IN  /\ r \in Seq(S)
             /\ NoneTwice(r)
             /\ \A b : In(r, b) <=> In(q, b) \/ b = e
<1> DEFINE r == Append(q, e)
<1>1. /\ r \in Seq(S) /\ Len(q) \in Nat /\ Len(r) = Len(q) + 1
      /\ \A i \in 1..Len(q) : r[i] = q[i]
      /\ r[Len(q) + 1] = e
    BY AppendProperties, LenProperties
<1> HIDE DEF r
<1>2. NoneTwice(r)
    BY <1>1 DEF NoneTwice, In
<1>3. \A b : In(r, b) <=> In(q, b) \/ b = e
    BY <1>1 DEF In
<1> QED BY <1>1, <1>2, <1>3 DEF r

\* The head of the queue is served.
LEMMA Served ==
  ASSUME NEW S, NEW q \in Seq(S), NoneTwice(q), q # <<>>
  PROVE  /\ Tail(q) \in Seq(S)
         /\ NoneTwice(Tail(q))
         /\ \A b : In(Tail(q), b) <=> In(q, b) /\ b # Head(q)
<1> DEFINE r == Tail(q)
<1>1. /\ r \in Seq(S) /\ Len(q) \in Nat /\ Len(r) = Len(q) - 1
      /\ \A i \in 1..Len(r) : r[i] = q[i + 1]
      /\ Len(q) >= 1 /\ Head(q) = q[1]
    BY HeadTailProperties, LenProperties, EmptySeq
<1> HIDE DEF r
<1>2. ASSUME NEW j \in 1..Len(q), q[j] # q[1]
      PROVE  \E i \in 1..Len(r) : r[i] = q[j]
  <2>1. j - 1 \in 1..Len(r) /\ r[j - 1] = q[j]
      BY <1>1, <1>2
  <2> QED BY <2>1
<1>3. NoneTwice(r) /\ \A i \in 1..Len(r) : r[i] # q[1]
    BY <1>1 DEF NoneTwice
<1> QED BY <1>1, <1>2, <1>3 DEF r, In

-----------------------------------------------------------------------------
(* The operations of the master take the mutexes in order. *)

LEMMA Concat ==
  ASSUME NEW a, NEW s, NEW t, Operation(a, s), Operation(a, t)
  PROVE  Operation(a, s \o t)
<1>1. /\ s \in Seq(Calls) /\ Len(s) \in Nat
      /\ t \in Seq(Calls) /\ Len(t) \in Nat
      /\ s = <<>> <=> Len(s) = 0
      /\ t = <<>> <=> Len(t) = 0
    BY LenProperties, EmptySeq DEF Operation
<1> DEFINE u == s \o t
<1>2. /\ u \in Seq(Calls)
      /\ Len(u) = Len(s) + Len(t)
      /\ \A i \in 1..Len(s) + Len(t) : u[i] = IF i <= Len(s) THEN s[i] ELSE t[i - Len(s)]
    BY <1>1, ConcatProperties
<1> HIDE DEF u
<1>3. ASSUME NEW i \in 2..Len(u), u[i].does = "also"
      PROVE  Follows(a, u[i-1], u[i])
  <2>1. CASE i <= Len(s)
    <3>1. i \in 2..Len(s) /\ u[i] = s[i] /\ u[i-1] = s[i-1]
      <4>1. /\ i \in 2..Len(s) /\ i \in 1..Len(s) + Len(t)
            /\ i - 1 \in 1..Len(s) + Len(t) /\ i - 1 <= Len(s)
          BY ONLY <1>1, <1>2, <2>1, i \in 2..Len(u)
      <4> QED BY ONLY <1>2, <2>1, <4>1
    <3> QED BY <1>3, <3>1 DEF Operation, Chained
  <2>2. CASE i = Len(s) + 1
    <3>1. u[i] = t[1] /\ Len(t) >= 1
        BY <1>1, <1>2, <2>2
    <3> QED BY <1>1, <1>3, <3>1 DEF Operation
  <2>3. CASE i > Len(s) + 1
    <3> DEFINE j == i - Len(s)
    <3>1. j \in 2..Len(t) /\ (i - 1) - Len(s) = j - 1 /\ i - 1 \in 1..Len(u) /\ ~(i - 1 <= Len(s))
        BY <1>1, <1>2, <2>3
    <3>2. u[i] = t[j] /\ u[i-1] = t[j-1]
        BY <1>1, <1>2, <2>3, <3>1
    <3> HIDE DEF j
    <3> QED BY <1>3, <3>1, <3>2 DEF Operation, Chained
  <2> QED BY <1>1, <2>1, <2>2, <2>3
<1>4. u # <<>> => u[1].does # "also"
  <2>1. CASE s = <<>>
      BY <1>1, <1>2, <2>1, EmptySeq DEF Operation
  <2>2. CASE s # <<>>
      BY <1>1, <1>2, <2>2 DEF Operation
  <2> QED BY <2>1, <2>2
<1> QED BY <1>2, <1>3, <1>4 DEF Operation, Chained, u

\* The calls made with no guard kept from before.
LEMMA Plain ==
  ASSUME NEW a, NEW c \in Calls, c.does # "also"
  PROVE  Operation(a, <<c>>)
  BY DEF Operation, Chained

LEMMA CallTypes ==
  /\ \A m \in Mutexes : /\ Alone(m) \in Calls /\ Alone(m).does = "alone" /\ Alone(m).mutex = m
                        /\ Also(m) \in Calls /\ Also(m).does = "also" /\ Also(m).mutex = m
  /\ Spawn \in Calls /\ Spawn.does = "spawn"
  /\ Mutexes = {Nodes, Ports, Pend, Done}
  BY DEF Alone, Also, Spawn, Calls, Mutexes, Nodes, Ports, Pend, Done

LEMMA SaveStateOrder ==
  ASSUME NEW a \in Keepers
  PROVE  Operation(a, SaveState)
  BY CallTypes DEF Operation, SaveState, Chained, Follows

LEMMA CollectStateOrder ==
  ASSUME NEW a \in Keepers
  PROVE  Operation(a, CollectState)
  BY CallTypes DEF Operation, CollectState, Chained, Follows

LEMMA PickTaskOrder ==
  ASSUME NEW a \in Workers
  PROVE  Operation(a, PickTask)
  BY CallTypes DEF Operation, PickTask, Chained, Follows

LEMMA PlainOperations ==
  ASSUME NEW a
  PROVE  /\ Operation(a, MergeState)
         /\ Operation(a, ReleasePort)
         /\ Operation(a, Handshake)
         /\ \A s \in Messages : Operation(a, s)
         /\ \A s \in Departures : Operation(a, s)
         /\ Operation(a, CleanupPass)
         /\ Operation(a, Poll)
<1>1. Operation(a, MergeState) /\ Operation(a, ReleasePort) /\ Operation(a, Poll)
    BY CallTypes DEF Operation, Chained, Follows, MergeState, ReleasePort, Poll
<1>2. /\ Operation(a, <<Alone(Nodes)>>)
      /\ Operation(a, <<Alone(Pend), Spawn>>)
      /\ Operation(a, <<Alone(Done)>>)
      /\ Operation(a, <<Alone(Nodes), Spawn>>)
      /\ Operation(a, <<Spawn>>)
      /\ Operation(a, Handshake)
    BY CallTypes DEF Operation, Chained, Follows, Handshake
<1>3. /\ Operation(a, <<Alone(Ports), Spawn, Alone(Nodes), Alone(Nodes)>>)
      /\ Operation(a, <<Alone(Nodes), Spawn, Alone(Nodes), Spawn>>)
      /\ Operation(a, <<Alone(Nodes), Alone(Nodes), Alone(Pend)>>)
    BY CallTypes DEF Operation, Chained, Follows
<1>4. Operation(a, <<Alone(Nodes), Alone(Pend), Alone(Done), Spawn>>)
    BY CallTypes DEF Operation, Chained, Follows
<1>5. \A s \in Messages : Operation(a, s)
    BY <1>2, <1>3, <1>4 DEF Messages
<1>6. Operation(a, ReleasePort \o <<Alone(Nodes), Spawn, Alone(Nodes), Spawn>>)
    BY <1>1, <1>3, Concat
<1>7. \A s \in Departures : Operation(a, s)
    BY <1>2, <1>6 DEF Departures
<1>8. Operation(a, <<Alone(Nodes), Alone(Nodes), Alone(Pend)>> \o ReleasePort)
    BY <1>1, <1>3, Concat
<1>9. Operation(a, CleanupPass)
    BY <1>2, <1>8, Concat DEF CleanupPass
<1> QED BY <1>1, <1>2, <1>5, <1>7, <1>9

\* Whatever a handler sends after a message.
LEMMA DispatchOrder ==
  ASSUME NEW a, NEW d \in Dispatches(a)
  PROVE  Operation(a, d)
<1>1. /\ Operation(a, <<Alone(Nodes)>>)
      /\ Operation(a, <<Alone(Nodes), Alone(Pend), Alone(Nodes)>>)
    BY CallTypes DEF Operation, Chained, Follows
<1>2. CASE a \in Workers
    BY ONLY d \in Dispatches(a), <1>1, <1>2, PickTaskOrder, Concat DEF Dispatches
<1>3. CASE a \notin Workers
    BY ONLY d \in Dispatches(a), <1>1, <1>3 DEF Dispatches
<1> QED BY <1>2, <1>3

\* The operations of the shell, its save inside the poll aside.
LEMMA ShellOrder ==
  /\ \A s \in ShellCommands : Operation(Shell, s)
  /\ Operation(Shell, Submit)
  /\ Operation(Shell, AfterTimeout)
<1>1. /\ Operation(Shell, <<Alone(Nodes), Alone(Pend), Alone(Done)>>)
      /\ Operation(Shell, <<Alone(Pend), Alone(Nodes), Alone(Done)>>)
      /\ Operation(Shell, <<Alone(Pend)>>)
    BY CallTypes DEF Operation, Chained, Follows
<1>2. Operation(Shell, SaveState)
    BY SaveStateOrder DEF Keepers
<1> QED BY ONLY <1>1, <1>2, Concat DEF ShellCommands, Submit, AfterTimeout

-----------------------------------------------------------------------------
(* Types, and that the queues hold who waits. *)

LEMMA LocksType == LocksInv => TypeOK
<1> SUFFICES ASSUME LocksInv PROVE TypeOK
    OBVIOUS
<1>1. ASSUME NEW m \in Mutexes, NEW i \in 1..Len(queue[m])
      PROVE  queue[m][i] \in waiting /\ Call(queue[m][i]).mutex = m
  <2>1. queue[m][i] \in Actors
      BY ElementOfSeq DEF LocksInv
  <2>2. In(queue[m], queue[m][i])
      BY DEF In
  <2> QED BY <2>1, <2>2 DEF LocksInv
<1> QED BY <1>1 DEF LocksInv, TypeOK

LEMMA CallType ==
  ASSUME LocksInv, NEW a \in Actors, todo[a] # <<>>
  PROVE  /\ Call(a) \in Calls /\ Call(a).mutex \in Mutexes
         /\ Call(a).does \in {"alone", "also", "spawn"}
         /\ Tail(todo[a]) \in Seq(Calls)
<1>1. todo[a] \in Seq(Calls)
    BY DEF LocksInv
<1>2. Call(a) \in Calls /\ Tail(todo[a]) \in Seq(Calls)
    BY <1>1, HeadTailProperties DEF Call
<1> HIDE DEF Call
<1> QED BY <1>2 DEF Calls

LEMMA ReleasedType ==
  ASSUME LocksInv, NEW a
  PROVE  Released(a) \in [Mutexes -> Actors \cup {Free}]
  BY DEF LocksInv, Released

LEMMA LocksInit == Init => LocksInv
<1> SUFFICES ASSUME Init PROVE LocksInv
    OBVIOUS
<1>1. \A m \in Mutexes : queue[m] = <<>> /\ Len(<<>>) = 0
    BY EmptySeq DEF Init
<1>2. /\ queue \in [Mutexes -> Seq(Actors)]
      /\ todo  \in [Actors -> Seq(Calls)]
    BY EmptySeq DEF Init
<1>3. \A m \in Mutexes : NoneTwice(queue[m]) /\ \A a : ~In(queue[m], a)
    BY <1>1 DEF NoneTwice, In
<1> QED BY <1>2, <1>3 DEF Init, LocksInv, AskSteps

\* An operation starts, or the shell's next part of one: it waits for nothing.
\* Two actors get new calls: one that spawns goes on, the spawned one begins.
LEMMA TwoRefills ==
  ASSUME NEW A, NEW S, NEW f \in [A -> S], NEW a \in A, NEW b \in A, NEW x \in S, NEW y \in S
  PROVE  /\ [f EXCEPT ![a] = x, ![b] = y] \in [A -> S]
         /\ \A c \in A : c # a /\ c # b => [f EXCEPT ![a] = x, ![b] = y][c] = f[c]
  OBVIOUS

LEMMA LocksRefill ==
  ASSUME LocksInv, NEW a \in Actors, NEW calls \in Seq(Calls), a \notin waiting,
         todo' = [todo EXCEPT ![a] = calls],
         owner' \in [Mutexes -> Actors \cup {Free}],
         waiting' = waiting, queue' = queue, waiting \subseteq busy', busy' \subseteq Actors,
         ask' \in AskSteps
  PROVE  LocksInv'
<1>1. todo' \in [Actors -> Seq(Calls)] /\ \A b \in waiting : Call(b)' = Call(b) /\ todo'[b] = todo[b]
    BY DEF LocksInv, Call
<1>2. \A m \in Mutexes, b \in Actors :
        In(queue'[m], b) <=> b \in waiting' /\ (Call(b)').mutex = m
    BY <1>1 DEF LocksInv
<1> QED BY <1>1, <1>2 DEF LocksInv

LEMMA LocksStep ==
  ASSUME LocksInv, [Next]_vars
  PROVE  LocksInv'
<1>1. ASSUME NEW a \in Actors, Request(a) PROVE LocksInv'
  <2> DEFINE m == Call(a).mutex
  <2>1. /\ a \in busy /\ a \notin waiting /\ todo[a] # <<>> /\ Call(a).does # "spawn"
        /\ m \in Mutexes
        /\ queue' = [queue EXCEPT ![m] = Append(@, a)]
        /\ waiting' = waiting \cup {a}
        /\ todo' = todo /\ busy' = busy /\ ask' = ask
        /\ owner' \in [Mutexes -> Actors \cup {Free}]
      BY <1>1, CallType, ReleasedType DEF Request, LocksInv
  <2>2. \A b : Call(b)' = Call(b)
      BY <2>1 DEF Call
  <2> HIDE DEF m
  <2>3. /\ Append(queue[m], a) \in Seq(Actors)
        /\ NoneTwice(Append(queue[m], a))
        /\ \A b : In(Append(queue[m], a), b) <=> In(queue[m], b) \/ b = a
    <3>1. /\ queue[m] \in Seq(Actors) /\ NoneTwice(queue[m]) /\ ~In(queue[m], a)
        BY <2>1 DEF LocksInv
    <3> QED BY <3>1, Joins
  <2>4. \A n \in Mutexes, b \in Actors :
            In(queue'[n], b) <=> b \in waiting' /\ (Call(b)').mutex = n
    <3> TAKE n \in Mutexes, b \in Actors
    <3>1. CASE n = m
        BY <2>1, <2>2, <2>3, <3>1 DEF LocksInv, m
    <3>2. CASE n # m
        BY <2>1, <2>2, <3>2 DEF LocksInv, m
    <3> QED BY <3>1, <3>2
  <2>5. queue' \in [Mutexes -> Seq(Actors)] /\ \A n \in Mutexes : NoneTwice(queue'[n])
      BY <2>1, <2>3 DEF LocksInv
  <2> QED BY <2>1, <2>2, <2>4, <2>5 DEF LocksInv
<1>2. ASSUME NEW a \in Actors, Grant(a) PROVE LocksInv'
  <2> DEFINE m == Call(a).mutex
             rest == Tail(todo[a])
  <2>1. /\ a \in waiting /\ todo[a] # <<>> /\ m \in Mutexes /\ rest \in Seq(Calls)
        /\ Head(queue[m]) = a
        /\ owner' = [owner EXCEPT ![m] = a]
        /\ queue' = [queue EXCEPT ![m] = Tail(@)]
        /\ todo' = [todo EXCEPT ![a] = rest]
        /\ waiting' = waiting \ {a}
        /\ busy' = busy /\ ask' = ask
      BY <1>2, CallType DEF Grant, LocksInv
  <2> HIDE DEF m, rest
  <2>2. /\ Tail(queue[m]) \in Seq(Actors)
        /\ NoneTwice(Tail(queue[m]))
        /\ \A b : In(Tail(queue[m]), b) <=> In(queue[m], b) /\ b # a
    <3>1. /\ queue[m] \in Seq(Actors) /\ NoneTwice(queue[m]) /\ In(queue[m], a)
        BY <2>1 DEF LocksInv, m
    <3>2. queue[m] # <<>>
        BY <3>1 DEF In
    <3> QED BY <2>1, <3>1, <3>2, Served
  <2>3. \A b \in Actors : b # a => Call(b)' = Call(b) /\ todo'[b] = todo[b]
      BY <2>1 DEF LocksInv, Call
  <2>4. \A n \in Mutexes, b \in Actors :
            In(queue'[n], b) <=> b \in waiting' /\ (Call(b)').mutex = n
    <3> TAKE n \in Mutexes, b \in Actors
    <3>1. CASE n = m
        BY <2>1, <2>2, <2>3, <3>1 DEF LocksInv, m
    <3>2. CASE n # m
        BY <2>1, <2>3, <3>2 DEF LocksInv, m
    <3> QED BY <3>1, <3>2
  <2>5. queue' \in [Mutexes -> Seq(Actors)] /\ \A n \in Mutexes : NoneTwice(queue'[n])
      BY <2>1, <2>2 DEF LocksInv
  <2>6. /\ owner' \in [Mutexes -> Actors \cup {Free}]
        /\ todo' \in [Actors -> Seq(Calls)]
        /\ waiting' \subseteq busy' /\ busy' \subseteq Actors /\ ask' \in AskSteps
        /\ \A b \in waiting' : todo'[b] # <<>> /\ (Call(b)').does # "spawn"
      BY <2>1, <2>3 DEF LocksInv
  <2> QED BY <2>4, <2>5, <2>6 DEF LocksInv
<1>3. ASSUME NEW a \in Actors, SpawnSave(a) PROVE LocksInv'
  <2> DEFINE rest == Tail(todo[a])
  <2>1. /\ a \in busy /\ a \notin waiting /\ rest \in Seq(Calls)
        /\ owner' \in [Mutexes -> Actors \cup {Free}]
        /\ queue' = queue /\ waiting' = waiting /\ ask' = ask
      BY <1>3, CallType, ReleasedType DEF SpawnSave
  <2>2. SaveState \in Seq(Calls)
      BY SaveStateOrder, CallTypes DEF SaveState
  <2>3. /\ todo' \in [Actors -> Seq(Calls)]
        /\ \A b \in waiting : todo'[b] = todo[b] /\ Call(b)' = Call(b)
        /\ waiting \subseteq busy' /\ busy' \subseteq Actors
    <3> HIDE DEF rest
    <3>1. CASE Savers \subseteq busy /\ todo' = [todo EXCEPT ![a] = rest] /\ busy' = busy
        BY <2>1, <3>1 DEF LocksInv, Call
    <3>2. ASSUME NEW s \in Savers \ busy,
                 todo' = [todo EXCEPT ![a] = rest, ![s] = SaveState], busy' = busy \cup {s}
          PROVE  /\ todo' \in [Actors -> Seq(Calls)]
                 /\ \A b \in waiting : todo'[b] = todo[b] /\ Call(b)' = Call(b)
                 /\ waiting \subseteq busy' /\ busy' \subseteq Actors
      <4>1. s \in Actors /\ s # a /\ \A b \in waiting : b # a /\ b # s /\ b \in Actors
          BY <2>1, <3>2 DEF LocksInv, Actors
      <4>2. todo' \in [Actors -> Seq(Calls)] /\ \A b \in waiting : todo'[b] = todo[b]
        <5>1. todo \in [Actors -> Seq(Calls)]
            BY DEF LocksInv
        <5>2. /\ [todo EXCEPT ![a] = rest, ![s] = SaveState] \in [Actors -> Seq(Calls)]
              /\ \A c \in Actors : c # a /\ c # s => [todo EXCEPT ![a] = rest, ![s] = SaveState][c] = todo[c]
            BY ONLY a \in Actors, <2>1, <2>2, <4>1, <5>1, TwoRefills
        <5> QED BY ONLY <3>2, <4>1, <5>2
      <4> QED BY <2>1, <3>2, <4>1, <4>2 DEF LocksInv, Call
    <3> QED BY <1>3, <3>1, <3>2 DEF SpawnSave, rest
  <2>4. \A n \in Mutexes, b \in Actors :
            In(queue'[n], b) <=> b \in waiting' /\ (Call(b)').mutex = n
      BY <2>1, <2>3 DEF LocksInv
  <2> QED BY <2>1, <2>3, <2>4 DEF LocksInv
<1>4. ASSUME NEW a \in Actors, Finish(a) PROVE LocksInv'
  <2>1. /\ a \notin waiting /\ owner' \in [Mutexes -> Actors \cup {Free}]
        /\ busy' = busy \ {a} /\ ask' \in AskSteps
        /\ queue' = queue /\ todo' = todo /\ waiting' = waiting
      BY <1>4, ReleasedType DEF Finish, LocksInv, AskSteps
  <2>2. \A b : Call(b)' = Call(b)
      BY <2>1 DEF Call
  <2> QED BY <2>1, <2>2 DEF LocksInv
<1>5. ASSUME NEW a \in Actors, NEW calls \in Seq(Calls), Start(a, calls), ask' \in AskSteps
      PROVE  LocksInv'
  <2>1. a \notin waiting
      BY <1>5 DEF Start, LocksInv
  <2>2. /\ todo' = [todo EXCEPT ![a] = calls]
        /\ owner' = owner /\ waiting' = waiting /\ queue' = queue
        /\ busy' = busy \cup {a}
      BY <1>5 DEF Start
  <2>3. /\ owner' \in [Mutexes -> Actors \cup {Free}]
        /\ waiting \subseteq busy' /\ busy' \subseteq Actors
      BY <2>2 DEF LocksInv
  <2> QED BY ONLY LocksInv, a \in Actors, calls \in Seq(Calls), ask' \in AskSteps,
                  <1>5, <2>1, <2>2, <2>3, LocksRefill
<1>6. ASSUME NEW h \in Handlers, StartHandler(h) PROVE LocksInv'
  <2>1. PICK s \in Seq(Calls) : Start(h, s)
      BY <1>6, PlainOperations, DispatchOrder, Concat DEF StartHandler, Operation
  <2> QED BY <1>5, <1>6, <2>1 DEF StartHandler, Actors, LocksInv
<1>7. ASSUME NEW p \in Syncs, StartSync(p) PROVE LocksInv'
  <2>1. PICK s \in Seq(Calls) : Start(p, s)
      BY <1>7, PlainOperations, CollectStateOrder, Concat DEF StartSync, Operation, Keepers
  <2> QED BY <1>5, <1>7, <2>1 DEF StartSync, Actors, LocksInv
<1>8. CASE StartCleanup
    BY <1>5, <1>8, PlainOperations DEF StartCleanup, Operation, Actors, LocksInv
<1>9. CASE StartCommand
    BY <1>5, <1>9, ShellOrder DEF StartCommand, Operation, Actors, LocksInv
<1>10. CASE AskNode
    BY <1>5, <1>10, ShellOrder DEF AskNode, Operation, Actors, AskSteps
<1>11. CASE PollAgain
    BY <1>11, PlainOperations, ReleasedType, LocksRefill
    DEF PollAgain, Operation, Actors, AskSteps, LocksInv
<1>12. CASE PollHit
  <2>1. SaveInPoll \in Seq(Calls)
      BY CallTypes DEF SaveInPoll
  <2> QED BY <1>12, <2>1, LocksRefill DEF PollHit, Actors, AskSteps, LocksInv
<1>13. CASE AskTimeout
  <2>1. /\ owner' \in [Mutexes -> Actors \cup {Free}]
        /\ ask' \in AskSteps /\ busy' = busy
        /\ waiting' = waiting \ {Shell}
        /\ todo' = [todo EXCEPT ![Shell] = AfterTimeout]
        /\ queue' = [m \in Mutexes |-> RemoveFirst(queue[m], Shell)]
        /\ AfterTimeout \in Seq(Calls)
      BY <1>13, ReleasedType, ShellOrder DEF AskTimeout, AskSteps, Operation
  <2>2. \A m \in Mutexes :
          /\ queue'[m] \in Seq(Actors) /\ NoneTwice(queue'[m])
          /\ \A b : In(queue'[m], b) <=> In(queue[m], b) /\ b # Shell
    <3> TAKE m \in Mutexes
    <3>1. queue[m] \in Seq(Actors) /\ NoneTwice(queue[m])
        BY DEF LocksInv
    <3> QED BY <2>1, <3>1, Leaves
  <2>3. \A b \in Actors : b # Shell => todo'[b] = todo[b] /\ Call(b)' = Call(b)
      BY <2>1 DEF LocksInv, Call
  <2>4. todo' \in [Actors -> Seq(Calls)] /\ queue' \in [Mutexes -> Seq(Actors)]
    <3>1. queue' \in [Mutexes -> Seq(Actors)]
        BY ONLY <2>1, <2>2
    <3> QED BY <2>1, <3>1 DEF LocksInv
  <2>5. \A m \in Mutexes, b \in Actors :
            In(queue'[m], b) <=> b \in waiting' /\ (Call(b)').mutex = m
      BY <2>1, <2>2, <2>3 DEF LocksInv
  <2> QED BY <2>1, <2>2, <2>3, <2>4, <2>5 DEF LocksInv
<1>14. CASE UNCHANGED vars
  <2>1. \A b : Call(b)' = Call(b)
      BY <1>14 DEF Call, vars
  <2> QED BY <1>14, <2>1 DEF LocksInv, vars
<1> QED BY <1>1, <1>2, <1>3, <1>4, <1>6, <1>7, <1>8, <1>9, <1>10, <1>11, <1>12, <1>13, <1>14
        DEF Next, Step, Ask

-----------------------------------------------------------------------------
(* The guards an actor holds follow from where it is in its operation. *)

LEMMA HeldAfterRelease ==
  ASSUME LocksInv, NEW a \in Actors, owner' = Released(a)
  PROVE  Held(a)' = {} /\ \A b \in Actors : b # a => Held(b)' = Held(b)
  BY FreeAssumption DEF Released, Held, LocksInv

LEMMA HeldAfterGrant ==
  ASSUME LocksInv, NEW a \in Actors, NEW m \in Mutexes, owner[m] = Free,
         owner' = [owner EXCEPT ![m] = a]
  PROVE  Held(a)' = Held(a) \cup {m} /\ \A b \in Actors : b # a => Held(b)' = Held(b)
  BY FreeAssumption DEF Held, LocksInv

\* An actor to which nothing happens.
LEMMA OrderedStays ==
  ASSUME NEW b, Ordered(b), todo'[b] = todo[b], Held(b)' = Held(b),
         b \in waiting' => b \in waiting
  PROVE  Ordered(b)'
<1>1. Call(b)' = Call(b)
    BY DEF Call
<1>2. Holds(b) => Holds(b)'
    BY <1>1 DEF Holds
<1> QED BY <1>1, <1>2 DEF Ordered, Chained, Follows

\* An actor that begins an operation.
LEMMA OrderedBegins ==
  ASSUME NEW a, NEW s, Operation(a, s), todo'[a] = s, a \notin waiting'
  PROVE  Ordered(a)'
<1>1. Chained(a, todo[a])'
    BY DEF Operation, Chained, Follows
<1>2. ASSUME s # <<>> PROVE Holds(a)'
  <2>1. Call(a)' = s[1] /\ (Call(a)').does # "also"
      BY <1>2, HeadTailProperties, EmptySeq DEF Operation, Call
  <2> QED BY <2>1, CallTypes DEF Holds
<1> QED BY <1>1, <1>2 DEF Ordered

\* An actor that has come past its first call.
LEMMA ChainedTail ==
  ASSUME NEW a, NEW s \in Seq(Calls), s # <<>>, Chained(a, s)
  PROVE  /\ Chained(a, Tail(s))
         /\ Tail(s) # <<>> /\ Head(Tail(s)).does = "also"
                => Follows(a, Head(s), Head(Tail(s)))
<1> DEFINE r == Tail(s)
<1>1. /\ r \in Seq(Calls) /\ Len(s) \in Nat /\ Len(r) = Len(s) - 1
      /\ \A i \in 1..Len(r) : r[i] = s[i + 1]
      /\ Head(s) = s[1]
    BY HeadTailProperties, LenProperties, EmptySeq
<1> HIDE DEF r
<1>2. Chained(a, r)
  <2> SUFFICES ASSUME NEW i \in 2..Len(r), r[i].does = "also"
               PROVE  Follows(a, r[i-1], r[i])
      BY DEF Chained
  <2>1. i + 1 \in 2..Len(s) /\ r[i] = s[i + 1] /\ r[i-1] = s[(i + 1) - 1]
      BY <1>1
  <2> QED BY <2>1 DEF Chained
<1>3. ASSUME r # <<>>, Head(r).does = "also"
      PROVE  Follows(a, Head(s), Head(r))
  <2>1. Len(r) >= 1 /\ Head(r) = r[1]
      BY <1>1, <1>3, LenProperties, EmptySeq
  <2>2. 2 \in 2..Len(s) /\ r[1] = s[2]
      BY <1>1, <2>1
  <2>3. s[2].does = "also" => Follows(a, s[2-1], s[2])
      BY <2>2 DEF Chained
  <2> QED BY <1>1, <1>3, <2>1, <2>2, <2>3
<1> QED BY <1>2, <1>3 DEF r

LEMMA OrderedGrant ==
  ASSUME LocksInv, NEW a \in Actors, Ordered(a), Grant(a)
  PROVE  Ordered(a)'
<1> DEFINE c == Call(a)
           s == todo[a]
           d == Head(Tail(s))
<1>1. /\ a \in waiting /\ a \notin waiting' /\ s \in Seq(Calls) /\ s # <<>>
      /\ c \in Calls /\ c.mutex \in Mutexes /\ c.does \in {"alone", "also"}
      /\ todo'[a] = Tail(s)
      /\ owner[c.mutex] = Free /\ owner' = [owner EXCEPT ![c.mutex] = a]
    BY CallType DEF Grant, LocksInv
<1>2. Held(a)' = Held(a) \cup {c.mutex}
    BY <1>1, HeldAfterGrant
<1>3. /\ Chained(a, Tail(s))
      /\ Tail(s) # <<>> /\ d.does = "also" => Follows(a, c, d)
    BY <1>1, ChainedTail DEF Ordered, Call
<1>4. Holds(a)
    BY <1>1 DEF Ordered
<1>5. ASSUME Tail(s) # <<>> PROVE Holds(a)'
  <2>1. Call(a)' = d
      BY <1>1 DEF Call
  <2>2. CASE d.does # "also"
    <3>1. (Call(a)').does # "also" /\ a \notin waiting'
        BY <1>1, <2>1, <2>2
    <3> QED BY ONLY <3>1, CallTypes DEF Holds
  <2>3. CASE d.does = "also"
    <3> HIDE DEF c, d, s
    <3>1. Follows(a, c, d)
        BY <1>3, <1>5, <2>3
    <3> QED BY <1>1, <1>2, <1>4, <2>1, <3>1, CallTypes
            DEF Holds, Follows, c, Nodes, Ports, Pend, Done, Alone, Also
  <2> QED BY <2>2, <2>3
<1> QED BY <1>1, <1>3, <1>5 DEF Ordered, Chained, Follows

\* The operations that the tasks of the master begin.
LEMMA Begun ==
  ASSUME NEW a \in Actors,
         \/ StartHandler(a)
         \/ StartSync(a) /\ a \in Syncs
         \/ StartCleanup /\ a = Cleaner
         \/ StartCommand /\ a = Shell
         \/ AskNode /\ a = Shell
  PROVE  \E s : Operation(a, s) /\ Start(a, s)
<1>1. CASE StartHandler(a)
    BY <1>1, PlainOperations, DispatchOrder, Concat DEF StartHandler
<1>2. CASE StartSync(a) /\ a \in Syncs
    BY <1>2, PlainOperations, CollectStateOrder, Concat DEF StartSync, Keepers
<1>3. CASE StartCleanup /\ a = Cleaner
    BY <1>3, PlainOperations DEF StartCleanup
<1>4. CASE StartCommand /\ a = Shell
    BY <1>4, ShellOrder DEF StartCommand
<1>5. CASE AskNode /\ a = Shell
    BY <1>5, ShellOrder DEF AskNode
<1> QED BY <1>1, <1>2, <1>3, <1>4, <1>5

LEMMA OrderInit == Init => LockOrder
<1> SUFFICES ASSUME Init, NEW a \in Actors PROVE Ordered(a)
    BY DEF LockOrder
<1>1. todo[a] = <<>> /\ Len(<<>>) = 0
    BY EmptySeq DEF Init
<1> QED BY <1>1 DEF Ordered, Chained

LEMMA OrderStep ==
  ASSUME LocksInv, LockOrder, [Next]_vars
  PROVE  LockOrder'
<1> SUFFICES ASSUME NEW b \in Actors, ~(b = Shell /\ ask' = "taken")
             PROVE  Ordered(b)'
    BY DEF LockOrder
<1>0. ask' = ask => Ordered(b)
    BY DEF LockOrder
<1>1. ASSUME NEW a \in Actors, Request(a) PROVE Ordered(b)'
  <2>1. /\ a \notin waiting /\ todo[a] # <<>> /\ todo' = todo
        /\ waiting' = waiting \cup {a} /\ ask' = ask
        /\ owner' = IF Call(a).does = "alone" THEN Released(a) ELSE owner
        /\ Call(a)' = Call(a)
      BY <1>1 DEF Request, Call
  <2>2. \A e \in Actors : e # a => Held(e)' = Held(e)
      BY <2>1, HeldAfterRelease DEF Held
  <2>3. CASE b # a
      BY <1>0, <2>1, <2>2, <2>3, OrderedStays
  <2>4. CASE b = a
    <3>1. Call(a).does = "alone" => Held(a)' = {}
        BY <2>1, HeldAfterRelease
    <3>2. Call(a).does # "alone" => Held(a)' = Held(a)
        BY <2>1 DEF Held
    <3>3. Holds(a) /\ Chained(a, todo[a])
        BY <1>0, <2>1, <2>4 DEF Ordered
    <3>4. Holds(a)'
      <4>1. CASE Call(a).does = "alone"
          BY <2>1, <3>1, <4>1, CallTypes DEF Holds
      <4>2. CASE Call(a).does # "alone"
          BY <2>1, <3>2, <3>3, <4>2, CallTypes DEF Holds
      <4> QED BY <4>1, <4>2
    <3> QED BY <2>1, <2>4, <3>3, <3>4 DEF Ordered, Chained, Follows
  <2> QED BY <2>3, <2>4
<1>2. ASSUME NEW a \in Actors, Grant(a) PROVE Ordered(b)'
  <2>1. /\ todo' = [todo EXCEPT ![a] = Tail(@)] /\ waiting' = waiting \ {a} /\ ask' = ask
        /\ owner[Call(a).mutex] = Free /\ owner' = [owner EXCEPT ![Call(a).mutex] = a]
        /\ Call(a).mutex \in Mutexes
      BY <1>2, CallType DEF Grant, LocksInv
  <2>2. CASE b # a
    <3>1. Held(b)' = Held(b)
        BY <1>0, <2>1, <2>2, HeldAfterGrant
    <3>2. todo'[b] = todo[b] /\ (b \in waiting' => b \in waiting)
        BY <1>0, <2>1, <2>2 DEF LocksInv
    <3>3. Ordered(b)
        BY <1>0, <2>1, <2>2
    <3> QED BY <3>1, <3>2, <3>3, OrderedStays
  <2>3. CASE b = a
      BY <1>0, <1>2, <2>1, <2>3, OrderedGrant
  <2> QED BY <2>2, <2>3
<1>3. ASSUME NEW a \in Actors, SpawnSave(a) PROVE Ordered(b)'
  <2>1. /\ a \in busy /\ a \notin waiting /\ todo[a] # <<>> /\ Call(a).does = "spawn"
        /\ owner' = Released(a) /\ waiting' = waiting /\ ask' = ask
      BY <1>3 DEF SpawnSave
  <2>2. CASE b = a
    <3>1. todo'[a] = Tail(todo[a]) /\ todo[a] \in Seq(Calls)
        BY <1>3, <2>1 DEF SpawnSave, LocksInv
    <3>2. Chained(a, Tail(todo[a])) /\ Tail(todo[a]) \in Seq(Calls)
        BY <1>0, <2>1, <2>2, <3>1, ChainedTail, HeadTailProperties DEF Ordered
    <3>3. ASSUME Tail(todo[a]) # <<>>, Head(Tail(todo[a])).does = "also" PROVE FALSE
      <4>1. Follows(a, Call(a), Head(Tail(todo[a])))
          BY <1>0, <2>1, <2>2, <3>1, <3>3, ChainedTail DEF Ordered, Call
      <4> QED BY <2>1, <4>1, CallTypes DEF Follows
    <3>4. Operation(a, Tail(todo[a]))
        BY <3>2, <3>3, HeadTailProperties, EmptySeq DEF Operation
    <3> QED BY <2>1, <2>2, <3>1, <3>4, OrderedBegins
  <2>3. CASE b # a /\ todo'[b] = todo[b]
      BY <1>0, <2>1, <2>3, HeldAfterRelease, OrderedStays
  <2>4. CASE b # a /\ todo'[b] # todo[b]
    <3>1. b \in Savers \ busy /\ todo'[b] = SaveState
        BY <1>3, <2>4 DEF SpawnSave, LocksInv
    <3>2. b \notin waiting' /\ Operation(b, SaveState)
        BY <2>1, <3>1, SaveStateOrder DEF LocksInv, Keepers
    <3> QED BY <3>1, <3>2, OrderedBegins
  <2> QED BY <2>2, <2>3, <2>4
<1>4. ASSUME NEW a \in Actors, Finish(a) PROVE Ordered(b)'
  <2>1. /\ todo[a] = <<>> /\ todo' = todo /\ waiting' = waiting /\ owner' = Released(a)
        /\ a # Shell => ask' = ask
      BY <1>4 DEF Finish
  <2>2. CASE b = a
      BY <2>1, <2>2, EmptySeq DEF Ordered, Chained
  <2>3. CASE b # a
    <3>1. Ordered(b)
        BY <2>1, <2>3 DEF LockOrder
    <3> QED BY <2>1, <2>3, <3>1, HeldAfterRelease, OrderedStays
  <2> QED BY <2>2, <2>3
<1>5. ASSUME NEW a \in Actors, NEW s, Operation(a, s), Start(a, s), a = Shell \/ ask' = ask
      PROVE  Ordered(b)'
  <2>1. /\ a \notin waiting /\ waiting' = waiting /\ owner' = owner
        /\ todo' = [todo EXCEPT ![a] = s]
      BY <1>5 DEF Start, LocksInv
  <2>2. CASE b = a
      BY <1>5, <2>1, <2>2, OrderedBegins DEF LocksInv
  <2>3. CASE b # a
    <3>1. Ordered(b) /\ todo'[b] = todo[b]
        BY <1>5, <2>1, <2>3 DEF LockOrder, LocksInv
    <3> QED BY <2>1, <3>1, OrderedStays DEF Held
  <2> QED BY <2>2, <2>3
<1>6. ASSUME NEW h \in Handlers, StartHandler(h) PROVE Ordered(b)'
  <2>1. h \in Actors /\ ask' = ask
      BY <1>6 DEF StartHandler, Actors
  <2>2. PICK s : Operation(h, s) /\ Start(h, s)
      BY <1>6, <2>1, Begun
  <2> QED BY <1>5, <2>1, <2>2
<1>7. ASSUME NEW p \in Syncs, StartSync(p) PROVE Ordered(b)'
    BY <1>5, <1>7, Begun DEF StartSync, Actors
<1>8. CASE StartCleanup
  <2>1. Cleaner \in Actors /\ ask' = ask
      BY <1>8 DEF StartCleanup, Actors
  <2>2. PICK s : Operation(Cleaner, s) /\ Start(Cleaner, s)
      BY <1>8, <2>1, Begun
  <2> QED BY <1>5, <2>1, <2>2
<1>9. CASE StartCommand
    BY <1>5, <1>9, Begun DEF Actors
<1>10. CASE AskNode
    BY <1>5, <1>10, Begun DEF Actors
<1>11. ASSUME NEW s, Operation(Shell, s), Shell \notin waiting',
              todo' = [todo EXCEPT ![Shell] = s],
              \A e \in Actors : e # Shell => Held(e)' = Held(e) /\ (e \in waiting' => e \in waiting)
       PROVE  Ordered(b)'
  <2>1. CASE b = Shell
      BY <1>11, <2>1, OrderedBegins DEF LocksInv, Actors
  <2>2. CASE b # Shell
    <3>1. Ordered(b) /\ todo'[b] = todo[b]
        BY <1>11, <2>2 DEF LockOrder, LocksInv
    <3> QED BY <1>11, <2>2, <3>1, OrderedStays
  <2> QED BY <2>1, <2>2
<1>12. CASE PollAgain
    BY <1>11, <1>12, PlainOperations, HeldAfterRelease DEF PollAgain, Actors
<1>13. CASE PollHit
  <2>1. b # Shell /\ owner' = owner /\ waiting' = waiting /\ todo'[b] = todo[b]
      BY <1>13 DEF PollHit, LocksInv
  <2> QED BY <2>1, OrderedStays DEF Held, LockOrder
<1>14. CASE AskTimeout
    BY <1>11, <1>14, ShellOrder, HeldAfterRelease DEF AskTimeout, Actors
<1>15. CASE UNCHANGED vars
    BY <1>0, <1>15, OrderedStays DEF vars, Held
<1> QED BY <1>1, <1>2, <1>3, <1>4, <1>6, <1>7, <1>8, <1>9, <1>10, <1>12, <1>13, <1>14, <1>15
        DEF Next, Step, Ask

-----------------------------------------------------------------------------
(* The theorems. *)

LEMMA OrderInvariant == Spec => []OrderInv
<1>1. Init => OrderInv
    BY LocksInit, OrderInit DEF OrderInv
<1>2. OrderInv /\ [Next]_vars => OrderInv'
    BY LocksStep, OrderStep DEF OrderInv
<1> QED BY <1>1, <1>2, PTL DEF Spec

\* Every variable keeps its type, and a mutex's queue holds nobody that is not
\* waiting for it: the future that the shell's timeout drops (shell.rs:43) is
\* out of every queue at once, so that no mutex is handed to it.
THEOREM TypeCorrect == Spec => []TypeOK
<1>1. OrderInv => TypeOK
    BY LocksType DEF OrderInv
<1> QED BY <1>1, OrderInvariant, PTL

\* What a member of a deadlock holds and wants.
LEMMA CaughtIn ==
  ASSUME OrderInv, NEW S \in SUBSET Actors, Deadlocked(S), ~(Shell \in S /\ ask = "taken"),
         NEW a \in S
  PROVE  /\ Holds(a) /\ a \in waiting
         /\ Call(a).mutex \in Mutexes /\ owner[Call(a).mutex] \in S
         /\ Call(a) \in {Alone(Call(a).mutex), Also(Call(a).mutex)}
<1>1. a \in waiting /\ owner[Call(a).mutex] \in S /\ todo[a] # <<>> /\ Call(a).does # "spawn"
    BY DEF Deadlocked, WaitsFor, OrderInv, LocksInv
<1>2. Holds(a)
    BY <1>1 DEF OrderInv, LockOrder, Ordered
<1>3. Call(a) \in Calls
    BY <1>1, CallType DEF OrderInv
<1> QED BY <1>1, <1>2, <1>3 DEF Calls, Alone, Also

\* An owner among them waits for another mutex with that guard in scope.
LEMMA OwnerCaughtIn ==
  ASSUME OrderInv, NEW S \in SUBSET Actors, Deadlocked(S), ~(Shell \in S /\ ask = "taken"),
         NEW m \in Mutexes, owner[m] \in S
  PROVE  LET b == owner[m]
         IN  \/ Call(b) = Also(Ports) /\ m = Nodes /\ Held(b) = {Nodes}
             \/ Call(b) = Also(Pend) /\ b \in Keepers /\ m \in {Nodes, Ports} /\ owner[Nodes] = b
             \/ Call(b) = Also(Done) /\ m # Done
             \/ Call(b) = Also(Nodes) /\ m = Pend /\ b \in Workers
<1> DEFINE b == owner[m]
<1>1. /\ Holds(b) /\ b \in waiting /\ m \in Held(b)
      /\ Call(b).mutex \in Mutexes
      /\ Call(b) \in {Alone(Call(b).mutex), Also(Call(b).mutex)}
    BY CaughtIn DEF Held
<1> HIDE DEF b
<1>2. Call(b) = Also(Call(b).mutex)
    BY <1>1, CallTypes DEF Holds
<1>3. Nodes \in Held(b) => owner[Nodes] = b
    BY DEF Held
<1> QED BY <1>1, <1>2, <1>3, CallTypes DEF Holds, b, Nodes, Ports, Pend, Done

\* The master locks itself up in no other way than these two: a save or an
\* exchange of state holds connected_nodes and wants pending_tasks while
\* send_pending_tasks holds pending_tasks and wants connected_nodes, or the
\* shell's poll saves with the guard of completed_tasks in scope.  Every other
\* set of operations, however many, always has one that can go on.
THEOREM DeadlockFree == Spec => []DeadlockNeedsInversion
<1>1. ASSUME OrderInv, NEW S \in SUBSET Actors, Deadlocked(S), ~(Shell \in S /\ ask = "taken")
      PROVE  Inverted(S)
  <2>1. PICK a \in S : Call(a).mutex \in Mutexes /\ owner[Call(a).mutex] \in S
      BY <1>1, CaughtIn DEF Deadlocked
  <2>2. owner[Done] \notin S
      BY <1>1, OwnerCaughtIn, CallTypes, CaughtIn DEF Nodes, Ports, Pend, Done
  <2>3. ASSUME NEW b \in S PROVE Call(b).mutex # Done
      BY <1>1, <2>2, <2>3, CaughtIn
  <2>4. ASSUME owner[Pend] \in S
        PROVE  owner[Pend] \in Workers /\ Call(owner[Pend]).mutex = Nodes /\ owner[Nodes] \in S
      BY <1>1, <2>3, <2>4, OwnerCaughtIn, CaughtIn, CallTypes DEF Nodes, Ports, Pend, Done
  <2>5. ASSUME owner[Ports] \in S
        PROVE  owner[Nodes] = owner[Ports] /\ owner[Ports] \in Keepers
               /\ Call(owner[Ports]).mutex = Pend /\ owner[Pend] \in S
      BY <1>1, <2>3, <2>5, OwnerCaughtIn, CaughtIn, CallTypes DEF Nodes, Ports, Pend, Done
  <2>6. ASSUME owner[Nodes] \in S
        PROVE  owner[Nodes] \in Keepers /\ Call(owner[Nodes]).mutex = Pend /\ owner[Pend] \in S
    <3>1. CASE Call(owner[Nodes]) = Also(Ports)
      <4>1. owner[Ports] \in S
          BY <1>1, <2>6, <3>1, CaughtIn, CallTypes
      <4> QED BY <2>5, <3>1, <4>1, CallTypes DEF Nodes, Ports, Pend, Done
    <3>2. CASE Call(owner[Nodes]) # Also(Ports)
        BY <1>1, <2>3, <2>6, <3>2, OwnerCaughtIn, CaughtIn, CallTypes DEF Nodes, Ports, Pend, Done
    <3> QED BY <3>1, <3>2
  <2>7. owner[Nodes] \in S /\ owner[Pend] \in S
      BY <2>1, <2>2, <2>4, <2>5, <2>6, CallTypes
  <2> QED BY <2>4, <2>6, <2>7 DEF Inverted, Keepers
<1>2. OrderInv => DeadlockNeedsInversion
    BY <1>1 DEF DeadlockNeedsInversion
<1> QED BY <1>2, OrderInvariant, PTL
=============================================================================
