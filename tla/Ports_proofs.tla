----------------------------- MODULE Ports_proofs -----------------------------
(* Theorems about Ports, for every set of connections and ports. *)
EXTENDS Ports, TLAPS

LEMMA TypeInit == Init => TypeOK
  BY PortsAssumption, BoundAssumption, SentinelAssumption
  DEF Init, TypeOK, HandlerSteps

LEMMA TypeStep == TypeOK /\ [Next]_vars => TypeOK'
<1> SUFFICES ASSUME TypeOK, [Next]_vars
             PROVE  TypeOK'
    OBVIOUS
<1> USE BoundAssumption, SentinelAssumption
    DEF TypeOK, HandlerSteps, handlerVars, history, Goto, Present
<1>1. ASSUME NEW c \in Conns, Accept(c) PROVE TypeOK'
    BY <1>1 DEF Accept
<1>2. ASSUME NEW c \in Conns, NEW d \in Conns, Allocate(c, d) PROVE TypeOK'
  <2>1. CASE free = <<>>
      BY <1>2, <2>1 DEF Allocate
  <2>2. CASE free # <<>>
    <3> DEFINE p == Head(free)
               rest == Tail(free)
    <3>1. p \in PortNumbers /\ rest \in Seq(PortNumbers)
        BY <2>2
    <3>2. /\ free' = rest
          /\ had' = [had EXCEPT ![c] = @ \cup {p}]
          /\ hand' = [hand EXCEPT ![c] = p]
          /\ target' = [target EXCEPT ![c] = d]
          /\ pc[c] = "read"
          /\ pc' = [pc EXCEPT ![c] = "assign"]
          /\ requests' \in [Conns -> 0..MaxRequests]
          /\ UNCHANGED <<port, evicted>>
        BY <1>2, <2>2 DEF Allocate
    <3> HIDE DEF p, rest
    <3> QED BY <3>1, <3>2
  <2> QED BY <2>1, <2>2
<1>3. ASSUME NEW c \in Conns, Assign(c) PROVE TypeOK'
    BY <1>3 DEF Assign
<1>4. ASSUME NEW c \in Conns, Lookup(c) PROVE TypeOK'
  <2>1. \E step \in {"read", "ghost"} : pc' = [pc EXCEPT ![c] = step]
      BY <1>4 DEF Lookup
  <2> QED BY <1>4, <2>1 DEF Lookup
<1>5. ASSUME NEW c \in Conns, Disconnect(c) PROVE TypeOK'
  <2>1. CASE HasPort(c)
    <3> DEFINE q == port[c]
    <3>1. /\ q \in PortNumbers /\ q # NoPort /\ pc[c] = "read"
          /\ hand' = [hand EXCEPT ![c] = q] /\ port' = [port EXCEPT ![c] = NoPort]
          /\ pc' = [pc EXCEPT ![c] = "return"]
          /\ UNCHANGED <<free, target, requests, had, evicted>>
        BY <1>5, <2>1 DEF Disconnect, HasPort
    <3> HIDE DEF q
    <3> QED BY <3>1
  <2>2. CASE ~HasPort(c)
      BY <1>5, <2>2 DEF Disconnect
  <2> QED BY <2>1, <2>2
<1>6. ASSUME NEW c \in Conns, ReturnPort(c) PROVE TypeOK'
    BY <1>6 DEF ReturnPort
<1>7. ASSUME NEW c \in Conns, Remove(c) PROVE TypeOK'
    BY <1>7 DEF Remove
<1>8. ASSUME NEW c \in Conns, ReadFails(c) PROVE TypeOK'
    BY <1>8 DEF ReadFails
<1>9. ASSUME NEW c \in Conns, TurnsGhost(c) PROVE TypeOK'
    BY <1>9 DEF TurnsGhost
<1>10. ASSUME NEW c \in Conns, Evict(c) PROVE TypeOK'
    BY <1>10 DEF Evict
<1>11. CASE UNCHANGED vars
    BY <1>11 DEF vars
<1> QED BY <1>1, <1>2, <1>3, <1>4, <1>5, <1>6, <1>7, <1>8, <1>9, <1>10, <1>11
        DEF Next, Connection

\* Every variable keeps its type; a handler has a port and a peer in hand exactly
\* where the code has them in local variables, and a connection has no entry
\* before its handshake and after its end.
THEOREM TypeCorrect == Spec => []TypeOK
  BY TypeInit, TypeStep, PTL DEF Spec

-----------------------------------------------------------------------------
(* The queue of available ports. *)

In(s, p) == \E i \in 1..Len(s) : s[i] = p

Distinct(s) == \A i, j \in 1..Len(s) : s[i] = s[j] => i = j

\* pop_front: what is left has the same ports, without the first one.
LEMMA PopFront ==
    ASSUME NEW S, NEW s \in Seq(S), s # <<>>, Distinct(s)
    PROVE  /\ Distinct(Tail(s))
           /\ In(s, Head(s)) /\ ~In(Tail(s), Head(s))
           /\ \A p : p # Head(s) => (In(Tail(s), p) <=> In(s, p))
<1>1. /\ Len(s) \in Nat /\ Len(s) > 0
      /\ Head(s) = s[1]
      /\ Len(Tail(s)) = Len(s) - 1
      /\ \A i \in 1..Len(Tail(s)) : Tail(s)[i] = s[i + 1]
    OBVIOUS
<1>2. \A i \in 2..Len(s) : i - 1 \in 1..Len(Tail(s)) /\ Tail(s)[i - 1] = s[i]
    BY <1>1
<1>3. Distinct(Tail(s))
    BY <1>1 DEF Distinct
<1>4. In(s, Head(s)) /\ ~In(Tail(s), Head(s))
    BY <1>1 DEF In, Distinct
<1>5. ASSUME NEW p, p # Head(s) PROVE In(Tail(s), p) <=> In(s, p)
  <2>1. ASSUME In(Tail(s), p) PROVE In(s, p)
      BY <1>1, <2>1 DEF In
  <2>2. ASSUME In(s, p) PROVE In(Tail(s), p)
    <3>1. PICK i \in 1..Len(s) : s[i] = p
        BY <2>2 DEF In
    <3>2. i \in 2..Len(s)
        BY <1>1, <1>5, <3>1
    <3> QED BY <1>2, <3>1, <3>2 DEF In
  <2> QED BY <2>1, <2>2
<1> QED BY <1>3, <1>4, <1>5

\* push_back of a port that is not queued.
LEMMA PushBack ==
    ASSUME NEW S, NEW s \in Seq(S), NEW e \in S, Distinct(s), ~In(s, e)
    PROVE  /\ Distinct(Append(s, e))
           /\ In(Append(s, e), e)
           /\ \A p : p # e => (In(Append(s, e), p) <=> In(s, p))
<1>1. /\ Len(s) \in Nat
      /\ Len(Append(s, e)) = Len(s) + 1
      /\ Append(s, e)[Len(s) + 1] = e
      /\ \A i \in 1..Len(s) : Append(s, e)[i] = s[i]
    OBVIOUS
<1> QED BY <1>1 DEF In, Distinct

\* A handler that is putting a port back has taken it out of the entry.
TakenOut == \A c \in Conns : pc[c] = "return" => port[c] \in {NoPort, NoEntry}

Inv == TypeOK /\ TakenOut /\ PortExclusive

\* How the queue and the owners change when the first port of the queue goes to
\* the node that asked ...
LEMMA AllocateMoves ==
    ASSUME Inv, NEW c \in Conns, NEW d \in Conns, Allocate(c, d), free # <<>>,
           NEW q, q = Head(free)
    PROVE  /\ q \in PortNumbers
           /\ IsFree(q) /\ ~IsFree(q)' /\ Owns(c, q)'
           /\ \A p \in PortNumbers \ {q} : IsFree(p)' <=> IsFree(p)
           /\ \A p \in PortNumbers \ {q}, e \in Conns : Owns(e, p)' <=> Owns(e, p)
           /\ \A e \in Conns : Owns(e, q)' => e = c
           /\ Distinct(free)'
<1> DEFINE rest == Tail(free)
<1>1. /\ q \in PortNumbers /\ rest \in Seq(PortNumbers)
      /\ free' = rest /\ hand' = [hand EXCEPT ![c] = q]
      /\ pc[c] = "read" /\ pc' = [pc EXCEPT ![c] = "assign"]
      /\ port' = port
    BY DEF Allocate, Inv, TypeOK, Goto
<1>2. Distinct(free)
    BY DEF Inv, PortExclusive, Distinct
<1>3. /\ Distinct(rest)
      /\ In(free, q) /\ ~In(rest, q)
      /\ \A p : p # q => (In(rest, p) <=> In(free, p))
    BY <1>2, PopFront DEF Inv, TypeOK
<1> HIDE DEF rest
<1>4. \A e \in Conns : ~Owns(e, q)
    BY <1>1, <1>3 DEF Inv, PortExclusive, IsFree, In
<1>5. /\ Owns(c, q)'
      /\ \A p \in PortNumbers \ {q}, e \in Conns : Owns(e, p)' <=> Owns(e, p)
      /\ \A e \in Conns : Owns(e, q)' => e = c
    BY <1>1, <1>4, SentinelAssumption DEF Owns, Inv, TypeOK
<1>6. /\ IsFree(q) /\ ~IsFree(q)'
      /\ \A p \in PortNumbers \ {q} : IsFree(p)' <=> IsFree(p)
    BY <1>1, <1>3 DEF IsFree, In
<1> QED BY <1>1, <1>3, <1>5, <1>6

\* ... and when a node that leaves puts a port back.
LEMMA ReturnMoves ==
    ASSUME Inv, NEW c \in Conns, ReturnPort(c), NEW q, q = hand[c]
    PROVE  /\ q \in PortNumbers /\ Owns(c, q) /\ ~IsFree(q)
           /\ IsFree(q)'
           /\ \A p \in PortNumbers \ {q} : IsFree(p)' <=> IsFree(p)
           /\ \A p \in PortNumbers \ {q}, e \in Conns : Owns(e, p)' <=> Owns(e, p)
           /\ \A e \in Conns : ~Owns(e, q)'
           /\ Distinct(free)'
<1>1. /\ q \in PortNumbers /\ pc[c] = "return"
      /\ free' = Append(free, q) /\ port' = port
      /\ hand' = [hand EXCEPT ![c] = NoPort]
      /\ pc' = [pc EXCEPT ![c] = "remove"]
    BY DEF ReturnPort, Inv, TypeOK, Goto
<1>2. Owns(c, q)
    BY <1>1 DEF Owns
<1>3. Distinct(free) /\ ~In(free, q)
    BY <1>1, <1>2 DEF Inv, PortExclusive, Distinct, IsFree, In
<1>4. /\ Distinct(Append(free, q)) /\ In(Append(free, q), q)
      /\ \A p : p # q => (In(Append(free, q), p) <=> In(free, p))
    BY <1>1, <1>3, PushBack DEF Inv, TypeOK
<1>5. /\ ~IsFree(q) /\ IsFree(q)'
      /\ \A p \in PortNumbers \ {q} : IsFree(p)' <=> IsFree(p)
    BY <1>1, <1>3, <1>4 DEF IsFree, In
<1>6. \A p \in PortNumbers \ {q}, e \in Conns : Owns(e, p)' <=> Owns(e, p)
    BY <1>1, SentinelAssumption DEF Owns, Inv, TypeOK
<1>7. \A e \in Conns : ~Owns(e, q)'
  <2>1. \A e \in Conns \ {c} : ~Owns(e, q)
      BY <1>1, <1>2 DEF Inv, PortExclusive
  <2>2. \A e \in Conns \ {c} : ~Owns(e, q)'
      BY <1>1, <2>1 DEF Owns, Inv, TypeOK
  <2>3. ~Owns(c, q)'
      BY <1>1, SentinelAssumption DEF Owns, Inv, TypeOK, TakenOut
  <2> QED BY <2>2, <2>3
<1> QED BY <1>1, <1>2, <1>4, <1>5, <1>6, <1>7

\* The other steps leave the queue alone.  Either every port stays where it is,
\* or the node that acts loses one for good.
AllStay == /\ free' = free
           /\ \A p \in PortNumbers, e \in Conns : Owns(e, p)' <=> Owns(e, p)

Loses(c, q) == /\ free' = free
               /\ Owns(c, q) /\ \A e \in Conns : ~Owns(e, q)'
               /\ \A p \in PortNumbers \ {q}, e \in Conns : Owns(e, p)' <=> Owns(e, p)

StaysOrLoses(c) == AllStay \/ \E q \in PortNumbers : Loses(c, q)

OtherStep(c) ==
    \/ Accept(c) \/ Assign(c) \/ Lookup(c) \/ Disconnect(c) \/ Remove(c)
    \/ ReadFails(c) \/ TurnsGhost(c) \/ Evict(c)
    \/ \E d \in Conns : free = <<>> /\ Allocate(c, d)

\* The entry of c gives up its port, and no handler has it in hand.
LEMMA EntryCleared ==
    ASSUME Inv, NEW c \in Conns, NEW v \in {NoPort, NoEntry},
           free' = free, port' = [port EXCEPT ![c] = v], hand' = hand,
           pc[c] \in {"assign", "return"} => pc'[c] = pc[c],
           pc'[c] \in {"assign", "return"} => pc'[c] = pc[c],
           \A e \in Conns \ {c} : pc'[e] = pc[e]
    PROVE  StaysOrLoses(c)
<1> USE SentinelAssumption DEF Inv, TypeOK
<1>1. CASE port[c] \in PortNumbers /\ ~(hand[c] = port[c] /\ pc[c] \in {"assign", "return"})
  <2> PICK q \in PortNumbers : q = port[c]
      BY <1>1
  <2>1. Owns(c, q) /\ \A e \in Conns \ {c} : ~Owns(e, q)
      BY <1>1 DEF Owns, PortExclusive
  <2>2. Loses(c, q)
      BY <1>1, <2>1 DEF Loses, Owns
  <2> QED BY <2>2 DEF StaysOrLoses
<1>2. CASE ~(port[c] \in PortNumbers /\ ~(hand[c] = port[c] /\ pc[c] \in {"assign", "return"}))
  <2>1. AllStay
      BY <1>2 DEF AllStay, Owns
  <2> QED BY <2>1 DEF StaysOrLoses
<1> QED BY <1>1, <1>2

LEMMA OtherMoves ==
    ASSUME Inv, NEW c \in Conns, OtherStep(c)
    PROVE  StaysOrLoses(c)
<1> USE SentinelAssumption DEF Inv, TypeOK, Goto, handlerVars, history
<1>1. CASE Accept(c)
  <2>1. AllStay
      BY <1>1 DEF Accept, AllStay, Owns
  <2> QED BY <2>1 DEF StaysOrLoses
<1>2. CASE Assign(c) /\ Present(c)
  <2>1. CASE port[c] \in PortNumbers /\ port[c] # hand[c]
    <3> PICK q \in PortNumbers : q = port[c]
        BY <2>1
    <3>1. Owns(c, q) /\ \A e \in Conns \ {c} : ~Owns(e, q)
        BY <2>1 DEF Owns, PortExclusive
    <3>2. Loses(c, q)
        BY <1>2, <2>1, <3>1 DEF Assign, Loses, Owns
    <3> QED BY <3>2 DEF StaysOrLoses
  <2>2. CASE ~(port[c] \in PortNumbers /\ port[c] # hand[c])
    <3>1. AllStay
        BY <1>2, <2>2 DEF Assign, AllStay, Owns
    <3> QED BY <3>1 DEF StaysOrLoses
  <2> QED BY <2>1, <2>2
<1>3. CASE Assign(c) /\ ~Present(c)
  <2> PICK q \in PortNumbers : q = hand[c]
      BY <1>3 DEF Assign
  <2>1. Owns(c, q) /\ \A e \in Conns \ {c} : ~Owns(e, q)
      BY <1>3 DEF Assign, Owns, PortExclusive
  <2>2. Loses(c, q)
      BY <1>3, <2>1 DEF Assign, Loses, Owns, Present
  <2> QED BY <2>2 DEF StaysOrLoses
<1>4. CASE Lookup(c)
  <2>1. AllStay
      BY <1>4 DEF Lookup, AllStay, Owns
  <2> QED BY <2>1 DEF StaysOrLoses
<1>5. CASE Disconnect(c)
  <2>1. AllStay
      BY <1>5 DEF Disconnect, HasPort, AllStay, Owns
  <2> QED BY <2>1 DEF StaysOrLoses
<1>6. CASE Remove(c) \/ ReadFails(c) \/ Evict(c)
    BY <1>6, EntryCleared DEF Remove, ReadFails, Evict
<1>7. CASE TurnsGhost(c) \/ \E d \in Conns : free = <<>> /\ Allocate(c, d)
  <2>1. AllStay
      BY <1>7 DEF TurnsGhost, Allocate, AllStay, Owns
  <2> QED BY <2>1 DEF StaysOrLoses
<1> QED BY <1>1, <1>2, <1>3, <1>4, <1>5, <1>6, <1>7 DEF OtherStep

-----------------------------------------------------------------------------
(* No port is with two nodes. *)

LEMMA TakenOutStep == Inv /\ [Next]_vars => TakenOut'
<1> SUFFICES ASSUME Inv, [Next]_vars
             PROVE  TakenOut'
    OBVIOUS
<1> USE SentinelAssumption
    DEF Inv, TypeOK, TakenOut, handlerVars, history, Goto, Present, HasPort
<1>1. ASSUME NEW c \in Conns, Connection(c) PROVE TakenOut'
    BY <1>1 DEF Connection, Accept, Allocate, Assign, Lookup, Disconnect, ReturnPort,
                Remove, ReadFails, TurnsGhost
<1>2. ASSUME NEW c \in Conns, Evict(c) PROVE TakenOut'
    BY <1>2 DEF Evict
<1>3. CASE UNCHANGED vars
    BY <1>3 DEF vars
<1> QED BY <1>1, <1>2, <1>3 DEF Next

LEMMA NextCases ==
    ASSUME NEW c \in Conns, Connection(c) \/ Evict(c)
    PROVE  \/ \E d \in Conns : free # <<>> /\ Allocate(c, d)
           \/ ReturnPort(c)
           \/ OtherStep(c)
  BY DEF Connection, OtherStep

LEMMA ExclusiveStep == Inv /\ [Next]_vars => PortExclusive'
<1> SUFFICES ASSUME Inv, [Next]_vars
             PROVE  PortExclusive'
    OBVIOUS
<1>1. ASSUME NEW c \in Conns, NEW d \in Conns, free # <<>>, Allocate(c, d)
      PROVE  PortExclusive'
  <2> PICK q : q = Head(free)
      OBVIOUS
  <2> QED BY <1>1, AllocateMoves DEF Inv, PortExclusive, Distinct
<1>2. ASSUME NEW c \in Conns, ReturnPort(c) PROVE PortExclusive'
  <2> PICK q : q = hand[c]
      OBVIOUS
  <2> QED BY <1>2, ReturnMoves DEF Inv, PortExclusive, Distinct
<1>3. ASSUME NEW c \in Conns, OtherStep(c) PROVE PortExclusive'
  <2>1. free' = free /\ \A p \in PortNumbers, e \in Conns : Owns(e, p)' => Owns(e, p)
      BY <1>3, OtherMoves DEF StaysOrLoses, AllStay, Loses
  <2> QED BY <2>1 DEF Inv, PortExclusive, IsFree
<1>4. CASE UNCHANGED vars
    BY <1>4 DEF vars, handlerVars, Inv, PortExclusive, IsFree, Owns
<1> QED BY <1>1, <1>2, <1>3, <1>4, NextCases DEF Next

LEMMA InvInit == Init => Inv
<1> SUFFICES ASSUME Init
             PROVE  Inv
    OBVIOUS
<1>1. TypeOK /\ TakenOut
    BY TypeInit DEF Init, TakenOut
<1>2. \A p \in PortNumbers, c \in Conns : ~Owns(c, p)
    BY SentinelAssumption DEF Init, Owns
<1>3. PortExclusive
    BY <1>2, PortsAssumption DEF Init, PortExclusive
<1> QED BY <1>1, <1>3 DEF Inv

LEMMA InvStep == Inv /\ [Next]_vars => Inv'
  BY TypeStep, TakenOutStep, ExclusiveStep DEF Inv

LEMMA InvHolds == Spec => []Inv
  BY InvInit, InvStep, PTL DEF Spec

\* With any number of nodes, ports and requests, and whatever breaks: a port is
\* in the queue once, or with one node, or with nobody.
THEOREM NoPortTwice == Spec => []PortExclusive
<1>1. Inv => PortExclusive
    BY DEF Inv
<1> QED BY <1>1, InvHolds, PTL

-----------------------------------------------------------------------------
(* Ports implements PortPool. *)

LEMMA OwnerIs ==
    ASSUME Inv, NEW p \in PortNumbers
    PROVE  /\ IsFree(p) => PoolOwner[p] = Pool
           /\ \A c \in Conns : Owns(c, p) => PoolOwner[p] = c
           /\ ~IsFree(p) /\ (\A c \in Conns : ~Owns(c, p)) => PoolOwner[p] = Lost
  BY DEF PoolOwner, Inv, PortExclusive

LEMMA PoolInit == Init => Abstract!Init
<1> SUFFICES ASSUME Init
             PROVE  \A p \in PortNumbers : IsFree(p)
    BY DEF Abstract!Init, PoolOwner
<1> QED BY PortsAssumption DEF Init, IsFree

\* A step that takes one port from one owner to another is a step of the pool
\* as soon as every other port keeps its owner.
LEMMA OneMoves ==
    ASSUME NEW q \in PortNumbers, NEW from, NEW to,
           PoolOwner[q] = from, PoolOwner'[q] = to,
           \A p \in PortNumbers \ {q} : PoolOwner'[p] = PoolOwner[p]
    PROVE  Abstract!Moves(q, from, to)
<1>1. /\ DOMAIN PoolOwner = PortNumbers /\ DOMAIN PoolOwner' = PortNumbers
      /\ PoolOwner = [p \in PortNumbers |-> PoolOwner[p]]
      /\ PoolOwner' = [p \in PortNumbers |-> PoolOwner'[p]]
    BY DEF PoolOwner
<1>2. PoolOwner' = [PoolOwner EXCEPT ![q] = to]
    BY <1>1
<1> QED BY <1>2 DEF Abstract!Moves

LEMMA PoolStep == Inv /\ Inv' /\ [Next]_vars => [Abstract!Next]_PoolOwner
<1> SUFFICES ASSUME Inv, Inv', [Next]_vars
             PROVE  Abstract!Next \/ PoolOwner' = PoolOwner
    BY DEF Abstract!Next
<1>1. \A p \in PortNumbers :
        /\ IsFree(p)' => PoolOwner'[p] = Pool
        /\ \A c \in Conns : Owns(c, p)' => PoolOwner'[p] = c
        /\ ~IsFree(p)' /\ (\A c \in Conns : ~Owns(c, p)') => PoolOwner'[p] = Lost
  <2>1. (\A p \in PortNumbers :
            /\ IsFree(p) => PoolOwner[p] = Pool
            /\ \A c \in Conns : Owns(c, p) => PoolOwner[p] = c
            /\ ~IsFree(p) /\ (\A c \in Conns : ~Owns(c, p)) => PoolOwner[p] = Lost)'
      BY DEF PoolOwner, Inv, PortExclusive
  <2> QED BY <2>1
<1>2. ASSUME NEW S \in SUBSET PortNumbers,
             \A p \in S : IsFree(p)' <=> IsFree(p),
             \A p \in S, e \in Conns : Owns(e, p)' <=> Owns(e, p)
      PROVE  \A p \in S : PoolOwner'[p] = PoolOwner[p]
    BY <1>1, <1>2, OwnerIs
<1>3. ASSUME NEW c \in Conns, NEW d \in Conns, free # <<>>, Allocate(c, d)
      PROVE  Abstract!Next
  <2> PICK q : q = Head(free)
      OBVIOUS
  <2>1. /\ q \in PortNumbers
        /\ PoolOwner[q] = Pool /\ PoolOwner'[q] = c
      BY <1>1, <1>3, AllocateMoves, OwnerIs
  <2>2. \A p \in PortNumbers \ {q} : PoolOwner'[p] = PoolOwner[p]
      BY <1>2, <1>3, AllocateMoves
  <2>3. Abstract!Moves(q, Pool, c)
      BY <2>1, <2>2, OneMoves
  <2> QED BY <2>1, <2>3 DEF Abstract!Next, Abstract!Take
<1>4. ASSUME NEW c \in Conns, ReturnPort(c) PROVE Abstract!Next
  <2> PICK q : q = hand[c]
      OBVIOUS
  <2>1. /\ q \in PortNumbers
        /\ PoolOwner[q] = c /\ PoolOwner'[q] = Pool
      BY <1>1, <1>4, ReturnMoves, OwnerIs
  <2>2. \A p \in PortNumbers \ {q} : PoolOwner'[p] = PoolOwner[p]
      BY <1>2, <1>4, ReturnMoves
  <2>3. Abstract!Moves(q, c, Pool)
      BY <2>1, <2>2, OneMoves
  <2> QED BY <2>1, <2>3 DEF Abstract!Next, Abstract!Return
<1>5. ASSUME NEW c \in Conns, NEW q \in PortNumbers, Loses(c, q) PROVE Abstract!Next
  <2>1. ~IsFree(q) /\ \A p \in PortNumbers : IsFree(p)' <=> IsFree(p)
      BY <1>5 DEF Loses, Inv, PortExclusive, IsFree
  <2>2. PoolOwner[q] = c /\ PoolOwner'[q] = Lost
      BY <1>1, <1>5, <2>1, OwnerIs DEF Loses
  <2>3. \A p \in PortNumbers \ {q} : PoolOwner'[p] = PoolOwner[p]
      BY <1>2, <1>5, <2>1 DEF Loses
  <2>4. Abstract!Moves(q, c, Lost)
      BY <2>2, <2>3, OneMoves
  <2> QED BY <2>4 DEF Abstract!Next, Abstract!Lose
<1>6. CASE AllStay
  <2>1. \A p \in PortNumbers : PoolOwner'[p] = PoolOwner[p]
      BY <1>2, <1>6 DEF AllStay, IsFree
  <2> QED BY <2>1 DEF PoolOwner
<1>7. CASE UNCHANGED vars
    BY <1>7 DEF vars, handlerVars, PoolOwner, IsFree, Owns
<1>8. ASSUME NEW c \in Conns, OtherStep(c) PROVE Abstract!Next \/ PoolOwner' = PoolOwner
    BY <1>5, <1>6, <1>8, OtherMoves DEF StaysOrLoses
<1> QED BY <1>3, <1>4, <1>7, <1>8, NextCases DEF Next

\* The ports the master really keeps implement the abstract pool: a port passes
\* from node to node only by way of the queue, and a lost one never comes back.
THEOREM RefinesPool == Spec => ImplementsPool
<1>1. Init => Abstract!Init
    BY PoolInit
<1>2. Inv /\ Inv' /\ [Next]_vars => [Abstract!Next]_PoolOwner
    BY PoolStep
<1> QED BY <1>1, <1>2, InvHolds, PTL DEF Spec, ImplementsPool, Abstract!Spec

-----------------------------------------------------------------------------
(* Why a port is lost. *)

\* What is known of the ports of a node, of its requests and of its entry.
Accounts ==
    \A c \in Conns :
        /\ port[c] \in PortNumbers => port[c] \in had[c] /\ requests[c] >= 1
        /\ pc[c] \in {"assign", "return"} => hand[c] \in had[c] /\ requests[c] >= 1
        /\ pc[c] = "assign" /\ port[c] \in PortNumbers => requests[c] >= 2
        /\ pc[c] \notin {"new", "closed", "broken"} /\ ~Present(c) => c \in evicted
        /\ pc[c] \in {"return", "remove"} => port[c] \notin PortNumbers

LEMMA AccountsStep == Inv /\ Accounts /\ [Next]_vars => Accounts'
<1> SUFFICES ASSUME Inv, Accounts, [Next]_vars
             PROVE  Accounts'
    OBVIOUS
<1> USE SentinelAssumption, BoundAssumption
    DEF Inv, TypeOK, Accounts, handlerVars, history, Goto, Present, HasPort
<1>1. ASSUME NEW c \in Conns, NEW d \in Conns, Allocate(c, d) PROVE Accounts'
  <2>1. CASE free = <<>>
      BY <1>1, <2>1 DEF Allocate
  <2>2. CASE free # <<>>
    <3> DEFINE q == Head(free)
    <3>1. /\ q \in PortNumbers
          /\ pc[c] = "read" /\ pc' = [pc EXCEPT ![c] = "assign"]
          /\ hand' = [hand EXCEPT ![c] = q]
          /\ had' = [had EXCEPT ![c] = @ \cup {q}]
          /\ requests' = [requests EXCEPT ![c] = @ + 1]
          /\ UNCHANGED <<port, evicted>>
        BY <1>1, <2>2 DEF Allocate
    <3> HIDE DEF q
    <3> QED BY <3>1
  <2> QED BY <2>1, <2>2
<1>2. ASSUME NEW c \in Conns, Accept(c) \/ Assign(c) \/ Lookup(c) PROVE Accounts'
    BY <1>2 DEF Accept, Assign, Lookup
<1>3. ASSUME NEW c \in Conns, Disconnect(c) \/ ReturnPort(c) \/ Remove(c) PROVE Accounts'
    BY <1>3 DEF Disconnect, ReturnPort, Remove
<1>4. ASSUME NEW c \in Conns, ReadFails(c) \/ TurnsGhost(c) \/ Evict(c) PROVE Accounts'
    BY <1>4 DEF ReadFails, TurnsGhost, Evict
<1>5. CASE UNCHANGED vars
    BY <1>5 DEF vars
<1> QED BY <1>1, <1>2, <1>3, <1>4, <1>5 DEF Next, Connection

\* The cause of a loss, seen from port p and node c.
Cause(p, c) == p \in had[c] /\ (requests[c] > 1 \/ pc[c] = "broken" \/ c \in evicted)

LEMMA CauseStays ==
    ASSUME Inv, [Next]_vars, NEW p \in PortNumbers, NEW c \in Conns, Cause(p, c)
    PROVE  Cause(p, c)'
<1> USE BoundAssumption DEF Inv, TypeOK, Cause, handlerVars, history, Goto
<1>1. ASSUME NEW d \in Conns, NEW e \in Conns, Allocate(d, e) PROVE Cause(p, c)'
    BY <1>1 DEF Allocate
<1>2. ASSUME NEW d \in Conns, Connection(d), \A e \in Conns : ~Allocate(d, e) PROVE Cause(p, c)'
    BY <1>2 DEF Connection, Accept, Assign, Lookup, Disconnect, ReturnPort,
                Remove, ReadFails, TurnsGhost
<1>3. ASSUME NEW d \in Conns, Evict(d) PROVE Cause(p, c)'
    BY <1>3 DEF Evict
<1>4. CASE UNCHANGED vars
    BY <1>4 DEF vars
<1> QED BY <1>1, <1>2, <1>3, <1>4 DEF Next

LEMMA LossHasCause ==
    ASSUME Inv, Accounts, NEW c \in Conns, OtherStep(c), NEW q \in PortNumbers, Loses(c, q)
    PROVE  Cause(q, c)'
<1> USE SentinelAssumption, BoundAssumption
    DEF Inv, TypeOK, Accounts, Cause, Loses, Owns, handlerVars, history, Goto, Present, HasPort
<1>1. CASE Assign(c)
  <2>1. /\ pc[c] = "assign" /\ UNCHANGED <<had, requests, evicted>>
        /\ Present(c) => port'[c] = hand[c]
      BY <1>1 DEF Assign
  <2>2. CASE port[c] = q
      BY <2>1, <2>2
  <2>3. CASE hand[c] = q
    <3>1. ~Present(c)
        BY <2>1, <2>3
    <3> QED BY <2>1, <2>3, <3>1
  <2> QED BY <2>2, <2>3
<1>2. CASE Accept(c) \/ Lookup(c) \/ Disconnect(c) \/ Remove(c) \/ TurnsGhost(c)
    BY <1>2 DEF Accept, Lookup, Disconnect, Remove, TurnsGhost
<1>3. CASE ReadFails(c) \/ Evict(c)
    BY <1>3 DEF ReadFails, Evict
<1>4. CASE \E d \in Conns : free = <<>> /\ Allocate(c, d)
    BY <1>4 DEF Allocate
<1> QED BY <1>1, <1>2, <1>3, <1>4 DEF OtherStep

LEMMA LeakStep == Inv /\ Accounts /\ LeakExplained /\ [Next]_vars => LeakExplained'
<1> SUFFICES ASSUME Inv, Accounts, LeakExplained, [Next]_vars, NEW p \in PortNumbers
             PROVE  IsFree(p)' \/ (\E c \in Conns : Owns(c, p)') \/ \E c \in Conns : Cause(p, c)'
    BY DEF LeakExplained, Cause
<1>1. CASE \E c \in Conns : Cause(p, c)
    BY <1>1, CauseStays
<1>2. CASE IsFree(p) \/ \E c \in Conns : Owns(c, p)
  <2>1. ASSUME NEW c \in Conns, NEW d \in Conns, free # <<>>, Allocate(c, d)
        PROVE  IsFree(p)' \/ \E e \in Conns : Owns(e, p)'
    <3> PICK q : q = Head(free)
        OBVIOUS
    <3> QED BY <1>2, <2>1, AllocateMoves
  <2>2. ASSUME NEW c \in Conns, ReturnPort(c)
        PROVE  IsFree(p)' \/ \E e \in Conns : Owns(e, p)'
    <3> PICK q : q = hand[c]
        OBVIOUS
    <3> QED BY <1>2, <2>2, ReturnMoves
  <2>3. ASSUME NEW c \in Conns, OtherStep(c), IsFree(p)
        PROVE  IsFree(p)'
      BY <2>3, OtherMoves DEF StaysOrLoses, AllStay, Loses, IsFree
  <2>4. ASSUME NEW c \in Conns, OtherStep(c), NEW e \in Conns, Owns(e, p)
        PROVE  Owns(e, p)' \/ Cause(p, c)'
      BY <2>4, OtherMoves, LossHasCause DEF StaysOrLoses, AllStay, Loses
  <2>5. CASE UNCHANGED vars
      BY <1>2, <2>5 DEF vars, handlerVars, IsFree, Owns
  <2> QED BY <1>2, <2>1, <2>2, <2>3, <2>4, <2>5, NextCases DEF Next
<1> QED BY <1>1, <1>2 DEF LeakExplained, Cause

\* A port out of everybody's reach was allocated for a node that asked twice,
\* whose connection broke, or that cleanup removed; there is no other way to
\* lose one, whatever the other nodes do.
THEOREM LossesExplained == Spec => []LeakExplained
<1>1. Init => Accounts /\ LeakExplained
    BY PortsAssumption, SentinelAssumption
    DEF Init, Accounts, LeakExplained, IsFree, Present
<1>2. Inv /\ Accounts /\ LeakExplained /\ [Next]_vars => Accounts' /\ LeakExplained'
    BY AccountsStep, LeakStep
<1> QED BY <1>1, <1>2, InvHolds, PTL DEF Spec
=============================================================================
