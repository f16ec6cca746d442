------------------------------- MODULE Ports -------------------------------
(***************************************************************************)
(* The ports the master hands out for direct connections: the queue of     *)
(* available ports, the port noted in each node's entry, and the steps of  *)
(* RequestConnection, Disconnect, release_port and cleanup_dead_nodes, one *)
(* critical section each.                                                  *)
(***************************************************************************)
EXTENDS Naturals, Sequences, FiniteSets

CONSTANTS
    Conns,         \* connections; each peer address is used once
    PortNumbers,   \* min_port..max_port
    FirstPorts,    \* the queue the master starts with
    MaxRequests,   \* Bound: connection requests of one node
    Mortal,        \* connections whose peer or socket may fail
    Garbling,      \* connections whose peer may send data that does not parse
    Silent,        \* connections that may be found dead by cleanup
    NoEntry, NoPort, NoConn,
    Pool, Lost     \* where a port is that no node owns

ASSUME PortsAssumption ==
    /\ FirstPorts \in Seq(PortNumbers)
    /\ \A p \in PortNumbers : \E i \in 1..Len(FirstPorts) : FirstPorts[i] = p
    /\ \A i, j \in 1..Len(FirstPorts) : i # j => FirstPorts[i] # FirstPorts[j]
ASSUME BoundAssumption    == MaxRequests \in Nat
ASSUME SentinelAssumption ==
    /\ NoPort \notin PortNumbers /\ NoEntry \notin PortNumbers /\ NoPort # NoEntry
    /\ NoConn \notin Conns
ASSUME OwnerAssumption    == Pool # Lost /\ {Pool, Lost} \cap Conns = {}
ASSUME SubsetAssumption   == Mortal \cup Garbling \cup Silent \subseteq Conns

VARIABLES
    free,        \* available_ports
    port,        \* the port in each node's entry; NoEntry without an entry
    pc,          \* where each connection's handler is
    hand,        \* the port in a handler's local variable
    target,      \* whom its node asked to be connected to
    requests,    \* how many requests each node has made
    \* History, read only by properties.
    had,         \* the ports ever allocated for each node
    evicted      \* the nodes cleanup_dead_nodes removed

handlerVars == <<pc, hand, target, requests>>
history     == <<had, evicted>>
vars        == <<free, port, handlerVars, history>>

HandlerSteps == {"new", "read", "assign", "lookup", "return", "remove", "ghost", "closed", "broken"}

TypeOK ==
    /\ free     \in Seq(PortNumbers)
    /\ port     \in [Conns -> PortNumbers \cup {NoPort, NoEntry}]
    /\ pc       \in [Conns -> HandlerSteps]
    /\ hand     \in [Conns -> PortNumbers \cup {NoPort}]
    /\ target   \in [Conns -> Conns \cup {NoConn}]
    /\ requests \in [Conns -> 0..MaxRequests]
    /\ had      \in [Conns -> SUBSET PortNumbers]
    /\ evicted  \subseteq Conns
    \* Locals are set exactly where the code has them, and there is no entry
    \* before a connection's handshake or after its end.
    /\ \A c \in Conns : /\ hand[c] # NoPort <=> pc[c] \in {"assign", "lookup", "return"}
                        /\ target[c] # NoConn <=> pc[c] \in {"assign", "lookup"}
                        /\ pc[c] \in {"new", "closed", "broken"} => port[c] = NoEntry

Init ==
    /\ free     = FirstPorts
    /\ port     = [c \in Conns |-> NoEntry]
    /\ pc       = [c \in Conns |-> "new"]
    /\ hand     = [c \in Conns |-> NoPort]
    /\ target   = [c \in Conns |-> NoConn]
    /\ requests = [c \in Conns |-> 0]
    /\ had      = [c \in Conns |-> {}]
    /\ evicted  = {}

Present(c) == port[c] # NoEntry

Goto(c, step) == pc' = [pc EXCEPT ![c] = step]

-----------------------------------------------------------------------------
Accept(c) ==
    /\ pc[c] = "new"
    /\ port' = [port EXCEPT ![c] = NoPort]
    /\ Goto(c, "read")
    /\ UNCHANGED <<free, hand, target, requests, history>>

\* RequestConnection, first step: allocate_port.  Without a port the request is
\* only logged.
Allocate(c, d) ==
    /\ pc[c] = "read"
    /\ requests[c] < MaxRequests
    /\ requests' = [requests EXCEPT ![c] = @ + 1]
    /\ IF free = <<>>
       THEN UNCHANGED <<free, pc, hand, target, had>>
       ELSE /\ free' = Tail(free)
            /\ had' = [had EXCEPT ![c] = @ \cup {Head(free)}]
            /\ hand' = [hand EXCEPT ![c] = Head(free)]
            /\ target' = [target EXCEPT ![c] = d]
            /\ Goto(c, "assign")
    /\ UNCHANGED <<port, evicted>>

\* Mutant of Assign: the port is noted in the peer's entry as well.
Assign_Both(c) ==
    /\ pc[c] = "assign"
    /\ port' = [d \in Conns |-> IF d \in {c, target[c]} /\ Present(d) THEN hand[c] ELSE port[d]]
    /\ Goto(c, "lookup")
    /\ UNCHANGED <<free, hand, target, requests, history>>

\* Mutant of Assign: the port is noted in the peer's entry only.
Assign_ToPeer(c) ==
    /\ pc[c] = "assign"
    /\ port' = IF Present(target[c]) THEN [port EXCEPT ![target[c]] = hand[c]] ELSE port
    /\ Goto(c, "lookup")
    /\ UNCHANGED <<free, hand, target, requests, history>>

\* n.port = Some(port): a port noted earlier is forgotten, and so is this one
\* when the entry is gone.
Assign(c) ==
    /\ pc[c] = "assign"
    /\ port' = IF Present(c) THEN [port EXCEPT ![c] = hand[c]] ELSE port
    /\ Goto(c, "lookup")
    /\ UNCHANGED <<free, hand, target, requests, history>>

\* The requester, and nobody else, is told the peer's address and the port; a
\* peer without an entry makes no reply.  A write that fails leaves a ghost.
Lookup(c) ==
    /\ pc[c] = "lookup"
    /\ hand' = [hand EXCEPT ![c] = NoPort]
    /\ target' = [target EXCEPT ![c] = NoConn]
    /\ \/ Goto(c, "read")
       \/ Present(target[c]) /\ c \in Mortal /\ Goto(c, "ghost")
    /\ UNCHANGED <<free, port, requests, history>>

-----------------------------------------------------------------------------
(* release_port takes the port out of the entry, if there is one, and puts it
   back in a second critical section. *)

HasPort(c) == Present(c) /\ port[c] # NoPort

Disconnect(c) ==
    /\ pc[c] = "read"
    /\ IF HasPort(c)
       THEN /\ hand' = [hand EXCEPT ![c] = port[c]]
            /\ port' = [port EXCEPT ![c] = NoPort]
            /\ Goto(c, "return")
       ELSE Goto(c, "remove") /\ UNCHANGED <<hand, port>>
    /\ UNCHANGED <<free, target, requests, history>>

\* Mutant of ReturnPort: the port taken out of the entry is dropped.
ReturnPort_Drops(c) ==
    /\ pc[c] = "return"
    /\ hand' = [hand EXCEPT ![c] = NoPort]
    /\ Goto(c, "remove")
    /\ UNCHANGED <<free, port, target, requests, history>>

ReturnPort(c) ==
    /\ pc[c] = "return"
    /\ free' = Append(free, hand[c])
    /\ hand' = [hand EXCEPT ![c] = NoPort]
    /\ Goto(c, "remove")
    /\ UNCHANGED <<port, target, requests, history>>

\* Mutant of Remove: the loop is left, and the entry stays.
Remove_Forgets(c) ==
    /\ pc[c] = "remove"
    /\ Goto(c, "closed")
    /\ UNCHANGED <<free, port, hand, target, requests, history>>

Remove(c) ==
    /\ pc[c] = "remove"
    /\ port' = [port EXCEPT ![c] = NoEntry]
    /\ Goto(c, "closed")
    /\ UNCHANGED <<free, hand, target, requests, history>>

\* The read fails: the entry goes, with its port.
ReadFails(c) ==
    /\ pc[c] = "read"
    /\ c \in Mortal
    /\ port' = [port EXCEPT ![c] = NoEntry]
    /\ Goto(c, "broken")
    /\ UNCHANGED <<free, hand, target, requests, history>>

\* The data read does not parse; handle_connection returns at once.
TurnsGhost(c) ==
    /\ pc[c] = "read"
    /\ c \in Garbling
    /\ Goto(c, "ghost")
    /\ UNCHANGED <<free, port, hand, target, requests, history>>

-----------------------------------------------------------------------------
(* cleanup_dead_nodes removes the entry of a stale node and only then calls
   release_port, which finds no entry to take a port out of: an address that
   was removed does not come back. *)

Evict(c) ==
    /\ Present(c)
    /\ c \in Silent \/ pc[c] = "ghost"
    /\ port' = [port EXCEPT ![c] = NoEntry]
    /\ evicted' = evicted \cup {c}
    /\ UNCHANGED <<free, handlerVars, had>>

-----------------------------------------------------------------------------
Connection(c) ==
    \/ Accept(c) \/ (\E d \in Conns : Allocate(c, d)) \/ Assign(c) \/ Lookup(c)
    \/ Disconnect(c) \/ ReturnPort(c) \/ Remove(c) \/ ReadFails(c) \/ TurnsGhost(c)

Next == \E c \in Conns : Connection(c) \/ Evict(c)

Spec == Init /\ [][Next]_vars

-----------------------------------------------------------------------------
IsFree(p) == \E i \in 1..Len(free) : free[i] = p

\* c is the node a port belongs to: its entry notes it, or a task on the node's
\* behalf has it in hand.
Owns(c, p) ==
    \/ port[c] = p
    \/ hand[c] = p /\ pc[c] \in {"assign", "return"}

\* A port belongs to at most one node, and to none while it is in the queue,
\* where it is once: requests, departures and evictions in any order never hand
\* out a port that somebody still has (lib.rs:184-204, 301-308, 350-353).
PortExclusive ==
    /\ \A p \in PortNumbers, c, d \in Conns : Owns(c, p) /\ Owns(d, p) => c = d
    /\ \A p \in PortNumbers, c \in Conns : IsFree(p) => ~Owns(c, p)
    /\ \A i, j \in 1..Len(free) : free[i] = free[j] => i = j

\* The pool as PortPool describes it.
PoolOwner == [p \in PortNumbers |->
    IF IsFree(p) THEN Pool
    ELSE IF \E c \in Conns : Owns(c, p) THEN CHOOSE c \in Conns : Owns(c, p)
    ELSE Lost]

Abstract == INSTANCE PortPool WITH owner <- PoolOwner

\* Every step of the ports is a step of the abstract pool, or none.
ImplementsPool == Abstract!Spec

\* A port out of everybody's reach was allocated for a node that asked twice,
\* whose connection broke, or whom cleanup removed: one request and a Disconnect
\* never lose a port, whatever the other nodes do meanwhile.
LeakExplained ==
    \A p \in PortNumbers :
        \/ IsFree(p)
        \/ \E c \in Conns : Owns(c, p)
        \/ \E c \in Conns : /\ p \in had[c]
                            /\ requests[c] > 1 \/ pc[c] = "broken" \/ c \in evicted

\* README.md:15: the master "releases ports when nodes leave the network".  The
\* ports a node had are free, or owned by somebody, once its entry is gone.
PortsReleased ==
    \A c \in Conns : ~Present(c) =>
        \A p \in had[c] : IsFree(p) \/ \E d \in Conns : Owns(d, p)
=============================================================================
