------------------------------ MODULE Session ------------------------------
(***************************************************************************)
(* Clients of the master (cpcluster_client): a program that connects, and  *)
(* hands in tasks one after the other on one stream, asking for the result *)
(* of each until it comes.  The command line client asks for as long as it *)
(* takes; submit_and_wait gives up when its timeout is over, and leaves    *)
(* what it was about to read in the stream.                                *)
(*                                                                         *)
(* Master is at the other end: what a client's handler reads and answers   *)
(* is conjoined with the stream.  Nodes are free, as in Master.            *)
(***************************************************************************)
EXTENDS Master, Sequences

CONSTANTS
    Clients,   \* the connections that are a client's
    Scenes,    \* Bound: the calls of each client, in order, each with its task and
               \* whether it has a timeout, the nodes that take part, and whether
               \* heartbeats may stay out (a client sends none)
    Stubborn   \* clients that call again after a call has failed

ASSUME ClientAssumption ==
    /\ Clients \subseteq Conns /\ Stubborn \subseteq Clients
    /\ Scenes \subseteq [plan  : [Clients -> Seq([task : Tasks, timed : BOOLEAN]) \ {<<>>}],
                        nodes : SUBSET (Conns \ Clients), late : BOOLEAN]

VARIABLES
    scene,   \* the scene that is played
    at,      \* the step of each client
    turn,    \* the number of the call it is at
    req,     \* the requests on their way to the master
    rep,     \* the replies on their way back
    cut,     \* a read was dropped in the middle of a frame
    \* history
    late,    \* a call on this stream has timed out
    answers  \* what calls returned: the task asked for, the task whose result it is

clientVars  == <<scene, at, turn, req, rep, cut, late, answers>>
sessionVars == <<vars, clientVars>>

ClientSteps == {"connect", "list", "submit", "ack", "ask", "await", "pause", "done", "failed"}

Requests == [type : {"List"}] \cup [type : {"Submit", "Ask"}, task : Tasks]
Replies  == [type : {"Listed"}, none : BOOLEAN] \cup [type : {"Accepted", "Result"}, task : Tasks]
            \cup [type : {"Pending"}]

Plan(c) == scene.plan[c]

\* In a call there is a call; a connection nobody has made carries nothing.
SessionTypeOK ==
    /\ TypeOK
    /\ scene   \in Scenes
    /\ at      \in [Clients -> ClientSteps]
    /\ turn    \in [Clients -> Nat]
    /\ \A c \in Clients : at[c] \in {"submit", "ack", "ask", "await", "pause"} => turn[c] \in DOMAIN Plan(c)
    /\ req     \in [Clients -> Seq(Requests)]
    /\ rep     \in [Clients -> Seq(Replies)]
    /\ \A c \in Clients : at[c] = "connect" => pc[c] = "new" /\ req[c] = <<>> /\ rep[c] = <<>>
    /\ cut     \in [Clients -> BOOLEAN]
    /\ late    \in [Clients -> BOOLEAN]
    /\ answers \in [Clients -> SUBSET (Tasks \X Tasks)]

SessionInit ==
    /\ Init
    /\ scene   \in Scenes
    /\ at      = [c \in Clients |-> "connect"]
    /\ turn    = [c \in Clients |-> 1]
    /\ req     = [c \in Clients |-> <<>>]
    /\ rep     = [c \in Clients |-> <<>>]
    /\ cut     = [c \in Clients |-> FALSE]
    /\ late    = [c \in Clients |-> FALSE]
    /\ answers = [c \in Clients |-> {}]

-----------------------------------------------------------------------------
(* The client *)

Call(c)  == Plan(c)[turn[c]]
Over(c)  == at[c] \in {"done", "failed"}
Becomes(c, step) == at' = [at EXCEPT ![c] = step]
Asks(c, r)       == req' = [req EXCEPT ![c] = Append(@, r)]

\* A frame can be read: the stream is not cut, and one has arrived.
Readable(c) == ~cut[c] /\ rep[c] # <<>>
Reads(c)    == Readable(c) /\ rep' = [rep EXCEPT ![c] = Tail(@)]

\* Mutant of NextCall: one call too many.
NextCall_OneMore(c, last) ==
    IF turn[c] <= Len(Plan(c))
    THEN Becomes(c, "submit") /\ turn' = [turn EXCEPT ![c] = @ + 1]
    ELSE Becomes(c, last) /\ UNCHANGED turn

\* Returns from a call: on to the next one, or the program is over.
NextCall(c, last) ==
    IF turn[c] < Len(Plan(c))
    THEN Becomes(c, "submit") /\ turn' = [turn EXCEPT ![c] = @ + 1]
    ELSE Becomes(c, last) /\ UNCHANGED turn

\* No node at all: the tasks are executed here, and the program is over.
Lists(c) ==
    /\ at[c] = "list"
    /\ Reads(c)
    /\ Becomes(c, IF Head(rep[c]).none THEN "done" ELSE "submit")
    /\ UNCHANGED <<scene, turn, req, cut, late, answers>>

Submit(c) ==
    /\ at[c] = "submit"
    /\ Asks(c, [type |-> "Submit", task |-> Call(c).task])
    /\ Becomes(c, "ack")
    /\ UNCHANGED <<scene, turn, rep, cut, late, answers>>

\* Mutant of Acked: the acknowledgement is left in the stream.
Acked_Unread(c) ==
    /\ at[c] = "ack"
    /\ Becomes(c, "ask")
    /\ UNCHANGED <<scene, turn, req, rep, cut, late, answers>>

\* Whatever comes is taken for TaskAccepted, and there is no timeout.
Acked(c) ==
    /\ at[c] = "ack"
    /\ Reads(c)
    /\ Becomes(c, "ask")
    /\ UNCHANGED <<scene, turn, req, cut, late, answers>>

Ask(c) ==
    /\ at[c] = "ask"
    /\ Asks(c, [type |-> "Ask", task |-> Call(c).task])
    /\ Becomes(c, "await")
    /\ UNCHANGED <<scene, turn, rep, cut, late, answers>>

\* Any TaskResult is returned; its id is not compared with the call's.
Returned(c) ==
    /\ at[c] = "await"
    /\ Reads(c)
    /\ Head(rep[c]).type = "Result"
    /\ answers' = [answers EXCEPT ![c] = @ \cup {<<Call(c).task, Head(rep[c]).task>>}]
    /\ NextCall(c, "done")
    /\ UNCHANGED <<scene, req, cut, late>>

\* Mutant of NotYet: waits for the result without asking again.
NotYet_WaitsOn(c) ==
    /\ at[c] = "await"
    /\ Reads(c)
    /\ Head(rep[c]).type # "Result"
    /\ UNCHANGED <<scene, at, turn, req, cut, late, answers>>

NotYet(c) ==
    /\ at[c] = "await"
    /\ Reads(c)
    /\ Head(rep[c]).type # "Result"
    /\ Becomes(c, "pause")
    /\ UNCHANGED <<scene, turn, req, cut, late, answers>>

Pause(c) ==
    /\ at[c] = "pause"
    /\ Becomes(c, "ask")
    /\ UNCHANGED <<scene, turn, req, rep, cut, late, answers>>

\* The deadline of submit_and_wait: before or while it reads, which may have got
\* part of a frame by then, or after a reply that was not the result.
TimesOut(c) ==
    /\ at[c] \in {"await", "pause"}
    /\ Call(c).timed
    /\ late' = [late EXCEPT ![c] = TRUE]
    /\ cut' \in {cut} \cup (IF at[c] = "await" /\ Readable(c) THEN {[cut EXCEPT ![c] = TRUE]} ELSE {})
    /\ IF c \in Stubborn THEN NextCall(c, "failed") ELSE Becomes(c, "failed") /\ UNCHANGED turn
    /\ UNCHANGED <<scene, req, rep, answers>>

ClientStep(c) == Lists(c) \/ Submit(c) \/ Acked(c) \/ Ask(c) \/ Returned(c) \/ NotYet(c) \/ Pause(c)

-----------------------------------------------------------------------------
(* The master's side of the stream *)

\* The handler reads the client's next request and writes a reply.  The write
\* fails only when the client has closed its end.
Reading(c, type) == pc[c] = "read" /\ req[c] # <<>> /\ Head(req[c]).type = type

Replies1(c, r) ==
    /\ req' = [req EXCEPT ![c] = Tail(@)]
    /\ rep' = [rep EXCEPT ![c] = Append(@, r)]
    /\ pc'[c] = "ghost" => Over(c)
    /\ UNCHANGED <<scene, at, turn, cut, late, answers>>

\* Token and answer, then the client's first request.
Connect(c) ==
    /\ at[c] = "connect"
    /\ Accept(c)
    /\ Becomes(c, "list")
    /\ Asks(c, [type |-> "List"])
    /\ UNCHANGED <<scene, turn, rep, cut, late, answers>>

GetConnectedNodes(c) ==
    /\ Reading(c, "List")
    /\ Query(c)
    /\ Replies1(c, [type |-> "Listed", none |-> \A d \in Conns : ~Present(d)])

Submitted(c) ==
    /\ Reading(c, "Submit")
    /\ SubmitTask(c, Head(req[c]).task)
    /\ Replies1(c, [type |-> "Accepted", task |-> Head(req[c]).task])

\* Mutant of GetTaskResult: a task that is not pending is taken to be done.
GetTaskResult_NotPending(c) ==
    /\ Reading(c, "Ask")
    /\ Query(c)
    /\ LET t == Head(req[c]).task IN
       Replies1(c, IF ~IsPending(t) THEN [type |-> "Result", task |-> t] ELSE [type |-> "Pending"])

GetTaskResult(c) ==
    /\ Reading(c, "Ask")
    /\ Query(c)
    /\ LET t == Head(req[c]).task IN
       Replies1(c, IF t \in completed THEN [type |-> "Result", task |-> t] ELSE [type |-> "Pending"])

\* The client's program has ended and its socket is closed.
Hangup(c) == Over(c) /\ Leave(c) /\ UNCHANGED clientVars

Serves(c) == GetConnectedNodes(c) \/ Submitted(c) \/ GetTaskResult(c)

-----------------------------------------------------------------------------
\* A connection of a node: as in Master, but tasks come from clients.
NodeConnection(c) ==
    \/ (c \in scene.nodes /\ Accept(c)) \/ SendOk(c) \/ SendFail(c)
    \/ RegisterRole(c) \/ Heartbeat(c) \/ Query(c) \/ BadMessage(c) \/ Leave(c)
    \/ \E t \in Tasks : TaskResult(c, t)

SessionNext ==
    \/ \E c \in Clients : \/ ClientStep(c) /\ UNCHANGED vars
                          \/ TimesOut(c) /\ UNCHANGED vars
                          \/ Connect(c) \/ Serves(c) \/ Hangup(c)
    \/ /\ \/ \E c \in Conns : HandlerStep(c) \/ ((scene.late \/ pc[c] = "ghost") /\ Expire(c))
          \/ \E c \in Conns \ Clients : NodeConnection(c)
          \/ Cleanup
       /\ UNCHANGED clientVars

SessionSpec == SessionInit /\ [][SessionNext]_sessionVars

(* Fairness: Master's, for handlers, cleanup and nodes; the client's program
   runs, its requests are served, and a call that goes round and round for ever
   meets its deadline. *)
Alone(A) == A /\ UNCHANGED clientVars

SessionFairness ==
    /\ \A c \in Conns : /\ WF_sessionVars(Alone(HandlerStep(c)))
                        /\ WF_sessionVars(Alone(pc[c] = "ghost" /\ Expire(c)))
    /\ WF_sessionVars(Alone(Cleanup))
    /\ \A c \in Conns \ (Mortal \cup Clients) :
        /\ WF_sessionVars(Alone(c \in scene.nodes /\ Accept(c))) /\ WF_sessionVars(Alone(SendOk(c)))
        /\ \A t \in Tasks : SF_sessionVars(Alone(SettlesOwn(c, t)))
    /\ \A c \in Reliable \ Clients :
        SF_sessionVars(Alone(Heartbeat(c))) /\ SF_sessionVars(Alone(RegisterRole(c)))
    /\ \A c \in Clients : /\ WF_sessionVars(ClientStep(c) /\ UNCHANGED vars)
                          /\ SF_sessionVars(TimesOut(c) /\ UNCHANGED vars)
                          /\ WF_sessionVars(Connect(c) \/ Serves(c))

FairSession == SessionSpec /\ SessionFairness

-----------------------------------------------------------------------------
(* A call returns the result of its own task unless an earlier call on this
   stream has timed out: then a reply that was left behind may be taken for the
   acknowledgement, and every later reply for the one after it (cpcluster_client/src/lib.rs:27, 36-41). *)
OwnAnswer == \A c \in Clients : \A a \in answers[c] : a[1] = a[2] \/ late[c]

(* Whatever a call returns, right or wrong, is the result of a task that the
   master has as completed: a task on its way between the maps, in nobody's
   map for a moment, is not taken for one that is done (lib.rs:338-349). *)
AnswerIsDone == \A c \in Clients : \A a \in answers[c] : a[2] \in completed

(* A client that waits has the reply in its stream, or its request in front of a
   handler that reads: also after timeouts have left replies behind, and since a
   client sends no heartbeat, its handler is never busy handing it tasks
   (cpcluster_client/src/lib.rs:26-36, lib.rs:121). *)
ReplyComes ==
    \A c \in Clients : at[c] \in {"list", "ack", "await"} =>
        rep[c] # <<>> \/ (req[c] # <<>> /\ pc[c] \in {"check", "read"})

(* The program ends: a call with a timeout whatever the nodes do, a call without
   one because a node that keeps working completes its task - unless an earlier
   timeout has cut a frame in half, after which a read without a timeout, the
   one of the acknowledgement for instance, waits for ever. *)
ProgramEnds == \A c \in Clients : at[c] # "connect" ~> Over(c) \/ cut[c]
=============================================================================
