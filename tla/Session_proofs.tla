--------------------------- MODULE Session_proofs ---------------------------
(***************************************************************************)
(* What a client's calls return, for any number of clients, nodes and      *)
(* calls.  The master does nothing in a session that it does not do in     *)
(* Master, so what is proved of the task book holds here too.              *)
(***************************************************************************)
EXTENDS Session, Master_proofs, SequenceTheorems

\* A sequence of one.
LEMMA OneElement == ASSUME NEW S, NEW x \in S
                    PROVE  /\ Head(<<x>>) = x /\ Tail(<<x>>) = <<>>
                           /\ Append(<<>>, x) = <<x>> /\ <<x>> # <<>>
<1>1. Head(<<x>>) = x /\ <<x>> \in Seq(S) /\ <<x>> # <<>> /\ Append(<<>>, x) = <<x>>
  OBVIOUS
<1>2. Tail(<<x>>) \in Seq(S) /\ Len(Tail(<<x>>)) = 0
  BY <1>1, HeadTailProperties
<1>3. Tail(<<x>>) = <<>>
  BY <1>2, EmptySeq
<1> QED
  BY <1>1, <1>3

LEMMA Element == ASSUME NEW S, NEW s \in Seq(S), NEW i \in DOMAIN s PROVE s[i] \in S
  OBVIOUS

LEMMA HeadTail == ASSUME NEW S, NEW s \in Seq(S), s # <<>> PROVE Head(s) \in S /\ Tail(s) \in Seq(S)
  BY HeadTailProperties

-----------------------------------------------------------------------------
(* Types of the client's side *)

InCall == {"submit", "ack", "ask", "await", "pause"}

ClientTypes ==
    /\ scene   \in Scenes
    /\ at      \in [Clients -> ClientSteps]
    /\ turn    \in [Clients -> Nat]
    /\ \A c \in Clients : at[c] \in InCall => turn[c] \in DOMAIN Plan(c)
    /\ \A c \in Clients : at[c] \in {"connect", "list"} => turn[c] = 1
    /\ req     \in [Clients -> Seq(Requests)]
    /\ rep     \in [Clients -> Seq(Replies)]
    /\ cut     \in [Clients -> BOOLEAN]
    /\ late    \in [Clients -> BOOLEAN]
    /\ answers \in [Clients -> SUBSET (Tasks \X Tasks)]

LEMMA PlanTypes == ASSUME ClientTypes, NEW c \in Clients
                   PROVE  Plan(c) \in Seq([task : Tasks, timed : BOOLEAN]) /\ 1 \in DOMAIN Plan(c)
<1>1. Plan(c) \in Seq([task : Tasks, timed : BOOLEAN]) /\ Plan(c) # <<>>
  BY ClientAssumption DEF ClientTypes, Plan
<1>2. Len(Plan(c)) \in Nat \ {0}
  BY <1>1, EmptySeq
<1> QED
  BY <1>1, <1>2

LEMMA CallTypes == ASSUME ClientTypes, NEW c \in Clients, at[c] \in InCall PROVE Call(c).task \in Tasks
<1>1. Plan(c) \in Seq([task : Tasks, timed : BOOLEAN]) /\ turn[c] \in DOMAIN Plan(c)
  BY PlanTypes DEF ClientTypes
<1>2. Call(c) \in [task : Tasks, timed : BOOLEAN]
  BY <1>1, Element DEF Call
<1> QED
  BY <1>2

\* A program is in its list of calls, or over.
LEMMA NextCallTypes ==
    ASSUME ClientTypes, NEW c \in Clients, NEW last \in {"done", "failed"}, at[c] \in InCall, NextCall(c, last)
    PROVE  /\ at' \in [Clients -> ClientSteps] /\ turn' \in [Clients -> Nat]
           /\ \A d \in Clients \ {c} : at'[d] = at[d] /\ turn'[d] = turn[d]
           /\ at'[c] \in {"submit", "done", "failed"}
           /\ at'[c] = "submit" => turn'[c] \in DOMAIN Plan(c)
<1>1. Plan(c) \in Seq([task : Tasks, timed : BOOLEAN]) /\ turn[c] \in DOMAIN Plan(c) /\ turn[c] \in Nat
  BY PlanTypes DEF ClientTypes
<1>2. CASE turn[c] < Len(Plan(c))
  <2>1. at' = [at EXCEPT ![c] = "submit"] /\ turn' = [turn EXCEPT ![c] = turn[c] + 1]
    BY <1>2 DEF NextCall, Becomes
  <2>2. Len(Plan(c)) \in Nat /\ DOMAIN Plan(c) = 1..Len(Plan(c))
    BY <1>1, LenProperties
  <2>3. turn[c] + 1 \in DOMAIN Plan(c)
    BY <1>1, <1>2, <2>2
  <2> QED
    BY <1>1, <2>1, <2>3 DEF ClientTypes, ClientSteps
<1>3. CASE ~(turn[c] < Len(Plan(c)))
  BY <1>3 DEF NextCall, Becomes, ClientTypes, ClientSteps
<1> QED
  BY <1>2, <1>3

\* Reading, and writing, a stream.
LEMMA ReadsTypes == ASSUME ClientTypes, NEW c \in Clients, Reads(c)
                    PROVE  /\ rep' \in [Clients -> Seq(Replies)] /\ Head(rep[c]) \in Replies
                           /\ rep' = [rep EXCEPT ![c] = Tail(rep[c])] /\ rep[c] # <<>>
<1>1. rep[c] \in Seq(Replies) /\ rep[c] # <<>> /\ rep' = [rep EXCEPT ![c] = Tail(rep[c])]
  BY DEF Reads, Readable, ClientTypes
<1>2. Head(rep[c]) \in Replies /\ Tail(rep[c]) \in Seq(Replies)
  BY <1>1, HeadTail
<1> QED
  BY <1>1, <1>2 DEF ClientTypes

LEMMA AsksTypes == ASSUME ClientTypes, NEW c \in Clients, NEW r \in Requests, Asks(c, r)
                   PROVE  req' \in [Clients -> Seq(Requests)] /\ req' = [req EXCEPT ![c] = Append(req[c], r)]
<1>1. req[c] \in Seq(Requests) /\ req' = [req EXCEPT ![c] = Append(req[c], r)]
  BY DEF Asks, ClientTypes
<1>2. Append(req[c], r) \in Seq(Requests)
  BY <1>1
<1> QED
  BY <1>1, <1>2 DEF ClientTypes

LEMMA RepliesTypes ==
    ASSUME ClientTypes, NEW c \in Clients, NEW r \in Replies, req[c] # <<>>, Replies1(c, r)
    PROVE  ClientTypes'
<1>1. req[c] \in Seq(Requests) /\ rep[c] \in Seq(Replies)
  BY DEF ClientTypes
<1>2. Tail(req[c]) \in Seq(Requests) /\ Append(rep[c], r) \in Seq(Replies)
  BY <1>1, HeadTail
<1>3. req' = [req EXCEPT ![c] = Tail(req[c])] /\ rep' = [rep EXCEPT ![c] = Append(rep[c], r)]
      /\ UNCHANGED <<scene, at, turn, cut, late, answers>>
  BY DEF Replies1
<1> QED
  BY <1>2, <1>3 DEF ClientTypes, Plan

\* What a handler serves is a request of that type, and its reply a reply.
LEMMA ReadingTypes == ASSUME ClientTypes, NEW c \in Clients, NEW type, Reading(c, type)
                      PROVE  /\ req[c] # <<>> /\ Head(req[c]) \in Requests /\ Head(req[c]).type = type
                             /\ type \in {"Submit", "Ask"} => Head(req[c]).task \in Tasks
<1>1. req[c] \in Seq(Requests) /\ req[c] # <<>> /\ Head(req[c]).type = type
  BY DEF Reading, ClientTypes
<1>2. Head(req[c]) \in Requests
  BY <1>1, HeadTail
<1> QED
  BY <1>1, <1>2 DEF Requests

LEMMA ServesReplies == ASSUME ClientTypes, NEW c \in Clients, Serves(c)
                       PROVE  \E r \in Replies : req[c] # <<>> /\ Replies1(c, r)
<1>1. CASE GetConnectedNodes(c)
  <2> DEFINE r == [type |-> "Listed", none |-> \A d \in Conns : ~Present(d)]
  <2>1. (\A d \in Conns : ~Present(d)) \in BOOLEAN
    OBVIOUS
  <2>2. r \in Replies
    BY <2>1, Zenon DEF Replies
  <2> QED
    BY <1>1, <2>2, ReadingTypes DEF GetConnectedNodes
<1>2. CASE Submitted(c)
  <2>1. Head(req[c]).task \in Tasks /\ req[c] # <<>>
    BY <1>2, ReadingTypes DEF Submitted
  <2>2. [type |-> "Accepted", task |-> Head(req[c]).task] \in Replies
    BY <2>1 DEF Replies
  <2> QED
    BY <1>2, <2>1, <2>2 DEF Submitted
<1>3. CASE GetTaskResult(c)
  <2>1. Head(req[c]).task \in Tasks /\ req[c] # <<>>
    BY <1>3, ReadingTypes DEF GetTaskResult
  <2>2. [type |-> "Result", task |-> Head(req[c]).task] \in Replies /\ [type |-> "Pending"] \in Replies
    BY <2>1 DEF Replies
  <2>3. Replies1(c, IF Head(req[c]).task \in completed
                    THEN [type |-> "Result", task |-> Head(req[c]).task] ELSE [type |-> "Pending"])
    BY <1>3 DEF GetTaskResult
  <2> QED
    BY <2>1, <2>2, <2>3
<1> QED
  BY <1>1, <1>2, <1>3 DEF Serves

LEMMA ClientTypesInit == SessionInit => ClientTypes
  BY EmptySeq DEF SessionInit, ClientTypes, ClientSteps, InCall

LEMMA ClientTypesStep == ClientTypes /\ [SessionNext]_sessionVars => ClientTypes'
<1> SUFFICES ASSUME ClientTypes, [SessionNext]_sessionVars PROVE ClientTypes'
  OBVIOUS
<1>0. CASE UNCHANGED clientVars
  BY <1>0 DEF clientVars, ClientTypes, Plan
<1>1. ASSUME NEW c \in Clients, Lists(c) PROVE ClientTypes'
  <2>1. rep' \in [Clients -> Seq(Replies)]
    BY <1>1, ReadsTypes DEF Lists
  <2> QED
    BY <1>1, <2>1, PlanTypes DEF Lists, Becomes, ClientTypes, ClientSteps, InCall, Plan
<1>2. ASSUME NEW c \in Clients, Submit(c) PROVE ClientTypes'
  <2>1. [type |-> "Submit", task |-> Call(c).task] \in Requests
    BY <1>2, CallTypes DEF Submit, InCall, Requests
  <2>2. req' \in [Clients -> Seq(Requests)]
    BY <1>2, <2>1, AsksTypes DEF Submit
  <2> QED
    BY <1>2, <2>2 DEF Submit, Becomes, ClientTypes, ClientSteps, InCall, Plan
<1>3. ASSUME NEW c \in Clients, Acked(c) PROVE ClientTypes'
  <2>1. rep' \in [Clients -> Seq(Replies)]
    BY <1>3, ReadsTypes DEF Acked
  <2> QED
    BY <1>3, <2>1 DEF Acked, Becomes, ClientTypes, ClientSteps, InCall, Plan
<1>4. ASSUME NEW c \in Clients, Ask(c) PROVE ClientTypes'
  <2>1. [type |-> "Ask", task |-> Call(c).task] \in Requests
    BY <1>4, CallTypes DEF Ask, InCall, Requests
  <2>2. req' \in [Clients -> Seq(Requests)]
    BY <1>4, <2>1, AsksTypes DEF Ask
  <2> QED
    BY <1>4, <2>2 DEF Ask, Becomes, ClientTypes, ClientSteps, InCall, Plan
<1>5. ASSUME NEW c \in Clients, Returned(c) PROVE ClientTypes'
  <2>1. rep' \in [Clients -> Seq(Replies)] /\ Head(rep[c]) \in Replies /\ Head(rep[c]).type = "Result"
    BY <1>5, ReadsTypes DEF Returned
  <2>2. Head(rep[c]).task \in Tasks
    BY <2>1 DEF Replies
  <2>3. Call(c).task \in Tasks /\ at[c] \in InCall
    BY <1>5, CallTypes DEF Returned, InCall
  <2>4. answers' \in [Clients -> SUBSET (Tasks \X Tasks)]
    BY <1>5, <2>2, <2>3 DEF Returned, ClientTypes
  <2>5. /\ at' \in [Clients -> ClientSteps] /\ turn' \in [Clients -> Nat]
        /\ \A d \in Clients \ {c} : at'[d] = at[d] /\ turn'[d] = turn[d]
        /\ at'[c] \in {"submit", "done", "failed"}
        /\ at'[c] = "submit" => turn'[c] \in DOMAIN Plan(c)
    BY <1>5, <2>3, NextCallTypes DEF Returned
  <2> QED
    BY <1>5, <2>1, <2>4, <2>5 DEF Returned, ClientTypes, InCall, Plan
<1>6. ASSUME NEW c \in Clients, NotYet(c) PROVE ClientTypes'
  <2>1. rep' \in [Clients -> Seq(Replies)]
    BY <1>6, ReadsTypes DEF NotYet
  <2> QED
    BY <1>6, <2>1 DEF NotYet, Becomes, ClientTypes, ClientSteps, InCall, Plan
<1>7. ASSUME NEW c \in Clients, Pause(c) PROVE ClientTypes'
  BY <1>7 DEF Pause, Becomes, ClientTypes, ClientSteps, InCall, Plan
<1>8. ASSUME NEW c \in Clients, TimesOut(c) PROVE ClientTypes'
  <2>1. at[c] \in InCall /\ UNCHANGED <<scene, req, rep, answers>>
    BY <1>8 DEF TimesOut, InCall
  <2>2. late' \in [Clients -> BOOLEAN] /\ cut' \in [Clients -> BOOLEAN]
    BY <1>8 DEF TimesOut, ClientTypes
  <2>3. /\ at' \in [Clients -> ClientSteps] /\ turn' \in [Clients -> Nat]
        /\ \A d \in Clients \ {c} : at'[d] = at[d] /\ turn'[d] = turn[d]
        /\ at'[c] \in {"submit", "done", "failed"}
        /\ at'[c] = "submit" => turn'[c] \in DOMAIN Plan(c)
    <3>1. CASE NextCall(c, "failed")
      BY <2>1, <3>1, NextCallTypes
    <3>2. CASE Becomes(c, "failed") /\ UNCHANGED turn
      BY <3>2 DEF Becomes, ClientTypes, ClientSteps
    <3> QED
      BY <1>8, <3>1, <3>2 DEF TimesOut
  <2> QED
    BY <2>1, <2>2, <2>3 DEF ClientTypes, InCall, Plan
<1>9. ASSUME NEW c \in Clients, Connect(c) PROVE ClientTypes'
  <2>1. [type |-> "List"] \in Requests
    BY DEF Requests
  <2>2. req' \in [Clients -> Seq(Requests)]
    BY <1>9, <2>1, AsksTypes DEF Connect
  <2> QED
    BY <1>9, <2>2 DEF Connect, Becomes, ClientTypes, ClientSteps, InCall, Plan
<1>10. ASSUME NEW c \in Clients, Serves(c) PROVE ClientTypes'
  BY <1>10, ServesReplies, RepliesTypes
<1> QED
  BY <1>0, <1>1, <1>2, <1>3, <1>4, <1>5, <1>6, <1>7, <1>8, <1>9, <1>10
  DEF SessionNext, sessionVars, ClientStep, Hangup

-----------------------------------------------------------------------------
(* The master in a session is the master *)

LEMMA SessionStep == ASSUME ClientTypes, [SessionNext]_sessionVars PROVE [Next]_vars
<1>0. CASE UNCHANGED sessionVars \/ UNCHANGED vars
  BY <1>0 DEF sessionVars
<1>1. ASSUME NEW c \in Clients, Connect(c) \/ Serves(c) \/ Hangup(c) PROVE Next
  <2>0. c \in Conns
    BY ClientAssumption
  <2>1. CASE Submitted(c)
    <3>1. Head(req[c]).task \in Tasks
      BY <2>1, ReadingTypes DEF Submitted
    <3> QED
      BY <2>0, <2>1, <3>1 DEF Submitted, Next, Connection, Message
  <2> QED
    BY <1>1, <2>0, <2>1 DEF Connect, Serves, GetConnectedNodes, GetTaskResult, Hangup, Next, Connection, Message
<1>2. ASSUME NEW c \in Conns, HandlerStep(c) \/ Expire(c) PROVE Next
  BY <1>2 DEF Next, Connection
<1>3. ASSUME NEW c \in Conns, NodeConnection(c) PROVE Next
  BY <1>3 DEF NodeConnection, Next, Connection, Message
<1>4. CASE Cleanup
  BY <1>4 DEF Next
<1> QED
  BY <1>0, <1>1, <1>2, <1>3, <1>4 DEF SessionNext

\* Whatever clients do, the master takes only steps of Master: the types, and
\* everything else proved of the task book, hold while clients talk to it
\* (lib.rs:288-349 at the other end of cpcluster_client).
THEOREM SessionImplementsMaster == SessionSpec => Spec
<1>1. SessionInit => Init /\ ClientTypes
  BY ClientTypesInit DEF SessionInit
<1>2. ClientTypes /\ [SessionNext]_sessionVars => ClientTypes' /\ [Next]_vars
  BY ClientTypesStep, SessionStep
<1> QED
  BY <1>1, <1>2, PTL DEF SessionSpec, Spec

\* A connection no client has made yet carries nothing, and is new to the master.
Unmade == \A c \in Clients : at[c] = "connect" => pc[c] = "new" /\ req[c] = <<>> /\ rep[c] = <<>>

LEMMA UnmadeStep == TypeOK /\ ClientTypes /\ Unmade /\ [SessionNext]_sessionVars => Unmade'
<1> SUFFICES ASSUME TypeOK, ClientTypes, Unmade, [SessionNext]_sessionVars PROVE Unmade'
  OBVIOUS
<1>a. Clients \subseteq Conns
  BY ClientAssumption
<1>0. CASE UNCHANGED sessionVars
  BY <1>0 DEF sessionVars, vars, handlerVars, clientVars, Unmade
<1>1. ASSUME NEW c \in Clients, ClientStep(c) \/ TimesOut(c), UNCHANGED vars PROVE Unmade'
  <2>1. at[c] # "connect" /\ at'[c] # "connect" /\ UNCHANGED pc
        /\ \A d \in Clients \ {c} : at'[d] = at[d] /\ req'[d] = req[d] /\ rep'[d] = rep[d]
    BY <1>1 DEF ClientStep, Lists, Submit, Acked, Ask, Returned, NotYet, Pause, TimesOut, NextCall, Becomes,
                Asks, Reads, ClientTypes, vars, handlerVars
  <2> QED
    BY <2>1 DEF Unmade
<1>2. ASSUME NEW c \in Clients, Connect(c) PROVE Unmade'
  <2>1. at'[c] = "list" /\ \A d \in Clients \ {c} : at'[d] = at[d] /\ req'[d] = req[d] /\ rep'[d] = rep[d] /\ pc'[d] = pc[d]
    BY <1>2, <1>a DEF Connect, Becomes, Asks, Accept, Goto, ClientTypes, TypeOK
  <2> QED
    BY <2>1 DEF Unmade
<1>3. ASSUME NEW c \in Clients, Serves(c) PROVE Unmade'
  <2>1. pc[c] = "read" /\ \A d \in Clients \ {c} : pc'[d] = pc[d]
    BY <1>3, <1>a DEF Serves, GetConnectedNodes, Submitted, GetTaskResult, Reading, Query, SubmitTask, Reply, Goto, TypeOK
  <2>2. \A d \in Clients : at'[d] = at[d] /\ (d # c => req'[d] = req[d] /\ rep'[d] = rep[d])
    BY <1>3 DEF Serves, GetConnectedNodes, Submitted, GetTaskResult, Replies1, ClientTypes
  <2> QED
    BY <2>1, <2>2 DEF Unmade
<1>4. ASSUME UNCHANGED clientVars, NEW c \in Conns, pc[c] # "new" \/ c \notin Clients \/ UNCHANGED pc,
             \A d \in Conns \ {c} : pc'[d] = pc[d]
      PROVE  Unmade'
  BY <1>4, <1>a DEF Unmade, clientVars
<1>5. ASSUME NEW c \in Clients, Hangup(c) PROVE Unmade'
  BY <1>5, <1>4, <1>a DEF Hangup, Leave, Goto, TypeOK
<1>6. ASSUME NEW c \in Conns, HandlerStep(c), UNCHANGED clientVars PROVE Unmade'
  BY <1>6, <1>4 DEF HandlerStep, CheckRole, Pick, TrackActive, Requeue, UntrackActive, ResultPending, ResultDone, Goto, TypeOK
<1>7. ASSUME NEW c \in Conns, Expire(c), UNCHANGED clientVars PROVE Unmade'
  BY <1>7, <1>4 DEF Expire, handlerVars
<1>8. ASSUME NEW c \in Conns \ Clients, NodeConnection(c), UNCHANGED clientVars PROVE Unmade'
  BY <1>8, <1>4 DEF NodeConnection, Accept, SendOk, SendFail, RegisterRole, Heartbeat, Query, BadMessage, Leave, TaskResult, Reply, Goto, TypeOK
<1>9. CASE Cleanup /\ UNCHANGED clientVars
  BY <1>9 DEF Cleanup, Scan, Evict, RequeueOrphans, handlerVars, Unmade, clientVars
<1> QED
  BY <1>0, <1>1, <1>2, <1>3, <1>5, <1>6, <1>7, <1>8, <1>9 DEF SessionNext

\* Types of the whole, and where a client is with what in its stream.
THEOREM SessionTypeCorrect == SessionSpec => []SessionTypeOK
<1>1. SessionInit => ClientTypes /\ Unmade
  <2>1. SessionInit => Unmade
    BY ClientAssumption DEF SessionInit, Init, Unmade
  <2> QED
    BY <2>1, ClientTypesInit
<1>2. TypeOK /\ ClientTypes /\ Unmade /\ [SessionNext]_sessionVars => ClientTypes' /\ Unmade'
  BY ClientTypesStep, UnmadeStep
<1>3. TypeOK /\ ClientTypes /\ Unmade => SessionTypeOK
  BY DEF SessionTypeOK, ClientTypes, Unmade, InCall
<1> QED
  BY <1>1, <1>2, <1>3, SessionImplementsMaster, TypeCorrect, PTL DEF SessionSpec

-----------------------------------------------------------------------------
(* Results *)

\* What is on its way to a client as a result is completed, and stays so.
ResultsDone == \A c \in Clients : \A i \in DOMAIN rep[c] : rep[c][i].type = "Result" => rep[c][i].task \in completed

LEMMA CompletedGrows == ASSUME [SessionNext]_sessionVars PROVE completed \subseteq completed'
  BY DEF SessionNext, sessionVars, vars, maps, ClientStep, Connect, Serves, GetConnectedNodes, Submitted, GetTaskResult,
         Hangup, Accept, Query, SubmitTask, Leave, HandlerStep, CheckRole, Pick, TrackActive, Requeue, UntrackActive,
         ResultPending, ResultDone, Expire, NodeConnection, SendOk, SendFail, RegisterRole, Heartbeat, BadMessage,
         TaskResult, Cleanup, Scan, Evict, RequeueOrphans

\* Reading takes replies away, serving adds one.
LEMMA TailElements == ASSUME NEW S, NEW s \in Seq(S), s # <<>>
                      PROVE  \A i \in DOMAIN Tail(s) : \E j \in DOMAIN s : Tail(s)[i] = s[j]
<1>1. Tail(s) \in Seq(S) /\ Len(Tail(s)) = Len(s) - 1 /\ \A i \in 1..Len(Tail(s)) : Tail(s)[i] = s[i + 1]
  BY HeadTailProperties
<1> QED
  BY <1>1

LEMMA AppendElements == ASSUME NEW S, NEW s \in Seq(S), NEW x \in S
                        PROVE  \A i \in DOMAIN Append(s, x) : Append(s, x)[i] = x \/ \E j \in DOMAIN s : Append(s, x)[i] = s[j]
  OBVIOUS

LEMMA HeadElement == ASSUME NEW S, NEW s \in Seq(S), s # <<>> PROVE 1 \in DOMAIN s /\ Head(s) = s[1]
<1>1. Len(s) \in Nat \ {0}
  BY EmptySeq
<1> QED
  BY <1>1

LEMMA ReadingKeepsDone ==
    ASSUME ClientTypes, ResultsDone, completed \subseteq completed', NEW c \in Clients, Reads(c)
    PROVE  ResultsDone'
<1>1. rep[c] \in Seq(Replies) /\ rep[c] # <<>> /\ rep' = [rep EXCEPT ![c] = Tail(rep[c])]
  BY ReadsTypes DEF ClientTypes
<1>2. \A i \in DOMAIN rep'[c] : \E j \in DOMAIN rep[c] : rep'[c][i] = rep[c][j]
  BY <1>1, TailElements DEF ClientTypes
<1>3. \A d \in Clients \ {c} : rep'[d] = rep[d]
  BY <1>1 DEF ClientTypes
<1> QED
  BY <1>2, <1>3 DEF ResultsDone

LEMMA ServingKeepsDone ==
    ASSUME ClientTypes, ResultsDone, completed \subseteq completed', NEW c \in Clients, NEW r \in Replies,
           Replies1(c, r), r.type = "Result" => r.task \in completed
    PROVE  ResultsDone'
<1>1. rep[c] \in Seq(Replies) /\ rep' = [rep EXCEPT ![c] = Append(rep[c], r)]
  BY DEF Replies1, ClientTypes
<1>2. \A i \in DOMAIN rep'[c] : rep'[c][i] = r \/ \E j \in DOMAIN rep[c] : rep'[c][i] = rep[c][j]
  BY <1>1, AppendElements DEF ClientTypes
<1>3. \A d \in Clients \ {c} : rep'[d] = rep[d]
  BY <1>1 DEF ClientTypes
<1> QED
  BY <1>2, <1>3 DEF ResultsDone

LEMMA DoneStep == ClientTypes /\ ResultsDone /\ AnswerIsDone /\ [SessionNext]_sessionVars => ResultsDone' /\ AnswerIsDone'
<1> SUFFICES ASSUME ClientTypes, ResultsDone, AnswerIsDone, [SessionNext]_sessionVars PROVE ResultsDone' /\ AnswerIsDone'
  OBVIOUS
<1>a. completed \subseteq completed'
  BY CompletedGrows
<1>0. CASE UNCHANGED <<rep, answers>>
  BY <1>0, <1>a DEF ResultsDone, AnswerIsDone
<1>1. ASSUME NEW c \in Clients, Reads(c), UNCHANGED answers PROVE ResultsDone' /\ AnswerIsDone'
  BY <1>1, <1>a, ReadingKeepsDone DEF AnswerIsDone
<1>2. ASSUME NEW c \in Clients, Returned(c) PROVE ResultsDone' /\ AnswerIsDone'
  <2>1. rep[c] \in Seq(Replies) /\ rep[c] # <<>> /\ Head(rep[c]).type = "Result"
    BY <1>2, ReadsTypes DEF Returned, ClientTypes
  <2>2. Head(rep[c]).task \in completed
    BY <2>1, HeadElement DEF ResultsDone
  <2>3. AnswerIsDone'
    BY <1>2, <1>a, <2>2 DEF Returned, AnswerIsDone, ClientTypes
  <2> QED
    BY <1>2, <1>a, <2>3, ReadingKeepsDone DEF Returned
<1>3. ASSUME NEW c \in Clients, Serves(c) PROVE ResultsDone' /\ AnswerIsDone'
  <2>1. UNCHANGED answers
    BY <1>3 DEF Serves, GetConnectedNodes, Submitted, GetTaskResult, Replies1
  <2>2. CASE GetConnectedNodes(c)
    <3> DEFINE r == [type |-> "Listed", none |-> \A d \in Conns : ~Present(d)]
    <3>1. r \in Replies /\ r.type # "Result"
      <4>1. (\A d \in Conns : ~Present(d)) \in BOOLEAN
        OBVIOUS
      <4>2. r \in Replies
        BY <4>1, Zenon DEF Replies
      <4> QED
        BY <4>2
    <3> QED
      BY <1>a, <2>1, <2>2, <3>1, ServingKeepsDone DEF GetConnectedNodes, AnswerIsDone
  <2>3. CASE Submitted(c)
    <3>1. [type |-> "Accepted", task |-> Head(req[c]).task] \in Replies
      BY <2>3, ReadingTypes DEF Submitted, Replies
    <3> QED
      BY <1>a, <2>1, <2>3, <3>1, ServingKeepsDone DEF Submitted, AnswerIsDone
  <2>4. CASE GetTaskResult(c)
    <3> DEFINE t == Head(req[c]).task
               r == IF t \in completed THEN [type |-> "Result", task |-> t] ELSE [type |-> "Pending"]
    <3>1. t \in Tasks
      BY <2>4, ReadingTypes DEF GetTaskResult
    <3>2. r \in Replies /\ (r.type = "Result" => r.task \in completed)
      BY <3>1 DEF Replies
    <3>3. Replies1(c, r)
      BY <2>4 DEF GetTaskResult
    <3> QED
      BY <1>a, <2>1, <3>2, <3>3, ServingKeepsDone DEF AnswerIsDone
  <2> QED
    BY <1>3, <2>2, <2>3, <2>4 DEF Serves
<1>4. ASSUME NEW c \in Clients, Lists(c) \/ Acked(c) \/ NotYet(c) PROVE ResultsDone' /\ AnswerIsDone'
  BY <1>4, <1>1 DEF Lists, Acked, NotYet
<1>5. ASSUME NEW c \in Clients, Submit(c) \/ Ask(c) \/ Pause(c) \/ TimesOut(c) \/ Connect(c) \/ Hangup(c)
      PROVE  ResultsDone' /\ AnswerIsDone'
  BY <1>5, <1>0 DEF Submit, Ask, Pause, TimesOut, Connect, Hangup, clientVars
<1> QED
  BY <1>0, <1>2, <1>3, <1>4, <1>5 DEF SessionNext, sessionVars, clientVars, ClientStep

\* What a call returns is the result of a task the master has as completed,
\* for any clients, nodes and interleaving of the handlers (lib.rs:338-349).
THEOREM AnswersAreDone == SessionSpec => []AnswerIsDone
<1>1. SessionInit => ClientTypes /\ ResultsDone /\ AnswerIsDone
  BY ClientTypesInit DEF SessionInit, ResultsDone, AnswerIsDone
<1>2. ClientTypes /\ ResultsDone /\ AnswerIsDone /\ [SessionNext]_sessionVars
        => ClientTypes' /\ ResultsDone' /\ AnswerIsDone'
  BY ClientTypesStep, DoneStep
<1> QED
  BY <1>1, <1>2, PTL DEF SessionSpec

-----------------------------------------------------------------------------
(* Order on the stream *)

\* What a client that waits has sent, and what answers it.
Sent(c) == IF at[c] = "list" THEN [type |-> "List"]
           ELSE [type |-> IF at[c] = "ack" THEN "Submit" ELSE "Ask", task |-> Call(c).task]

Fitting(c) ==
    IF at[c] = "list" THEN [type : {"Listed"}, none : BOOLEAN]
    ELSE IF at[c] = "ack" THEN {[type |-> "Accepted", task |-> Call(c).task]}
    ELSE {[type |-> "Result", task |-> Call(c).task], [type |-> "Pending"]}

\* One request, or one reply to it, while the client waits; otherwise nothing.
InOrder(c) ==
    IF at[c] \in {"list", "ack", "await"}
    THEN \/ req[c] = <<Sent(c)>> /\ rep[c] = <<>>
         \/ req[c] = <<>> /\ \E r \in Fitting(c) : rep[c] = <<r>>
    ELSE req[c] = <<>> /\ rep[c] = <<>>

Ordered == \A c \in Clients : late[c] \/ InOrder(c)

LEMMA OthersInOrder ==
    ASSUME ClientTypes, Ordered, OwnAnswer, NEW c \in Clients, UNCHANGED scene,
           \A d \in Clients \ {c} : /\ at'[d] = at[d] /\ turn'[d] = turn[d] /\ req'[d] = req[d]
                                    /\ rep'[d] = rep[d] /\ late'[d] = late[d] /\ answers'[d] = answers[d],
           late'[c] \/ InOrder(c)', \A a \in answers'[c] : a[1] = a[2] \/ late'[c]
    PROVE  Ordered' /\ OwnAnswer'
<1>1. ASSUME NEW d \in Clients \ {c}, InOrder(d) PROVE InOrder(d)'
  <2>1. Plan(d)' = Plan(d) /\ Call(d)' = Call(d)
    BY DEF Call, Plan
  <2>2. Sent(d)' = Sent(d) /\ Fitting(d)' = Fitting(d)
    BY <2>1 DEF Sent, Fitting
  <2> QED
    BY <1>1, <2>2 DEF InOrder
<1> QED
  BY <1>1 DEF Ordered, OwnAnswer

\* A client that reads has the reply to what it sent, and leaves nothing.
LEMMA InOrderRead ==
    ASSUME ClientTypes, NEW c \in Clients, InOrder(c), Reads(c)
    PROVE  /\ Head(rep[c]) \in Fitting(c) /\ at[c] \in {"list", "ack", "await"}
           /\ req[c] = <<>> /\ rep'[c] = <<>>
<1>1. rep' = [rep EXCEPT ![c] = Tail(rep[c])] /\ rep[c] # <<>>
  BY ReadsTypes
<1>2. PICK r \in Fitting(c) : rep[c] = <<r>> /\ req[c] = <<>> /\ at[c] \in {"list", "ack", "await"}
  BY <1>1 DEF InOrder
<1>3. Head(rep[c]) = r /\ Tail(rep[c]) = <<>>
  BY <1>2, OneElement
<1> QED
  BY <1>1, <1>2, <1>3 DEF ClientTypes

LEMMA InOrderAsks ==
    ASSUME ClientTypes, NEW c \in Clients, NEW r \in Requests, InOrder(c), Asks(c, r),
           at[c] \notin {"list", "ack", "await"}
    PROVE  req'[c] = <<r>> /\ rep[c] = <<>>
<1>1. req' = [req EXCEPT ![c] = Append(req[c], r)] /\ req[c] = <<>> /\ rep[c] = <<>>
  BY AsksTypes DEF InOrder
<1>2. Append(req[c], r) = <<r>>
  BY <1>1, OneElement
<1> QED
  BY <1>1, <1>2 DEF ClientTypes

\* A handler that serves a client in order has read what it waits for.
LEMMA InOrderServes ==
    ASSUME ClientTypes, NEW c \in Clients, InOrder(c), Serves(c)
    PROVE  InOrder(c)'
<1>1. req[c] = <<Sent(c)>> /\ rep[c] = <<>> /\ at[c] \in {"list", "ack", "await"}
  <2>1. req[c] # <<>>
    BY ServesReplies
  <2> QED
    BY <2>1 DEF InOrder
<1>2. Head(req[c]) = Sent(c) /\ Tail(req[c]) = <<>>
  BY <1>1, OneElement
<1>3. PICK r \in Fitting(c) : Replies1(c, r)
  <2>1. CASE GetConnectedNodes(c)
    <3> DEFINE r == [type |-> "Listed", none |-> \A d \in Conns : ~Present(d)]
    <3>1. at[c] = "list"
      BY <1>1, <1>2, <2>1 DEF GetConnectedNodes, Reading, Sent
    <3>2. (\A d \in Conns : ~Present(d)) \in BOOLEAN
      OBVIOUS
    <3>3. r \in [type : {"Listed"}, none : BOOLEAN]
      BY <3>2, Zenon
    <3> QED
      BY <2>1, <3>1, <3>3 DEF GetConnectedNodes, Fitting
  <2>2. CASE Submitted(c)
    <3>1. at[c] = "ack" /\ Head(req[c]).task = Call(c).task
      BY <1>1, <1>2, <2>2 DEF Submitted, Reading, Sent
    <3> QED
      BY <2>2, <3>1 DEF Submitted, Fitting
  <2>3. CASE GetTaskResult(c)
    <3>1. at[c] = "await" /\ Head(req[c]).task = Call(c).task
      BY <1>1, <1>2, <2>3 DEF GetTaskResult, Reading, Sent
    <3> QED
      BY <2>3, <3>1 DEF GetTaskResult, Fitting
  <2> QED
    BY <2>1, <2>2, <2>3 DEF Serves
<1>4. req'[c] = <<>> /\ rep'[c] = Append(<<>>, r) /\ UNCHANGED <<scene, at, turn>>
  BY <1>1, <1>2, <1>3 DEF Replies1, ClientTypes
<1>5. rep'[c] = <<r>>
  BY <1>4, OneElement
<1>6. Fitting(c)' = Fitting(c)
  BY <1>4 DEF Fitting, Call, Plan
<1> QED
  BY <1>1, <1>3, <1>4, <1>5, <1>6 DEF InOrder

LEMMA OrderedStep == ClientTypes /\ Ordered /\ OwnAnswer /\ [SessionNext]_sessionVars => Ordered' /\ OwnAnswer'
<1> SUFFICES ASSUME ClientTypes, Ordered, OwnAnswer, [SessionNext]_sessionVars PROVE Ordered' /\ OwnAnswer'
  OBVIOUS
<1>0. CASE UNCHANGED clientVars
  BY <1>0 DEF clientVars, Ordered, OwnAnswer, InOrder, Sent, Fitting, Call, Plan
<1>1. ASSUME NEW c \in Clients, Lists(c) \/ Acked(c) \/ NotYet(c) PROVE Ordered' /\ OwnAnswer'
  <2>1. /\ Reads(c) /\ UNCHANGED <<scene, turn, req, late, answers>>
        /\ at'[c] \notin {"list", "ack", "await"} /\ \A d \in Clients \ {c} : at'[d] = at[d]
    BY <1>1 DEF Lists, Acked, NotYet, Becomes, ClientTypes
  <2>2. InOrder(c) => InOrder(c)'
    BY <2>1, InOrderRead DEF InOrder
  <2>3. \A d \in Clients \ {c} : rep'[d] = rep[d]
    BY <2>1, ReadsTypes DEF ClientTypes
  <2> QED
    BY <2>1, <2>2, <2>3, OthersInOrder DEF Ordered, OwnAnswer
<1>2. ASSUME NEW c \in Clients, Returned(c) PROVE Ordered' /\ OwnAnswer'
  <2>1. /\ Reads(c) /\ at[c] = "await" /\ Head(rep[c]).type = "Result" /\ UNCHANGED <<scene, req, late>>
        /\ answers' = [answers EXCEPT ![c] = answers[c] \cup {<<Call(c).task, Head(rep[c]).task>>}]
    BY <1>2 DEF Returned
  <2>2. /\ at'[c] \notin {"list", "ack", "await"}
        /\ \A d \in Clients \ {c} : at'[d] = at[d] /\ turn'[d] = turn[d]
    BY <1>2, <2>1, NextCallTypes DEF Returned, InCall
  <2>3. InOrder(c) => InOrder(c)'
    BY <2>1, <2>2, InOrderRead DEF InOrder
  <2>4. InOrder(c) => Head(rep[c]).task = Call(c).task
    <3>1. InOrder(c) => Head(rep[c]) \in Fitting(c)
      BY <2>1, InOrderRead
    <3>2. Fitting(c) = {[type |-> "Result", task |-> Call(c).task], [type |-> "Pending"]}
      BY <2>1 DEF Fitting
    <3> QED
      BY <2>1, <3>1, <3>2
  <2>5. \A a \in answers'[c] : a[1] = a[2] \/ late'[c]
    BY <2>1, <2>4 DEF Ordered, OwnAnswer, ClientTypes
  <2>6. \A d \in Clients \ {c} : rep'[d] = rep[d] /\ answers'[d] = answers[d]
    BY <2>1, ReadsTypes DEF ClientTypes
  <2> QED
    BY <2>1, <2>2, <2>3, <2>5, <2>6, OthersInOrder DEF Ordered
<1>3. ASSUME NEW c \in Clients, Submit(c) \/ Ask(c) PROVE Ordered' /\ OwnAnswer'
  <2>1. PICK r \in Requests : /\ Asks(c, r) /\ r = [type |-> IF at[c] = "submit" THEN "Submit" ELSE "Ask",
                                                    task |-> Call(c).task]
    <3>1. Call(c).task \in Tasks
      BY <1>3, CallTypes DEF Submit, Ask, InCall
    <3> QED
      BY <1>3, <3>1 DEF Submit, Ask, Requests
  <2>2. /\ at[c] \in {"submit", "ask"} /\ at'[c] = IF at[c] = "submit" THEN "ack" ELSE "await"
        /\ UNCHANGED <<scene, turn, rep, late, answers>> /\ \A d \in Clients \ {c} : at'[d] = at[d]
    BY <1>3 DEF Submit, Ask, Becomes, ClientTypes
  <2>3. InOrder(c) => req'[c] = <<r>> /\ rep'[c] = <<>>
    BY <2>1, <2>2, InOrderAsks
  <2>4. Sent(c)' = r
    BY <2>1, <2>2 DEF Sent, Call, Plan
  <2>5. InOrder(c) => InOrder(c)'
    BY <2>2, <2>3, <2>4 DEF InOrder
  <2>6. \A d \in Clients \ {c} : req'[d] = req[d]
    BY <2>1, AsksTypes DEF ClientTypes
  <2> QED
    BY <2>2, <2>5, <2>6, OthersInOrder DEF Ordered, OwnAnswer
<1>4. ASSUME NEW c \in Clients, Pause(c) PROVE Ordered' /\ OwnAnswer'
  <2>1. /\ at[c] = "pause" /\ at'[c] = "ask" /\ UNCHANGED <<scene, turn, req, rep, late, answers>>
        /\ \A d \in Clients \ {c} : at'[d] = at[d]
    BY <1>4 DEF Pause, Becomes, ClientTypes
  <2>2. InOrder(c) => InOrder(c)'
    BY <2>1 DEF InOrder
  <2> QED
    BY <2>1, <2>2, OthersInOrder DEF Ordered, OwnAnswer
<1>5. ASSUME NEW c \in Clients, TimesOut(c) PROVE Ordered' /\ OwnAnswer'
  <2>1. /\ at[c] \in InCall /\ late' = [late EXCEPT ![c] = TRUE] /\ UNCHANGED <<scene, req, rep, answers>>
        /\ NextCall(c, "failed") \/ (Becomes(c, "failed") /\ UNCHANGED turn)
    BY <1>5 DEF TimesOut, InCall
  <2>2. \A d \in Clients \ {c} : at'[d] = at[d] /\ turn'[d] = turn[d] /\ late'[d] = late[d]
    BY <2>1, NextCallTypes DEF Becomes, ClientTypes
  <2> QED
    BY <2>1, <2>2, OthersInOrder DEF ClientTypes
<1>6. ASSUME NEW c \in Clients, Connect(c) PROVE Ordered' /\ OwnAnswer'
  <2>1. /\ at[c] = "connect" /\ Asks(c, [type |-> "List"]) /\ at'[c] = "list"
        /\ UNCHANGED <<scene, turn, rep, late, answers>> /\ \A d \in Clients \ {c} : at'[d] = at[d]
    BY <1>6 DEF Connect, Becomes, ClientTypes
  <2>2. [type |-> "List"] \in Requests
    BY DEF Requests
  <2>3. InOrder(c) => InOrder(c)'
    BY <2>1, <2>2, InOrderAsks DEF InOrder, Sent
  <2>4. \A d \in Clients \ {c} : req'[d] = req[d]
    BY <2>1, <2>2, AsksTypes DEF ClientTypes
  <2> QED
    BY <2>1, <2>3, <2>4, OthersInOrder DEF Ordered, OwnAnswer
<1>7. ASSUME NEW c \in Clients, Serves(c) PROVE Ordered' /\ OwnAnswer'
  <2>1. /\ UNCHANGED <<scene, at, turn, late, answers>>
        /\ \A d \in Clients \ {c} : req'[d] = req[d] /\ rep'[d] = rep[d]
    BY <1>7 DEF Serves, GetConnectedNodes, Submitted, GetTaskResult, Replies1, ClientTypes
  <2> QED
    BY <1>7, <2>1, InOrderServes, OthersInOrder DEF Ordered, OwnAnswer
<1> QED
  BY <1>0, <1>1, <1>2, <1>3, <1>4, <1>5, <1>6, <1>7 DEF SessionNext, sessionVars, ClientStep, Hangup

\* A call returns the result of its own task as long as no call on the stream
\* has timed out, for any clients, calls, nodes and interleaving
\* (cpcluster_client/src/lib.rs:27-41, which compares no ids).
THEOREM AnswersAreOwn == SessionSpec => []OwnAnswer
<1>1. SessionInit => ClientTypes /\ Ordered /\ OwnAnswer
  BY ClientTypesInit DEF SessionInit, Ordered, InOrder, OwnAnswer
<1>2. ClientTypes /\ Ordered /\ OwnAnswer /\ [SessionNext]_sessionVars => ClientTypes' /\ Ordered' /\ OwnAnswer'
  BY ClientTypesStep, OrderedStep
<1> QED
  BY <1>1, <1>2, PTL DEF SessionSpec

-----------------------------------------------------------------------------
(* Replies come *)

Waiting == {"list", "ack", "await"}

\* What the master knows of a client is not a worker; so its handler never goes
\* to look for tasks, and only the end of the program ends it.
NoWorker == \A c \in Clients : Present(c) => ~nodes[c].isWorker
Served   == \A c \in Clients : at[c] = "connect" \/ Over(c) \/ pc[c] \in {"check", "read"}

\* What a client waits for is on its way, in one direction or the other.
OnItsWay == \A c \in Clients : at[c] \in Waiting => req[c] # <<>> \/ rep[c] # <<>>

\* Only a heartbeat makes a worker of an entry, and clients send none.
LEMMA NoWorkerStep ==
    ASSUME TypeOK, NoWorker, [SessionNext]_sessionVars
    PROVE  NoWorker'
<1>a. Clients \subseteq Conns
  BY ClientAssumption
<1>0. CASE UNCHANGED nodes
  BY <1>0 DEF NoWorker, Present
<1>1. ASSUME NEW c \in Conns, NEW n, nodes' = [nodes EXCEPT ![c] = n], c \in Clients => n = NoEntry \/ ~n.isWorker
      PROVE  NoWorker'
  BY <1>1, <1>a DEF NoWorker, Present, TypeOK
<1>2. ASSUME NEW c \in Conns, Accept(c) PROVE NoWorker'
  <2>1. ~[fresh |-> TRUE, isWorker |-> FALSE, role |-> "Worker", active |-> {}].isWorker
    OBVIOUS
  <2> QED
    BY <1>1, <1>2, <2>1 DEF Accept
<1>3. ASSUME NEW c \in Conns, NEW n, nodes' = AndModify(c, n),
             c \in Clients /\ Present(c) => ~n.isWorker
      PROVE  NoWorker'
  BY <1>0, <1>1, <1>3 DEF AndModify
<1>4. ASSUME NEW c \in Conns, Present(c)
      PROVE  /\ \A x : [nodes[c] EXCEPT !.active = x].isWorker = nodes[c].isWorker
             /\ \A x : [nodes[c] EXCEPT !.fresh = x].isWorker = nodes[c].isWorker
  BY <1>4 DEF TypeOK, Present, NodeInfo
<1>5. ASSUME NEW c \in Conns, TrackActive(c) \/ UntrackActive(c) \/ \E t \in Tasks : TaskResult(c, t)
      PROVE  NoWorker'
  <2>1. PICK x : nodes' = AndModify(c, [nodes[c] EXCEPT !.active = x])
    BY <1>5 DEF TrackActive, UntrackActive, TaskResult, Track, Untrack
  <2>2. c \in Clients /\ Present(c) => ~[nodes[c] EXCEPT !.active = x].isWorker
    BY <1>4 DEF NoWorker
  <2> QED
    BY <1>3, <2>1, <2>2
<1>6. ASSUME NEW c \in Conns, HandlerStep(c) PROVE NoWorker'
  <2>1. CASE CheckRole(c) \/ Pick(c) \/ Requeue(c) \/ ResultPending(c) \/ ResultDone(c)
    BY <1>0, <2>1 DEF CheckRole, Pick, Requeue, ResultPending, ResultDone, maps
  <2> QED
    BY <1>5, <1>6, <2>1 DEF HandlerStep
<1>7. ASSUME NEW c \in Conns, Expire(c) PROVE NoWorker'
  <2>1. Present(c) /\ nodes' = [nodes EXCEPT ![c] = [nodes[c] EXCEPT !.fresh = FALSE]]
    BY <1>7 DEF Expire
  <2>2. c \in Clients => ~[nodes[c] EXCEPT !.fresh = FALSE].isWorker
    BY <1>4, <2>1 DEF NoWorker
  <2> QED
    BY <1>1, <2>1, <2>2
<1>8. ASSUME NEW c \in Conns, Leave(c) \/ Evict(c) PROVE NoWorker'
  BY <1>1, <1>8 DEF Leave, Evict
<1>9. ASSUME NEW c \in Conns \ Clients, RegisterRole(c) \/ Heartbeat(c) PROVE NoWorker'
  BY <1>3, <1>9 DEF RegisterRole, Heartbeat
<1>10. ASSUME NEW c \in Conns \ Clients, NodeConnection(c) PROVE NoWorker'
  <2>1. CASE SendOk(c) \/ SendFail(c) \/ Query(c) \/ BadMessage(c)
    BY <1>0, <2>1 DEF SendOk, SendFail, Query, BadMessage, maps
  <2> QED
    BY <1>2, <1>5, <1>8, <1>9, <1>10, <2>1 DEF NodeConnection
<1>11. ASSUME NEW c \in Clients, Connect(c) \/ Serves(c) \/ Hangup(c) PROVE NoWorker'
  <2>1. CASE Serves(c)
    BY <1>0, <2>1 DEF Serves, GetConnectedNodes, Submitted, GetTaskResult, Query, SubmitTask, maps
  <2> QED
    BY <1>a, <1>2, <1>8, <1>11, <2>1 DEF Connect, Hangup
<1>12. CASE Cleanup
  <2>1. CASE Scan \/ RequeueOrphans
    BY <1>0, <2>1 DEF Scan, RequeueOrphans, maps
  <2> QED
    BY <1>8, <1>12, <2>1 DEF Cleanup
<1>13. CASE UNCHANGED vars
  BY <1>0, <1>13 DEF vars, maps
<1> QED
  BY <1>6, <1>7, <1>10, <1>11, <1>12, <1>13 DEF SessionNext, sessionVars

LEMMA ServedStep ==
    ASSUME TypeOK, ClientTypes, NoWorker, Served, [SessionNext]_sessionVars
    PROVE  Served'
<1>a. Clients \subseteq Conns
  BY ClientAssumption
<1>0. CASE UNCHANGED <<at, pc>>
  BY <1>0 DEF Served, Over
<1>1. ASSUME NEW c \in Conns, UNCHANGED at, \A d \in Conns \ {c} : pc'[d] = pc[d],
             c \in Clients => at[c] = "connect" \/ Over(c) \/ pc'[c] \in {"check", "read"}
      PROVE  Served'
  BY <1>1, <1>a DEF Served, Over
<1>2. ASSUME NEW c \in Clients, ClientStep(c) \/ TimesOut(c), UNCHANGED vars PROVE Served'
  <2>1. /\ UNCHANGED pc /\ at[c] # "connect" /\ ~Over(c)
        /\ \A d \in Clients \ {c} : at'[d] = at[d]
    BY <1>2 DEF ClientStep, Lists, Submit, Acked, Ask, Returned, NotYet, Pause, TimesOut, NextCall, Becomes,
                Over, ClientTypes, vars, handlerVars
  <2> QED
    BY <2>1 DEF Served, Over
<1>3. ASSUME NEW c \in Clients, Connect(c) PROVE Served'
  <2>1. /\ pc'[c] = "check"
        /\ \A d \in Clients \ {c} : at'[d] = at[d] /\ pc'[d] = pc[d]
    BY <1>3, <1>a DEF Connect, Becomes, Accept, Goto, ClientTypes, TypeOK
  <2> QED
    BY <2>1 DEF Served, Over
<1>4. ASSUME NEW c \in Clients, Serves(c) PROVE Served'
  <2>1. Reply(c) /\ UNCHANGED at /\ (pc'[c] = "ghost" => Over(c))
    BY <1>4 DEF Serves, GetConnectedNodes, Submitted, GetTaskResult, Query, SubmitTask, Replies1
  <2>2. pc'[c] \in {"check", "ghost"} /\ \A d \in Conns \ {c} : pc'[d] = pc[d]
    BY <1>a, <2>1 DEF Reply, Goto, TypeOK
  <2> QED
    BY <1>1, <1>a, <2>1, <2>2
<1>5. ASSUME NEW c \in Clients, Hangup(c) PROVE Served'
  <2>1. Over(c) /\ UNCHANGED at /\ \A d \in Conns \ {c} : pc'[d] = pc[d]
    BY <1>5, <1>a DEF Hangup, clientVars, Leave, Goto, TypeOK
  <2> QED
    BY <1>1, <1>a, <2>1
<1>6. ASSUME NEW c \in Conns, HandlerStep(c), UNCHANGED clientVars PROVE Served'
  <2>1. UNCHANGED at
    BY <1>6 DEF clientVars
  <2>2. CASE CheckRole(c)
    <3>1. c \in Clients => pc'[c] = "read"
      BY <2>2, <1>a DEF CheckRole, NoWorker, Goto, TypeOK
    <3>2. \A d \in Conns \ {c} : pc'[d] = pc[d]
      BY <2>2 DEF CheckRole, Goto, TypeOK
    <3> QED
      BY <1>1, <2>1, <3>1, <3>2
  <2>3. CASE ~CheckRole(c)
    <3>1. pc[c] \notin {"check", "read"} /\ \A d \in Conns \ {c} : pc'[d] = pc[d]
      BY <1>6, <2>3 DEF HandlerStep, Pick, TrackActive, Requeue, UntrackActive, ResultPending, ResultDone, Goto, TypeOK
    <3>2. c \in Clients => at[c] = "connect" \/ Over(c)
      BY <3>1 DEF Served
    <3> QED
      BY <1>1, <2>1, <3>1, <3>2
  <2> QED
    BY <2>2, <2>3
<1>7. ASSUME NEW c \in Conns, Expire(c), UNCHANGED clientVars PROVE Served'
  BY <1>0, <1>7 DEF Expire, handlerVars, clientVars
<1>8. ASSUME NEW c \in Conns \ Clients, NodeConnection(c), UNCHANGED clientVars PROVE Served'
  <2>1. UNCHANGED at /\ \A d \in Conns \ {c} : pc'[d] = pc[d]
    BY <1>8 DEF NodeConnection, Accept, SendOk, SendFail, RegisterRole, Heartbeat, Query, BadMessage, Leave,
                TaskResult, Reply, Goto, TypeOK, clientVars
  <2> QED
    BY <1>1, <2>1
<1>9. CASE Cleanup /\ UNCHANGED clientVars
  BY <1>0, <1>9 DEF Cleanup, Scan, Evict, RequeueOrphans, handlerVars, clientVars
<1>10. CASE UNCHANGED sessionVars
  BY <1>0, <1>10 DEF sessionVars, vars, handlerVars, clientVars
<1> QED
  BY <1>2, <1>3, <1>4, <1>5, <1>6, <1>7, <1>8, <1>9, <1>10 DEF SessionNext

LEMMA AppendNotEmpty == ASSUME NEW S, NEW s \in Seq(S), NEW x \in S PROVE Append(s, x) # <<>>
<1>1. Append(s, x) \in Seq(S) /\ Len(Append(s, x)) = Len(s) + 1
  OBVIOUS
<1>2. Len(s) \in Nat
  OBVIOUS
<1> QED
  BY <1>1, <1>2, EmptySeq

LEMMA OnItsWayStep ==
    ASSUME ClientTypes, OnItsWay, [SessionNext]_sessionVars
    PROVE  OnItsWay'
<1>0. CASE UNCHANGED clientVars
  BY <1>0 DEF clientVars, OnItsWay
<1>1. ASSUME NEW c \in Clients,
             \A d \in Clients \ {c} : at'[d] = at[d] /\ req'[d] = req[d] /\ rep'[d] = rep[d],
             at'[c] \in Waiting => req'[c] # <<>> \/ rep'[c] # <<>>
      PROVE  OnItsWay'
  BY <1>1 DEF OnItsWay
<1>2. ASSUME NEW c \in Clients, ClientStep(c) \/ TimesOut(c) \/ Connect(c), at'[c] \notin Waiting PROVE OnItsWay'
  <2>1. \A d \in Clients \ {c} : at'[d] = at[d] /\ req'[d] = req[d] /\ rep'[d] = rep[d]
    BY <1>2 DEF ClientStep, Lists, Submit, Acked, Ask, Returned, NotYet, Pause, TimesOut, Connect, NextCall, Becomes,
                Asks, Reads, ClientTypes
  <2> QED
    BY <1>1, <1>2, <2>1
<1>3. ASSUME NEW c \in Clients, NEW r \in Requests, Asks(c, r), UNCHANGED rep, NEW step, Becomes(c, step) PROVE OnItsWay'
  <2>1. req' = [req EXCEPT ![c] = Append(req[c], r)] /\ Append(req[c], r) # <<>>
    BY <1>3, AsksTypes, AppendNotEmpty DEF ClientTypes
  <2> QED
    BY <1>1, <1>3, <2>1 DEF Becomes, ClientTypes
<1>4. ASSUME NEW c \in Clients, Submit(c) \/ Ask(c) PROVE OnItsWay'
  <2>1. Call(c).task \in Tasks
    BY <1>4, CallTypes DEF Submit, Ask, InCall
  <2> QED
    BY <1>3, <1>4, <2>1 DEF Submit, Ask, Requests
<1>5. ASSUME NEW c \in Clients, Connect(c) PROVE OnItsWay'
  BY <1>3, <1>5 DEF Connect, Requests
<1>6. ASSUME NEW c \in Clients, Lists(c) \/ Acked(c) \/ NotYet(c) \/ Pause(c) PROVE OnItsWay'
  <2>1. at'[c] \notin Waiting
    BY <1>6 DEF Lists, Acked, NotYet, Pause, Becomes, Waiting, ClientTypes
  <2> QED
    BY <1>2, <1>6, <2>1 DEF ClientStep
<1>7. ASSUME NEW c \in Clients, Returned(c) \/ TimesOut(c) PROVE OnItsWay'
  <2>1. at'[c] \notin Waiting
    BY <1>7 DEF Returned, TimesOut, NextCall, Becomes, Waiting, ClientTypes
  <2> QED
    BY <1>2, <1>7, <2>1 DEF ClientStep
<1>8. ASSUME NEW c \in Clients, Serves(c) PROVE OnItsWay'
  <2>1. PICK r \in Replies : Replies1(c, r)
    BY <1>8, ServesReplies
  <2>2. /\ UNCHANGED at /\ rep' = [rep EXCEPT ![c] = Append(rep[c], r)]
        /\ \A d \in Clients \ {c} : req'[d] = req[d]
    BY <2>1 DEF Replies1, ClientTypes
  <2>3. Append(rep[c], r) # <<>>
    BY AppendNotEmpty DEF ClientTypes
  <2> QED
    BY <1>1, <2>2, <2>3 DEF ClientTypes
<1> QED
  BY <1>0, <1>4, <1>5, <1>6, <1>7, <1>8 DEF SessionNext, sessionVars, ClientStep, Hangup

\* A client never waits for nothing: its reply is there, or its request is in
\* front of a handler that reads - whatever timeouts have left in the stream,
\* and for any clients, calls, nodes and interleaving (lib.rs:121, 288-349).
THEOREM RepliesCome == SessionSpec => []ReplyComes
<1> DEFINE I == ClientTypes /\ NoWorker /\ Served /\ OnItsWay
<1>1. SessionInit => I
  BY ClientTypesInit, ClientAssumption DEF SessionInit, Init, NoWorker, Present, Served, OnItsWay, Waiting
<1>2. TypeOK /\ I /\ [SessionNext]_sessionVars => I'
  BY ClientTypesStep, NoWorkerStep, ServedStep, OnItsWayStep
<1>3. I => ReplyComes
  BY DEF Served, OnItsWay, ReplyComes, Waiting, Over
<1> QED
  BY <1>1, <1>2, <1>3, SessionImplementsMaster, TypeCorrect, PTL DEF SessionSpec
=============================================================================
