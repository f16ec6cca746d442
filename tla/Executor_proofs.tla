-------------------------- MODULE Executor_proofs --------------------------
(***************************************************************************)
(* What a task that reads a file or stored data gets, and what a Udp task  *)
(* gets, how much a directory holds and why a store is refused, for any    *)
(* number of processes, directories, tasks, faults and replies.            *)
(***************************************************************************)
EXTENDS Executor, SequenceTheorems, FiniteSetTheorems, TLAPS

-----------------------------------------------------------------------------
(* The inductive invariant *)

\* Types, as far as the proofs need them, and where a process is with what task.
Shape ==
    /\ scene  \in Scenes
    /\ pc     \in [Procs -> Steps]
    /\ task   \in [Procs -> Tasks \cup {NoTask}]
    /\ DOMAIN out = Procs
    /\ memory \in [Procs -> [Names -> Tasks \cup {NoTask}]]
    /\ disk   \in [Dirs -> [Names -> Seq(Tasks) \cup {Absent}]]
    /\ kept   \in [Dirs -> [Names -> Tasks \cup {NoTask}]]
    /\ inbox  \in [Procs -> Seq(Seq(Tasks))]
    /\ turn   \in [Procs -> Nat]
    /\ sock   \in [Procs -> Nat]
    /\ asked  \subseteq [proc : Procs, task : Tasks, sock : Nat, left : Nat]
    /\ \A p \in Procs : /\ pc[p] # "down" => p \in Running
                        /\ pc[p] \in {"down", "idle"} <=> task[p] = NoTask
                        /\ pc[p] = "size" => Kind(p) = "StoreData"
                        /\ Storing(p) => Kind(p) \in {"StoreData", "DiskWrite"}
                        /\ Writing(p) => disk[Dir(p)][Name(p)] # Absent
                        /\ pc[p] = "wait" => sock[p] \in 0..Len(inbox[p])

\* A file shows its last write.  One that a process has emptied and is about to
\* write is empty, and nobody else is writing it, unless it counts as broken.
Shown(t) == IF t = NoTask THEN Absent ELSE Payload(t)

Files ==
    \A d \in Dirs, n \in Names : <<d, n>> \notin broken =>
        /\ WritersOf(d, n) = {} => disk[d][n] = Shown(kept[d][n])
        /\ \A p \in WritersOf(d, n) : disk[d][n] = <<>> /\ WritersOf(d, n) = {p}

\* What was last stored under a name is in the memory or the file where it is.
Stored ==
    /\ stored \in [Names -> [task : Tasks \cup {NoTask}, at : Procs \cup Dirs \cup {Nowhere}]]
    /\ \A n \in Names, p \in Procs : stored[n].at = p => memory[p][n] = stored[n].task
    /\ \A n \in Names, d \in Dirs : stored[n].at = d => kept[d][n] = stored[n].task

\* A socket that got no stray datagram holds at most the reply its process waits
\* for, and then the datagram replied to is no longer to be answered for the first
\* time.
Replies ==
    \A p \in Procs \ stray : \A s \in DOMAIN inbox[p] : inbox[p][s] # <<>> =>
        /\ pc[p] = "wait" /\ sock[p] = s /\ inbox[p][s] = <<task[p]>>
        /\ \A a \in asked : a.proc = p /\ a.sock = s /\ a.task = task[p] => a.left # scene.replies

-----------------------------------------------------------------------------
\* A process that runs is configured, and keeps its files in one of the directories.
LEMMA ConfigTypes == ASSUME Shape, NEW p \in Running PROVE Conf(p) \in Config /\ Dir(p) \in Dirs
  BY ExecutorAssumption DEF Shape, Running, Conf, Dir, Config

LEMMA PayloadType == ASSUME NEW t \in Tasks
                     PROVE  /\ Payload(t) \in Seq(Tasks)
                            /\ Payload(t) # Absent /\ Payload(t) # <<>>
                            /\ Len(Payload(t)) = TaskSize[t]
<1>1. TaskSize[t] \in Nat \ {0}
  BY ExecutorAssumption
<1>2. Payload(t) \in [1..TaskSize[t] -> Tasks]
  BY DEF Payload
<1>3. Payload(t) \in Seq(Tasks)
  BY <1>1, <1>2
<1>4. Len(Payload(t)) = TaskSize[t]
  BY <1>1 DEF Payload
<1>5. Payload(t) # Absent
  BY <1>3, ExecutorAssumption
<1>6. Payload(t) # <<>>
  BY <1>1, <1>4
<1> QED
  BY <1>3, <1>4, <1>5, <1>6

LEMMA OverlayType == ASSUME NEW file \in Seq(Tasks), NEW t \in Tasks
                     PROVE  Overlay(file, t) \in Seq(Tasks)
<1>1. Payload(t) \in Seq(Tasks)
  BY PayloadType
<1>2. TaskSize[t] + 1 \in Int /\ TaskSize[t] \in Nat /\ Len(file) \in Int
  BY ExecutorAssumption
<1>3. \A i \in (TaskSize[t] + 1)..Len(file) : file[i] \in Tasks
  BY <1>2
<1>4. SubSeq(file, TaskSize[t] + 1, Len(file)) \in Seq(Tasks)
  BY <1>2, <1>3, SubSeqProperties
<1> QED
  BY <1>1, <1>4, ConcatProperties DEF Overlay

\* Written to an empty file, a payload is all there is.
LEMMA OverlayEmpty == ASSUME NEW t \in Tasks PROVE Overlay(<<>>, t) = Payload(t)
<1>1. Payload(t) \in Seq(Tasks)
  BY PayloadType
<1>2. TaskSize[t] + 1 \in Int /\ 0 \in Int /\ 0 < TaskSize[t] + 1 /\ Len(<<>>) = 0
  BY ExecutorAssumption
<1>3. SubSeq(<<>>, TaskSize[t] + 1, Len(<<>>)) = <<>>
  BY <1>2, SubSeqEmpty
<1> QED
  BY <1>1, <1>3, ConcatEmptySeq DEF Overlay

-----------------------------------------------------------------------------
(* Shape *)

LEMMA ShapeInit == ExecutorInit => Shape
  BY ExecutorAssumption DEF ExecutorInit, Shape, Steps, Storing, Writing

\* A task gets its result, and at most memory is written on the way.
LEMMA ShapeYields ==
    ASSUME Shape, NEW p \in Procs, pc[p] \notin {"down", "idle"},
           NEW result, Yields(p, result),
           UNCHANGED <<scene, task, sock, disk, inbox, turn>>, asked' \subseteq asked,
           memory' \in [Procs -> [Names -> Tasks \cup {NoTask}]],
           kept' \in [Dirs -> [Names -> Tasks \cup {NoTask}]]
    PROVE  Shape'
<1>1. pc' = [pc EXCEPT ![p] = "reply"] /\ DOMAIN out' = DOMAIN out
  BY DEF Yields
<1>2. pc' \in [Procs -> Steps] /\ \A q \in Procs : pc'[q] = pc[q] \/ (q = p /\ pc'[q] = "reply")
  BY <1>1 DEF Shape, Steps
<1>3. \A q \in Procs : /\ Dir(q)' = Dir(q) /\ Name(q)' = Name(q) /\ Kind(q)' = Kind(q)
                       /\ (Storing(q)' => Storing(q)) /\ (Writing(q)' => Writing(q))
  BY <1>2 DEF Dir, Conf, Name, Kind, Storing, Writing
<1>4. Running' = Running
  BY DEF Running
<1> QED
  BY <1>1, <1>2, <1>3, <1>4 DEF Shape

LEMMA ShapeStep == Shape /\ [ExecutorNext]_vars => Shape'
<1> SUFFICES ASSUME Shape, [ExecutorNext]_vars PROVE Shape'
  OBVIOUS
<1> USE DEF Shape
<1>0. CASE UNCHANGED vars
  BY <1>0 DEF vars, procVars, diskVars, udpVars, envVars, Kind, Storing, Running, Writing, Dir, Conf, Name
<1>1. ASSUME NEW p \in Procs, Reply(p) PROVE Shape'
  BY <1>1 DEF Reply, procVars, diskVars, udpVars, envVars, Local, Yields, Goes, Steps, Kind, Storing, Running, Writing, Dir, Conf, Name
<1>2. ASSUME NEW p \in Procs, Evaluate(p) PROVE Shape'
  <2>1. PICK type \in Outcomes : Yields(p, [type |-> type])
    BY <1>2 DEF Evaluate
  <2> QED
    BY <1>2, <2>1, ShapeYields DEF Evaluate, Local, diskVars, udpVars, envVars
<1>3. ASSUME NEW p \in Procs, StoreInMemory(p) PROVE Shape'
  <2>1. task[p] \in Tasks
    BY <1>3 DEF StoreInMemory
  <2>2. /\ memory' \in [Procs -> [Names -> Tasks \cup {NoTask}]]
        /\ kept' \in [Dirs -> [Names -> Tasks \cup {NoTask}]]
    BY <1>3, <2>1 DEF StoreInMemory
  <2> QED
    BY <1>3, <2>2, ShapeYields DEF StoreInMemory, Local, diskVars, udpVars, envVars
<1>4. ASSUME NEW p \in Procs, Retrieve(p) PROVE Shape'
  BY <1>4, ShapeYields DEF Retrieve, Local, diskVars, udpVars, envVars
<1>5. ASSUME NEW p \in Procs, DiskRead(p) PROVE Shape'
  BY <1>5, ShapeYields DEF DiskRead, Local, diskVars, udpVars, envVars
<1>6. ASSUME NEW p \in Procs, Statistics(p) \/ RejectsPath(p) PROVE Shape'
  BY <1>6, ShapeYields DEF Statistics, RejectsPath, Local, diskVars, udpVars, envVars
<1>7. ASSUME NEW p \in Procs, Measure(p) PROVE Shape'
  <2>1. \/ pc' = [pc EXCEPT ![p] = "reply"] /\ DOMAIN out' = DOMAIN out
        \/ pc' = [pc EXCEPT ![p] = "open"] /\ out' = out
    BY <1>7 DEF Measure, Yields, Goes
  <2>2. pc[p] = "size" /\ UNCHANGED <<scene, task, sock, memory, disk, kept, inbox, turn, asked>>
    BY <1>7 DEF Measure, diskVars, udpVars, envVars
  <2>3. CASE pc' = [pc EXCEPT ![p] = "reply"] /\ DOMAIN out' = DOMAIN out
    BY <2>2, <2>3 DEF Steps, Kind, Storing, Running, Writing, Dir, Conf, Name
  <2>4. CASE pc' = [pc EXCEPT ![p] = "open"] /\ out' = out
    BY <2>2, <2>4 DEF Steps, Kind, Storing, Running, Writing, Dir, Conf, Name
  <2> QED
    BY <2>1, <2>3, <2>4
<1>8. ASSUME NEW p \in Procs, Open(p) PROVE Shape'
  <2>1. task[p] \in Tasks /\ p \in Running /\ Dir(p) \in Dirs /\ Name(p) \in Names
    BY <1>8, ConfigTypes, ExecutorAssumption DEF Open, Name
  <2>a. <<>> \in Seq(Tasks)
    BY EmptySeq
  <2>b. <<>> # Absent
    BY <2>a, ExecutorAssumption
  <2>c. disk' = [disk EXCEPT ![Dir(p)][Name(p)] = <<>>]
    BY <1>8 DEF Open
  <2>2. disk' \in [Dirs -> [Names -> Seq(Tasks) \cup {Absent}]]
    BY <2>1, <2>a, <2>c
  <2>3. \A d \in Dirs, n \in Names : disk[d][n] # Absent => disk'[d][n] # Absent
    BY <2>1, <2>b, <2>c
  <2>4. disk'[Dir(p)][Name(p)] # Absent
    BY <2>1, <2>b, <2>c
  <2>5. \A q \in Procs : Writing(q) => Dir(q) \in Dirs /\ Name(q) \in Names
    BY ConfigTypes, ExecutorAssumption DEF Name, Writing
  <2>6. pc[p] = "open" /\ pc' = [pc EXCEPT ![p] = "fill"]
        /\ UNCHANGED <<scene, task, out, memory, kept, inbox, turn, sock, asked>>
    BY <1>8 DEF Open, Goes, udpVars, envVars
  <2>7. \A q \in Procs : (Writing(q) => disk[Dir(q)][Name(q)] # Absent)
                         => (Writing(q)' => disk'[Dir(q)][Name(q)] # Absent)
    BY <2>3, <2>4, <2>5, <2>6 DEF Writing
  <2>8. \A q \in Procs : /\ Dir(q)' = Dir(q) /\ Name(q)' = Name(q) /\ Kind(q)' = Kind(q)
                         /\ Storing(q)' <=> Storing(q)
    BY <2>6 DEF Dir, Conf, Name, Kind, Storing
  <2>9. Running' = Running
    BY <2>6 DEF Running
  <2> QED
    BY <2>2, <2>6, <2>7, <2>8, <2>9 DEF Steps
<1>9. ASSUME NEW p \in Procs, Fill(p) PROVE Shape'
  <2>1. task[p] \in Tasks /\ p \in Running /\ Dir(p) \in Dirs /\ Name(p) \in Names
    BY <1>9, ConfigTypes, ExecutorAssumption DEF Fill, Name
  <2>2. Overlay(disk[Dir(p)][Name(p)], task[p]) \in Seq(Tasks)
    BY <1>9, <2>1, OverlayType DEF Fill, Writing
  <2>3. disk' \in [Dirs -> [Names -> Seq(Tasks) \cup {Absent}]]
    BY <1>9, <2>1, <2>2 DEF Fill
  <2>4. \A d \in Dirs, n \in Names : disk[d][n] # Absent => disk'[d][n] # Absent
    BY <1>9, <2>1, <2>2, ExecutorAssumption DEF Fill
  <2>5. kept' \in [Dirs -> [Names -> Tasks \cup {NoTask}]]
    BY <1>9, <2>1 DEF Fill
  <2>6. \A q \in Procs : Writing(q) => Dir(q) \in Dirs /\ Name(q) \in Names
    BY ConfigTypes, ExecutorAssumption DEF Name, Writing
  <2>7. pc[p] = "fill" /\ pc' = [pc EXCEPT ![p] = "reply"] /\ DOMAIN out' = DOMAIN out
        /\ UNCHANGED <<scene, task, memory, inbox, turn, sock, asked>>
    BY <1>9 DEF Fill, Yields, udpVars, envVars
  <2>8. \A q \in Procs : Writing(q)' => Writing(q) /\ disk'[Dir(q)][Name(q)] # Absent
    BY <2>4, <2>6, <2>7 DEF Writing
  <2>9. \A q \in Procs : /\ Dir(q)' = Dir(q) /\ Name(q)' = Name(q) /\ Kind(q)' = Kind(q)
                         /\ Storing(q)' => Storing(q)
    BY <2>7 DEF Dir, Conf, Name, Kind, Storing
  <2>10. Running' = Running
    BY <2>7 DEF Running
  <2> QED
    BY <2>3, <2>5, <2>7, <2>8, <2>9, <2>10 DEF Steps
<1>10. ASSUME NEW p \in Procs, Ask(p) PROVE Shape'
  <2> DEFINE n == Len(inbox[p])
  <2>0. scene.replies \in Nat
    BY ExecutorAssumption
  <2>1. n \in Nat /\ task[p] \in Tasks
    <3>1. inbox[p] \in Seq(Seq(Tasks))
      OBVIOUS
    <3>2. Len(inbox[p]) \in Nat
      BY <3>1, LenProperties
    <3> QED
      BY <1>10, <3>2 DEF Ask
  <2>2. n > 0 => (turn[p] % n) + 1 \in 1..n /\ (turn[p] + 1) % n \in Nat
    BY <2>1
  <2>3. sock' \in [Procs -> Nat] /\ turn' \in [Procs -> Nat] /\ sock'[p] \in 0..n
        /\ \A q \in Procs \ {p} : sock'[q] = sock[q]
    <3>1. CASE Kind(p) = "Udp" /\ n > 0
      <4>1. sock' = [sock EXCEPT ![p] = (turn[p] % n) + 1] /\ turn' = [turn EXCEPT ![p] = (turn[p] + 1) % n]
        BY <1>10, <3>1 DEF Ask, UdpSocket, AfterSocket
      <4> QED
        BY <4>1, <2>1, <2>2, <3>1
    <3>2. CASE ~(Kind(p) = "Udp" /\ n > 0)
      BY <1>10, <2>1, <3>2 DEF Ask
    <3> QED
      BY <3>1, <3>2
  <2>4. asked' \subseteq [proc : Procs, task : Tasks, sock : Nat, left : Nat]
    BY <1>10, <2>0, <2>1, <2>3 DEF Ask
  <2> QED
    BY <1>10, <2>3, <2>4 DEF Ask, procVars, diskVars, udpVars, envVars, Local, Yields, Goes, Steps, Kind, Storing, Running, Writing, Dir, Conf, Name
<1>11. ASSUME NEW p \in Procs, Receive(p) PROVE Shape'
  <2> DEFINE s == sock[p]
  <2>1. pc[p] = "wait" /\ s > 0 /\ inbox[p][s] # <<>> /\ s \in 1..Len(inbox[p])
    BY <1>11 DEF Receive
  <2>2. inbox' = [inbox EXCEPT ![p][s] = Tail(@)]
    BY <1>11 DEF Receive
  <2>3. pc' = [pc EXCEPT ![p] = "reply"] /\ DOMAIN out' = DOMAIN out
        /\ UNCHANGED <<scene, task, memory, disk, kept, turn, sock, asked>>
    BY <1>11 DEF Receive, Yields, diskVars, envVars
  <2>4. inbox[p] \in Seq(Seq(Tasks)) /\ inbox[p][s] \in Seq(Tasks)
    BY <2>1
  <2>5. Tail(inbox[p][s]) \in Seq(Tasks)
    BY <2>1, <2>4, HeadTailProperties
  <2>6. [inbox[p] EXCEPT ![s] = Tail(inbox[p][s])] \in Seq(Seq(Tasks))
    BY <2>1, <2>4, <2>5, ExceptSeq
  <2>7. inbox' = [inbox EXCEPT ![p] = [inbox[p] EXCEPT ![s] = Tail(inbox[p][s])]]
    BY <2>2
  <2>8. inbox' \in [Procs -> Seq(Seq(Tasks))] /\ \A q \in Procs \ {p} : inbox'[q] = inbox[q]
    BY <2>6, <2>7
  <2>9. \A q \in Procs : /\ Dir(q)' = Dir(q) /\ Name(q)' = Name(q) /\ Kind(q)' = Kind(q)
                         /\ (Storing(q)' => Storing(q)) /\ (Writing(q)' => Writing(q))
    BY <2>3 DEF Dir, Conf, Name, Kind, Storing, Writing
  <2>10. Running' = Running
    BY <2>3 DEF Running
  <2>11. pc' \in [Procs -> Steps] /\ \A q \in Procs : pc'[q] = pc[q] \/ (q = p /\ pc'[q] = "reply")
    <3>1. pc \in [Procs -> Steps]
      OBVIOUS
    <3> HIDE DEF Shape
    <3>2. "reply" \in Steps
      BY DEF Steps
    <3> QED
      BY <2>3, <3>1, <3>2
  <2>12. \A q \in Procs : pc'[q] = "wait" => sock'[q] \in 0..Len(inbox'[q])
    <3> TAKE q \in Procs
    <3>1. CASE q = p
      BY <2>3, <3>1
    <3>2. CASE q # p
      BY <2>3, <2>8, <2>11, <3>2
    <3> QED
      BY <3>1, <3>2
  <2>13. \A q \in Procs : /\ pc'[q] # "down" => q \in Running'
                          /\ pc'[q] \in {"down", "idle"} <=> task'[q] = NoTask
                          /\ pc'[q] = "size" => Kind(q)' = "StoreData"
                          /\ Storing(q)' => Kind(q)' \in {"StoreData", "DiskWrite"}
                          /\ Writing(q)' => disk'[Dir(q)'][Name(q)'] # Absent
    BY <2>1, <2>3, <2>9, <2>10, <2>11
  <2> QED
    BY <2>3, <2>8, <2>11, <2>12, <2>13
<1>12. ASSUME NEW p \in Procs, Answered(p) PROVE Shape'
  BY <1>12, ShapeYields DEF Answered, diskVars, udpVars, envVars
<1>13. ASSUME NEW p \in Procs, Start(p) PROVE Shape'
  <2>1. p \in Running /\ pc[p] = "down" /\ pc' = [pc EXCEPT ![p] = "idle"]
        /\ UNCHANGED <<scene, task, out, disk, sock, asked>>
    BY <1>13 DEF Start, Goes
  <2>2. memory' \in [Procs -> [Names -> Tasks \cup {NoTask}]]
        /\ kept' \in [Dirs -> [Names -> Tasks \cup {NoTask}]]
        /\ turn' \in [Procs -> Nat]
    BY <1>13 DEF Start
  <2>3. inbox' \in [Procs -> Seq(Seq(Tasks))] /\ \A q \in Procs \ {p} : inbox'[q] = inbox[q]
    <3>a. PICK socks \in Bindings(p) : inbox' = [inbox EXCEPT ![p] = socks]
      BY <1>13 DEF Start
    <3>b. PICK k \in 0..Conf(p).ports : socks = [i \in 1..k |-> <<>>]
      BY <3>a DEF Bindings
    <3>1. inbox' = [inbox EXCEPT ![p] = [i \in 1..k |-> <<>>]]
      BY <3>a, <3>b
    <3>2. k \in Nat /\ <<>> \in Seq(Tasks)
      BY <2>1, ConfigTypes, EmptySeq DEF Config
    <3>3. [i \in 1..k |-> <<>>] \in [1..k -> Seq(Tasks)]
      BY <3>2
    <3>4. [i \in 1..k |-> <<>>] \in Seq(Seq(Tasks))
      BY <3>2, <3>3
    <3> QED
      BY <3>1, <3>4
  <2> QED
    BY <2>1, <2>2, <2>3 DEF Steps, Kind, Storing, Running, Writing, Dir, Conf, Name
<1>14. ASSUME NEW p \in Procs, Crash(p) PROVE Shape'
  <2>1. /\ pc' = [pc EXCEPT ![p] = "down"] /\ task' = [task EXCEPT ![p] = NoTask]
        /\ inbox' = [inbox EXCEPT ![p] = <<>>] /\ asked' \subseteq asked
        /\ UNCHANGED <<scene, out, memory, disk, kept, turn, sock>>
    BY <1>14 DEF Crash, Goes
  <2>2. inbox' \in [Procs -> Seq(Seq(Tasks))]
    BY <2>1, EmptySeq
  <2> QED
    BY <2>1, <2>2 DEF Steps, Kind, Storing, Running, Writing, Dir, Conf, Name
<1>15. ASSUME NEW p \in Procs, Reconnect(p) PROVE Shape'
  BY <1>15 DEF Reconnect, procVars, diskVars, udpVars, envVars, Local, Yields, Goes, Steps, Kind, Storing, Running, Writing, Dir, Conf, Name
<1>16. ASSUME NEW p \in Procs, Requeue(p) PROVE Shape'
  BY <1>16 DEF Requeue, procVars, diskVars, udpVars, envVars, Local, Yields, Goes, Steps, Kind, Storing, Running, Writing, Dir, Conf, Name
<1>17. ASSUME NEW p \in Procs, WriteFails(p) PROVE Shape'
  BY <1>17, ShapeYields DEF WriteFails, diskVars, udpVars, envVars, Storing
<1>18. ASSUME NEW p \in Procs, NetworkFails(p) \/ ReadFails(p) PROVE Shape'
  BY <1>18, ShapeYields DEF NetworkFails, ReadFails, diskVars, udpVars, envVars
<1>19. ASSUME NEW p \in Procs, NEW t \in Tasks, AssignTask(p, t) PROVE Shape'
  <2>1. t \in Tasks /\ t # NoTask /\ pc[p] = "idle" /\ task' = [task EXCEPT ![p] = t]
        /\ UNCHANGED <<scene, out, memory, disk, kept, inbox, turn, sock, asked>>
    BY <1>19, ExecutorAssumption DEF AssignTask, Goes, diskVars, udpVars
  <2>2. PICK s \in {"size", "open", "ask", "run"} :
             /\ pc' = [pc EXCEPT ![p] = s]
             /\ s = "size" => TaskKind[t] = "StoreData"
             /\ s = "open" => TaskKind[t] = "DiskWrite"
    BY <1>19 DEF AssignTask, Goes
  <2> QED
    BY <2>1, <2>2 DEF Steps, Kind, Storing, Running, Writing, Dir, Conf, Name
<1>20. ASSUME NEW a \in asked, Echo(a) PROVE Shape'
  <2> DEFINE p == a.proc
  <2>1. p \in Procs /\ a.task \in Tasks /\ a.sock \in Nat /\ a.left \in Nat \ {0}
    BY <1>20 DEF Echo
  <2>2. inbox[p] \in Seq(Seq(Tasks)) /\ a.sock \in 1..Len(inbox[p])
    BY <1>20, <2>1 DEF Echo
  <2>3. Append(inbox[p][a.sock], a.task) \in Seq(Tasks)
    BY <2>1, <2>2
  <2>4. [inbox[p] EXCEPT ![a.sock] = Append(inbox[p][a.sock], a.task)] \in Seq(Seq(Tasks))
        /\ Len([inbox[p] EXCEPT ![a.sock] = Append(inbox[p][a.sock], a.task)]) = Len(inbox[p])
    BY <2>2, <2>3, ExceptSeq
  <2>5. inbox' = [inbox EXCEPT ![p] = [inbox[p] EXCEPT ![a.sock] = Append(inbox[p][a.sock], a.task)]]
    BY <1>20, <2>1 DEF Echo
  <2>6. inbox' \in [Procs -> Seq(Seq(Tasks))] /\ \A q \in Procs : Len(inbox'[q]) = Len(inbox[q])
    BY <2>1, <2>4, <2>5
  <2>7. asked' \subseteq [proc : Procs, task : Tasks, sock : Nat, left : Nat]
    <3>1. [a EXCEPT !.left = a.left - 1] \in [proc : Procs, task : Tasks, sock : Nat, left : Nat]
      <4>1. a \in [proc : Procs, task : Tasks, sock : Nat, left : Nat] /\ a.left - 1 \in Nat
        BY <2>1
      <4> QED
        BY <4>1
    <3>2. asked' \subseteq asked \cup {[a EXCEPT !.left = a.left - 1]}
      BY <1>20 DEF Echo
    <3> QED
      BY <3>1, <3>2
  <2> QED
    BY <1>20, <2>6, <2>7 DEF Echo, procVars, diskVars, udpVars, envVars, Local, Yields, Goes, Steps, Kind, Storing, Running, Writing, Dir, Conf, Name
<1> QED
  BY <1>0, <1>1, <1>2, <1>3, <1>4, <1>5, <1>6, <1>7, <1>8, <1>9, <1>10, <1>11, <1>12, <1>13, <1>14, <1>15, <1>16, <1>17, <1>18, <1>19, <1>20 DEF ExecutorNext, Works, Faults

-----------------------------------------------------------------------------
(* Files *)

LEMMA FilesInit == ExecutorInit => Files
  BY ExecutorAssumption DEF ExecutorInit, Files, WritersOf, Sharers, Running, Writing, Shown

\* Who writes what depends on the steps that write and on their tasks.
LEMMA SameWriters ==
    ASSUME scene' = scene,
           \A q \in Procs : (Writing(q)' <=> Writing(q)) /\ (Writing(q) => task'[q] = task[q])
    PROVE  \A d, n : WritersOf(d, n)' = WritersOf(d, n)
  BY DEF WritersOf, Sharers, Running, Name, Dir, Conf

LEMMA FilesFrame ==
    ASSUME Files, UNCHANGED <<scene, disk, broken, kept>>,
           \A q \in Procs : (Writing(q)' <=> Writing(q)) /\ (Writing(q) => task'[q] = task[q])
    PROVE  Files'
<1>1. \A d, n : WritersOf(d, n)' = WritersOf(d, n)
  BY SameWriters
<1> QED
  BY <1>1 DEF Files, Shown, Payload

\* Of a process that writes a file that is not broken nothing is lost but by
\* breaking the file.
LEMMA FilesBreak ==
    ASSUME Files, NEW p \in Procs, UNCHANGED <<scene, disk, kept>>,
           broken' = broken \cup (IF Writing(p) THEN {<<Dir(p), Name(p)>>} ELSE {}),
           p \in Running, ~Writing(p)',
           \A q \in Procs \ {p} : (Writing(q)' <=> Writing(q)) /\ task'[q] = task[q]
    PROVE  Files'
<1>1. \A d, n : WritersOf(d, n)' = WritersOf(d, n) \ {p}
  BY DEF WritersOf, Sharers, Running, Name, Dir, Conf
<1>2. \A d, n : <<d, n>> \notin broken' => <<d, n>> \notin broken /\ p \notin WritersOf(d, n)
  BY DEF WritersOf, Sharers
<1>3. \A d, n : <<d, n>> \notin broken' => <<d, n>> \notin broken /\ WritersOf(d, n)' = WritersOf(d, n)
  BY <1>1, <1>2
<1> QED
  BY <1>3 DEF Files, Shown, Payload

LEMMA FilesOpen == ASSUME Shape, Files, NEW p \in Procs, Open(p) PROVE Files'
<1> DEFINE e == Dir(p)
           m == Name(p)
<1>1. task[p] \in Tasks /\ p \in Running /\ e \in Dirs /\ m \in Names /\ ~Writing(p)
  BY ConfigTypes, ExecutorAssumption DEF Open, Name, Shape, Writing
<1>2. /\ disk' = [disk EXCEPT ![e][m] = <<>>]
      /\ UNCHANGED <<scene, task, kept>>
      /\ pc' = [pc EXCEPT ![p] = "fill"]
      /\ broken' = IF WritersOf(e, m) = {} THEN broken \ {<<e, m>>} ELSE broken \cup {<<e, m>>}
  BY DEF Open, Goes, envVars
<1>a. e' = e /\ m' = m
  BY <1>2 DEF Dir, Conf, Name
<1>3. Writing(p)' /\ \A q \in Procs \ {p} : Writing(q)' <=> Writing(q)
  BY <1>2 DEF Writing, Shape
<1>4. \A d, n : WritersOf(d, n)' = WritersOf(d, n) \cup {x \in {p} : d = e /\ n = m}
  BY <1>1, <1>2, <1>3 DEF WritersOf, Sharers, Running, Name, Dir, Conf
<1>5. \A d \in Dirs, n \in Names : <<d, n>> # <<e, m>> =>
        /\ WritersOf(d, n)' = WritersOf(d, n) /\ disk'[d][n] = disk[d][n]
        /\ <<d, n>> \in broken' <=> <<d, n>> \in broken
  BY <1>1, <1>2, <1>4 DEF Shape
<1>6. disk'[e][m] = <<>>
  BY <1>1, <1>2 DEF Shape
<1>7. <<e, m>> \notin broken' => WritersOf(e, m)' = {p}
  <2> SUFFICES ASSUME <<e, m>> \notin broken' PROVE WritersOf(e, m)' = {p}
    OBVIOUS
  <2>1. WritersOf(e, m) = {}
    BY <1>2
  <2>2. WritersOf(e, m)' = WritersOf(e, m) \cup {p}
    BY <1>4, <1>a
  <2> QED
    BY <2>1, <2>2
<1>8. \A d \in Dirs, n \in Names : <<d, n>> \notin broken' =>
        /\ WritersOf(d, n)' = {} => disk'[d][n] = Shown(kept[d][n])
        /\ \A q \in WritersOf(d, n)' : disk'[d][n] = <<>> /\ WritersOf(d, n)' = {q}
  <2> TAKE d \in Dirs, n \in Names
  <2>1. CASE d = e /\ n = m
    BY <2>1, <1>6, <1>7, <1>a
  <2>2. CASE <<d, n>> # <<e, m>>
    BY <2>2, <1>5 DEF Files
  <2> QED
    BY <2>1, <2>2
<1>9. \A d \in Dirs, n \in Names : Shown(kept[d][n])' = Shown(kept[d][n])
  BY <1>2 DEF Shown, Payload
<1> QED
  BY <1>2, <1>8, <1>9 DEF Files

LEMMA FilesFill == ASSUME Shape, Files, NEW p \in Procs, Fill(p) PROVE Files'
<1> DEFINE e == Dir(p)
           m == Name(p)
           t == task[p]
<1>1. t \in Tasks /\ p \in Running /\ e \in Dirs /\ m \in Names /\ Writing(p)
  BY ConfigTypes, ExecutorAssumption DEF Fill, Name, Shape, Writing
<1>2. /\ disk' = [disk EXCEPT ![e][m] = Overlay(disk[e][m], t)]
      /\ kept' = [kept EXCEPT ![e][m] = t]
      /\ UNCHANGED <<scene, task, broken>>
      /\ pc' = [pc EXCEPT ![p] = "reply"]
  BY <1>1 DEF Fill, Yields, envVars, Shape
<1>a. e' = e /\ m' = m
  BY <1>2 DEF Dir, Conf, Name
<1>3. ~Writing(p)' /\ \A q \in Procs \ {p} : Writing(q)' <=> Writing(q)
  BY <1>2 DEF Writing, Shape
<1>4. \A d, n : WritersOf(d, n)' = WritersOf(d, n) \ {p}
  BY <1>2, <1>3 DEF WritersOf, Sharers, Running, Name, Dir, Conf
<1>5. p \in WritersOf(e, m) /\ \A d, n : <<d, n>> # <<e, m>> => p \notin WritersOf(d, n)
  BY <1>1 DEF WritersOf, Sharers
<1>6. \A d \in Dirs, n \in Names : <<d, n>> # <<e, m>> =>
        /\ WritersOf(d, n)' = WritersOf(d, n) /\ disk'[d][n] = disk[d][n]
        /\ kept'[d][n] = kept[d][n]
  <2> TAKE d \in Dirs, n \in Names
  <2> HAVE <<d, n>> # <<e, m>>
  <2>1. WritersOf(d, n)' = WritersOf(d, n)
    BY <1>4, <1>5
  <2>2. disk'[d][n] = disk[d][n]
    BY <1>1, <1>2 DEF Shape
  <2>3. kept'[d][n] = kept[d][n]
    BY <1>1, <1>2 DEF Shape
  <2> QED
    BY <2>1, <2>2, <2>3
<1>7. <<e, m>> \notin broken => WritersOf(e, m)' = {} /\ disk'[e][m] = Payload(t)
  <2> SUFFICES ASSUME <<e, m>> \notin broken PROVE WritersOf(e, m)' = {} /\ disk'[e][m] = Payload(t)
    OBVIOUS
  <2>1. disk[e][m] = <<>> /\ WritersOf(e, m) = {p}
    BY <1>1, <1>5 DEF Files
  <2>2. disk'[e][m] = Overlay(<<>>, t)
    BY <1>1, <1>2, <2>1 DEF Shape
  <2>3. WritersOf(e, m)' = WritersOf(e, m) \ {p}
    BY <1>4, <1>a
  <2> QED
    BY <1>1, <2>1, <2>2, <2>3, OverlayEmpty
<1>8. kept'[e][m] = t
  BY <1>1, <1>2 DEF Shape
<1>9. \A d \in Dirs, n \in Names : <<d, n>> \notin broken =>
        /\ WritersOf(d, n)' = {} => disk'[d][n] = Shown(kept'[d][n])
        /\ \A q \in WritersOf(d, n)' : disk'[d][n] = <<>> /\ WritersOf(d, n)' = {q}
  <2> TAKE d \in Dirs, n \in Names
  <2>1. CASE d = e /\ n = m
    <3>1. t # NoTask
      BY <1>1, ExecutorAssumption
    <3>2. Shown(kept'[d][n]) = Payload(t)
      BY <2>1, <3>1, <1>8 DEF Shown
    <3> QED
      BY <2>1, <3>2, <1>7, <1>a
  <2>2. CASE <<d, n>> # <<e, m>>
    BY <2>2, <1>6 DEF Files
  <2> QED
    BY <2>1, <2>2
<1> QED
  BY <1>2, <1>8, <1>9 DEF Files, Shown, Payload

LEMMA FilesStep == Shape /\ Files /\ [ExecutorNext]_vars => Files'
<1> SUFFICES ASSUME Shape, Files, [ExecutorNext]_vars PROVE Files'
  OBVIOUS
<1>0. CASE UNCHANGED vars
  BY <1>0, FilesFrame DEF vars, procVars, diskVars, envVars, Writing
<1>1. ASSUME NEW p \in Procs, Reply(p) PROVE Files'
  BY <1>1, FilesFrame DEF Reply, procVars, diskVars, udpVars, envVars, Local, Yields, Goes, Writing, Shape
<1>2. ASSUME NEW p \in Procs, Evaluate(p) PROVE Files'
  BY <1>2, FilesFrame DEF Evaluate, procVars, diskVars, udpVars, envVars, Local, Yields, Goes, Writing, Shape
<1>3. ASSUME NEW p \in Procs, Retrieve(p) PROVE Files'
  BY <1>3, FilesFrame DEF Retrieve, procVars, diskVars, udpVars, envVars, Local, Yields, Goes, Writing, Shape
<1>4. ASSUME NEW p \in Procs, DiskRead(p) PROVE Files'
  BY <1>4, FilesFrame DEF DiskRead, procVars, diskVars, udpVars, envVars, Local, Yields, Goes, Writing, Shape
<1>5. ASSUME NEW p \in Procs, Statistics(p) \/ RejectsPath(p) PROVE Files'
  BY <1>5, FilesFrame DEF Statistics, RejectsPath, procVars, diskVars, udpVars, envVars, Local, Yields, Goes, Writing, Shape
<1>6. ASSUME NEW p \in Procs, Measure(p) PROVE Files'
  BY <1>6, FilesFrame DEF Measure, procVars, diskVars, udpVars, envVars, Local, Yields, Goes, Writing, Shape
<1>7. ASSUME NEW p \in Procs, Ask(p) PROVE Files'
  BY <1>7, FilesFrame DEF Ask, procVars, diskVars, udpVars, envVars, Local, Yields, Goes, Writing, Shape
<1>8. ASSUME NEW p \in Procs, Receive(p) PROVE Files'
  BY <1>8, FilesFrame DEF Receive, procVars, diskVars, udpVars, envVars, Local, Yields, Goes, Writing, Shape
<1>9. ASSUME NEW p \in Procs, Answered(p) PROVE Files'
  BY <1>9, FilesFrame DEF Answered, procVars, diskVars, udpVars, envVars, Local, Yields, Goes, Writing, Shape
<1>10. ASSUME NEW p \in Procs, Reconnect(p) PROVE Files'
  BY <1>10, FilesFrame DEF Reconnect, procVars, diskVars, udpVars, envVars, Local, Yields, Goes, Writing, Shape
<1>11. ASSUME NEW p \in Procs, Requeue(p) PROVE Files'
  BY <1>11, FilesFrame DEF Requeue, procVars, diskVars, udpVars, envVars, Local, Yields, Goes, Writing, Shape
<1>12. ASSUME NEW p \in Procs, NetworkFails(p) \/ ReadFails(p) PROVE Files'
  BY <1>12, FilesFrame DEF NetworkFails, ReadFails, procVars, diskVars, udpVars, envVars, Local, Yields, Goes, Writing, Shape
<1>13. ASSUME NEW p \in Procs, NEW t \in Tasks, AssignTask(p, t) PROVE Files'
  BY <1>13, FilesFrame DEF AssignTask, procVars, diskVars, udpVars, envVars, Local, Yields, Goes, Writing, Shape
<1>14. ASSUME NEW a \in asked, Echo(a) PROVE Files'
  BY <1>14, FilesFrame DEF Echo, procVars, diskVars, udpVars, envVars, Local, Yields, Goes, Writing, Shape
<1>15. ASSUME NEW p \in Procs, Crash(p) PROVE Files'
  BY <1>15, FilesBreak DEF Crash, procVars, diskVars, udpVars, envVars, Local, Yields, Goes, Writing, Shape, Storing
<1>16. ASSUME NEW p \in Procs, WriteFails(p) PROVE Files'
  BY <1>16, FilesBreak DEF WriteFails, procVars, diskVars, udpVars, envVars, Local, Yields, Goes, Writing, Shape, Storing
<1>17. ASSUME NEW p \in Procs, StoreInMemory(p) PROVE Files'
  BY <1>17, FilesFrame DEF StoreInMemory, procVars, diskVars, udpVars, envVars, Local, Yields, Goes, Writing, Shape
<1>18. ASSUME NEW p \in Procs, Start(p) PROVE Files'
  BY <1>18, FilesFrame DEF Start, procVars, diskVars, udpVars, envVars, Local, Yields, Goes, Writing, Shape
<1>19. ASSUME NEW p \in Procs, Open(p) \/ Fill(p) PROVE Files'
  BY <1>19, FilesOpen, FilesFill
<1> QED
  BY <1>0, <1>1, <1>2, <1>3, <1>4, <1>5, <1>6, <1>7, <1>8, <1>9, <1>10, <1>11, <1>12, <1>13, <1>14, <1>15, <1>16, <1>17, <1>18, <1>19 DEF ExecutorNext, Works, Faults

-----------------------------------------------------------------------------
(* What is stored *)

LEMMA StoredInit == ExecutorInit => Stored
  BY ExecutorAssumption DEF ExecutorInit, Stored

\* Only a store, a write of a file and a restart move what was stored.
LEMMA StoredStep == Shape /\ Stored /\ [ExecutorNext]_vars => Stored'
<1> SUFFICES ASSUME Shape, Stored, [ExecutorNext]_vars PROVE Stored'
  OBVIOUS
<1>1. ASSUME NEW p \in Procs, StoreInMemory(p) PROVE Stored'
  <2>1. task[p] \in Tasks /\ Name(p) \in Names
    BY <1>1, ExecutorAssumption DEF StoreInMemory, Shape, Name
  <2>2. /\ stored' = [stored EXCEPT ![Name(p)] = [task |-> task[p], at |-> p]]
        /\ memory' = [memory EXCEPT ![p][Name(p)] = task[p]]
        /\ UNCHANGED kept
    BY <1>1 DEF StoreInMemory
  <2> QED
    BY <2>1, <2>2, ExecutorAssumption DEF Stored, Shape
<1>2. ASSUME NEW p \in Procs, Fill(p) PROVE Stored'
  <2> DEFINE d == Dir(p)
             n == Name(p)
             t == task[p]
  <2>1. t \in Tasks /\ n \in Names /\ d \in Dirs
    BY <1>2, ConfigTypes, ExecutorAssumption DEF Fill, Shape, Name
  <2>2. /\ kept' = [kept EXCEPT ![d][n] = t]
        /\ UNCHANGED memory
        /\ \/ stored' = [stored EXCEPT ![n] = [task |-> t, at |-> d]]
           \/ stored' = stored /\ stored[n].at # d
    BY <1>2 DEF Fill
  <2> HIDE DEF d, n, t
  <2>3. CASE stored' = [stored EXCEPT ![n] = [task |-> t, at |-> d]]
    BY <2>1, <2>2, <2>3, ExecutorAssumption DEF Stored, Shape
  <2>4. CASE stored' = stored /\ stored[n].at # d
    BY <2>1, <2>2, <2>4 DEF Stored, Shape
  <2> QED
    BY <2>2, <2>3, <2>4
<1>3. ASSUME NEW p \in Procs, Start(p) PROVE Stored'
  <2>1. \A n \in Names : stored'[n] = IF stored[n].at = p THEN [stored[n] EXCEPT !.at = Nowhere] ELSE stored[n]
    BY <1>3 DEF Start, Stored
  <2>2. /\ \A q \in Procs \ {p} : memory'[q] = memory[q]
        /\ DOMAIN stored' = Names /\ stored' = [n \in Names |-> stored'[n]] /\ UNCHANGED kept
    BY <1>3 DEF Start, Shape
  <2>3. \A n \in Names : \/ stored'[n].at = Nowhere /\ stored'[n].task = stored[n].task
                         \/ stored'[n] = stored[n] /\ stored[n].at # p
    BY <2>1 DEF Stored
  <2>4. \A n \in Names : stored'[n] \in [task : Tasks \cup {NoTask}, at : Procs \cup Dirs \cup {Nowhere}]
    BY <2>1 DEF Stored
  <2>5. stored' \in [Names -> [task : Tasks \cup {NoTask}, at : Procs \cup Dirs \cup {Nowhere}]]
    BY <2>2, <2>4
  <2>6. ASSUME NEW n \in Names, NEW q \in Procs, stored'[n].at = q PROVE memory'[q][n] = stored'[n].task
    <3>1. stored'[n] = stored[n] /\ q # p
      BY <2>3, <2>6, ExecutorAssumption
    <3> QED
      BY <2>2, <2>6, <3>1 DEF Stored
  <2>7. ASSUME NEW n \in Names, NEW d \in Dirs, stored'[n].at = d PROVE kept'[d][n] = stored'[n].task
    <3>1. stored'[n] = stored[n]
      BY <2>3, <2>7, ExecutorAssumption
    <3> QED
      BY <2>2, <2>7, <3>1 DEF Stored
  <2> QED
    BY <2>5, <2>6, <2>7 DEF Stored
<1>4. CASE UNCHANGED <<memory, kept, stored>>
  BY <1>4 DEF Stored
<1>5. ASSUME NEW p \in Procs,
             Works(p) \/ Answered(p) \/ Faults(p) \/ \E t \in Tasks : AssignTask(p, t)
      PROVE  UNCHANGED <<memory, kept, stored>> \/ StoreInMemory(p) \/ Fill(p)
  BY <1>5 DEF Works, Reply, Evaluate, Retrieve, DiskRead, RejectsPath, Statistics, Measure, Open,
              Ask, Receive, Answered, Faults, Crash, Reconnect, Requeue, ReadFails, WriteFails,
              NetworkFails, AssignTask
<1>6. ASSUME NEW a \in asked, Echo(a) PROVE UNCHANGED <<memory, kept, stored>>
  BY <1>6 DEF Echo
<1>7. UNCHANGED vars => UNCHANGED <<memory, kept, stored>>
  BY DEF vars
<1> QED
  BY <1>1, <1>2, <1>3, <1>4, <1>5, <1>6, <1>7 DEF ExecutorNext

-----------------------------------------------------------------------------
(* Datagrams *)

LEMMA RepliesInit == ExecutorInit => Replies /\ OwnReply
  BY DEF ExecutorInit, Replies, OwnReply

LEMMA RepliesFrame ==
    ASSUME Replies, UNCHANGED <<scene, inbox, sock, asked, stray>>,
           \A q \in Procs : pc[q] = "wait" => pc'[q] = "wait" /\ task'[q] = task[q]
    PROVE  Replies'
  BY DEF Replies

\* A first reply to the datagram of a process that waits finds the socket empty.
LEMMA RepliesEcho == ASSUME Shape, Replies, NEW a \in asked, Echo(a) PROVE Replies'
<1> DEFINE p == a.proc
           s == a.sock
           b == [a EXCEPT !.left = a.left - 1]
<1>1. p \in Procs /\ a.left \in Nat \ {0} /\ s \in DOMAIN inbox[p]
      /\ a \in [proc : Procs, task : Tasks, sock : Nat, left : Nat]
  BY DEF Echo, Shape
<1>2. UNCHANGED <<scene, pc, task, sock>> /\ asked' \subseteq (asked \ {a}) \cup {b}
      /\ inbox' = [inbox EXCEPT ![p][s] = Append(inbox[p][s], a.task)]
  BY DEF Echo, procVars, envVars
<1>3. SUFFICES ASSUME NEW q \in Procs, q \notin stray', NEW r \in DOMAIN inbox'[q], inbox'[q][r] # <<>>
               PROVE  /\ pc[q] = "wait" /\ sock[q] = r /\ inbox'[q][r] = <<task[q]>>
                      /\ \A c \in asked' : c.proc = q /\ c.sock = r /\ c.task = task[q] => c.left # scene.replies
  <2>1. \A q \in Procs : pc'[q] = pc[q] /\ task'[q] = task[q] /\ sock'[q] = sock[q] /\ scene' = scene
    BY <1>2
  <2> HIDE DEF p, s, b
  <2> QED
    BY <2>1 DEF Replies
<1>4. q \notin stray
  BY <1>3 DEF Echo
<1>5. b.proc = p /\ b.sock = s /\ b.task = a.task /\ b.left = a.left - 1
  BY <1>1
<1>6. CASE q = p /\ r = s
  <2>1. pc[p] = "wait" /\ task[p] = a.task /\ a.left = scene.replies /\ sock[p] = s
    BY <1>3, <1>6 DEF Echo
  <2>2. inbox[p][s] = <<>>
    BY <1>1, <1>4, <1>6, <2>1 DEF Replies
  <2>3. inbox'[p][s] = <<a.task>>
    BY <1>1, <1>2, <2>2 DEF Shape
  <2>4. \A c \in asked' : c.proc = p /\ c.sock = s /\ c.task = task[p] => c.left # scene.replies
    <3> TAKE c \in asked'
    <3> HAVE c.proc = p /\ c.sock = s /\ c.task = task[p]
    <3>1. CASE c = b
      BY <3>1, <1>1, <1>5, <2>1
    <3>2. CASE c \in asked /\ c # a
      <4>1. c \in [proc : Procs, task : Tasks, sock : Nat, left : Nat]
        BY <3>2 DEF Shape
      <4>2. c.left # a.left
        BY <3>2, <4>1, <1>1, <2>1
      <4> QED
        BY <4>2, <2>1
    <3> QED
      BY <3>1, <3>2, <1>2
  <2> QED
    BY <1>6, <2>1, <2>3, <2>4
<1>7. CASE ~(q = p /\ r = s)
  <2>1. r \in DOMAIN inbox[q] /\ inbox'[q][r] = inbox[q][r]
    BY <1>1, <1>2, <1>3, <1>7 DEF Shape
  <2>2. /\ pc[q] = "wait" /\ sock[q] = r /\ inbox[q][r] = <<task[q]>>
        /\ \A c \in asked : c.proc = q /\ c.sock = r /\ c.task = task[q] => c.left # scene.replies
    BY <1>3, <1>4, <2>1 DEF Replies
  <2> QED
    BY <1>2, <1>5, <1>7, <2>1, <2>2
<1> QED
  BY <1>6, <1>7

\* Asking: no socket holds anything by then.
LEMMA RepliesAsk == ASSUME Shape, Replies, NEW p \in Procs, Ask(p) PROVE Replies'
<1>1. pc[p] = "ask" /\ UNCHANGED <<scene, task, inbox, stray>>
      /\ \A q \in Procs \ {p} : pc'[q] = pc[q] /\ sock'[q] = sock[q]
      /\ \A a \in asked' : a \in asked \/ a.proc = p
  BY DEF Ask, Goes, envVars, Shape
<1>2. \A s \in DOMAIN inbox[p] : p \notin stray => inbox[p][s] = <<>>
  BY <1>1 DEF Replies
<1> QED
  BY <1>1, <1>2 DEF Replies

\* Receiving empties the socket, and the reply is the task's own.
LEMMA RepliesReceive ==
    ASSUME Shape, Replies, NEW p \in Procs, Receive(p)
    PROVE  Replies' /\ (p \notin stray => out'[p].data = <<task[p]>>) /\ sock[p] > 0
<1> DEFINE s == sock[p]
<1>1. /\ pc[p] = "wait" /\ s > 0 /\ inbox[p][s] # <<>> /\ s \in DOMAIN inbox[p]
      /\ inbox[p][s] \in Seq(Tasks) /\ task[p] \in Tasks
      /\ inbox' = [inbox EXCEPT ![p][s] = Tail(inbox[p][s])]
      /\ pc' = [pc EXCEPT ![p] = "reply"]
      /\ UNCHANGED <<scene, task, sock, asked, stray>>
      /\ out'[p] = [type |-> "Bytes", data |-> <<Head(inbox[p][s])>>]
  <2>1. pc[p] = "wait" /\ s > 0 /\ inbox[p][s] # <<>>
    BY DEF Receive
  <2>2. inbox[p] \in Seq(Seq(Tasks)) /\ s \in 1..Len(inbox[p]) /\ task[p] \in Tasks
    <3>1. inbox[p] \in Seq(Seq(Tasks)) /\ task[p] \in Tasks /\ s \in 0..Len(inbox[p])
      BY <2>1 DEF Shape
    <3>2. Len(inbox[p]) \in Nat
      BY <3>1, LenProperties
    <3> QED
      BY <2>1, <3>1, <3>2
  <2>3. s \in DOMAIN inbox[p] /\ inbox[p][s] \in Seq(Tasks)
    BY <2>2
  <2> QED
    BY <2>1, <2>2, <2>3 DEF Receive, Yields, envVars, Shape
<1>2. p \notin stray => inbox[p][s] = <<task[p]>>
  BY <1>1 DEF Replies
<1>3. p \notin stray => Tail(inbox[p][s]) = <<>> /\ Head(inbox[p][s]) = task[p]
  <2>1. Head(<<task[p]>>) = task[p] /\ <<task[p]>> \in Seq(Tasks) /\ <<task[p]>> # <<>>
    BY <1>1
  <2>2. Tail(<<task[p]>>) \in Seq(Tasks) /\ Len(Tail(<<task[p]>>)) = 0
    BY <2>1, HeadTailProperties
  <2>3. Tail(<<task[p]>>) = <<>>
    BY <2>2, EmptySeq
  <2> QED
    BY <1>2, <2>1, <2>3
<1>4. \A r \in DOMAIN inbox'[p] : r \in DOMAIN inbox[p] /\ (p \notin stray => inbox'[p][r] = <<>>)
  BY <1>1, <1>3 DEF Replies, Shape
<1>5. Replies'
  BY <1>1, <1>4 DEF Replies, Shape
<1> QED
  BY <1>1, <1>3, <1>5

LEMMA RepliesStep == Shape /\ Replies /\ [ExecutorNext]_vars => Replies'
<1> SUFFICES ASSUME Shape, Replies, [ExecutorNext]_vars PROVE Replies'
  OBVIOUS
<1>0. CASE UNCHANGED vars
  BY <1>0, RepliesFrame DEF vars, procVars, udpVars, envVars
<1>1. ASSUME NEW p \in Procs, Reply(p) PROVE Replies'
  BY <1>1, RepliesFrame DEF Reply, procVars, diskVars, udpVars, envVars, Local, Yields, Goes, Storing, Shape
<1>2. ASSUME NEW p \in Procs, Evaluate(p) PROVE Replies'
  BY <1>2, RepliesFrame DEF Evaluate, procVars, diskVars, udpVars, envVars, Local, Yields, Goes, Storing, Shape
<1>3. ASSUME NEW p \in Procs, StoreInMemory(p) PROVE Replies'
  BY <1>3, RepliesFrame DEF StoreInMemory, procVars, diskVars, udpVars, envVars, Local, Yields, Goes, Storing, Shape
<1>4. ASSUME NEW p \in Procs, Retrieve(p) PROVE Replies'
  BY <1>4, RepliesFrame DEF Retrieve, procVars, diskVars, udpVars, envVars, Local, Yields, Goes, Storing, Shape
<1>5. ASSUME NEW p \in Procs, DiskRead(p) PROVE Replies'
  BY <1>5, RepliesFrame DEF DiskRead, procVars, diskVars, udpVars, envVars, Local, Yields, Goes, Storing, Shape
<1>6. ASSUME NEW p \in Procs, Statistics(p) \/ RejectsPath(p) PROVE Replies'
  BY <1>6, RepliesFrame DEF Statistics, RejectsPath, procVars, diskVars, udpVars, envVars, Local, Yields, Goes, Storing, Shape
<1>7. ASSUME NEW p \in Procs, Measure(p) PROVE Replies'
  BY <1>7, RepliesFrame DEF Measure, procVars, diskVars, udpVars, envVars, Local, Yields, Goes, Storing, Shape
<1>8. ASSUME NEW p \in Procs, Open(p) PROVE Replies'
  BY <1>8, RepliesFrame DEF Open, procVars, diskVars, udpVars, envVars, Local, Yields, Goes, Storing, Shape
<1>9. ASSUME NEW p \in Procs, Fill(p) PROVE Replies'
  BY <1>9, RepliesFrame DEF Fill, procVars, diskVars, udpVars, envVars, Local, Yields, Goes, Storing, Shape
<1>10. ASSUME NEW p \in Procs, Reconnect(p) PROVE Replies'
  BY <1>10, RepliesFrame DEF Reconnect, procVars, diskVars, udpVars, envVars, Local, Yields, Goes, Storing, Shape
<1>11. ASSUME NEW p \in Procs, Requeue(p) PROVE Replies'
  BY <1>11, RepliesFrame DEF Requeue, procVars, diskVars, udpVars, envVars, Local, Yields, Goes, Storing, Shape
<1>12. ASSUME NEW p \in Procs, WriteFails(p) PROVE Replies'
  BY <1>12, RepliesFrame DEF WriteFails, procVars, diskVars, udpVars, envVars, Local, Yields, Goes, Storing, Shape
<1>13. ASSUME NEW p \in Procs, NetworkFails(p) \/ ReadFails(p) PROVE Replies'
  BY <1>13, RepliesFrame DEF NetworkFails, ReadFails, procVars, diskVars, udpVars, envVars, Local, Yields, Goes, Storing, Shape
<1>14. ASSUME NEW p \in Procs, NEW t \in Tasks, AssignTask(p, t) PROVE Replies'
  BY <1>14, RepliesFrame DEF AssignTask, procVars, diskVars, udpVars, envVars, Local, Yields, Goes, Storing, Shape
<1>15. ASSUME NEW p \in Procs, Answered(p) PROVE Replies'
  <2>1. \A s \in DOMAIN inbox[p] : p \notin stray => inbox[p][s] = <<>>
    BY <1>15 DEF Replies, Answered, Shape
  <2> QED
    BY <1>15, <2>1 DEF Replies, Answered, Yields, envVars, Shape
<1>16. ASSUME NEW p \in Procs, Crash(p) PROVE Replies'
  <2>1. inbox'[p] = <<>> /\ \A q \in Procs \ {p} : inbox'[q] = inbox[q] /\ pc'[q] = pc[q] /\ task'[q] = task[q]
    BY <1>16 DEF Crash, Goes, Shape
  <2>2. DOMAIN inbox'[p] = {} /\ asked' \subseteq asked /\ UNCHANGED <<scene, sock, stray>>
    BY <1>16, <2>1 DEF Crash
  <2> QED
    BY <2>1, <2>2 DEF Replies
<1>17. ASSUME NEW p \in Procs, Start(p) PROVE Replies'
  <2>1. PICK k \in 0..Conf(p).ports : inbox' = [inbox EXCEPT ![p] = [j \in 1..k |-> <<>>]]
    BY <1>17 DEF Start, Bindings
  <2>2. \A s \in DOMAIN inbox'[p] : inbox'[p][s] = <<>>
    BY <2>1 DEF Shape
  <2>3. (\A q \in Procs \ {p} : inbox'[q] = inbox[q] /\ pc'[q] = pc[q]) /\ stray' = stray \ {p}
    BY <1>17, <2>1 DEF Start, Goes, Shape
  <2>4. UNCHANGED <<scene, sock, asked, task>>
    BY <1>17 DEF Start
  <2>5. ASSUME NEW q \in Procs, q \notin stray', NEW s \in DOMAIN inbox'[q], inbox'[q][s] # <<>>
        PROVE  /\ pc'[q] = "wait" /\ sock'[q] = s /\ inbox'[q][s] = <<task'[q]>>
               /\ \A a \in asked' : a.proc = q /\ a.sock = s /\ a.task = task'[q] => a.left # scene'.replies
    <3>1. q # p
      BY <2>2, <2>5
    <3>2. inbox'[q] = inbox[q] /\ pc'[q] = pc[q] /\ q \notin stray
      BY <2>3, <2>5, <3>1
    <3> QED
      BY <2>4, <2>5, <3>2 DEF Replies
  <2> QED
    BY <2>5 DEF Replies
<1>18. ASSUME NEW p \in Procs, Ask(p) \/ Receive(p) PROVE Replies'
  BY <1>18, RepliesAsk, RepliesReceive
<1>19. ASSUME NEW a \in asked, Echo(a) PROVE Replies'
  BY <1>19, RepliesEcho
<1> QED
  BY <1>0, <1>1, <1>2, <1>3, <1>4, <1>5, <1>6, <1>7, <1>8, <1>9, <1>10, <1>11, <1>12, <1>13, <1>14, <1>15, <1>16, <1>17, <1>18, <1>19 DEF ExecutorNext, Works, Faults

\* A step that gives no process a reply to a datagram.
LEMMA OwnReplyFrame ==
    ASSUME OwnReply, NEW p \in Procs, UNCHANGED sock, stray \subseteq stray',
           \A q \in Procs \ {p} : pc'[q] = pc[q] /\ task'[q] = task[q] /\ out'[q] = out[q],
           pc'[p] = "reply" => TaskKind[task'[p]] # "Udp" \/ out'[p].type # "Bytes"
    PROVE  OwnReply'
  BY DEF OwnReply, Kind

LEMMA OwnReplyStep == Shape /\ Replies /\ OwnReply /\ [ExecutorNext]_vars => OwnReply'
<1> SUFFICES ASSUME Shape, Replies, OwnReply, [ExecutorNext]_vars PROVE OwnReply'
  OBVIOUS
<1>0. CASE UNCHANGED vars
  BY <1>0 DEF vars, procVars, udpVars, OwnReply, Kind
<1>1. ASSUME NEW p \in Procs, Reply(p) PROVE OwnReply'
  BY <1>1, OwnReplyFrame DEF Reply, udpVars, Yields, Goes, Shape
<1>2. ASSUME NEW p \in Procs, Evaluate(p) PROVE OwnReply'
  BY <1>2, OwnReplyFrame DEF Evaluate, Local, udpVars, Kind, Yields, Goes, Shape
<1>3. ASSUME NEW p \in Procs, StoreInMemory(p) PROVE OwnReply'
  BY <1>3, OwnReplyFrame DEF StoreInMemory, Local, udpVars, Kind, Yields, Goes, Shape
<1>4. ASSUME NEW p \in Procs, Retrieve(p) PROVE OwnReply'
  BY <1>4, OwnReplyFrame DEF Retrieve, Local, udpVars, Kind, Yields, Goes, Shape
<1>5. ASSUME NEW p \in Procs, DiskRead(p) PROVE OwnReply'
  BY <1>5, OwnReplyFrame DEF DiskRead, Local, udpVars, Kind, Yields, Goes, Shape
<1>6. ASSUME NEW p \in Procs, Statistics(p) PROVE OwnReply'
  BY <1>6, OwnReplyFrame DEF Statistics, Local, udpVars, Kind, Yields, Goes, Shape
<1>21. ASSUME NEW p \in Procs, RejectsPath(p) PROVE OwnReply'
  BY <1>21, OwnReplyFrame DEF RejectsPath, Local, udpVars, Yields, Shape
<1>7. ASSUME NEW p \in Procs, Measure(p) PROVE OwnReply'
  <2>1. UNCHANGED <<task, sock, stray>> /\ (Yields(p, [type |-> "Error"]) \/ Goes(p, "open"))
    BY <1>7 DEF Measure, udpVars
  <2> QED
    BY <2>1, OwnReplyFrame DEF Yields, Goes, Shape
<1>8. ASSUME NEW p \in Procs, Open(p) PROVE OwnReply'
  BY <1>8, OwnReplyFrame DEF Open, udpVars, Yields, Goes, Shape
<1>9. ASSUME NEW p \in Procs, Fill(p) PROVE OwnReply'
  BY <1>9, OwnReplyFrame DEF Fill, udpVars, Yields, Goes, Shape
<1>10. ASSUME NEW p \in Procs, Ask(p) PROVE OwnReply'
  BY <1>10 DEF Ask, OwnReply, Kind, Goes, Shape
<1>11. ASSUME NEW p \in Procs, Reconnect(p) PROVE OwnReply'
  BY <1>11 DEF Reconnect, procVars, udpVars, OwnReply, Kind
<1>12. ASSUME NEW p \in Procs, Requeue(p) PROVE OwnReply'
  BY <1>12 DEF Requeue, procVars, udpVars, OwnReply, Kind
<1>13. ASSUME NEW p \in Procs, WriteFails(p) PROVE OwnReply'
  BY <1>13, OwnReplyFrame DEF WriteFails, udpVars, Yields, Goes, Shape
<1>14. ASSUME NEW p \in Procs, NetworkFails(p) PROVE OwnReply'
  BY <1>14, OwnReplyFrame DEF NetworkFails, udpVars, Yields, Goes, Shape
<1>22. ASSUME NEW p \in Procs, ReadFails(p) PROVE OwnReply'
  BY <1>22, OwnReplyFrame DEF ReadFails, udpVars, Yields, Shape
<1>15. ASSUME NEW p \in Procs, Answered(p) PROVE OwnReply'
  BY <1>15 DEF Answered, OwnReply, Kind, procVars, diskVars, udpVars, envVars, Local, Yields, Goes, Storing, Shape
<1>16. ASSUME NEW p \in Procs, Crash(p) PROVE OwnReply'
  BY <1>16 DEF Crash, OwnReply, Kind, procVars, diskVars, udpVars, envVars, Local, Yields, Goes, Storing, Shape
<1>17. ASSUME NEW p \in Procs, Start(p) PROVE OwnReply'
  BY <1>17 DEF Start, OwnReply, Kind, procVars, diskVars, udpVars, envVars, Local, Yields, Goes, Storing, Shape
<1>18. ASSUME NEW p \in Procs, NEW t \in Tasks, AssignTask(p, t) PROVE OwnReply'
  BY <1>18 DEF AssignTask, OwnReply, Kind, procVars, diskVars, udpVars, envVars, Local, Yields, Goes, Storing, Shape
<1>19. ASSUME NEW p \in Procs, Receive(p) PROVE OwnReply'
  <2>1. (p \notin stray => out'[p].data = <<task[p]>>) /\ sock[p] > 0
    BY <1>19, RepliesReceive
  <2> QED
    BY <1>19, <2>1 DEF Receive, OwnReply, Kind, procVars, diskVars, udpVars, envVars, Local, Yields, Goes, Storing, Shape
<1>20. ASSUME NEW a \in asked, Echo(a) PROVE OwnReply'
  BY <1>20 DEF Echo, OwnReply, Kind, procVars, diskVars, udpVars, envVars, Local, Yields, Goes, Storing, Shape
<1> QED
  BY <1>0, <1>1, <1>2, <1>3, <1>4, <1>5, <1>6, <1>7, <1>8, <1>9, <1>10, <1>11, <1>12, <1>13, <1>14, <1>15, <1>16, <1>17, <1>18, <1>19, <1>20, <1>21, <1>22 DEF ExecutorNext, Works, Faults

\* A Udp task returns the reply to its own datagram, whatever servers, crashes and
\* ports do, unless a stray datagram reached one of the bound sockets
\* (lib.rs:127-152, internet_ports.rs:24-59).
THEOREM OwnReplyHolds == ExecutorSpec => []OwnReply
<1>1. ExecutorInit => Shape /\ Replies /\ OwnReply
  BY ShapeInit, RepliesInit
<1>2. Shape /\ Replies /\ OwnReply /\ [ExecutorNext]_vars => Shape' /\ Replies' /\ OwnReply'
  BY ShapeStep, RepliesStep, OwnReplyStep
<1> QED
  BY <1>1, <1>2, PTL DEF ExecutorSpec

-----------------------------------------------------------------------------
(* Counting: files, counters and quotas are compared as sets of bytes *)

\* The bytes from the one after a to b of x.
LEMMA ColumnSize ==
    ASSUME NEW x, NEW a \in Nat, NEW b \in Nat
    PROVE  /\ IsFiniteSet({x} \X ((a + 1)..b))
           /\ Cardinality({x} \X ((a + 1)..b)) = Minus(b, a)
<1>1. IsFiniteSet({x}) /\ Cardinality({x}) = 1
  BY FS_Singleton
<1>2. a + 1 \in Int /\ b \in Int
  OBVIOUS
<1>3. IsFiniteSet((a + 1)..b) /\ Cardinality((a + 1)..b) = Minus(b, a)
  <2>1. IsFiniteSet((a + 1)..b) /\ Cardinality((a + 1)..b) = IF a + 1 > b THEN 0 ELSE b - (a + 1) + 1
    BY <1>2, FS_Interval
  <2> QED
    BY <2>1 DEF Minus
<1>4. Minus(b, a) \in Nat
  BY DEF Minus
<1>5. /\ IsFiniteSet({x} \X ((a + 1)..b))
      /\ Cardinality({x} \X ((a + 1)..b)) = Cardinality({x}) * Cardinality((a + 1)..b)
  BY <1>1, <1>3, FS_Product
<1> QED
  BY <1>1, <1>3, <1>4, <1>5

\* The same from the first byte on.
LEMMA FirstBytes ==
    ASSUME NEW x, NEW b \in Nat
    PROVE  IsFiniteSet({x} \X (1..b)) /\ Cardinality({x} \X (1..b)) = b
<1>1. 0 \in Nat /\ 0 + 1 = 1 /\ Minus(b, 0) = b
  BY DEF Minus
<1>2. IsFiniteSet({x} \X ((0 + 1)..b)) /\ Cardinality({x} \X ((0 + 1)..b)) = Minus(b, 0)
  <2>1. 0 \in Nat
    OBVIOUS
  <2> QED
    BY <2>1, ColumnSize
<1> QED
  BY <1>1, <1>2

LEMMA FamilyFinite ==
    ASSUME NEW S, IsFiniteSet(S), NEW f, \A x \in S : IsFiniteSet(f[x])
    PROVE  IsFiniteSet(UNION {f[x] : x \in S})
<1> DEFINE g == [x \in S |-> f[x]]
           R == {f[x] : x \in S}
<1>1. g \in Surjection(S, R)
  BY DEF Surjection
<1>2. IsFiniteSet(R)
  BY <1>1, FS_Surjection
<1> QED
  BY <1>2, FS_UNION

LEMMA AtMostBoth ==
    ASSUME NEW S, IsFiniteSet(S), NEW T, IsFiniteSet(T), NEW A, A \subseteq S \cup T
    PROVE  IsFiniteSet(A) /\ Cardinality(A) <= Cardinality(S) + Cardinality(T)
<1>1. IsFiniteSet(S \cup T) /\ Cardinality(S \cup T) = Cardinality(S) + Cardinality(T) - Cardinality(S \cap T)
  BY FS_Union
<1>2. IsFiniteSet(A) /\ Cardinality(A) <= Cardinality(S \cup T)
  BY <1>1, FS_Subset
<1>3. IsFiniteSet(S \cap T)
  BY FS_Intersection
<1>4. {Cardinality(S), Cardinality(T), Cardinality(S \cap T), Cardinality(A)} \subseteq Nat
  BY <1>2, <1>3, FS_CardinalityType
<1> QED
  BY <1>1, <1>2, <1>4

LEMMA AtLeastBoth ==
    ASSUME NEW S, IsFiniteSet(S), NEW T, IsFiniteSet(T), S \cap T = {},
           NEW A, IsFiniteSet(A), S \cup T \subseteq A
    PROVE  Cardinality(S) + Cardinality(T) <= Cardinality(A)
<1>1. Cardinality(S \cup T) = Cardinality(S) + Cardinality(T) - Cardinality(S \cap T)
  BY FS_Union
<1>2. Cardinality(S \cup T) <= Cardinality(A)
  BY FS_Subset
<1>3. Cardinality(S \cap T) = 0
  BY FS_EmptySet
<1>4. {Cardinality(S), Cardinality(T)} \subseteq Nat
  BY FS_CardinalityType
<1> QED
  BY <1>1, <1>2, <1>3, <1>4

-----------------------------------------------------------------------------
(* The types Shape leaves out *)

Counters ==
    /\ role   \in [Procs -> Roles]
    /\ out    \in [Procs -> Results]
    /\ old    \in [Procs -> Nat]
    /\ usage  \in [Procs -> Nat]
    /\ todo   \subseteq Tasks
    /\ faults \in Nat
    /\ answered \subseteq Tasks
    /\ broken \subseteq Dirs \X Names
    /\ wild \subseteq Dirs /\ blind \subseteq Dirs
    /\ shrunk \subseteq Procs /\ stray \subseteq Procs
    /\ \A p \in Procs : pc[p] = "size" => HasDisk(p)

LEMMA FileLength ==
    ASSUME Shape, NEW d \in Dirs, NEW n \in Names
    PROVE  Len0(disk[d][n]) \in Nat
  BY DEF Shape, Len0

LEMMA FileBytesFinite ==
    ASSUME Shape, NEW d \in Dirs
    PROVE  IsFiniteSet(FileBytes(d)) /\ DirectorySize(d) \in Nat
<1> DEFINE f == [n \in Names |-> {n} \X (1..Len0(disk[d][n]))]
<1>1. \A n \in Names : IsFiniteSet(f[n])
  BY FileLength, FirstBytes
<1> HIDE DEF f
<1>2. IsFiniteSet(UNION {f[n] : n \in Names})
  BY <1>1, FamilyFinite, FiniteAssumption
<1>3. FileBytes(d) = UNION {f[n] : n \in Names}
  BY DEF FileBytes, f
<1> QED
  BY <1>2, <1>3, FS_CardinalityType DEF DirectorySize

LEMMA FileBytesMember ==
    ASSUME Shape, NEW d \in Dirs
    PROVE  \A x : x \in FileBytes(d) <=>
             \E n \in Names : \E i \in Nat \ {0} : x = <<n, i>> /\ i <= Len0(disk[d][n])
  BY FileLength DEF FileBytes

\* What the files of a directory, a name and a task of a process are.
LEMMA TaskTypes ==
    ASSUME Shape, NEW p \in Procs, task[p] # NoTask
    PROVE  /\ task[p] \in Tasks /\ Name(p) \in Names /\ TaskSize[task[p]] \in Nat
           /\ p \in Running /\ Conf(p) \in Config /\ Dir(p) \in Dirs
<1>1. task[p] \in Tasks /\ p \in Running
  BY DEF Shape
<1> QED
  BY <1>1, ConfigTypes, ExecutorAssumption DEF Name

\* Results that carry something.
LEMMA ResultTypes ==
    /\ \A type \in {"Stored", "Written", "Error", "Response"} : [type |-> type] \in Results
    /\ \A t \in Tasks : [type |-> "Bytes", data |-> <<t>>] \in Results
    /\ \A data \in Seq(Tasks) : [type |-> "Bytes", data |-> data] \in Results
    /\ \A k \in Nat : [type |-> "Free", free |-> k] \in Results
<1>1. \A t \in Tasks : <<t>> \in Seq(Tasks)
  OBVIOUS
<1> QED
  BY <1>1 DEF Results

LEMMA CountersInit == ExecutorInit => Counters
<1> SUFFICES ASSUME ExecutorInit PROVE Counters
  OBVIOUS
<1>1. scene.tasks \subseteq Tasks /\ scene.faults \in Nat
  BY ExecutorAssumption DEF ExecutorInit
<1> QED
  BY <1>1, ResultTypes DEF ExecutorInit, Counters, Roles

LEMMA CountersStep == Shape /\ Counters /\ [ExecutorNext]_vars => Counters'
<1> SUFFICES ASSUME Shape, Counters, [ExecutorNext]_vars PROVE Counters'
  OBVIOUS
<1> USE DEF Counters, Yields, Goes, Local, procVars, diskVars, udpVars, envVars, HasDisk, Conf
<1>t. \A p \in Procs : task[p] # NoTask =>
        /\ task[p] \in Tasks /\ Name(p) \in Names /\ TaskSize[task[p]] \in Nat
        /\ p \in Running /\ Dir(p) \in Dirs
  BY TaskTypes
<1>w. \A p \in Procs : pc[p] \notin {"down", "idle"} => task[p] # NoTask
  BY DEF Shape
<1>r. \A type \in {"Stored", "Written", "Error", "Response"} : [type |-> type] \in Results
  BY ResultTypes
<1>0. CASE UNCHANGED vars
  BY <1>0 DEF vars
<1>1. ASSUME NEW p \in Procs, Reply(p) PROVE Counters'
  BY <1>1, <1>t, <1>w DEF Reply
<1>2. ASSUME NEW p \in Procs, Evaluate(p) PROVE Counters'
  BY <1>2, <1>r DEF Evaluate, Outcomes
<1>3. ASSUME NEW p \in Procs, StoreInMemory(p) PROVE Counters'
  BY <1>3, <1>r DEF StoreInMemory
<1>4. ASSUME NEW p \in Procs, Retrieve(p) PROVE Counters'
  <2>1. Name(p) \in Names /\ p \in Running /\ Dir(p) \in Dirs
    BY <1>4, <1>t, <1>w DEF Retrieve
  <2>2. File(disk[Dir(p)][Name(p)]) \in Results /\ Entry(memory[p][Name(p)]) \in Results
    BY <2>1, ResultTypes, PayloadType DEF File, Entry, Shape
  <2> QED
    BY <1>4, <2>2 DEF Retrieve
<1>5. ASSUME NEW p \in Procs, DiskRead(p) PROVE Counters'
  <2>1. Name(p) \in Names /\ p \in Running /\ Dir(p) \in Dirs
    BY <1>5, <1>t, <1>w DEF DiskRead
  <2>2. File(disk[Dir(p)][Name(p)]) \in Results
    BY <2>1, ResultTypes DEF File, Shape
  <2> QED
    BY <1>5, <2>2 DEF DiskRead
<1>6. ASSUME NEW p \in Procs, Statistics(p) PROVE Counters'
  <2>1. Minus(Quota, usage[p]) \in Nat
    BY ExecutorAssumption DEF Minus
  <2>2. [type |-> "Free", free |-> Minus(Quota, usage[p])] \in Results
    BY <2>1, ResultTypes
  <2> QED
    BY <1>6, <1>r, <2>2 DEF Statistics
<1>7. ASSUME NEW p \in Procs, Measure(p) PROVE Counters'
  <2>1. Len0(disk[Dir(p)][Name(p)]) \in Nat
    BY <1>7, <1>t, <1>w, FileLength DEF Measure
  <2>2. /\ old' = [old EXCEPT ![p] = Len0(disk[Dir(p)][Name(p)])]
        /\ Yields(p, [type |-> "Error"]) \/ Goes(p, "open")
        /\ UNCHANGED <<scene, role, usage, todo, faults, answered, broken, wild, blind, shrunk, stray>>
    BY <1>7 DEF Measure
  <2>3. out' \in [Procs -> Results]
    BY <2>2, <1>r
  <2>4. \A q \in Procs : pc'[q] = "size" => pc[q] = "size"
    BY <2>2 DEF Shape
  <2> QED
    BY <2>1, <2>2, <2>3, <2>4
<1>8. ASSUME NEW p \in Procs, Open(p) PROVE Counters'
  <2>1. Name(p) \in Names /\ Dir(p) \in Dirs /\ Sharers(Dir(p)) \subseteq Procs
    BY <1>8, <1>t, <1>w DEF Open, Sharers, Running
  <2> QED
    BY <1>8, <2>1 DEF Open
<1>9. ASSUME NEW p \in Procs, Fill(p) PROVE Counters'
  <2>1. TaskSize[task[p]] \in Nat
    BY <1>9, <1>t, <1>w DEF Fill
  <2>2. (IF Kind(p) = "StoreData" THEN Counted(p) ELSE 0) \in Nat
    BY <2>1 DEF Counted, Minus
  <2>3. usage' \in [Procs -> Nat]
    BY <1>9, <2>2 DEF Fill
  <2> QED
    BY <1>9, <2>3, <1>r DEF Fill
<1>10. ASSUME NEW p \in Procs, Ask(p) PROVE Counters'
  BY <1>10 DEF Ask
<1>11. ASSUME NEW p \in Procs, Receive(p) PROVE Counters'
  <2>1. Head(inbox[p][sock[p]]) \in Tasks
    <3>1. inbox[p] \in Seq(Seq(Tasks)) /\ sock[p] \in 0..Len(inbox[p]) /\ sock[p] > 0 /\ inbox[p][sock[p]] # <<>>
      BY <1>11 DEF Receive, Shape
    <3>2. sock[p] \in 1..Len(inbox[p])
      BY <3>1, LenProperties
    <3>3. inbox[p][sock[p]] \in Seq(Tasks)
      BY <3>1, <3>2
    <3> QED
      BY <3>1, <3>3, HeadTailProperties
  <2>2. [type |-> "Bytes", data |-> <<Head(inbox[p][sock[p]])>>] \in Results
    BY <2>1, ResultTypes
  <2> QED
    BY <1>11, <2>2 DEF Receive
<1>12. ASSUME NEW p \in Procs, Answered(p) PROVE Counters'
  <2>1. [type |-> "Bytes", data |-> <<task[p]>>] \in Results
    BY <1>12, <1>t, <1>w, ResultTypes DEF Answered
  <2> QED
    BY <1>12, <2>1 DEF Answered
<1>13. ASSUME NEW p \in Procs, Start(p) PROVE Counters'
  <2>1. Conf(p) \in Config /\ Dir(p) \in Dirs
    BY <1>13, ConfigTypes DEF Start
  <2>2. DirectorySize(Dir(p)) \in Nat /\ Conf(p).role \in Roles
    BY <2>1, FileBytesFinite DEF Config
  <2> QED
    BY <1>13, <2>1, <2>2 DEF Start
<1>14. ASSUME NEW p \in Procs, Crash(p) PROVE Counters'
  <2>1. todo' \subseteq Tasks
    BY <1>14, <1>t DEF Crash
  <2>2. broken' \subseteq Dirs \X Names
    BY <1>14, <1>t, <1>w DEF Crash, Writing
  <2> QED
    BY <1>14, <2>1, <2>2 DEF Crash
<1>15. ASSUME NEW p \in Procs, Reconnect(p) PROVE Counters'
  BY <1>15 DEF Reconnect, Roles
<1>16. ASSUME NEW p \in Procs, Requeue(p) PROVE Counters'
  BY <1>16, <1>t DEF Requeue
<1>17. ASSUME NEW p \in Procs, WriteFails(p) PROVE Counters'
  <2>1. broken' \subseteq Dirs \X Names
    BY <1>17, <1>t, <1>w DEF WriteFails, Writing
  <2> QED
    BY <1>17, <2>1, <1>r DEF WriteFails
<1>18. ASSUME NEW p \in Procs, NetworkFails(p) PROVE Counters'
  BY <1>18, <1>r DEF NetworkFails
<1>19. ASSUME NEW p \in Procs, NEW t \in Tasks, AssignTask(p, t) PROVE Counters'
  BY <1>19 DEF AssignTask
<1>20. ASSUME NEW a \in asked, Echo(a) PROVE Counters'
  <2>1. a.proc \in Procs /\ (stray' = stray \/ stray' = stray \cup {a.proc})
    BY <1>20 DEF Echo, Shape
  <2>2. UNCHANGED <<scene, pc, task, role, out, old, usage, todo, faults, answered, broken, wild, blind, shrunk>>
    BY <1>20 DEF Echo
  <2> QED
    BY <2>1, <2>2
<1>21. ASSUME NEW p \in Procs, RejectsPath(p) PROVE Counters'
  BY <1>21, <1>r DEF RejectsPath
<1>22. ASSUME NEW p \in Procs, ReadFails(p) PROVE Counters'
  BY <1>22, <1>r DEF ReadFails
<1> QED
  BY <1>0, <1>1, <1>2, <1>3, <1>4, <1>5, <1>6, <1>7, <1>8, <1>9, <1>10, <1>11, <1>12, <1>13, <1>14, <1>15, <1>16, <1>17, <1>18, <1>19, <1>20, <1>21, <1>22 DEF ExecutorNext, Works, Faults

\* Every variable of the processes, files and sockets keeps its type, and a process is
\* at a step that fits its task and its configuration (CPCluster_node/src/lib.rs:30-229,
\* disk_store.rs, internet_ports.rs): the counter of a disk node is never below zero.
THEOREM ExecutorTypeCorrect == ExecutorSpec => []ExecutorTypeOK
<1>1. ExecutorInit => Shape /\ Counters /\ Stored
  BY ShapeInit, CountersInit, StoredInit
<1>2. Shape /\ Counters /\ Stored /\ [ExecutorNext]_vars => Shape' /\ Counters' /\ Stored'
  BY ShapeStep, CountersStep, StoredStep
<1>3. Shape /\ Counters /\ Stored => ExecutorTypeOK
  BY DEF Shape, Counters, Stored, ExecutorTypeOK
<1> QED
  BY <1>1, <1>2, <1>3, PTL DEF ExecutorSpec

-----------------------------------------------------------------------------
(* What a read returns *)

\* The file of a read that is settled, as an answer, is its last write.
LEMMA SettledFile ==
    ASSUME Shape, Files, NEW d \in Dirs, NEW n \in Names, ~Unsettled(d, n)
    PROVE  File(disk[d][n]) = Entry(kept[d][n])
<1>1. disk[d][n] = Shown(kept[d][n])
  BY DEF Files, Unsettled
<1>2. CASE kept[d][n] = NoTask
  BY <1>1, <1>2 DEF Shown, File, Entry
<1>3. CASE kept[d][n] # NoTask
  <2>1. kept[d][n] \in Tasks
    BY <1>3 DEF Shape
  <2>2. Payload(kept[d][n]) # Absent
    BY <2>1, PayloadType
  <2> QED
    BY <1>1, <1>3, <2>2 DEF Shown, File, Entry
<1> QED
  BY <1>2, <1>3

\* A read is a step of the process that reads, and is done or fails.
LEMMA WhoReads ==
    ASSUME Shape, Counters, ExecutorNext, NEW p \in Procs, Runs(p),
           Kind(p) = "RetrieveData" \/ (Kind(p) = "DiskRead" /\ task[p] \notin Outside)
    PROVE  Retrieve(p) \/ DiskRead(p) \/ (ReadFails(p) /\ FromFile(p) /\ ReadFailed(p))
<1>1. pc[p] = "run" /\ pc'[p] = "reply" /\ Kind(p) \in {"RetrieveData", "DiskRead"} /\ task[p] \in Tasks
  BY DEF Runs, Shape
<1>2. task[p] \notin Outside
  BY <1>1, ExecutorAssumption DEF Kind
<1>3. \A q \in Procs \ {p} : ~Works(q) /\ ~Start(q) /\ ~Answered(q) /\ ~Faults(q)
                            /\ \A t \in Tasks : ~AssignTask(q, t)
  BY <1>1 DEF Works, Faults, Start, Answered, Crash, Reconnect, Requeue, ReadFails, WriteFails,
              NetworkFails, AssignTask, Reply, Evaluate, StoreInMemory, Retrieve, DiskRead, RejectsPath,
              Statistics, Measure, Open, Fill, Ask, Receive, Yields, Goes, procVars, Shape
<1>4. \A a \in asked : ~Echo(a)
  BY <1>1 DEF Echo, procVars
<1>5. ~Start(p) /\ ~Answered(p) /\ \A t \in Tasks : ~AssignTask(p, t)
  BY <1>1 DEF Start, Answered, AssignTask
<1>6. Faults(p) => ReadFails(p)
  BY <1>1 DEF Faults, Crash, Reconnect, Requeue, WriteFails, NetworkFails, Storing, Goes, procVars, Shape
<1>7. ReadFails(p) => FromFile(p) /\ ReadFailed(p)
  BY <1>1 DEF ReadFails, ReadFailed, Yields, Shape, Counters
<1>8. Works(p) => Retrieve(p) \/ DiskRead(p)
  BY <1>1, <1>2 DEF Works, Reply, Evaluate, StoreInMemory, RejectsPath, Statistics, Measure, Open,
                    Fill, Ask, Receive
<1> QED
  BY <1>3, <1>4, <1>5, <1>6, <1>7, <1>8 DEF ExecutorNext

LEMMA ReadStep ==
    ASSUME Shape, Counters, Files, ExecutorNext, NEW p \in Procs, Runs(p), FromFile(p),
           ~Unsettled(Dir(p), Name(p))
    PROVE  out'[p] = Entry(kept[Dir(p)][Name(p)]) \/ ReadFailed(p)
<1>1. task[p] \in Tasks /\ Dir(p) \in Dirs /\ Name(p) \in Names
  BY ConfigTypes, ExecutorAssumption DEF Runs, Shape, Name
<1>2. File(disk[Dir(p)][Name(p)]) = Entry(kept[Dir(p)][Name(p)])
  BY <1>1, SettledFile
<1>3. CASE Retrieve(p)
  <2>1. HasDisk(p)
    BY <1>3 DEF Retrieve, FromFile
  <2> QED
    BY <1>2, <1>3, <2>1 DEF Retrieve, Yields, Shape
<1>4. CASE DiskRead(p)
  BY <1>2, <1>4 DEF DiskRead, Yields, Shape
<1> QED
  BY <1>3, <1>4, WhoReads DEF FromFile

\* A read of a file returns the last write of that name in full, for any number of
\* processes and directories, through crashes and restarts, unless the file is
\* unsettled or the read fails (lib.rs:168-180, 214-231, disk_store.rs:24-40).
THEOREM ReadsBackHolds == ExecutorSpec => ReadsBack
<1>1. ExecutorInit => Shape /\ Counters /\ Files
  BY ShapeInit, CountersInit, FilesInit
<1>2. Shape /\ Counters /\ Files /\ [ExecutorNext]_vars => Shape' /\ Counters' /\ Files'
  BY ShapeStep, CountersStep, FilesStep
<1>3. Shape /\ Counters /\ Files /\ [ExecutorNext]_vars
        => [\A p \in Procs : Runs(p) /\ FromFile(p) /\ ~Unsettled(Dir(p), Name(p)) =>
                out'[p] = Entry(kept[Dir(p)][Name(p)]) \/ ReadFailed(p)]_vars
  BY ReadStep
<1> QED
  BY <1>1, <1>2, <1>3, PTL DEF ExecutorSpec, ReadsBack

LEMMA RetrieveStep ==
    ASSUME Shape, Counters, Files, Stored, ExecutorNext, NEW p \in Procs, Runs(p),
           Kind(p) = "RetrieveData", stored[Name(p)].at = Place(p)
    PROVE  \/ out'[p] = Entry(stored[Name(p)].task)
           \/ HasDisk(p) /\ (Unsettled(Dir(p), Name(p)) \/ ReadFailed(p))
<1>1. Dir(p) \in Dirs /\ Name(p) \in Names
  BY ConfigTypes, ExecutorAssumption DEF Runs, Shape, Name
<1>2. CASE HasDisk(p)
  <2>1. kept[Dir(p)][Name(p)] = stored[Name(p)].task
    BY <1>1, <1>2 DEF Place, Stored
  <2> QED
    BY <1>2, <2>1, ReadStep DEF FromFile
<1>3. CASE ~HasDisk(p)
  <2>1. memory[p][Name(p)] = stored[Name(p)].task
    BY <1>1, <1>3 DEF Place, Stored
  <2>2. Retrieve(p)
    BY <1>3, WhoReads DEF FromFile, DiskRead
  <2> QED
    BY <1>3, <2>1, <2>2 DEF Retrieve, Yields, Shape
<1> QED
  BY <1>2, <1>3

\* RetrieveData gets what was last stored under its key by whichever process, where
\* it is assigned to a process that keeps things where the datum is: the memory it
\* was stored in, unless a restart has emptied it, or the directory of its file
\* (lib.rs:155-184, memory_store.rs, disk_store.rs:24-40).
THEOREM StoredIsFoundHolds == ExecutorSpec => StoredIsFound
<1>1. ExecutorInit => Shape /\ Counters /\ Files /\ Stored
  BY ShapeInit, CountersInit, FilesInit, StoredInit
<1>2. Shape /\ Counters /\ Files /\ Stored /\ [ExecutorNext]_vars => Shape' /\ Counters' /\ Files' /\ Stored'
  BY ShapeStep, CountersStep, FilesStep, StoredStep
<1>3. Shape /\ Counters /\ Files /\ Stored /\ [ExecutorNext]_vars
        => [\A p \in Procs : Runs(p) /\ Kind(p) = "RetrieveData" /\ stored[Name(p)].at = Place(p) =>
                \/ out'[p] = Entry(stored[Name(p)].task)
                \/ HasDisk(p) /\ (Unsettled(Dir(p), Name(p)) \/ ReadFailed(p))]_vars
  BY RetrieveStep
<1> QED
  BY <1>1, <1>2, <1>3, PTL DEF ExecutorSpec, StoredIsFound

-----------------------------------------------------------------------------
(* Quota.  QuotaKept is not inductive: a store is admitted at the measuring of
   the file and counted after the write, and a file that another process
   has emptied since is smaller than what was measured.  So what a directory holds is
   counted with the bytes that a process found when it measured, and, on the other
   side, with the credit of the disk nodes that are up, which is what they have
   not counted of their quota. *)

StoringData(p) == Storing(p) /\ Kind(p) = "StoreData"

Measured(d) == UNION {{Name(p)} \X (1..old[p]) : p \in {q \in Sharers(d) : StoringData(q)}}

Credit(d) ==
    UNION {{p} \X ((usage[p] + 1)..Quota) : p \in {q \in Sharers(d) : HasDisk(q) /\ pc[q] # "down"}}

Budget ==
    \A d \in Dirs \ (wild \cup blind) :
        Cardinality(FileBytes(d) \cup Measured(d)) + Cardinality(Credit(d))
            <= Quota * Cardinality(Sharers(d))

\* A store under way has room in the quota for what it will be counted for.
Room ==
    \A p \in Procs :
        /\ StoringData(p) => HasDisk(p) /\ (Counted(p) = 0 \/ usage[p] + Counted(p) <= Quota)
        /\ Writing(p) /\ Kind(p) = "DiskWrite" => Dir(p) \in wild

\* What a process has counted is in its directory, the file it is storing set
\* aside as it found it.
Backing(p) ==
    IF StoringData(p) THEN {x \in FileBytes(Dir(p)) : x[1] # Name(p)} \cup ({Name(p)} \X (1..old[p]))
                      ELSE FileBytes(Dir(p))

Backed ==
    \A p \in Procs \ shrunk : pc[p] # "down" =>
        /\ usage[p] <= Cardinality(Backing(p))
        /\ pc[p] = "open" /\ Kind(p) = "StoreData" => old[p] <= Len0(disk[Dir(p)][Name(p)])

AllFinite ==
    /\ \A d \in Dirs : IsFiniteSet(FileBytes(d)) /\ IsFiniteSet(Measured(d)) /\ IsFiniteSet(Credit(d))
    /\ \A p \in Running : IsFiniteSet(Backing(p))

LEMMA SharersFinite ==
    ASSUME NEW d
    PROVE  IsFiniteSet(Sharers(d)) /\ Sharers(d) \subseteq Procs /\ Cardinality(Sharers(d)) \in Nat
<1>1. Sharers(d) \subseteq Procs
  BY DEF Sharers, Running
<1> QED
  BY <1>1, FS_Subset, FS_CardinalityType, FiniteAssumption

LEMMA CountsFinite == Shape /\ Counters => AllFinite
<1> SUFFICES ASSUME Shape, Counters PROVE AllFinite
  OBVIOUS
<1>1. ASSUME NEW d \in Dirs PROVE IsFiniteSet(Measured(d))
  <2> DEFINE S == {q \in Sharers(d) : StoringData(q)}
             f == [p \in S |-> {Name(p)} \X (1..old[p])]
  <2>1. IsFiniteSet(S) /\ S \subseteq Procs
    BY SharersFinite, FS_Subset
  <2>2. \A p \in S : IsFiniteSet(f[p])
    BY <2>1, FirstBytes DEF Counters
  <2> HIDE DEF f
  <2>3. IsFiniteSet(UNION {f[p] : p \in S})
    BY <2>1, <2>2, FamilyFinite
  <2>4. Measured(d) = UNION {f[p] : p \in S}
    BY DEF Measured, f
  <2> QED
    BY <2>3, <2>4
<1>2. ASSUME NEW d \in Dirs PROVE IsFiniteSet(Credit(d))
  <2> DEFINE S == {q \in Sharers(d) : HasDisk(q) /\ pc[q] # "down"}
             f == [p \in S |-> {p} \X ((usage[p] + 1)..Quota)]
  <2>1. IsFiniteSet(S) /\ S \subseteq Procs
    BY SharersFinite, FS_Subset
  <2>2. \A p \in S : IsFiniteSet(f[p])
    BY <2>1, ColumnSize, ExecutorAssumption DEF Counters
  <2> HIDE DEF f
  <2>3. IsFiniteSet(UNION {f[p] : p \in S})
    BY <2>1, <2>2, FamilyFinite
  <2>4. Credit(d) = UNION {f[p] : p \in S}
    BY DEF Credit, f
  <2> QED
    BY <2>3, <2>4
<1>3. ASSUME NEW p \in Running PROVE IsFiniteSet(Backing(p))
  <2> DEFINE A == FileBytes(Dir(p))
             B == {Name(p)} \X (1..old[p])
  <2>1. p \in Procs /\ IsFiniteSet(A)
    BY ConfigTypes, FileBytesFinite DEF Running
  <2>2. IsFiniteSet(B)
    BY <2>1, FirstBytes DEF Counters
  <2>3. Backing(p) \subseteq A \cup B
    BY DEF Backing
  <2> QED
    BY <2>1, <2>2, <2>3, AtMostBoth
<1> QED
  BY <1>1, <1>2, <1>3, FileBytesFinite DEF AllFinite

-----------------------------------------------------------------------------
(* The steps that neither store nor count *)

Quiet ==
    /\ UNCHANGED <<scene, disk, usage, wild, blind, shrunk>>
    /\ \A p \in Procs : /\ StoringData(p)' <=> StoringData(p)
                        /\ StoringData(p) => UNCHANGED <<pc[p], task[p], old[p]>>
                        /\ Writing(p)' => Writing(p) /\ task'[p] = task[p]
                        /\ pc'[p] = "down" <=> pc[p] = "down"

QuietStep ==
    \/ \E p \in Procs : \/ Reply(p) \/ Evaluate(p) \/ StoreInMemory(p) \/ Retrieve(p) \/ DiskRead(p)
                        \/ RejectsPath(p) \/ Statistics(p) \/ Ask(p) \/ Receive(p) \/ Answered(p)
                        \/ Reconnect(p) \/ Requeue(p) \/ ReadFails(p) \/ NetworkFails(p)
                        \/ \E t \in Tasks : AssignTask(p, t)
    \/ \E a \in asked : Echo(a)
    \/ UNCHANGED vars

LEMMA QuietSteps == ASSUME Shape, QuietStep PROVE Quiet
<1> USE DEF Quiet, StoringData, Storing, Writing, Kind, Yields, Goes, Local, procVars, diskVars, udpVars, envVars
<1>1. ASSUME NEW p \in Procs, Reply(p) PROVE Quiet
  BY <1>1 DEF Reply, Shape
<1>2. ASSUME NEW p \in Procs,
             Evaluate(p) \/ StoreInMemory(p) \/ Retrieve(p) \/ DiskRead(p) \/ RejectsPath(p) \/ Statistics(p)
      PROVE  Quiet
  <2>1. pc[p] = "run" /\ (\E r : Yields(p, r)) /\ Local
    BY <1>2 DEF Evaluate, StoreInMemory, Retrieve, DiskRead, RejectsPath, Statistics
  <2> QED
    BY <2>1 DEF Shape
<1>3. ASSUME NEW p \in Procs, Ask(p) PROVE Quiet
  BY <1>3 DEF Ask, Shape
<1>4. ASSUME NEW p \in Procs, Receive(p) \/ Answered(p) \/ ReadFails(p) \/ NetworkFails(p) PROVE Quiet
  BY <1>4 DEF Receive, Answered, ReadFails, NetworkFails, Shape
<1>5. ASSUME NEW p \in Procs, Reconnect(p) \/ Requeue(p) PROVE Quiet
  BY <1>5 DEF Reconnect, Requeue
<1>6. ASSUME NEW p \in Procs, NEW t \in Tasks, AssignTask(p, t) PROVE Quiet
  BY <1>6 DEF AssignTask, Shape
<1>7. ASSUME NEW a \in asked, Echo(a) PROVE Quiet
  BY <1>7 DEF Echo
<1>8. CASE UNCHANGED vars
  BY <1>8 DEF vars
<1> QED
  BY <1>1, <1>2, <1>3, <1>4, <1>5, <1>6, <1>7, <1>8 DEF QuietStep

\* Neither the bytes nor the credit of a directory get more.
LEMMA BudgetFrame ==
    ASSUME AllFinite, Budget, scene' = scene, wild \subseteq wild', blind \subseteq blind',
           \A d \in Dirs \ (wild' \cup blind') :
               /\ FileBytes(d)' \cup Measured(d)' \subseteq FileBytes(d) \cup Measured(d)
               /\ Credit(d)' \subseteq Credit(d)
    PROVE  Budget'
<1> SUFFICES ASSUME NEW d \in Dirs, d \notin wild', d \notin blind'
             PROVE  Cardinality(FileBytes(d)' \cup Measured(d)') + Cardinality(Credit(d)')
                        <= Quota * Cardinality(Sharers(d)')
  BY DEF Budget
<1> DEFINE A == FileBytes(d) \cup Measured(d)
           B == FileBytes(d)' \cup Measured(d)'
<1>1. IsFiniteSet(A) /\ IsFiniteSet(Credit(d))
  BY FS_Union DEF AllFinite
<1>2. B \subseteq A /\ Credit(d)' \subseteq Credit(d)
  OBVIOUS
<1>3. /\ IsFiniteSet(B) /\ Cardinality(B) <= Cardinality(A)
      /\ IsFiniteSet(Credit(d)') /\ Cardinality(Credit(d)') <= Cardinality(Credit(d))
  BY <1>1, <1>2, FS_Subset
<1>4. {Cardinality(A), Cardinality(B), Cardinality(Credit(d)), Cardinality(Credit(d)')} \subseteq Nat
  BY <1>1, <1>3, FS_CardinalityType
<1>5. Cardinality(A) + Cardinality(Credit(d)) <= Quota * Cardinality(Sharers(d))
  BY DEF Budget
<1>6. Sharers(d)' = Sharers(d)
  BY DEF Sharers, Running, Dir, Conf
<1>7. Quota * Cardinality(Sharers(d)) \in Nat
  BY SharersFinite, ExecutorAssumption
<1> HIDE DEF A, B
<1>8. Cardinality(B) + Cardinality(Credit(d)') <= Quota * Cardinality(Sharers(d))
  BY <1>3, <1>4, <1>5, <1>7
<1> QED
  BY <1>6, <1>8 DEF B

\* A process that stores, or still does, measured what it measured before.
LEMMA MeasuredFrame ==
    ASSUME scene' = scene,
           \A q \in Procs : StoringData(q)' => StoringData(q) /\ task'[q] = task[q] /\ old'[q] = old[q]
    PROVE  \A d : Measured(d)' \subseteq Measured(d)
  BY DEF Measured, Sharers, Running, Dir, Conf, Name

LEMMA CreditFrame ==
    ASSUME scene' = scene,
           \A q \in Procs : pc'[q] # "down" => pc[q] # "down" /\ usage'[q] = usage[q]
    PROVE  \A d : Credit(d)' \subseteq Credit(d)
  BY DEF Credit, Sharers, Running, Dir, Conf, HasDisk

\* What a process counted stays in place, or is added to.
LEMMA BackedFrame ==
    ASSUME NEW p \in Procs, Backed, AllFinite', p \in Running', p \notin shrunk, pc[p] # "down",
           usage'[p] = usage[p], usage[p] \in Nat,
           AllFinite, p \in Running, Backing(p) \subseteq Backing(p)'
    PROVE  usage'[p] <= Cardinality(Backing(p)')
<1>1. usage[p] <= Cardinality(Backing(p))
  BY DEF Backed
<1>2. IsFiniteSet(Backing(p)') /\ IsFiniteSet(Backing(p))
  BY DEF AllFinite
<1>3. Cardinality(Backing(p)) <= Cardinality(Backing(p)')
  BY <1>2, FS_Subset
<1>4. {Cardinality(Backing(p)), Cardinality(Backing(p)')} \subseteq Nat
  BY <1>2, FS_CardinalityType
<1> QED
  BY <1>1, <1>3, <1>4

QuotaInv == Budget /\ Room /\ Backed

LEMMA QuotaQuiet ==
    ASSUME Shape, Counters, Shape', Counters', QuotaInv, Quiet
    PROVE  QuotaInv'
<1>1. AllFinite /\ AllFinite'
  BY CountsFinite, PTL
<1>2. \A d : FileBytes(d)' = FileBytes(d)
  BY DEF Quiet, FileBytes
<1>3. Budget'
  BY <1>1, <1>2, BudgetFrame, MeasuredFrame, CreditFrame DEF Quiet, QuotaInv
<1>4. Room'
  BY DEF Quiet, QuotaInv, Room, StoringData, HasDisk, Conf, Counted, Kind, Dir
<1>5. Backed'
  <2> SUFFICES ASSUME NEW p \in Procs, p \notin shrunk, pc'[p] # "down"
               PROVE  /\ usage'[p] <= Cardinality(Backing(p)')
                      /\ pc'[p] = "open" /\ Kind(p)' = "StoreData"
                             => old'[p] <= Len0(disk'[Dir(p)'][Name(p)'])
    BY DEF Quiet, Backed
  <2>1. pc[p] # "down" /\ p \in Running /\ Running' = Running /\ Dir(p)' = Dir(p)
    BY DEF Quiet, Shape, Running, Dir, Conf
  <2>2. Backing(p)' = Backing(p)
    BY <1>2, <2>1 DEF Quiet, Backing, StoringData, Name
  <2>3. usage'[p] = usage[p] /\ usage[p] \in Nat
    BY DEF Quiet, Counters
  <2>4. usage'[p] <= Cardinality(Backing(p)')
    BY <1>1, <2>1, <2>2, <2>3, BackedFrame DEF QuotaInv
  <2>5. ASSUME pc'[p] = "open", Kind(p)' = "StoreData"
        PROVE  old'[p] <= Len0(disk'[Dir(p)'][Name(p)'])
    <3>1. pc[p] = "open" /\ Kind(p) = "StoreData" /\ UNCHANGED <<task[p], old[p], disk>>
      BY <2>5 DEF Quiet, StoringData, Storing
    <3> QED
      BY <2>1, <3>1 DEF QuotaInv, Backed, Name, Len0
  <2> QED
    BY <2>4, <2>5
<1> QED
  BY <1>3, <1>4, <1>5 DEF QuotaInv

-----------------------------------------------------------------------------
(* Measuring, opening, writing *)

\* What a store by p needs to know of it; and of the others, that it leaves them be.
LEMMA StoreTypes ==
    ASSUME Shape, Counters, NEW p \in Procs, pc[p] \in {"size", "open", "fill"}
    PROVE  /\ p \in Running /\ Dir(p) \in Dirs /\ Name(p) \in Names /\ p \in Sharers(Dir(p))
           /\ TaskSize[task[p]] \in Nat /\ old[p] \in Nat /\ usage[p] \in Nat /\ Counted(p) \in Nat
           /\ Len0(disk[Dir(p)][Name(p)]) \in Nat
<1>1. task[p] # NoTask
  BY DEF Shape
<1>2. /\ p \in Running /\ Dir(p) \in Dirs /\ Name(p) \in Names
      /\ TaskSize[task[p]] \in Nat /\ old[p] \in Nat /\ usage[p] \in Nat
  BY <1>1, TaskTypes DEF Counters
<1> QED
  BY <1>2, FileLength DEF Sharers, Counted, Minus

\* The bytes of the file a process measures are in its directory.
LEMMA OwnBytes ==
    ASSUME Shape, NEW d \in Dirs, NEW n \in Names
    PROVE  {n} \X (1..Len0(disk[d][n])) \subseteq FileBytes(d)
  BY DEF FileBytes

LEMMA RoomMeasure == ASSUME Shape, Counters, Room, NEW p \in Procs, Measure(p) PROVE Room'
<1> DEFINE was == Len0(disk[Dir(p)][Name(p)])
           size == TaskSize[task[p]]
<1>1. {was, size, usage[p], Quota} \subseteq Nat /\ HasDisk(p)
  BY StoreTypes, ExecutorAssumption DEF Measure, Counters
<1>2. UNCHANGED <<scene, task, usage, wild>> /\ old' = [old EXCEPT ![p] = was]
  BY DEF Measure, diskVars, envVars
<1>3. CASE Minus(usage[p], was) + size > Quota
  <2>1. pc' = [pc EXCEPT ![p] = "reply"]
    BY <1>3 DEF Measure, Yields
  <2>2. \A q \in Procs : /\ Storing(q)' => Storing(q) /\ q # p
                         /\ Writing(q)' => Writing(q)
    BY <2>1 DEF Storing, Writing, Shape
  <2>3. \A q \in Procs \ {p} : old'[q] = old[q]
    BY <1>2 DEF Counters
  <2> QED
    BY <1>2, <2>2, <2>3 DEF Room, StoringData, HasDisk, Conf, Counted, Kind, Dir
<1>4. CASE ~(Minus(usage[p], was) + size > Quota)
  <2>1. pc' = [pc EXCEPT ![p] = "open"]
    BY <1>4 DEF Measure, Goes
  <2>2. Minus(size, was) = 0 \/ usage[p] + Minus(size, was) <= Quota
    BY <1>1, <1>4 DEF Minus
  <2>3. old'[p] = was
    BY <1>2 DEF Counters
  <2> HIDE DEF was
  <2>4. Counted(p)' = Minus(size, was)
    BY <1>2, <2>3 DEF Counted
  <2>5. \A q \in Procs \ {p} : pc'[q] = pc[q] /\ old'[q] = old[q]
    BY <1>2, <2>1 DEF Shape, Counters
  <2>6. HasDisk(p)' /\ (Counted(p)' = 0 \/ usage'[p] + Counted(p)' <= Quota)
    BY <1>1, <1>2, <2>2, <2>4 DEF HasDisk, Conf
  <2>7. ~Writing(p)'
    BY <2>1 DEF Writing, Shape
  <2> QED
    BY <1>2, <2>5, <2>6, <2>7 DEF Room, StoringData, Storing, Writing, HasDisk, Conf, Counted, Kind, Dir
<1> QED
  BY <1>3, <1>4

LEMMA QuotaMeasure ==
    ASSUME Shape, Counters, Shape', Counters', QuotaInv, NEW p \in Procs, Measure(p)
    PROVE  QuotaInv'
<1> DEFINE e == Dir(p)
           n == Name(p)
           was == Len0(disk[e][n])
<1>0. AllFinite /\ AllFinite'
  BY CountsFinite, PTL
<1>1. /\ pc[p] = "size" /\ Kind(p) = "StoreData" /\ p \in Running /\ e \in Dirs /\ n \in Names
      /\ was \in Nat
  BY StoreTypes DEF Measure, Shape
<1>2. /\ UNCHANGED <<scene, task, usage, disk, wild, blind, shrunk>>
      /\ old' = [old EXCEPT ![p] = was]
      /\ pc' = [pc EXCEPT ![p] = "open"] \/ pc' = [pc EXCEPT ![p] = "reply"]
  BY DEF Measure, diskVars, envVars, Yields, Goes
<1>3. /\ old'[p] = was /\ pc'[p] \in {"open", "reply"} /\ Kind(p)' = "StoreData"
      /\ \A q \in Procs \ {p} : pc'[q] = pc[q] /\ old'[q] = old[q]
      /\ ~StoringData(p) /\ (StoringData(p)' <=> pc'[p] = "open")
  BY <1>1, <1>2 DEF Shape, Counters, StoringData, Storing, Kind
<1>4. /\ \A d : FileBytes(d)' = FileBytes(d)
      /\ \A q \in Procs : Dir(q)' = Dir(q) /\ Name(q)' = Name(q)
      /\ \A q \in Procs \ {p} : StoringData(q)' <=> StoringData(q)
      /\ Running' = Running /\ \A d : Sharers(d)' = Sharers(d)
  BY <1>2, <1>3 DEF FileBytes, Dir, Conf, Name, StoringData, Storing, Kind, Running, Sharers
<1> HIDE DEF e, n, was
<1>5. \A d \in Dirs : FileBytes(d)' \cup Measured(d)' \subseteq FileBytes(d) \cup Measured(d)
  <2> TAKE d \in Dirs
  <2>1. ASSUME NEW q \in Sharers(d), StoringData(q)', NEW x \in {Name(q)} \X (1..old'[q])
        PROVE  x \in FileBytes(d) \cup Measured(d)
    <3>1. CASE q = p
      <4>1. d = e
        BY <3>1, <2>1 DEF e, Sharers
      <4>2. x \in {n} \X (1..was)
        BY <1>3, <2>1, <3>1 DEF n
      <4>3. {n} \X (1..was) \subseteq FileBytes(d)
        BY <1>1, <4>1, OwnBytes DEF was
      <4> QED
        BY <4>2, <4>3
    <3>2. CASE q # p
      BY <1>3, <1>4, <2>1, <3>2 DEF Measured, Sharers, Running
    <3> QED
      BY <3>1, <3>2
  <2>2. Measured(d)' = UNION {{Name(q)} \X (1..old'[q]) : q \in {r \in Sharers(d) : StoringData(r)'}}
    BY <1>4 DEF Measured, Sharers, Running
  <2> QED
    BY <1>4, <2>1, <2>2
<1>6. \A d : Credit(d)' \subseteq Credit(d)
  <2>1. \A q \in Procs : pc'[q] # "down" => pc[q] # "down" /\ usage'[q] = usage[q]
    BY <1>1, <1>2, <1>3
  <2> QED
    BY <1>2, <2>1, CreditFrame
<1>7. Budget'
  BY <1>0, <1>2, <1>5, <1>6, BudgetFrame DEF QuotaInv
<1>8. Room'
  BY RoomMeasure DEF QuotaInv
<1>9. Backed'
  <2> SUFFICES ASSUME NEW q \in Procs, q \notin shrunk, pc'[q] # "down"
               PROVE  /\ usage'[q] <= Cardinality(Backing(q)')
                      /\ pc'[q] = "open" /\ Kind(q)' = "StoreData"
                             => old'[q] <= Len0(disk'[Dir(q)'][Name(q)'])
    BY <1>2 DEF Backed
  <2>1. pc[q] # "down" /\ q \in Running /\ usage'[q] = usage[q] /\ usage[q] \in Nat
    BY <1>1, <1>2, <1>3 DEF Shape, Counters
  <2>2. Backing(q) \subseteq Backing(q)'
    <3>1. CASE q = p
      <4>1. \A x \in FileBytes(e) : x[1] = n => x \in {n} \X (1..was)
        BY <1>1 DEF FileBytes, was
      <4>2. Backing(p) = FileBytes(e)
        BY <1>3 DEF Backing, e
      <4>3. Backing(p)' = IF pc'[p] = "open"
                          THEN {x \in FileBytes(e) : x[1] # n} \cup ({n} \X (1..was)) ELSE FileBytes(e)
        BY <1>3, <1>4 DEF Backing, e, n
      <4> QED
        BY <3>1, <4>1, <4>2, <4>3
    <3>2. CASE q # p
      BY <1>3, <1>4, <3>2 DEF Backing
    <3> QED
      BY <3>1, <3>2
  <2>3. usage'[q] <= Cardinality(Backing(q)')
    BY <1>0, <1>4, <2>1, <2>2, BackedFrame DEF QuotaInv
  <2>4. ASSUME pc'[q] = "open", Kind(q)' = "StoreData"
        PROVE  old'[q] <= Len0(disk'[Dir(q)'][Name(q)'])
    <3>1. CASE q = p
      BY <1>1, <1>2, <1>3, <1>4, <3>1 DEF was, e, n, Len0
    <3>2. CASE q # p
      <4>1. pc[q] = "open" /\ Kind(q) = "StoreData" /\ old'[q] = old[q]
        BY <1>2, <1>3, <2>4, <3>2 DEF Kind
      <4> QED
        BY <1>2, <1>4, <2>1, <4>1 DEF QuotaInv, Backed, Len0
    <3> QED
      BY <3>1, <3>2
  <2> QED
    BY <2>3, <2>4
<1> QED
  BY <1>7, <1>8, <1>9 DEF QuotaInv

\* A process at work elsewhere than at its own step keeps its room.
LEMMA RoomFrame ==
    ASSUME Room, NEW p \in Procs, scene' = scene, wild \subseteq wild',
           \A q \in Procs \ {p} : UNCHANGED <<pc[q], task[q], old[q], usage[q]>>,
           StoringData(p)' => HasDisk(p)' /\ (Counted(p)' = 0 \/ usage'[p] + Counted(p)' <= Quota),
           Writing(p)' /\ Kind(p)' = "DiskWrite" => Dir(p)' \in wild'
    PROVE  Room'
  BY DEF Room, StoringData, Storing, Writing, HasDisk, Conf, Counted, Kind, Dir

LEMMA QuotaOpen ==
    ASSUME Shape, Counters, Shape', Counters', QuotaInv, NEW p \in Procs, Open(p)
    PROVE  QuotaInv'
<1> DEFINE e == Dir(p)
           n == Name(p)
           was == Len0(disk[e][n])
<1>0. AllFinite /\ AllFinite'
  BY CountsFinite, PTL
<1>1. pc[p] = "open" /\ p \in Running /\ e \in Dirs /\ n \in Names /\ was \in Nat
  BY StoreTypes DEF Open
<1>2. /\ UNCHANGED <<scene, task, usage, old, blind>>
      /\ disk' = [disk EXCEPT ![e][n] = <<>>]
      /\ pc' = [pc EXCEPT ![p] = "fill"]
      /\ wild' = wild \cup {x \in {e} : Kind(p) = "DiskWrite"}
      /\ shrunk' = shrunk \cup {q \in Sharers(e) : was > 0 /\ (q # p \/ Kind(p) = "DiskWrite")}
  BY DEF Open, envVars, Goes
<1>3. /\ pc'[p] = "fill"
      /\ \A q \in Procs \ {p} : pc'[q] = pc[q]
      /\ \A q \in Procs : StoringData(q)' <=> StoringData(q)
  BY <1>1, <1>2 DEF Shape, StoringData, Storing, Kind
<1>4. /\ \A q \in Procs : Dir(q)' = Dir(q) /\ Name(q)' = Name(q) /\ Kind(q)' = Kind(q)
      /\ Running' = Running /\ \A d : Sharers(d)' = Sharers(d)
  BY <1>2 DEF Dir, Conf, Name, Kind, Running, Sharers
<1>5. /\ Len0(<<>>) = 0
      /\ \A d \in Dirs, m \in Names : disk'[d][m] = IF d = e /\ m = n THEN <<>> ELSE disk[d][m]
  <2>1. <<>> \in Seq(Tasks) /\ Len(<<>>) = 0
    BY EmptySeq
  <2>2. Len0(<<>>) = 0
    BY <2>1, ExecutorAssumption DEF Len0
  <2> QED
    BY <1>1, <1>2, <2>2 DEF Shape
<1>6. \A d \in Dirs : /\ FileBytes(d)' \subseteq FileBytes(d)
                      /\ \A x \in FileBytes(d) : x \in FileBytes(d)' \/ (d = e /\ x[1] = n)
                      /\ was = 0 => FileBytes(d)' = FileBytes(d)
  <2> TAKE d \in Dirs
  <2>1. FileBytes(d)' = UNION {{m} \X (1..Len0(disk'[d][m])) : m \in Names}
    BY DEF FileBytes, Len0
  <2>2. \A m \in Names : Len0(disk'[d][m]) = IF d = e /\ m = n THEN 0 ELSE Len0(disk[d][m])
    BY <1>5
  <2>3. FileBytes(d) = UNION {{m} \X (1..Len0(disk[d][m])) : m \in Names}
    BY DEF FileBytes
  <2>4. \A m \in Names : Len0(disk[d][m]) \in Nat
    BY FileLength
  <2> QED
    BY <2>1, <2>2, <2>3, <2>4
<1> HIDE DEF e, n, was
<1>7. Budget'
  <2>1. \A d : Measured(d)' = Measured(d)
    BY <1>2, <1>3, <1>4 DEF Measured, Sharers, Running
  <2>2. \A q \in Procs : pc'[q] # "down" => pc[q] # "down" /\ usage'[q] = usage[q]
    BY <1>1, <1>2, <1>3
  <2> QED
    BY <1>0, <1>2, <1>6, <2>1, <2>2, CreditFrame, BudgetFrame DEF QuotaInv
<1>8. Room'
  <2>1. StoringData(p)' => HasDisk(p)' /\ (Counted(p)' = 0 \/ usage'[p] + Counted(p)' <= Quota)
    <3>1. UNCHANGED <<HasDisk(p), Counted(p), usage[p]>>
      BY <1>2 DEF HasDisk, Conf, Counted
    <3> QED
      BY <1>3, <3>1 DEF QuotaInv, Room
  <2>2. Kind(p)' = "DiskWrite" => Dir(p)' \in wild'
    BY <1>2, <1>4 DEF e
  <2> QED
    BY <1>2, <1>3, <2>1, <2>2, RoomFrame DEF QuotaInv
<1>9. Backed'
  <2> SUFFICES ASSUME NEW q \in Procs, q \notin shrunk', pc'[q] # "down"
               PROVE  /\ usage'[q] <= Cardinality(Backing(q)')
                      /\ pc'[q] = "open" /\ Kind(q)' = "StoreData"
                             => old'[q] <= Len0(disk'[Dir(q)'][Name(q)'])
    BY DEF Backed
  <2>1. pc[q] # "down" /\ q \in Running /\ usage'[q] = usage[q] /\ usage[q] \in Nat /\ q \notin shrunk
        /\ Dir(q) \in Dirs
    BY <1>1, <1>2, <1>3, ConfigTypes DEF Shape, Counters
  <2>2. was = 0 \/ q \notin Sharers(e) \/ (q = p /\ Kind(p) # "DiskWrite")
    BY <1>1, <1>2
  <2>3. Backing(q) \subseteq Backing(q)'
    <3>1. CASE FileBytes(Dir(q))' = FileBytes(Dir(q))
      BY <1>2, <1>3, <1>4, <3>1 DEF Backing
    <3>2. CASE q = p /\ Kind(p) # "DiskWrite"
      <4>1. StoringData(p)
        BY <1>1, <3>2 DEF StoringData, Storing, Shape
      <4>2. \A x \in FileBytes(e) : x[1] # n => x \in FileBytes(e)'
        <5>1. e' = e
          BY <1>4 DEF e
        <5>2. FileBytes(e)' = UNION {{m} \X (1..Len0(disk'[e][m])) : m \in Names}
          BY <5>1 DEF FileBytes, Len0
        <5>3. \A d \in Dirs : FileBytes(d)' = UNION {{m} \X (1..Len0(disk'[d][m])) : m \in Names}
          BY DEF FileBytes, Len0
        <5> QED
          BY <1>1, <1>6, <5>2, <5>3
      <4>3. Backing(p) = {x \in FileBytes(e) : x[1] # n} \cup ({n} \X (1..old[p]))
        BY <4>1 DEF Backing, e, n
      <4>4. Backing(p)' = {x \in FileBytes(e)' : x[1] # n} \cup ({n} \X (1..old[p]))
        <5>1. Backing(p)' = {x \in FileBytes(Dir(p))' : x[1] # n} \cup ({n} \X (1..old[p]))
          BY <1>2, <1>3, <1>4, <4>1 DEF Backing, n
        <5>2. FileBytes(Dir(p))' = FileBytes(e)'
          BY <1>4 DEF FileBytes, e
        <5> QED
          BY <5>1, <5>2
      <4> QED
        BY <3>2, <4>2, <4>3, <4>4
    <3>3. CASE q \notin Sharers(e)
      <4>1. Dir(q) # e
        BY <2>1, <3>3 DEF Sharers
      <4>2. FileBytes(Dir(q))' = FileBytes(Dir(q))
        <5>1. \A m \in Names : disk'[Dir(q)][m] = disk[Dir(q)][m]
          BY <1>5, <2>1, <4>1
        <5> QED
          BY <1>4, <5>1 DEF FileBytes
      <4> QED
        BY <3>1, <4>2
    <3>4. CASE was = 0
      <4>1. FileBytes(Dir(q))' = FileBytes(Dir(q))
        <5>1. \A d \in Dirs : FileBytes(d)' = FileBytes(d)
          BY <1>6, <3>4
        <5>2. FileBytes(Dir(q))' = UNION {{m} \X (1..Len0(disk'[Dir(q)][m])) : m \in Names}
          BY <1>4 DEF FileBytes, Len0
        <5>3. \A d \in Dirs : FileBytes(d)' = UNION {{m} \X (1..Len0(disk'[d][m])) : m \in Names}
          BY DEF FileBytes, Len0
        <5> QED
          BY <2>1, <5>1, <5>2, <5>3
      <4> QED
        BY <3>1, <4>1
    <3> QED
      BY <2>2, <3>2, <3>3, <3>4
  <2>4. usage'[q] <= Cardinality(Backing(q)')
    BY <1>0, <1>4, <2>1, <2>3, BackedFrame DEF QuotaInv
  <2>5. ASSUME pc'[q] = "open", Kind(q)' = "StoreData"
        PROVE  old'[q] <= Len0(disk'[Dir(q)'][Name(q)'])
    <3>1. q # p /\ pc[q] = "open" /\ Kind(q) = "StoreData" /\ old'[q] = old[q]
      BY <1>2, <1>3, <1>4, <2>5
    <3>2. old[q] <= Len0(disk[Dir(q)][Name(q)])
      BY <2>1, <3>1 DEF QuotaInv, Backed
    <3>3. Name(q) \in Names
      BY <3>1, StoreTypes
    <3>4. CASE Dir(q) = e /\ Name(q) = n
      <4>1. was = 0
        BY <2>1, <2>2, <3>1, <3>4 DEF Sharers
      <4>2. old[q] <= 0
        BY <3>2, <3>4, <4>1 DEF was
      <4> QED
        BY <1>4, <1>5, <2>1, <3>1, <3>3, <3>4, <4>2
    <3>5. CASE ~(Dir(q) = e /\ Name(q) = n)
      BY <1>4, <1>5, <2>1, <3>1, <3>2, <3>3, <3>5
    <3> QED
      BY <3>4, <3>5
  <2> QED
    BY <2>4, <2>5
<1> QED
  BY <1>7, <1>8, <1>9 DEF QuotaInv

\* A file holds what was written, or more, if it was longer.
LEMMA OverlayLength ==
    ASSUME NEW file \in Seq(Tasks), NEW t \in Tasks
    PROVE  Len(Overlay(file, t)) = IF Len(file) > TaskSize[t] THEN Len(file) ELSE TaskSize[t]
<1>1. Payload(t) \in Seq(Tasks) /\ Len(Payload(t)) = TaskSize[t] /\ TaskSize[t] \in Nat
  BY PayloadType, ExecutorAssumption
<1>2. Len(file) \in Nat /\ TaskSize[t] + 1 \in Int /\ Len(file) \in Int
  BY <1>1, LenProperties
<1>3. \A i \in (TaskSize[t] + 1)..Len(file) : file[i] \in Tasks
  BY <1>1, <1>2
<1>4. /\ SubSeq(file, TaskSize[t] + 1, Len(file)) \in Seq(Tasks)
      /\ Len(SubSeq(file, TaskSize[t] + 1, Len(file))) =
            IF TaskSize[t] + 1 <= Len(file) THEN Len(file) - (TaskSize[t] + 1) + 1 ELSE 0
  BY <1>2, <1>3, SubSeqProperties
<1>5. Len(Overlay(file, t)) = TaskSize[t] + Len(SubSeq(file, TaskSize[t] + 1, Len(file)))
  BY <1>1, <1>4, ConcatProperties DEF Overlay
<1> QED
  BY <1>1, <1>2, <1>4, <1>5

\* What a step that writes changes, in sets of bytes.
LEMMA FillBytes ==
    ASSUME Shape, Counters, NEW p \in Procs, Fill(p)
    PROVE  LET e == Dir(p)
               n == Name(p)
               size == TaskSize[task[p]]
           IN  /\ \A d \in Dirs : d # e => FileBytes(d)' = FileBytes(d)
               /\ \A d \in Dirs : FileBytes(d) \subseteq FileBytes(d)'
               /\ \A d \in Dirs : d = e => FileBytes(d)' = FileBytes(d) \cup ({n} \X (1..size))
               /\ \A d \in Dirs, m \in Names : Len0(disk[d][m]) <= Len0(disk'[d][m])
<1> DEFINE e == Dir(p)
           n == Name(p)
           size == TaskSize[task[p]]
<1>1. /\ pc[p] = "fill" /\ p \in Running /\ e \in Dirs /\ n \in Names /\ size \in Nat
      /\ disk[e][n] \in Seq(Tasks) /\ task[p] \in Tasks
  <2>1. pc[p] = "fill" /\ p \in Running /\ e \in Dirs /\ n \in Names /\ size \in Nat
    BY StoreTypes DEF Fill
  <2>2. disk[e][n] # Absent /\ task[p] \in Tasks
    BY <2>1 DEF Shape, Writing
  <2> QED
    BY <2>1, <2>2 DEF Shape
<1>2. disk' = [disk EXCEPT ![e][n] = Overlay(disk[e][n], task[p])]
  BY <1>1 DEF Fill, Shape
<1>3. \A d \in Dirs, m \in Names :
        disk'[d][m] = IF d = e /\ m = n THEN Overlay(disk[e][n], task[p]) ELSE disk[d][m]
  BY <1>1, <1>2 DEF Shape
<1>4. Overlay(disk[e][n], task[p]) \in Seq(Tasks) /\ Overlay(disk[e][n], task[p]) # Absent
  BY <1>1, OverlayType, ExecutorAssumption
<1>5. /\ Len0(Overlay(disk[e][n], task[p])) =
            IF Len0(disk[e][n]) > size THEN Len0(disk[e][n]) ELSE size
      /\ Len0(disk[e][n]) \in Nat
  <2>1. disk[e][n] # Absent
    BY <1>1, ExecutorAssumption
  <2> QED
    BY <1>1, <1>4, <2>1, OverlayLength, LenProperties DEF Len0
<1>6. \A d \in Dirs, m \in Names :
        Len0(disk'[d][m]) = IF d = e /\ m = n /\ Len0(disk[d][m]) <= size
                            THEN size ELSE Len0(disk[d][m])
  BY <1>1, <1>3, <1>5
<1>7. \A d \in Dirs, m \in Names : Len0(disk[d][m]) \in Nat
  BY FileLength
<1>8. \A d \in Dirs : /\ FileBytes(d)' = UNION {{m} \X (1..Len0(disk'[d][m])) : m \in Names}
                      /\ FileBytes(d) = UNION {{m} \X (1..Len0(disk[d][m])) : m \in Names}
  BY DEF FileBytes, Len0
<1> HIDE DEF e, n, size
<1>9. \A d \in Dirs : d # e => FileBytes(d)' = FileBytes(d)
  <2> TAKE d \in Dirs
  <2> HAVE d # e
  <2>1. disk'[d] = disk[d]
    BY <1>2 DEF Shape
  <2> QED
    BY <2>1 DEF FileBytes, Len0
<1>10. \A d \in Dirs, m \in Names : Len0(disk[d][m]) <= Len0(disk'[d][m])
  BY <1>1, <1>6, <1>7
<1>11. \A d \in Dirs : d = e => FileBytes(d)' = FileBytes(d) \cup ({n} \X (1..size))
  <2> TAKE d \in Dirs
  <2> HAVE d = e
  <2>1. \A m \in Names : m # n => Len0(disk'[d][m]) = Len0(disk[d][m])
    BY <1>6
  <2>2. {n} \X (1..Len0(disk'[d][n])) = ({n} \X (1..Len0(disk[d][n]))) \cup ({n} \X (1..size))
    BY <1>1, <1>6, <1>7
  <2> QED
    BY <1>1, <1>8, <2>1, <2>2
<1>12. \A d \in Dirs : FileBytes(d) \subseteq FileBytes(d)'
  BY <1>9, <1>11
<1> QED
  BY <1>9, <1>10, <1>11, <1>12 DEF e, n, size

\* What the bytes grow by is taken from the credit.
LEMMA BudgetShift ==
    ASSUME AllFinite, AllFinite', Budget, scene' = scene, wild \subseteq wild', blind \subseteq blind',
           \A d \in Dirs \ (wild' \cup blind') : \E c \in Nat :
               /\ Cardinality(FileBytes(d)' \cup Measured(d)') <= Cardinality(FileBytes(d) \cup Measured(d)) + c
               /\ Cardinality(Credit(d)') + c <= Cardinality(Credit(d))
    PROVE  Budget'
<1> SUFFICES ASSUME NEW d \in Dirs, d \notin wild', d \notin blind'
             PROVE  Cardinality(FileBytes(d)' \cup Measured(d)') + Cardinality(Credit(d)')
                        <= Quota * Cardinality(Sharers(d)')
  BY DEF Budget
<1> DEFINE A == FileBytes(d) \cup Measured(d)
           B == FileBytes(d)' \cup Measured(d)'
<1>1. PICK c \in Nat : /\ Cardinality(B) <= Cardinality(A) + c
                       /\ Cardinality(Credit(d)') + c <= Cardinality(Credit(d))
  OBVIOUS
<1>2. IsFiniteSet(A) /\ IsFiniteSet(B) /\ IsFiniteSet(Credit(d)) /\ IsFiniteSet(Credit(d)')
  BY FS_Union DEF AllFinite
<1>3. {Cardinality(A), Cardinality(B), Cardinality(Credit(d)), Cardinality(Credit(d)')} \subseteq Nat
  BY <1>2, FS_CardinalityType
<1>4. Cardinality(A) + Cardinality(Credit(d)) <= Quota * Cardinality(Sharers(d))
  BY DEF Budget
<1>5. Sharers(d)' = Sharers(d)
  BY DEF Sharers, Running, Dir, Conf
<1>6. Quota * Cardinality(Sharers(d)) \in Nat
  BY SharersFinite, ExecutorAssumption
<1> HIDE DEF A, B
<1>7. Cardinality(B) + Cardinality(Credit(d)') <= Quota * Cardinality(Sharers(d))
  BY <1>1, <1>3, <1>4, <1>6
<1> QED
  BY <1>5, <1>7 DEF B

LEMMA QuotaFill ==
    ASSUME Shape, Counters, Shape', Counters', QuotaInv, NEW p \in Procs, Fill(p)
    PROVE  QuotaInv'
<1> DEFINE e == Dir(p)
           n == Name(p)
           size == TaskSize[task[p]]
           more == IF Kind(p) = "StoreData" THEN Counted(p) ELSE 0
<1>0. AllFinite /\ AllFinite'
  BY CountsFinite, PTL
<1>1. /\ pc[p] = "fill" /\ p \in Running /\ e \in Dirs /\ n \in Names /\ p \in Sharers(e)
      /\ size \in Nat /\ old[p] \in Nat /\ usage[p] \in Nat /\ Counted(p) \in Nat /\ more \in Nat
      /\ Kind(p) \in {"StoreData", "DiskWrite"}
  <2>1. pc[p] = "fill"
    BY DEF Fill
  <2>2. Kind(p) \in {"StoreData", "DiskWrite"}
    BY <2>1 DEF Shape, Storing
  <2> QED
    BY <2>1, <2>2, StoreTypes
<1>2. /\ UNCHANGED <<scene, task, old, wild, blind>>
      /\ usage' = [usage EXCEPT ![p] = usage[p] + more]
      /\ pc' = [pc EXCEPT ![p] = "reply"]
      /\ shrunk' = shrunk \cup {q \in {p} : Kind(p) = "StoreData" /\ size < old[p]}
  BY DEF Fill, envVars, Yields, Counters
<1>3. /\ pc'[p] = "reply" /\ usage'[p] = usage[p] + more
      /\ \A q \in Procs \ {p} : pc'[q] = pc[q] /\ usage'[q] = usage[q]
      /\ StoringData(p) <=> Kind(p) = "StoreData"
      /\ ~StoringData(p)'
      /\ \A q \in Procs \ {p} : StoringData(q)' <=> StoringData(q)
  BY <1>1, <1>2 DEF Shape, Counters, StoringData, Storing, Kind
<1>4. /\ \A q \in Procs : Dir(q)' = Dir(q) /\ Name(q)' = Name(q) /\ Kind(q)' = Kind(q)
      /\ Running' = Running /\ \A d : Sharers(d)' = Sharers(d)
      /\ \A q \in Procs : HasDisk(q)' = HasDisk(q)
  BY <1>2 DEF Dir, Conf, Name, Kind, Running, Sharers, HasDisk
<1>5. /\ \A d \in Dirs : d # e => FileBytes(d)' = FileBytes(d)
      /\ \A d \in Dirs : FileBytes(d) \subseteq FileBytes(d)'
      /\ \A d \in Dirs : d = e => FileBytes(d)' = FileBytes(d) \cup ({n} \X (1..size))
      /\ \A d \in Dirs, m \in Names : Len0(disk[d][m]) <= Len0(disk'[d][m])
  BY FillBytes
<1>6. Minus(size, old[p]) = Counted(p)
  BY DEF Counted
<1> HIDE DEF e, n, size, more
<1>7. \A d : Measured(d)' \subseteq Measured(d)
  <2>1. \A q \in Procs : StoringData(q)' => StoringData(q) /\ task'[q] = task[q] /\ old'[q] = old[q]
    BY <1>2, <1>3
  <2> QED
    BY <1>2, <2>1, MeasuredFrame
<1>8. ASSUME NEW d \in Dirs, d \notin wild', d \notin blind'
      PROVE  \E c \in Nat :
               /\ Cardinality(FileBytes(d)' \cup Measured(d)') <= Cardinality(FileBytes(d) \cup Measured(d)) + c
               /\ Cardinality(Credit(d)') + c <= Cardinality(Credit(d))
  <2> DEFINE A == FileBytes(d) \cup Measured(d)
             B == FileBytes(d)' \cup Measured(d)'
  <2>0. /\ IsFiniteSet(A) /\ IsFiniteSet(B) /\ IsFiniteSet(Credit(d)) /\ IsFiniteSet(Credit(d)')
        /\ {Cardinality(A), Cardinality(B), Cardinality(Credit(d)), Cardinality(Credit(d)')} \subseteq Nat
    <3>1. IsFiniteSet(A) /\ IsFiniteSet(B) /\ IsFiniteSet(Credit(d)) /\ IsFiniteSet(Credit(d)')
      BY <1>0, FS_Union DEF AllFinite
    <3> QED
      BY <3>1, FS_CardinalityType
  <2>1. CASE d # e
    <3>1. B \subseteq A
      BY <1>5, <1>7, <2>1
    <3>2. Credit(d)' \subseteq Credit(d)
      BY <1>2, <1>3, <1>4, <2>1 DEF Credit, Sharers, Running, e
    <3>3. Cardinality(B) <= Cardinality(A) /\ Cardinality(Credit(d)') <= Cardinality(Credit(d))
      BY <2>0, <3>1, <3>2, FS_Subset
    <3> HIDE DEF A, B
    <3>4. Cardinality(B) <= Cardinality(A) + 0 /\ Cardinality(Credit(d)') + 0 <= Cardinality(Credit(d))
      BY <2>0, <3>3
    <3> QED
      BY <3>4 DEF A, B
  <2>2. CASE d = e
    <3> DEFINE c == Counted(p)
               grown == {n} \X ((old[p] + 1)..size)
               spent == {p} \X ((usage[p] + 1)..(usage[p] + c))
    <3>1. Kind(p) = "StoreData" /\ StoringData(p) /\ HasDisk(p) /\ (c = 0 \/ usage[p] + c <= Quota)
          /\ more = c
      <4>1. Kind(p) # "DiskWrite"
        BY <1>1, <1>2, <1>8, <2>2 DEF QuotaInv, Room, Writing, e
      <4> QED
        BY <1>1, <1>3, <4>1 DEF QuotaInv, Room, more
    <3>2. B \subseteq A \cup grown
      <4>1. {n} \X (1..old[p]) \subseteq Measured(d)
        BY <1>1, <2>2, <3>1 DEF Measured, n
      <4>2. {n} \X (1..size) \subseteq ({n} \X (1..old[p])) \cup grown
        BY <1>1
      <4> QED
        BY <1>5, <1>7, <2>2, <4>1, <4>2
    <3>3. IsFiniteSet(grown) /\ Cardinality(grown) = c
      BY <1>1, <1>6, ColumnSize
    <3>4. IsFiniteSet(spent) /\ Cardinality(spent) = c
      <4>1. usage[p] + c \in Nat /\ Minus(usage[p] + c, usage[p]) = c
        BY <1>1 DEF Minus
      <4> QED
        BY <1>1, <4>1, ColumnSize
    <3>5. Credit(d)' \cap spent = {}
      <4>1. \A q, i : <<q, i>> \in Credit(d)' => q \in Procs /\ i \in (usage'[q] + 1)..Quota
        BY DEF Credit, Sharers, Running
      <4>2. usage'[p] = usage[p] + c
        BY <1>3, <3>1
      <4>3. ASSUME NEW x \in Credit(d)', x \in spent PROVE FALSE
        <5>1. PICK i \in (usage[p] + 1)..(usage[p] + c) : x = <<p, i>>
          BY <4>3
        <5>2. i \in (usage[p] + c + 1)..Quota
          BY <4>1, <4>2, <4>3, <5>1
        <5> QED
          BY <1>1, <5>1, <5>2, ExecutorAssumption
      <4> QED
        BY <4>3
    <3>6. Credit(d)' \cup spent \subseteq Credit(d)
      <4>1. spent \subseteq {p} \X ((usage[p] + 1)..Quota)
        BY <1>1, <3>1, ExecutorAssumption
      <4>2. {p} \X ((usage[p] + 1)..Quota) \subseteq Credit(d)
        BY <1>1, <2>2, <3>1 DEF Credit
      <4>3. ASSUME NEW q \in Sharers(d), HasDisk(q), pc'[q] # "down"
            PROVE  pc[q] # "down" /\ (usage'[q] + 1)..Quota \subseteq (usage[q] + 1)..Quota
        <5>1. q \in Procs /\ usage[q] \in Nat
          BY DEF Sharers, Running, Counters
        <5>2. pc[q] # "down" /\ usage'[q] \in {usage[q], usage[q] + c} /\ c \in Nat
          BY <1>1, <1>3, <3>1, <4>3, <5>1
        <5> QED
          BY <5>1, <5>2, ExecutorAssumption
      <4>4. Credit(d)' = UNION {{q} \X ((usage'[q] + 1)..Quota) :
                                  q \in {r \in Sharers(d) : HasDisk(r) /\ pc'[r] # "down"}}
        BY <1>4 DEF Credit, Sharers, Running
      <4>5. Credit(d)' \subseteq Credit(d)
        BY <4>3, <4>4 DEF Credit
      <4> QED
        BY <4>1, <4>2, <4>5
    <3> HIDE DEF A, B, c, grown, spent
    <3>7. Cardinality(B) <= Cardinality(A) + c
      BY <2>0, <3>2, <3>3, AtMostBoth
    <3>8. Cardinality(Credit(d)') + c <= Cardinality(Credit(d))
      BY <2>0, <3>4, <3>5, <3>6, AtLeastBoth
    <3>9. c \in Nat
      BY <1>1 DEF c
    <3> QED
      BY <3>7, <3>8, <3>9 DEF A, B
  <2> QED
    BY <2>1, <2>2
<1>9. Budget'
  BY <1>0, <1>2, <1>8, BudgetShift DEF QuotaInv
<1>10. Room'
  <2>1. ~Writing(p)'
    BY <1>3 DEF Writing
  <2> QED
    BY <1>2, <1>3, <2>1, RoomFrame DEF QuotaInv
<1>11. ASSUME p \notin shrunk' PROVE usage'[p] <= Cardinality(Backing(p)')
  <2> DEFINE D == FileBytes(e)'
  <2>0. e' = e
    BY <1>4 DEF e
  <2>1. Backing(p)' = D
    BY <1>3, <1>4, <2>0 DEF Backing, e, FileBytes
  <2>2. D = FileBytes(e) \cup ({n} \X (1..size))
    <3>1. \A d \in Dirs : FileBytes(d)' = UNION {{m} \X (1..Len0(disk'[d][m])) : m \in Names}
      BY DEF FileBytes, Len0
    <3>2. D = UNION {{m} \X (1..Len0(disk'[e][m])) : m \in Names}
      BY <2>0 DEF FileBytes, Len0
    <3> QED
      BY <1>1, <1>5, <3>1, <3>2
  <2>3. IsFiniteSet(Backing(p)) /\ IsFiniteSet(Backing(p)') /\ usage[p] <= Cardinality(Backing(p))
    BY <1>0, <1>1, <1>2, <1>4, <1>11 DEF AllFinite, QuotaInv, Backed
  <2>4. {Cardinality(Backing(p)), Cardinality(Backing(p)')} \subseteq Nat
    BY <2>3, FS_CardinalityType
  <2>5. CASE Kind(p) = "StoreData"
    <3> DEFINE grown == {n} \X ((old[p] + 1)..size)
    <3>1. IsFiniteSet(grown) /\ Cardinality(grown) = Counted(p)
      BY <1>1, <1>6, ColumnSize
    <3>2. Backing(p) = {x \in FileBytes(e) : x[1] # n} \cup ({n} \X (1..old[p]))
      BY <1>3, <2>5 DEF Backing, e, n
    <3>3. old[p] <= size
      BY <1>1, <1>2, <1>11, <2>5
    <3>4. Backing(p) \cup grown \subseteq Backing(p)'
      BY <1>1, <2>1, <2>2, <3>2, <3>3
    <3>5. Backing(p) \cap grown = {}
      BY <1>1, <3>2
    <3> HIDE DEF grown
    <3>6. Cardinality(Backing(p)) + Counted(p) <= Cardinality(Backing(p)')
      BY <2>3, <3>1, <3>4, <3>5, AtLeastBoth
    <3> QED
      BY <1>1, <1>3, <2>3, <2>4, <2>5, <3>6 DEF more
  <2>6. CASE Kind(p) # "StoreData"
    <3>1. Backing(p) = FileBytes(e)
      BY <1>3, <2>6 DEF Backing, e
    <3>2. Cardinality(Backing(p)) <= Cardinality(Backing(p)')
      BY <2>1, <2>2, <2>3, <3>1, FS_Subset
    <3> QED
      BY <1>1, <1>3, <2>3, <2>4, <2>6, <3>2 DEF more
  <2> QED
    BY <2>5, <2>6
<1>12. Backed'
  <2> SUFFICES ASSUME NEW q \in Procs, q \notin shrunk', pc'[q] # "down"
               PROVE  /\ usage'[q] <= Cardinality(Backing(q)')
                      /\ pc'[q] = "open" /\ Kind(q)' = "StoreData"
                             => old'[q] <= Len0(disk'[Dir(q)'][Name(q)'])
    BY DEF Backed
  <2>1. CASE q = p
    BY <1>3, <1>11, <2>1
  <2>2. CASE q # p
    <3>1. /\ pc[q] # "down" /\ q \in Running /\ usage'[q] = usage[q] /\ usage[q] \in Nat /\ q \notin shrunk
          /\ Dir(q) \in Dirs
      <4>1. pc'[q] = pc[q] /\ q \in Running
        BY <1>2, <2>2 DEF Shape
      <4>2. usage \in [Procs -> Nat] /\ shrunk \subseteq shrunk'
        <5>1. usage \in [Procs -> Nat]
          BY DEF Counters
        <5> QED
          BY <1>2, <5>1
      <4>3. usage'[q] = usage[q] /\ usage[q] \in Nat /\ q \notin shrunk
        BY <1>3, <2>2, <4>2
      <4> QED
        BY <4>1, <4>3, ConfigTypes
    <3>2. FileBytes(Dir(q)) \subseteq FileBytes(Dir(q))'
      <4>1. \A d \in Dirs : FileBytes(d)' = UNION {{m} \X (1..Len0(disk'[d][m])) : m \in Names}
        BY DEF FileBytes, Len0
      <4>2. FileBytes(Dir(q))' = UNION {{m} \X (1..Len0(disk'[Dir(q)][m])) : m \in Names}
        BY <1>4 DEF FileBytes, Len0
      <4> QED
        BY <1>5, <3>1, <4>1, <4>2
    <3>3. Backing(q) \subseteq Backing(q)'
      <4>1. CASE StoringData(q)
        <5>1. Backing(q) = {x \in FileBytes(Dir(q)) : x[1] # Name(q)} \cup ({Name(q)} \X (1..old[q]))
          BY <4>1 DEF Backing
        <5>2. Backing(q)' = {x \in FileBytes(Dir(q))' : x[1] # Name(q)} \cup ({Name(q)} \X (1..old[q]))
          BY <1>2, <1>3, <1>4, <2>2, <4>1 DEF Backing
        <5> QED
          BY <3>2, <5>1, <5>2
      <4>2. CASE ~StoringData(q)
        BY <1>3, <2>2, <3>2, <4>2 DEF Backing
      <4> QED
        BY <4>1, <4>2
    <3>4. usage'[q] <= Cardinality(Backing(q)')
      BY <1>0, <1>4, <3>1, <3>3, BackedFrame DEF QuotaInv
    <3>5. ASSUME pc'[q] = "open", Kind(q)' = "StoreData"
          PROVE  old'[q] <= Len0(disk'[Dir(q)'][Name(q)'])
      <4>1. pc[q] = "open" /\ Kind(q) = "StoreData" /\ old'[q] = old[q]
        BY <1>2, <1>3, <1>4, <2>2, <3>5
      <4>2. old[q] <= Len0(disk[Dir(q)][Name(q)]) /\ old[q] \in Nat
        BY <3>1, <4>1 DEF QuotaInv, Backed, Counters
      <4>3. Name(q) \in Names
        BY <4>1, StoreTypes
      <4>4. /\ Len0(disk[Dir(q)][Name(q)]) <= Len0(disk'[Dir(q)][Name(q)])
            /\ Len0(disk[Dir(q)][Name(q)]) \in Nat
        BY <1>5, <3>1, <4>3, FileLength
      <4>5. Len0(disk'[Dir(q)][Name(q)]) \in Nat
        <5>1. \A d \in Dirs, m \in Names : disk'[d][m] \in Seq(Tasks) \cup {Absent}
          BY DEF Shape
        <5> QED
          BY <3>1, <4>3, <5>1, LenProperties DEF Len0
      <4> QED
        BY <1>4, <4>1, <4>2, <4>4, <4>5
    <3> QED
      BY <3>4, <3>5
  <2> QED
    BY <2>1, <2>2
<1> QED
  BY <1>9, <1>10, <1>12 DEF QuotaInv

\* A write that fails, and a process that ends in the middle of one, leave the files.
LEMMA QuotaStops ==
    ASSUME Shape, Counters, Shape', Counters', QuotaInv, NEW p \in Procs, Crash(p) \/ WriteFails(p)
    PROVE  QuotaInv'
<1>0. AllFinite /\ AllFinite'
  BY CountsFinite, PTL
<1>1. /\ UNCHANGED <<scene, disk, usage, wild, blind, old>>
      /\ pc[p] # "down" /\ pc'[p] \in {"down", "reply"} /\ shrunk \subseteq shrunk'
      /\ \A q \in Procs \ {p} : pc'[q] = pc[q] /\ task'[q] = task[q]
      /\ pc'[p] # "down" => /\ task'[p] = task[p] /\ Storing(p)
                            /\ p \notin shrunk' => ~Writing(p) \/ old[p] <= 0
  <2>1. CASE Crash(p)
    BY <2>1 DEF Crash, Goes, Shape
  <2>2. CASE WriteFails(p)
    BY <2>2 DEF WriteFails, Yields, Shape, Counters, Storing
  <2> QED
    BY <2>1, <2>2
<1>2. /\ \A d : FileBytes(d)' = FileBytes(d)
      /\ \A q \in Procs : Dir(q)' = Dir(q) /\ Running' = Running
      /\ \A q \in Procs \ {p} : Name(q)' = Name(q) /\ Kind(q)' = Kind(q) /\ (StoringData(q)' <=> StoringData(q))
      /\ ~StoringData(p)' /\ ~Writing(p)'
  BY <1>1 DEF FileBytes, Dir, Conf, Name, StoringData, Storing, Writing, Kind, Running
<1>3. Budget'
  <2>1. \A d : Measured(d)' \subseteq Measured(d)
    BY <1>1, <1>2, MeasuredFrame
  <2>2. \A d : Credit(d)' \subseteq Credit(d)
    BY <1>1, CreditFrame
  <2> QED
    BY <1>0, <1>1, <1>2, <2>1, <2>2, BudgetFrame DEF QuotaInv
<1>4. Room'
  BY <1>1, <1>2, RoomFrame DEF QuotaInv
<1>5. Backed'
  <2> SUFFICES ASSUME NEW q \in Procs, q \notin shrunk', pc'[q] # "down"
               PROVE  /\ usage'[q] <= Cardinality(Backing(q)')
                      /\ pc'[q] = "open" /\ Kind(q)' = "StoreData"
                             => old'[q] <= Len0(disk'[Dir(q)'][Name(q)'])
    BY DEF Backed
  <2>1. /\ pc[q] # "down" /\ q \in Running /\ usage'[q] = usage[q] /\ usage[q] \in Nat /\ q \notin shrunk
    BY <1>1 DEF Shape, Counters
  <2>2. Backing(q) \subseteq Backing(q)'
    <3>1. CASE q # p
      BY <1>1, <1>2, <3>1 DEF Backing
    <3>2. CASE q = p
      <4>1. Backing(p)' = FileBytes(Dir(p))
        BY <1>2 DEF Backing, FileBytes
      <4>2. pc[p] \in {"open", "fill"} /\ Dir(p) \in Dirs /\ Name(p) \in Names /\ old[p] \in Nat
            /\ Len0(disk[Dir(p)][Name(p)]) \in Nat
        BY <1>1, <3>2, StoreTypes DEF Storing
      <4>3. ASSUME StoringData(p) PROVE {Name(p)} \X (1..old[p]) \subseteq FileBytes(Dir(p))
        <5>1. old[p] <= Len0(disk[Dir(p)][Name(p)])
          <6>1. CASE pc[p] = "open"
            BY <2>1, <3>2, <4>3, <6>1 DEF QuotaInv, Backed, StoringData
          <6>2. CASE pc[p] = "fill"
            BY <1>1, <3>2, <4>2, <6>2 DEF Writing
          <6> QED
            BY <4>2, <6>1, <6>2
        <5>2. {Name(p)} \X (1..old[p]) \subseteq {Name(p)} \X (1..Len0(disk[Dir(p)][Name(p)]))
          BY <4>2, <5>1
        <5> QED
          BY <4>2, <5>2, OwnBytes
      <4> QED
        BY <3>2, <4>1, <4>3 DEF Backing
    <3> QED
      BY <3>1, <3>2
  <2>3. usage'[q] <= Cardinality(Backing(q)')
    BY <1>0, <1>2, <2>1, <2>2, BackedFrame DEF QuotaInv
  <2>4. ASSUME pc'[q] = "open", Kind(q)' = "StoreData"
        PROVE  old'[q] <= Len0(disk'[Dir(q)'][Name(q)'])
    BY <1>1, <1>2, <2>1, <2>4 DEF QuotaInv, Backed, Len0
  <2> QED
    BY <2>3, <2>4
<1> QED
  BY <1>3, <1>4, <1>5 DEF QuotaInv

\* A process that counts size bytes takes the rest of its quota; each of the others
\* has a quota at most.
LEMMA QuotaShares ==
    ASSUME NEW quota \in Nat, NEW size \in Nat, NEW shares \in Nat \ {0}, size <= quota,
           NEW others \in Nat, others <= (shares - 1) * quota
    PROVE  size + (others + (quota - size)) <= quota * shares
<1>1. PICK j \in Nat : shares = j + 1
  <2>1. shares - 1 \in Nat /\ shares = (shares - 1) + 1
    OBVIOUS
  <2> QED
    BY <2>1
<1>2. others <= j * quota /\ quota * shares = j * quota + quota /\ j * quota \in Nat
  BY <1>1
<1> QED
  BY <1>2

LEMMA QuotaStart ==
    ASSUME Shape, Counters, Shape', Counters', QuotaInv, NEW p \in Procs, Start(p)
    PROVE  QuotaInv'
<1> DEFINE e == Dir(p)
           size == DirectorySize(e)
<1>0. AllFinite /\ AllFinite'
  BY CountsFinite, PTL
<1>1. /\ p \in Running /\ pc[p] = "down" /\ e \in Dirs /\ p \in Sharers(e) /\ size \in Nat
      /\ UNCHANGED <<scene, task, old, disk, wild>>
      /\ pc' = [pc EXCEPT ![p] = "idle"]
      /\ usage' = [usage EXCEPT ![p] = IF HasDisk(p) THEN size ELSE 0]
      /\ blind' = blind \cup {d \in {e} : \E q \in Sharers(d) : q # p /\ Storing(q)}
      /\ shrunk' = shrunk \ {p}
  BY ConfigTypes, FileBytesFinite DEF Start, Goes, Sharers
<1>2. /\ pc'[p] = "idle" /\ usage'[p] = IF HasDisk(p) THEN size ELSE 0
      /\ \A q \in Procs \ {p} : pc'[q] = pc[q] /\ usage'[q] = usage[q]
  BY <1>1 DEF Shape, Counters
<1>3. /\ \A d : FileBytes(d)' = FileBytes(d)
      /\ \A q \in Procs : /\ Dir(q)' = Dir(q) /\ Name(q)' = Name(q) /\ Kind(q)' = Kind(q)
                          /\ HasDisk(q)' = HasDisk(q)
      /\ \A q \in Procs \ {p} : StoringData(q)' <=> StoringData(q)
      /\ ~StoringData(p)' /\ ~StoringData(p) /\ ~Writing(p)'
      /\ Running' = Running /\ \A d : Sharers(d)' = Sharers(d)
  BY <1>1, <1>2 DEF FileBytes, Dir, Conf, Name, Kind, HasDisk, StoringData, Storing, Writing, Running, Sharers
<1> HIDE DEF e, size
<1>4. \A d : Measured(d)' \subseteq Measured(d)
  <2>1. \A q \in Procs : StoringData(q)' => StoringData(q) /\ task'[q] = task[q] /\ old'[q] = old[q]
    BY <1>1, <1>3
  <2> QED
    BY <1>1, <2>1, MeasuredFrame
<1>5. ASSUME NEW d \in Dirs, d \notin wild', d \notin blind'
      PROVE  Cardinality(FileBytes(d)' \cup Measured(d)') + Cardinality(Credit(d)')
                 <= Quota * Cardinality(Sharers(d)')
  <2> DEFINE A == FileBytes(d) \cup Measured(d)
             B == FileBytes(d)' \cup Measured(d)'
             k == Cardinality(Sharers(d))
  <2>0. /\ IsFiniteSet(A) /\ IsFiniteSet(B) /\ IsFiniteSet(Credit(d)) /\ IsFiniteSet(Credit(d)')
        /\ {Cardinality(A), Cardinality(B), Cardinality(Credit(d)), Cardinality(Credit(d)')} \subseteq Nat
    <3>1. IsFiniteSet(A) /\ IsFiniteSet(B) /\ IsFiniteSet(Credit(d)) /\ IsFiniteSet(Credit(d)')
      BY <1>0, FS_Union DEF AllFinite
    <3> QED
      BY <3>1, FS_CardinalityType
  <2>1. IsFiniteSet(Sharers(d)) /\ k \in Nat /\ Quota * k \in Nat
    BY SharersFinite, ExecutorAssumption
  <2>2. Credit(d)' = UNION {{q} \X ((usage'[q] + 1)..Quota) :
                              q \in {r \in Sharers(d) : HasDisk(r) /\ pc'[r] # "down"}}
    BY <1>3 DEF Credit, Sharers, Running
  <2>3. CASE d # e \/ ~HasDisk(p) \/ size >= Quota
    <3>1. Credit(d)' \subseteq Credit(d)
      <4>1. ASSUME NEW q \in Sharers(d), HasDisk(q), pc'[q] # "down"
            PROVE  {q} \X ((usage'[q] + 1)..Quota) \subseteq Credit(d)
        <5>1. q \in Procs
          BY DEF Sharers, Running
        <5>2. CASE q # p
          BY <1>2, <4>1, <5>1, <5>2 DEF Credit
        <5>3. CASE q = p
          <6>1. usage'[p] = size /\ size >= Quota
            BY <1>2, <2>3, <4>1, <5>3 DEF Sharers, e
          <6>2. (usage'[p] + 1)..Quota = {}
            BY <1>1, <6>1, ExecutorAssumption
          <6> QED
            BY <5>3, <6>2
        <5> QED
          BY <5>2, <5>3
      <4> QED
        BY <2>2, <4>1
    <3>2. B \subseteq A
      BY <1>3, <1>4
    <3>3. Cardinality(B) <= Cardinality(A) /\ Cardinality(Credit(d)') <= Cardinality(Credit(d))
      BY <2>0, <3>1, <3>2, FS_Subset
    <3>4. Cardinality(A) + Cardinality(Credit(d)) <= Quota * k
      BY <1>1, <1>5 DEF QuotaInv, Budget
    <3> HIDE DEF A, B, k
    <3>5. Cardinality(B) + Cardinality(Credit(d)') <= Quota * k
      BY <2>0, <2>1, <3>3, <3>4
    <3> QED
      BY <1>3, <3>5 DEF B, k
  <2>4. CASE d = e /\ HasDisk(p) /\ size < Quota
    <3> DEFINE others == (Sharers(d) \ {p}) \X (1..Quota)
               own == {p} \X ((size + 1)..Quota)
    <3>1. Measured(d)' = {}
      <4>1. \A q \in Sharers(d) : ~StoringData(q)'
        <5>1. \A q \in Sharers(d) : q # p => ~Storing(q) /\ q \in Procs
          BY <1>1, <1>5, <2>4 DEF Sharers, Running
        <5> QED
          BY <1>3, <5>1 DEF StoringData
      <4> QED
        BY <1>3, <4>1 DEF Measured, Sharers, Running
    <3>2. Cardinality(B) = size
      BY <1>3, <2>4, <3>1 DEF size, DirectorySize
    <3>3. Credit(d)' \subseteq others \cup own
      <4>1. ASSUME NEW q \in Sharers(d), HasDisk(q), pc'[q] # "down"
            PROVE  {q} \X ((usage'[q] + 1)..Quota) \subseteq others \cup own
        <5>1. q \in Procs /\ usage'[q] \in Nat
          BY DEF Sharers, Running, Counters
        <5>2. CASE q # p
          <6>1. (usage'[q] + 1)..Quota \subseteq 1..Quota
            BY <5>1, ExecutorAssumption
          <6> QED
            BY <5>2, <6>1
        <5>3. CASE q = p
          BY <1>2, <2>4, <5>3
        <5> QED
          BY <5>2, <5>3
      <4> HIDE DEF others, own
      <4> QED
        BY <2>2, <4>1
    <3>4. IsFiniteSet(others) /\ Cardinality(others) = (k - 1) * Quota /\ k # 0
      <4>1. IsFiniteSet(1..Quota) /\ Cardinality(1..Quota) = Quota
        <5>1. 1 \in Int /\ Quota \in Int
          BY ExecutorAssumption
        <5>2. IsFiniteSet(1..Quota) /\ Cardinality(1..Quota) = IF 1 > Quota THEN 0 ELSE Quota - 1 + 1
          BY <5>1, FS_Interval
        <5> QED
          BY <5>2, ExecutorAssumption
      <4>2. IsFiniteSet(Sharers(d) \ {p}) /\ Cardinality(Sharers(d) \ {p}) = k - 1
        BY <1>1, <2>1, <2>4, FS_RemoveElement
      <4>3. k # 0
        BY <1>1, <2>1, <2>4, FS_EmptySet
      <4>4. IsFiniteSet(others) /\ Cardinality(others) = Cardinality(Sharers(d) \ {p}) * Cardinality(1..Quota)
        BY <4>1, <4>2, FS_Product
      <4> HIDE DEF others
      <4> QED
        BY <4>1, <4>2, <4>3, <4>4
    <3>5. IsFiniteSet(own) /\ Cardinality(own) = Quota - size
      BY <1>1, <2>4, ColumnSize, ExecutorAssumption DEF Minus
    <3> HIDE DEF others, own
    <3>6. Cardinality(Credit(d)') <= Cardinality(others) + Cardinality(own)
      BY <3>3, <3>4, <3>5, AtMostBoth
    <3> HIDE DEF A, B, k
    <3>7. size + (Cardinality(others) + (Quota - size)) <= Quota * k
      <4>1. Cardinality(others) \in Nat /\ Quota \in Nat /\ k \in Nat \ {0}
        BY <2>1, <3>4, FS_CardinalityType, ExecutorAssumption
      <4>2. size <= Quota /\ Cardinality(others) <= (k - 1) * Quota
        BY <1>1, <2>4, <3>4, <4>1
      <4> QED
        BY <1>1, <4>1, <4>2, QuotaShares
    <3>8. Cardinality(others) \in Nat /\ Quota \in Nat
      BY <3>4, FS_CardinalityType, ExecutorAssumption
    <3>9. Cardinality(B) + Cardinality(Credit(d)') <= Quota * k
      BY <1>1, <2>0, <2>1, <3>2, <3>5, <3>6, <3>7, <3>8
    <3> QED
      BY <1>3, <3>9 DEF B, k
  <2>5. size < Quota \/ size >= Quota
    BY <1>1, ExecutorAssumption
  <2> QED
    BY <2>3, <2>4, <2>5
<1>6. Budget'
  BY <1>5 DEF Budget
<1>7. Room'
  BY <1>1, <1>2, <1>3, RoomFrame DEF QuotaInv
<1>8. Backed'
  <2> SUFFICES ASSUME NEW q \in Procs, q \notin shrunk', pc'[q] # "down"
               PROVE  /\ usage'[q] <= Cardinality(Backing(q)')
                      /\ pc'[q] = "open" /\ Kind(q)' = "StoreData"
                             => old'[q] <= Len0(disk'[Dir(q)'][Name(q)'])
    BY DEF Backed
  <2>1. CASE q = p
    <3>1. Backing(p)' = FileBytes(e)
      BY <1>3 DEF Backing, FileBytes, e
    <3>2. usage'[p] <= Cardinality(FileBytes(e))
      BY <1>1, <1>2 DEF size, DirectorySize
    <3> QED
      BY <1>2, <2>1, <3>1, <3>2
  <2>2. CASE q # p
    <3>1. /\ pc[q] # "down" /\ q \in Running /\ usage'[q] = usage[q] /\ usage[q] \in Nat /\ q \notin shrunk
      BY <1>1, <1>2, <2>2 DEF Shape, Counters
    <3>2. Backing(q) \subseteq Backing(q)'
      BY <1>1, <1>3, <2>2 DEF Backing
    <3>3. usage'[q] <= Cardinality(Backing(q)')
      BY <1>0, <1>3, <3>1, <3>2, BackedFrame DEF QuotaInv
    <3>4. ASSUME pc'[q] = "open", Kind(q)' = "StoreData"
          PROVE  old'[q] <= Len0(disk'[Dir(q)'][Name(q)'])
      BY <1>1, <1>2, <1>3, <2>2, <3>1, <3>4 DEF QuotaInv, Backed, Len0
    <3> QED
      BY <3>3, <3>4
  <2> QED
    BY <2>1, <2>2
<1> QED
  BY <1>6, <1>7, <1>8 DEF QuotaInv

-----------------------------------------------------------------------------
LEMMA QuotaInvInit == ExecutorInit => QuotaInv
<1> SUFFICES ASSUME ExecutorInit PROVE QuotaInv
  OBVIOUS
<1>1. \A p \in Procs : pc[p] = "down" /\ ~Storing(p) /\ ~Writing(p)
  BY DEF ExecutorInit, Storing, Writing
<1>2. ASSUME NEW d \in Dirs
      PROVE  Cardinality(FileBytes(d) \cup Measured(d)) + Cardinality(Credit(d))
                 <= Quota * Cardinality(Sharers(d))
  <2>1. \A n \in Names : {n} \X (1..Len0(disk[d][n])) = {}
    BY DEF ExecutorInit, Len0
  <2>2. FileBytes(d) = {}
    BY <2>1 DEF FileBytes
  <2>3. Measured(d) = {} /\ Credit(d) = {}
    BY <1>1 DEF Measured, Credit, StoringData, Sharers, Running
  <2>4. Cardinality(FileBytes(d) \cup Measured(d)) = 0 /\ Cardinality(Credit(d)) = 0
    BY <2>2, <2>3, FS_EmptySet
  <2>5. Quota * Cardinality(Sharers(d)) \in Nat
    BY SharersFinite, ExecutorAssumption
  <2> QED
    BY <2>4, <2>5
<1> QED
  BY <1>1, <1>2 DEF QuotaInv, Budget, Room, Backed, StoringData

LEMMA QuotaStep == Shape /\ Counters /\ QuotaInv /\ [ExecutorNext]_vars => QuotaInv'
<1> SUFFICES ASSUME Shape, Counters, QuotaInv, [ExecutorNext]_vars PROVE QuotaInv'
  OBVIOUS
<1>1. Shape' /\ Counters'
  BY ShapeStep, CountersStep
<1>2. CASE QuietStep
  BY <1>1, <1>2, QuietSteps, QuotaQuiet
<1>3. ASSUME NEW p \in Procs, Measure(p) PROVE QuotaInv'
  BY <1>1, <1>3, QuotaMeasure
<1>4. ASSUME NEW p \in Procs, Open(p) PROVE QuotaInv'
  BY <1>1, <1>4, QuotaOpen
<1>5. ASSUME NEW p \in Procs, Fill(p) PROVE QuotaInv'
  BY <1>1, <1>5, QuotaFill
<1>6. ASSUME NEW p \in Procs, Start(p) PROVE QuotaInv'
  BY <1>1, <1>6, QuotaStart
<1>7. ASSUME NEW p \in Procs, Crash(p) \/ WriteFails(p) PROVE QuotaInv'
  BY <1>1, <1>7, QuotaStops
<1> QED
  BY <1>2, <1>3, <1>4, <1>5, <1>6, <1>7 DEF ExecutorNext, Works, Faults, QuietStep

\* However the processes of a directory interleave, crash and start again, it holds no
\* more than a quota for each of the disk nodes that use it, unless a DiskWrite wrote
\* there or a node counted it in the middle of another's write (disk_store.rs:15-16,
\* 27-34, 58-76).
THEOREM QuotaHolds == ExecutorSpec => []QuotaKept
<1>1. ExecutorInit => Shape /\ Counters /\ QuotaInv
  BY ShapeInit, CountersInit, QuotaInvInit
<1>2. Shape /\ Counters /\ QuotaInv /\ [ExecutorNext]_vars => Shape' /\ Counters' /\ QuotaInv'
  BY ShapeStep, CountersStep, QuotaStep
<1>3. Shape /\ Counters /\ QuotaInv => QuotaKept
  <2> SUFFICES ASSUME Shape, Counters, QuotaInv, NEW d \in Dirs, d \notin wild, d \notin blind
               PROVE  DirectorySize(d) <= Quota * Cardinality(Sharers(d))
    BY DEF QuotaKept
  <2> DEFINE A == FileBytes(d) \cup Measured(d)
  <2>1. IsFiniteSet(A) /\ IsFiniteSet(Credit(d))
    BY CountsFinite, FS_Union DEF AllFinite
  <2>2. FileBytes(d) \subseteq A
    OBVIOUS
  <2>3. IsFiniteSet(FileBytes(d)) /\ DirectorySize(d) <= Cardinality(A)
    BY <2>1, <2>2, FS_Subset DEF DirectorySize
  <2>4. {Cardinality(A), Cardinality(Credit(d)), DirectorySize(d)} \subseteq Nat
    BY <2>1, <2>3, FS_CardinalityType DEF DirectorySize
  <2>5. Cardinality(A) + Cardinality(Credit(d)) <= Quota * Cardinality(Sharers(d))
    BY DEF QuotaInv, Budget
  <2>6. Quota * Cardinality(Sharers(d)) \in Nat
    BY SharersFinite, ExecutorAssumption
  <2> HIDE DEF A
  <2> QED
    BY <2>3, <2>4, <2>5, <2>6
<1> QED
  BY <1>1, <1>2, <1>3, PTL DEF ExecutorSpec

\* Only a process that measures refuses: the others answer from other steps.
LEMMA OnlyMeasureRefuses ==
    ASSUME Shape, [ExecutorNext]_vars, NEW p \in Procs, Refuses(p)
    PROVE  Measure(p) /\ Minus(usage[p], Len0(disk[Dir(p)][Name(p)])) + TaskSize[task[p]] > Quota
<1> USE DEF Refuses, Yields, Goes, procVars
<1>0. pc \in [Procs -> Steps]
  BY DEF Shape
<1>1. pc' # pc
  OBVIOUS
<1>2. /\ ~\E q \in Procs : Reply(q) \/ Evaluate(q) \/ StoreInMemory(q) \/ Retrieve(q) \/ DiskRead(q)
      /\ ~\E q \in Procs : RejectsPath(q) \/ Statistics(q) \/ Open(q) \/ Fill(q) \/ Ask(q)
      /\ ~\E q \in Procs : Receive(q) \/ Answered(q) \/ ReadFails(q) \/ NetworkFails(q) \/ Start(q)
  <2>1. ~\E q \in Procs : Reply(q) \/ Evaluate(q) \/ StoreInMemory(q) \/ Retrieve(q) \/ DiskRead(q)
    BY <1>0 DEF Reply, Evaluate, StoreInMemory, Retrieve, DiskRead
  <2>2. ~\E q \in Procs : RejectsPath(q) \/ Statistics(q) \/ Open(q) \/ Fill(q) \/ Ask(q)
    BY <1>0 DEF RejectsPath, Statistics, Open, Fill, Ask
  <2>3. ~\E q \in Procs : Receive(q) \/ Answered(q) \/ ReadFails(q) \/ NetworkFails(q) \/ Start(q)
    BY <1>0 DEF Receive, Answered, ReadFails, NetworkFails, Start
  <2> QED
    BY <2>1, <2>2, <2>3
<1>3. ~\E q \in Procs : WriteFails(q) \/ Crash(q) \/ Reconnect(q) \/ Requeue(q)
  BY <1>0 DEF WriteFails, Crash, Reconnect, Requeue, Storing
<1>4. ~\E q \in Procs, t \in Tasks : AssignTask(q, t)
  BY <1>0 DEF AssignTask
<1>5. ~\E a \in asked : Echo(a)
  BY DEF Echo
<1>6. PICK q \in Procs : Measure(q)
  BY <1>1, <1>2, <1>3, <1>4, <1>5 DEF ExecutorNext, Works, Faults, vars
<1>7. q = p
  BY <1>0, <1>6 DEF Measure
<1> QED
  BY <1>0, <1>6, <1>7 DEF Measure

\* Whatever other processes write to its directory meanwhile, a disk node refuses data
\* only when they really have no room, or when a file it had counted got smaller
\* since it started (disk_store.rs:27-32).
THEOREM RefusalsHaveReason == ExecutorSpec => RefusedForRoom
<1>1. ExecutorInit => Shape /\ Counters /\ QuotaInv
  BY ShapeInit, CountersInit, QuotaInvInit
<1>2. Shape /\ Counters /\ QuotaInv /\ [ExecutorNext]_vars => Shape' /\ Counters' /\ QuotaInv'
  BY ShapeStep, CountersStep, QuotaStep
<1>3. Shape /\ Counters /\ QuotaInv /\ [ExecutorNext]_vars
        => [\A p \in Procs : Refuses(p) => ~Fits(p) \/ p \in shrunk]_vars
  <2> SUFFICES ASSUME Shape, Counters, QuotaInv, [ExecutorNext]_vars,
                      NEW p \in Procs, Refuses(p), p \notin shrunk
               PROVE  ~Fits(p)
    OBVIOUS
  <2> DEFINE size == DirectorySize(Dir(p))
             was == Len0(disk[Dir(p)][Name(p)])
             data == TaskSize[task[p]]
  <2>1. Minus(usage[p], was) + data > Quota /\ pc[p] = "size"
    BY OnlyMeasureRefuses DEF Refuses
  <2>2. Dir(p) \in Dirs /\ Name(p) \in Names /\ {was, data, usage[p], Quota, size} \subseteq Nat
    BY <2>1, StoreTypes, FileBytesFinite, ExecutorAssumption
  <2>3. usage[p] <= size
    BY <2>1 DEF QuotaInv, Backed, Backing, StoringData, Storing, DirectorySize
  <2>4. was <= size
    <3>1. IsFiniteSet(FileBytes(Dir(p)))
      BY <2>2, FileBytesFinite
    <3>2. Cardinality({Name(p)} \X (1..was)) = was
      BY <2>2, FirstBytes
    <3>3. {Name(p)} \X (1..was) \subseteq FileBytes(Dir(p))
      BY <2>2, OwnBytes
    <3> QED
      BY <3>1, <3>2, <3>3, FS_Subset DEF DirectorySize
  <2> HIDE DEF size, was, data
  <2>5. size - was + data > Quota
    BY <2>1, <2>2, <2>3, <2>4 DEF Minus
  <2> QED
    BY <2>2, <2>5 DEF Fits, size, was, data
<1> QED
  BY <1>1, <1>2, <1>3, PTL DEF ExecutorSpec, RefusedForRoom
=============================================================================
