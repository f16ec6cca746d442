------------------------------ MODULE Executor ------------------------------
(***************************************************************************)
(* Node processes executing the tasks they are assigned                    *)
(* (CPCluster_node/src/lib.rs, disk_store.rs, memory_store.rs,             *)
(* internet_ports.rs, and the set-up in heartbeat_loop).  Each process     *)
(* executes one task at a time; what interleaves is the processes that     *)
(* share a storage_dir, the machines their datagrams go to, crashes and    *)
(* restarts, and connections that are made again.                          *)
(*                                                                         *)
(* A payload is a sequence of TaskSize[t] copies of its task, so that a    *)
(* file shows whose bytes it holds.                                        *)
(***************************************************************************)
EXTENDS Naturals, Sequences, FiniteSets

CONSTANTS
    Procs, Dirs, Names, Tasks,
    TaskKind,  \* kind of each task
    TaskName,  \* the key or the path it is about
    TaskSize,  \* the length of the data it stores
    Outside,   \* tasks about a path that leads out of storage_dir
    Quota,     \* disk_space_mb
    Scenes,    \* Bound: the processes that run with their configurations, the tasks,
               \* the faults, the replies a server may send to one datagram
    NoTask, Absent, NoFile, Nowhere

Roles    == {"Worker", "Disk", "Internet"}
Kinds    == {"Compute", "ComplexMath", "HttpRequest", "Tcp", "Udp", "StoreData",
             "RetrieveData", "DiskWrite", "DiskRead", "GetGlobalRam", "GetStorage"}

Config == [role : Roles, dir : Dirs, ports : Nat]

ASSUME ExecutorAssumption ==
    /\ TaskKind \in [Tasks -> Kinds] /\ TaskName \in [Tasks -> Names]
    /\ TaskSize \in [Tasks -> Nat \ {0}] /\ Quota \in Nat
    /\ Scenes \subseteq [config : [Procs -> Config \cup {NoFile}], tasks : SUBSET Tasks,
                         faults : Nat, replies : Nat]
    /\ Outside \subseteq {t \in Tasks : TaskKind[t] \in {"DiskWrite", "DiskRead"}}
    /\ NoTask \notin Tasks /\ Absent \notin Seq(Tasks)
    /\ Procs \cap Dirs = {} /\ Nowhere \notin Procs \cup Dirs

\* What is added up over files and over processes is finite.
ASSUME FiniteAssumption == IsFiniteSet(Names) /\ IsFiniteSet(Procs)

VARIABLES
    scene,     \* the scene that is played
    pc,        \* where the process is
    role,      \* the role under which the master knows it
    task,      \* the task in hand
    out,       \* its result
    old,       \* DiskStore::store: the size of the file before
    memory,    \* MemoryStore
    usage,     \* DiskStore::usage
    disk,      \* the files of each directory
    inbox,     \* InternetPorts: the datagrams that wait in each UDP socket
    turn,      \* InternetPorts::udp_idx
    sock,      \* the socket of the task in hand: 0, one of its own
    asked,     \* datagrams a server may still answer
    todo,      \* tasks the master has yet to hand out
    faults,    \* faults still to come
    \* history
    answered,  \* tasks with a result
    kept,      \* the last task to have written a file of a directory
    stored,    \* the last StoreData of a name, or the DiskWrite that replaced its file,
               \* and where it is: in a process, in a directory, or lost in a restart
    broken,    \* files that two wrote at once, or whose writing broke off
    wild,      \* directories a DiskWrite has written to
    blind,     \* directories where a process started while another was storing
    shrunk,    \* processes in whose directory a file they counted got smaller
    stray      \* processes that got a datagram no task of theirs was waiting for

procVars  == <<pc, task, out, old, sock>>
diskVars  == <<disk, usage, broken, wild, shrunk>>
udpVars   == <<inbox, turn, asked, stray>>
envVars   == <<scene, role, blind, todo, faults, answered>>
vars      == <<procVars, diskVars, udpVars, envVars, memory, kept, stored>>

Steps == {"down", "idle", "run", "size", "open", "fill", "ask", "wait", "reply"}

Running  == {p \in Procs : scene.config[p] # NoFile}
Conf(p)  == scene.config[p]
Dir(p)   == Conf(p).dir
HasDisk(p) == Conf(p).role = "Disk"
Kind(p)  == TaskKind[task[p]]
Name(p)  == TaskName[task[p]]
Payload(t) == [i \in 1..TaskSize[t] |-> t]

\* Where StoreData and RetrieveData keep things at this process.
Place(p) == IF HasDisk(p) THEN Dir(p) ELSE p

Len0(file) == IF file = Absent THEN 0 ELSE Len(file)

\* directory_size_sync adds up what the files hold, byte by byte.
FileBytes(d)     == UNION {{n} \X (1..Len0(disk[d][n])) : n \in Names}
DirectorySize(d) == Cardinality(FileBytes(d))

Sharers(d)     == {p \in Running : Dir(p) = d}
Storing(p)     == pc[p] \in {"open", "fill"}
Writing(p)     == pc[p] = "fill"
WritersOf(d, n) == {p \in Sharers(d) : Writing(p) /\ Name(p) = n}

\* The role a task asks for (task_required_role of the master).
Required(t) == CASE TaskKind[t] \in {"GetStorage", "DiskWrite", "DiskRead"} -> "Disk"
                 [] TaskKind[t] \in {"Tcp", "Udp"}                          -> "Internet"
                 [] OTHER                                                   -> "Worker"

Minus(a, b) == IF a > b THEN a - b ELSE 0   \* saturating_sub

Results == [type : {"Stored", "Written", "Error", "Response"}]
           \cup [type : {"Bytes"}, data : Seq(Tasks)] \cup [type : {"Free"}, free : Nat]

\* In a task there is a task, and the step fits its kind and the configuration.
ExecutorTypeOK ==
    /\ scene  \in Scenes
    /\ pc     \in [Procs -> Steps]
    /\ role   \in [Procs -> Roles]
    /\ task   \in [Procs -> Tasks \cup {NoTask}]
    /\ out    \in [Procs -> Results]
    /\ old    \in [Procs -> Nat]
    /\ memory \in [Procs -> [Names -> Tasks \cup {NoTask}]]
    /\ usage  \in [Procs -> Nat]
    /\ disk   \in [Dirs -> [Names -> Seq(Tasks) \cup {Absent}]]
    /\ inbox  \in [Procs -> Seq(Seq(Tasks))]
    /\ turn   \in [Procs -> Nat]
    /\ sock   \in [Procs -> Nat]
    /\ asked  \subseteq [proc : Procs, task : Tasks, sock : Nat, left : Nat]
    /\ todo   \subseteq Tasks
    /\ faults \in Nat
    /\ answered \subseteq Tasks
    /\ kept   \in [Dirs -> [Names -> Tasks \cup {NoTask}]]
    /\ stored \in [Names -> [task : Tasks \cup {NoTask}, at : Procs \cup Dirs \cup {Nowhere}]]
    /\ broken \subseteq Dirs \X Names
    /\ wild   \subseteq Dirs
    /\ blind  \subseteq Dirs
    /\ shrunk \subseteq Procs
    /\ stray  \subseteq Procs
    /\ \A p \in Procs : /\ pc[p] # "down" => p \in Running
                        /\ pc[p] \in {"down", "idle"} <=> task[p] = NoTask
                        /\ pc[p] = "size" => Kind(p) = "StoreData" /\ HasDisk(p)
                        /\ Storing(p) => Kind(p) \in {"StoreData", "DiskWrite"}
                        /\ pc[p] = "wait" => sock[p] \in 0..Len(inbox[p])

ExecutorInit ==
    /\ scene    \in Scenes
    /\ pc       = [p \in Procs |-> "down"]
    /\ role     = [p \in Procs |-> "Worker"]
    /\ task     = [p \in Procs |-> NoTask]
    /\ out      = [p \in Procs |-> [type |-> "Error"]]
    /\ old      = [p \in Procs |-> 0]
    /\ memory   = [p \in Procs |-> [n \in Names |-> NoTask]]
    /\ usage    = [p \in Procs |-> 0]
    /\ disk     = [d \in Dirs |-> [n \in Names |-> Absent]]
    /\ inbox    = [p \in Procs |-> <<>>]
    /\ turn     = [p \in Procs |-> 0]
    /\ sock     = [p \in Procs |-> 0]
    /\ asked    = {}
    /\ todo     = scene.tasks
    /\ faults   = scene.faults
    /\ answered = {}
    /\ kept     = [d \in Dirs |-> [n \in Names |-> NoTask]]
    /\ stored   = [n \in Names |-> [task |-> NoTask, at |-> Nowhere]]
    /\ broken = {} /\ wild = {} /\ blind = {} /\ shrunk = {} /\ stray = {}

-----------------------------------------------------------------------------
(* Processes: start, crash, new connection *)

\* Tail of an action that ends with a result, and of one that goes on.
Yields(p, result) ==
    /\ pc'  = [pc EXCEPT ![p] = "reply"]
    /\ out' = [out EXCEPT ![p] = result]

Goes(p, step) == pc' = [pc EXCEPT ![p] = step] /\ UNCHANGED out

\* InternetPorts::bind keeps the ports that could be bound.
Bindings(p) == {[i \in 1..k |-> <<>>] : k \in 0..Conf(p).ports}

\* heartbeat_loop sets up empty memory, a usage counter that is counted on the
\* directory, and the ports that could be bound; the role is announced.
Start(p) ==
    /\ p \in Running /\ pc[p] = "down"
    /\ Goes(p, "idle")
    /\ role'   = [role EXCEPT ![p] = Conf(p).role]
    /\ memory' = [memory EXCEPT ![p] = [n \in Names |-> NoTask]]
    /\ stored' = [n \in Names |-> IF stored[n].at = p THEN [stored[n] EXCEPT !.at = Nowhere] ELSE stored[n]]
    /\ usage'  = [usage EXCEPT ![p] = IF HasDisk(p) THEN DirectorySize(Dir(p)) ELSE 0]
    /\ \E socks \in Bindings(p) : inbox' = [inbox EXCEPT ![p] = socks]
    /\ turn'   = [turn EXCEPT ![p] = 0]
    /\ blind'  = blind \cup {d \in {Dir(p)} : \E q \in Sharers(d) : q # p /\ Storing(q)}
    /\ shrunk' = shrunk \ {p}
    /\ stray'  = stray \ {p}
    /\ UNCHANGED <<scene, task, old, disk, sock, asked, todo, faults, answered, kept, broken, wild>>

\* The process ends, in the middle of anything, or because no master takes it
\* back; the master hands the task it had out again.
Crash(p) ==
    /\ pc[p] # "down" /\ faults > 0
    /\ faults' = faults - 1
    /\ Goes(p, "down")
    /\ task'   = [task EXCEPT ![p] = NoTask]
    /\ todo'   = todo \cup ({task[p]} \ {NoTask})
    /\ inbox'  = [inbox EXCEPT ![p] = <<>>]
    /\ asked'  = {a \in asked : a.proc = p => a.sock # 0}
    /\ broken' = broken \cup (IF Writing(p) THEN {<<Dir(p), Name(p)>>} ELSE {})
    /\ UNCHANGED <<scene, role, old, out, memory, usage, disk, turn, sock, answered,
                   kept, stored, wild, blind, shrunk, stray>>

\* reconnect does not announce the role: the master takes it for a worker.
Reconnect(p) ==
    /\ pc[p] = "idle" /\ role[p] # "Worker"
    /\ role' = [role EXCEPT ![p] = "Worker"]
    /\ UNCHANGED <<procVars, diskVars, udpVars, memory, kept, stored, scene, blind, todo, faults, answered>>

\* The master gives a busy process up and hands its task out once more.
Requeue(p) ==
    /\ task[p] # NoTask /\ task[p] \notin todo /\ faults > 0
    /\ faults' = faults - 1
    /\ todo'   = todo \cup {task[p]}
    /\ UNCHANGED <<procVars, diskVars, udpVars, memory, kept, stored, scene, role, blind, answered>>

-----------------------------------------------------------------------------
(* Tasks *)

\* AssignTask, for a process known under the role that the task asks for.
AssignTask(p, t) ==
    /\ pc[p] = "idle" /\ t \in todo /\ Required(t) = role[p]
    /\ todo' = todo \ {t}
    /\ task' = [task EXCEPT ![p] = t]
    /\ Goes(p, CASE TaskKind[t] = "StoreData" /\ HasDisk(p)       -> "size"
                 [] TaskKind[t] = "DiskWrite" /\ t \notin Outside  -> "open"
                 [] TaskKind[t] \in {"Udp", "Tcp", "HttpRequest"} -> "ask"
                 [] OTHER                                          -> "run")
    /\ UNCHANGED <<old, sock, diskVars, udpVars, memory, kept, stored, scene, role, blind, faults, answered>>

\* The result goes into open_tasks and to the master.
Reply(p) ==
    /\ pc[p] = "reply"
    /\ Goes(p, "idle")
    /\ task'     = [task EXCEPT ![p] = NoTask]
    /\ answered' = answered \cup {task[p]}
    /\ UNCHANGED <<old, sock, diskVars, udpVars, memory, kept, stored, scene, role, blind, todo, faults>>

\* Leaves files, sockets and the environment alone.
Local == UNCHANGED <<task, old, sock, diskVars, udpVars, envVars>>

\* An expression has a value, or does not parse, names a variable, or leaves
\* nothing on the stack.
Outcomes == {"Response", "Error"}

\* Compute and ComplexMath
Evaluate(p) ==
    /\ pc[p] = "run" /\ Kind(p) \in {"Compute", "ComplexMath"}
    /\ \E type \in Outcomes : Yields(p, [type |-> type])
    /\ Local /\ UNCHANGED <<memory, kept, stored>>

\* Mutant of StoreInMemory: a key that is there already keeps its entry.
StoreInMemory_KeepsFirst(p) ==
    /\ pc[p] = "run" /\ Kind(p) = "StoreData"
    /\ memory' = [memory EXCEPT ![p][Name(p)] = IF @ = NoTask THEN task[p] ELSE @]
    /\ stored' = [stored EXCEPT ![Name(p)] = [task |-> task[p], at |-> p]]
    /\ Yields(p, [type |-> "Stored"])
    /\ Local /\ UNCHANGED kept

\* StoreData without a disk store.
StoreInMemory(p) ==
    /\ pc[p] = "run" /\ Kind(p) = "StoreData"
    /\ memory' = [memory EXCEPT ![p][Name(p)] = task[p]]
    /\ stored' = [stored EXCEPT ![Name(p)] = [task |-> task[p], at |-> p]]
    /\ Yields(p, [type |-> "Stored"])
    /\ Local /\ UNCHANGED kept

File(file) == IF file = Absent THEN [type |-> "Error"] ELSE [type |-> "Bytes", data |-> file]
Entry(t)   == IF t = NoTask THEN [type |-> "Error"] ELSE [type |-> "Bytes", data |-> Payload(t)]

Retrieve(p) ==
    /\ pc[p] = "run" /\ Kind(p) = "RetrieveData"
    /\ Yields(p, IF HasDisk(p) THEN File(disk[Dir(p)][Name(p)]) ELSE Entry(memory[p][Name(p)]))
    /\ Local /\ UNCHANGED <<memory, kept, stored>>

DiskRead(p) ==
    /\ pc[p] = "run" /\ Kind(p) = "DiskRead" /\ task[p] \notin Outside
    /\ Yields(p, File(disk[Dir(p)][Name(p)]))
    /\ Local /\ UNCHANGED <<memory, kept, stored>>

\* "Invalid path", or none at all: a DiskWrite or DiskRead that leaves storage_dir.
RejectsPath(p) ==
    /\ pc[p] = "run" /\ task[p] \in Outside
    /\ Yields(p, [type |-> "Error"])
    /\ Local /\ UNCHANGED <<memory, kept, stored>>

\* GetGlobalRam lists the memory; GetStorage the directory, with what the
\* counter says is free.
Statistics(p) ==
    /\ pc[p] = "run" /\ Kind(p) \in {"GetGlobalRam", "GetStorage"}
    /\ Yields(p, IF Kind(p) = "GetStorage" /\ HasDisk(p)
                 THEN [type |-> "Free", free |-> Minus(Quota, usage[p])]
                 ELSE [type |-> IF Kind(p) = "GetStorage" THEN "Error" ELSE "Response"])
    /\ Local /\ UNCHANGED <<memory, kept, stored>>

\* The task reads a file of the directory.
FromFile(p) == \/ Kind(p) = "DiskRead" /\ task[p] \notin Outside
               \/ Kind(p) = "RetrieveData" /\ HasDisk(p)

\* An error of the file system while a file is read or a directory listed; for
\* RetrieveData it is the same as no file.
ReadFails(p) ==
    /\ pc[p] = "run" /\ faults > 0
    /\ FromFile(p) \/ (Kind(p) = "GetStorage" /\ HasDisk(p))
    /\ faults' = faults - 1
    /\ Yields(p, [type |-> "Error"])
    /\ UNCHANGED <<task, old, sock, diskVars, udpVars, scene, role, blind, todo, answered,
                   memory, kept, stored>>

-----------------------------------------------------------------------------
(* Files: tokio::fs::write empties the file first, then writes from its start *)

\* Mutant of Measure: the room the old file takes is not given back.
Measure_IgnoresOld(p) ==
    LET was == Len0(disk[Dir(p)][Name(p)]) IN
    /\ pc[p] = "size"
    /\ old' = [old EXCEPT ![p] = was]
    /\ IF usage[p] + TaskSize[task[p]] > Quota
       THEN Yields(p, [type |-> "Error"])
       ELSE Goes(p, "open")
    /\ UNCHANGED <<task, sock, diskVars, udpVars, envVars, memory, kept, stored>>

\* DiskStore::store up to the write: size of the old file, and the quota.
Measure(p) ==
    LET was == Len0(disk[Dir(p)][Name(p)]) IN
    /\ pc[p] = "size"
    /\ old' = [old EXCEPT ![p] = was]
    /\ IF Minus(usage[p], was) + TaskSize[task[p]] > Quota
       THEN Yields(p, [type |-> "Error"])
       ELSE Goes(p, "open")
    /\ UNCHANGED <<task, sock, diskVars, udpVars, envVars, memory, kept, stored>>

\* Mutant of Open: the file is opened, not emptied.
Open_KeepsOld(p) ==
    LET d == Dir(p)  n == Name(p)  was == disk[d][n] IN
    /\ pc[p] = "open"
    /\ Goes(p, "fill")
    /\ disk'   = [disk EXCEPT ![d][n] = IF was = Absent THEN <<>> ELSE was]
    /\ broken' = IF WritersOf(d, n) = {} THEN broken \ {<<d, n>>} ELSE broken \cup {<<d, n>>}
    /\ wild'   = wild \cup {x \in {d} : Kind(p) = "DiskWrite"}
    /\ shrunk' = shrunk
    /\ UNCHANGED <<task, old, sock, usage, udpVars, envVars, memory, kept, stored>>

Open(p) ==
    LET d == Dir(p)  n == Name(p) IN
    /\ pc[p] = "open"
    /\ Goes(p, "fill")
    /\ disk'   = [disk EXCEPT ![d][n] = <<>>]
    /\ broken' = IF WritersOf(d, n) = {} THEN broken \ {<<d, n>>} ELSE broken \cup {<<d, n>>}
    /\ wild'   = wild \cup {x \in {d} : Kind(p) = "DiskWrite"}
    /\ shrunk' = shrunk \cup {q \in Sharers(d) : /\ Len0(disk[d][n]) > 0
                                                 /\ q # p \/ Kind(p) = "DiskWrite"}
    /\ UNCHANGED <<task, old, sock, usage, udpVars, envVars, memory, kept, stored>>

\* Two that emptied the file each write from its start.
Overlay(file, t) == Payload(t) \o SubSeq(file, TaskSize[t] + 1, Len(file))

\* Mutant of Counted: only what a new file adds.
Counted_NewFiles(p) == IF old[p] = 0 THEN TaskSize[task[p]] ELSE 0

\* What the counter goes up by: nothing when the file gets smaller.
Counted(p) == Minus(TaskSize[task[p]], old[p])

Fill(p) ==
    LET d == Dir(p)  n == Name(p)  t == task[p] IN
    /\ pc[p] = "fill"
    /\ disk'  = [disk EXCEPT ![d][n] = Overlay(@, t)]
    /\ kept'  = [kept EXCEPT ![d][n] = t]
    /\ stored' = IF Kind(p) = "StoreData" \/ stored[n].at = d
                 THEN [stored EXCEPT ![n] = [task |-> t, at |-> d]] ELSE stored
    /\ usage' = [usage EXCEPT ![p] = @ + (IF Kind(p) = "StoreData" THEN Counted(p) ELSE 0)]
    /\ shrunk' = shrunk \cup {q \in {p} : Kind(p) = "StoreData" /\ TaskSize[t] < old[p]}
    /\ Yields(p, [type |-> IF Kind(p) = "StoreData" THEN "Stored" ELSE "Written"])
    /\ UNCHANGED <<task, old, sock, broken, wild, udpVars, envVars, memory>>

\* An error of the file system before the file is opened, or while it is written.
WriteFails(p) ==
    /\ Storing(p) /\ faults > 0
    /\ faults' = faults - 1
    /\ broken' = broken \cup (IF Writing(p) THEN {<<Dir(p), Name(p)>>} ELSE {})
    /\ shrunk' = shrunk \cup {q \in {p} : Writing(p) /\ old[p] > 0}
    /\ Yields(p, [type |-> "Error"])
    /\ UNCHANGED <<task, old, sock, disk, usage, wild, udpVars, scene, role, blind, todo,
                   answered, memory, kept, stored>>

-----------------------------------------------------------------------------
(* The network *)

\* Mutant of Ask: the index is not taken modulo the number of sockets.
Ask_NoModulo(p) ==
    LET n == Len(inbox[p]) IN
    /\ pc[p] = "ask"
    /\ Goes(p, "wait")
    /\ IF Kind(p) = "Udp" /\ n > 0
       THEN sock' = [sock EXCEPT ![p] = turn[p] + 1] /\ turn' = [turn EXCEPT ![p] = @ + 1]
       ELSE sock' = [sock EXCEPT ![p] = 0] /\ UNCHANGED turn
    /\ asked' = asked \cup {[proc |-> p, task |-> task[p], sock |-> sock'[p], left |-> scene.replies]}
    /\ UNCHANGED <<task, old, inbox, stray, diskVars, envVars, memory, kept, stored>>

\* InternetPorts::udp_socket, of n sockets: which one, and the index after it.
UdpSocket(p, n)   == (turn[p] % n) + 1
AfterSocket(p, n) == (turn[p] + 1) % n

\* HttpRequest and Tcp: a connection of their own; Udp: the next of the bound
\* sockets, or one of its own.
Ask(p) ==
    LET n == Len(inbox[p]) IN
    /\ pc[p] = "ask"
    /\ Goes(p, "wait")
    /\ IF Kind(p) = "Udp" /\ n > 0
       THEN sock' = [sock EXCEPT ![p] = UdpSocket(p, n)] /\ turn' = [turn EXCEPT ![p] = AfterSocket(p, n)]
       ELSE sock' = [sock EXCEPT ![p] = 0] /\ UNCHANGED turn
    /\ asked' = asked \cup {[proc |-> p, task |-> task[p], sock |-> sock'[p], left |-> scene.replies]}
    /\ UNCHANGED <<task, old, inbox, stray, diskVars, envVars, memory, kept, stored>>

\* A server sends a reply, its first or another, that reaches a bound socket.
Echo(a) ==
    LET p == a.proc IN
    /\ a \in asked /\ a.left > 0 /\ a.sock \in DOMAIN inbox[p]
    /\ asked' = (asked \ {a}) \cup {b \in {[a EXCEPT !.left = @ - 1]} : b.left > 0}
    /\ inbox' = [inbox EXCEPT ![p][a.sock] = Append(@, a.task)]
    /\ stray' = IF pc[p] = "wait" /\ task[p] = a.task /\ a.left = scene.replies /\ sock[p] = a.sock
                THEN stray ELSE stray \cup {p}
    /\ UNCHANGED <<procVars, diskVars, turn, envVars, memory, kept, stored>>

\* Mutant of Receive: listens on the next socket.
Receive_NextSocket(p) ==
    LET n == Len(inbox[p])  s == (sock[p] % n) + 1 IN
    /\ pc[p] = "wait" /\ n > 0 /\ sock[p] > 0 /\ inbox[p][s] # <<>>
    /\ Yields(p, [type |-> "Bytes", data |-> <<Head(inbox[p][s])>>])
    /\ inbox' = [inbox EXCEPT ![p][s] = Tail(@)]
    /\ UNCHANGED <<task, old, sock, diskVars, turn, asked, stray, envVars, memory, kept, stored>>

\* Mutant of Receive: the datagram stays in the socket.
Receive_Peeks(p) ==
    LET s == sock[p] IN
    /\ pc[p] = "wait" /\ s > 0 /\ inbox[p][s] # <<>>
    /\ Yields(p, [type |-> "Bytes", data |-> <<Head(inbox[p][s])>>])
    /\ UNCHANGED <<task, old, sock, inbox, diskVars, turn, asked, stray, envVars, memory, kept, stored>>

\* recv_from takes what is there, from whomever it came.
Receive(p) ==
    LET s == sock[p] IN
    /\ pc[p] = "wait" /\ s > 0 /\ inbox[p][s] # <<>>
    /\ Yields(p, [type |-> "Bytes", data |-> <<Head(inbox[p][s])>>])
    /\ inbox' = [inbox EXCEPT ![p][s] = Tail(@)]
    /\ UNCHANGED <<task, old, sock, diskVars, turn, asked, stray, envVars, memory, kept, stored>>

\* A reply on a connection or a socket of its own, which is closed then.
Answered(p) ==
    /\ pc[p] = "wait" /\ sock[p] = 0
    /\ \E a \in asked : a.proc = p /\ a.task = task[p] /\ a.sock = 0 /\ a.left > 0
    /\ Yields(p, [type |-> "Bytes", data |-> <<task[p]>>])
    /\ asked' = {a \in asked : a.proc = p => a.sock # 0}
    /\ UNCHANGED <<task, old, sock, diskVars, inbox, turn, stray, envVars, memory, kept, stored>>

\* No such address, connection refused or closed.
NetworkFails(p) ==
    /\ pc[p] = "ask" /\ faults > 0
    /\ faults' = faults - 1
    /\ Yields(p, [type |-> "Error"])
    /\ UNCHANGED <<task, old, sock, diskVars, udpVars, scene, role, blind, todo, answered, memory, kept, stored>>

-----------------------------------------------------------------------------
Works(p) ==
    \/ Reply(p) \/ Evaluate(p) \/ StoreInMemory(p) \/ Retrieve(p) \/ DiskRead(p)
    \/ RejectsPath(p) \/ Statistics(p)
    \/ Measure(p) \/ Open(p) \/ Fill(p)
    \/ Ask(p) \/ Receive(p)

Faults(p) == Crash(p) \/ Reconnect(p) \/ Requeue(p) \/ ReadFails(p) \/ WriteFails(p) \/ NetworkFails(p)

ExecutorNext ==
    \/ \E p \in Procs : \/ Start(p) \/ Works(p) \/ Answered(p) \/ Faults(p)
                        \/ \E t \in Tasks : AssignTask(p, t)
    \/ \E a \in asked : Echo(a)

ExecutorSpec == ExecutorInit /\ [][ExecutorNext]_vars

(* Fairness: processes are started and run, and the master hands out tasks; no
   server has to answer. *)
ExecutorFairness ==
    \A p \in Procs : /\ WF_vars(Start(p)) /\ WF_vars(Works(p))
                     /\ WF_vars(\E t \in Tasks : AssignTask(p, t))

FairExecutor == ExecutorSpec /\ ExecutorFairness

-----------------------------------------------------------------------------
(* A directory holds no more than the quotas of the nodes configured to use it, a
   quota each: they count what they write, not what the others write.  DiskWrite
   knows no quota; and a node that starts while another has emptied a file to
   write it anew counts too little (disk_store.rs:15-16, 27-34; lib.rs:209). *)
QuotaKept ==
    \A d \in Dirs \ (wild \cup blind) : DirectorySize(d) <= Quota * Cardinality(Sharers(d))

(* A read of a file, DiskRead or RetrieveData with a disk, returns all of the last
   write of that name, StoreData or DiskWrite, and nothing of any other, across
   restarts and by whichever process of the directory it was written: unless two
   wrote the file at once, a write of it broke off, or one is going on, or the read
   itself failed (node README: "a lightweight shared-memory channel between
   processes"). *)
Unsettled(d, n) == <<d, n>> \in broken \/ WritersOf(d, n) # {}
ReadFailed(p)   == faults' # faults /\ out'[p] = [type |-> "Error"]

Runs(p)         == pc[p] = "run" /\ pc'[p] = "reply"
ReadsBack ==
    [][\A p \in Procs : Runs(p) /\ FromFile(p) /\ ~Unsettled(Dir(p), Name(p)) =>
            out'[p] = Entry(kept[Dir(p)][Name(p)]) \/ ReadFailed(p)]_vars

(* RetrieveData gets what the last StoreData of that key anywhere has stored, or
   the DiskWrite that has replaced its file since, if it is assigned to a process
   that keeps things where the datum is: not when a StoreData went into another
   process's memory, or to another directory, or into a memory that a restart
   has emptied; nor, of a file, in the cases of ReadsBack (lib.rs:155-184). *)
StoredIsFound ==
    [][\A p \in Procs : Runs(p) /\ Kind(p) = "RetrieveData" /\ stored[Name(p)].at = Place(p) =>
            \/ out'[p] = Entry(stored[Name(p)].task)
            \/ HasDisk(p) /\ (Unsettled(Dir(p), Name(p)) \/ ReadFailed(p))]_vars

(* StoreData is refused only when the data really has no room, or when a file this
   process has counted got smaller since it started: the counter never goes down
   (disk_store.rs:34). *)
Refuses(p) == pc[p] = "size" /\ pc'[p] = "reply"
Fits(p)    == DirectorySize(Dir(p)) - Len0(disk[Dir(p)][Name(p)]) + TaskSize[task[p]] <= Quota

RefusedForRoom == [][\A p \in Procs : Refuses(p) => ~Fits(p) \/ p \in shrunk]_vars

(* A Udp task returns the reply to its own datagram, unless a bound socket got a
   datagram no task was waiting for - a second reply, one to a task that is given
   up, one to the process before this one: the next task takes it for its own, and
   each one after is off by one (lib.rs:132-135). *)
OwnReply ==
    \A p \in Procs : pc[p] = "reply" /\ Kind(p) = "Udp" /\ out[p].type = "Bytes" =>
        out[p].data = <<task[p]>> \/ (sock[p] > 0 /\ p \in stray)

(* Every task gets a result, be it an error, as long as a process that the master
   knows under its role is up and no process waits for the network: that wait has no
   timeout, and a disk or internet node that connects again is a worker for good
   (lib.rs:133; node.rs:331-356). *)
Unheard(p)  == pc[p] = "wait" /\ (sock[p] > 0 => inbox[p][sock[p]] = <<>>)
Unserved(t) == \A p \in Procs : pc[p] # "down" => role[p] # Required(t)

TasksAnswered ==
    []<>(\A t \in scene.tasks : t \in answered \/ Unserved(t) \/ \E p \in Procs : Unheard(p))
=============================================================================
