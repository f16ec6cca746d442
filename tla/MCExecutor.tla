----------------------------- MODULE MCExecutor -----------------------------
(* An instance of Executor for TLC: two processes, two names, and the tasks of one
   scene at a time. *)
EXTENDS Executor, TLC

CONSTANTS p1, p2, d1, k1, k2, k3

\* Each task is its kind, its name, and the length of its data.
T(kind, name, size) == [kind |-> kind, name |-> name, size |-> size]
Small1 == T("StoreData", k1, 1)
Big1   == T("StoreData", k1, 2)
Small2 == T("StoreData", k2, 1)
Big2   == T("StoreData", k2, 2)
Big3   == T("StoreData", k3, 2)
Again1 == T("StoreData", k1, 2) @@ [again |-> TRUE]
Get1   == T("RetrieveData", k1, 1)
Write1 == T("DiskWrite", k1, 2)
Read1  == T("DiskRead", k1, 1)
Climb  == T("DiskWrite", k1, 1)
Peek   == T("DiskRead", k2, 1)
List   == T("GetStorage", k1, 1)
Udp1   == T("Udp", k1, 1)
Udp2   == T("Udp", k2, 1)
Udp3   == T("Udp", k2, 2)
Tcp1   == T("Tcp", k1, 1)
Other  == {T("GetGlobalRam", k1, 1), T("Compute", k1, 1), T("HttpRequest", k1, 1)}

MCTasks == {Small1, Big1, Again1, Small2, Big2, Big3, Get1, Write1, Read1, Climb, Peek, List, Udp1, Udp2, Udp3, Tcp1} \cup Other
MCKind  == [t \in MCTasks |-> t.kind]
MCName  == [t \in MCTasks |-> t.name]
MCSize  == [t \in MCTasks |-> t.size]

C(r, ports) == [role |-> r, dir |-> d1, ports |-> ports]
Scene(one, two, ts, f, replies) ==
    [config |-> p1 :> one @@ p2 :> two, tasks |-> ts, faults |-> f, replies |-> replies]

MCOutside == {Climb, Peek}

\* A disk node alone; two that share a directory; a worker, and two; an internet
\* node with two ports; one with a port and a worker beside it.
MCScenes ==
    {Scene(C("Disk", 0),     NoFile,         {Small1, Big1, Small2, Get1},        2, 0),
     Scene(C("Disk", 0),     NoFile,         {Small1, Write1, Read1, List, Peek}, 1, 0),
     Scene(C("Disk", 0),     C("Disk", 0),   {Small1, Big1, Big2, Get1},          1, 0),
     Scene(C("Disk", 0),     C("Disk", 0),   {Write1, Read1, Big1, Climb},        1, 0),
     Scene(C("Disk", 0),     C("Disk", 0),   {Big1, Again1, Big2, Big3},          1, 0),
     Scene(C("Worker", 0),   NoFile,         {Small1, Big1, Get1} \cup Other,     1, 1),
     Scene(C("Worker", 0),   C("Worker", 0), {Small1, Big1, Get1},                1, 0),
     Scene(C("Internet", 2), NoFile,         {Udp1, Udp2, Udp3},                  1, 2),
     Scene(C("Internet", 1), C("Worker", 0), {Udp1, Udp2, Tcp1, Small1, Get1},    1, 1)}
=============================================================================
