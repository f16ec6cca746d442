SPECIFICATION FairExecutor
CONSTANTS
    p1 = p1  p2 = p2  d1 = d1  k1 = k1  k2 = k2  k3 = k3
    Procs = {p1, p2}
    Dirs = {d1}
    Names = {k1, k2, k3}
    Tasks <- MCTasks
    TaskKind <- MCKind
    TaskName <- MCName
    TaskSize <- MCSize
    Outside <- MCOutside
    Quota = 2
    Scenes <- MCScenes
    NoTask = NoTask  Absent = Absent  NoFile = NoFile  Nowhere = Nowhere
CHECK_DEADLOCK FALSE
INVARIANTS ExecutorTypeOK QuotaKept OwnReply
PROPERTIES ReadsBack StoredIsFound RefusedForRoom TasksAnswered
