SPECIFICATION FairSpec
CONSTANTS
    h1 = h1  p1 = p1  s1 = s1
    Handlers = {h1}
    Workers = {h1}
    Syncs = {p1}
    Savers = {s1}
    Cleaner = Cleaner
    Shell = Shell
    ShellAsks = TRUE
    Quiet = {}
    MaxBusy = 2
    Free = Free
CHECK_DEADLOCK FALSE
INVARIANTS TypeOK DeadlockNeedsInversion
PROPERTY EveryoneFinishes
