SPECIFICATION Spec
CONSTANTS
    h1 = h1  p1 = p1  s1 = s1
    Handlers = {h1}
    Workers = {h1}
    Syncs = {}
    Savers = {s1}
    Cleaner = Cleaner
    Shell = Shell
    ShellAsks = FALSE
    Quiet = {}
    MaxBusy = 5
    Free = Free
INVARIANT SaveNeverBlocksCaller
