SPECIFICATION Spec
CONSTANTS
    h1 = h1  p1 = p1  s1 = s1
    Handlers = {h1}
    Workers = {}
    Syncs = {}
    Savers = {s1}
    Cleaner = Cleaner
    Shell = Shell
    ShellAsks = TRUE
    Quiet = {}
    MaxBusy = 5
    Free = Free
INVARIANT TakenIsShown
