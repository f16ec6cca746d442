SPECIFICATION FairSystem
CONSTANTS
    n1 = n1  c1 = c1  c2 = c2  t1 = t1
    Nodes = {n1}
    Conns <- MCConns
    ConnsOf <- MCConnsOf
    Flaky = {c1}
    Tasks = {t1}
    TaskKind <- MCKind
    NodeRole <- MCRole
    ShellIds = {}
    Mortal <- MCConns
    Garbling = {}
    Silent <- MCConns
    NoEntry = NoEntry  NotPending = NotPending  AnyNode = AnyNode  NoTask = NoTask  NoConn = NoConn
CHECK_DEADLOCK FALSE
INVARIANTS SystemTypeOK NoTaskSwallowed ResultKept AssignmentKept TrackedTwiceOnlyAfterEviction RunTwiceOnlyAfterEviction
PROPERTIES OpenResultDelivered AssignedExecuted
