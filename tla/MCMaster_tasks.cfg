SPECIFICATION Spec
CONSTANTS
    c1 = c1  c2 = c2  t1 = t1  t2 = t2  t3 = t3
    Conns <- MCConns2
    Tasks = {t1, t2, t3}
    TaskKind <- MCKinds
    NodeRole <- MCDisk2
    ShellIds = {t3}
    Mortal <- MCConns2
    Garbling <- MCConns2
    Silent <- MCConns2
    NoEntry = NoEntry  NotPending = NotPending  AnyNode = AnyNode  NoTask = NoTask
CONSTRAINT MCTwoTasks
INVARIANTS TypeOK NeverLostUnsent ActiveWasSent TargetHonoured RoleHonoured
