SPECIFICATION Spec
CONSTANTS
    c1 = c1  c2 = c2  t1 = t1  t2 = t2  t3 = t3
    Conns = {c1}
    Tasks = {t1}
    TaskKind <- MCKindOne
    NodeRole <- MCWorker1
    ShellIds = {}
    Mortal = {c1}
    Garbling = {}
    Silent = {}
    NoEntry = NoEntry  NotPending = NotPending  AnyNode = AnyNode  NoTask = NoTask
INVARIANT DisconnectRequeues
