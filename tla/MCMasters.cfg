SPECIFICATION MastersSpec
CONSTANTS
    c1 = c1  c2 = c2  p1 = p1  t1 = t1  t2 = t2  s1 = s1  s2 = s2
    Conns = {c1, c2, p1}
    Tasks = {t1, t2}
    TaskKind <- MCKinds
    NodeRole <- MCRoles
    LifeOf <- MCLives
    ShellIds = {}
    PeerTasks = {t2}
    Mortal = {c1}
    Garbling = {}
    Silent = {c1}
    Savers = {s1, s2}
    Bounds <- MCBounds
    NoEntry = NoEntry  NotPending = NotPending  AnyNode = AnyNode  NoTask = NoTask
    Empty = Empty  Torn = Torn  NoBook = NoBook
SYMMETRY MCSym
INVARIANTS MastersTypeOK NeverLostInExchange RestartKnows
