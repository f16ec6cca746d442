SPECIFICATION FairSession
CONSTANTS
    k1 = k1  w1 = w1  w2 = w2  t1 = t1  t2 = t2
    Conns = {k1, w1, w2}
    Tasks = {t1, t2}
    TaskKind <- MCKinds
    NodeRole <- MCRoles
    Clients = {k1}
    Scenes <- MCScenes
    Stubborn = {k1}
    ShellIds = {}
    Mortal = {k1}
    Garbling = {w2}
    Silent = {k1}
    NoEntry = NoEntry  NotPending = NotPending  AnyNode = AnyNode  NoTask = NoTask
INVARIANTS SessionTypeOK OwnAnswer AnswerIsDone ReplyComes
PROPERTIES ProgramEnds GhostsGo EventuallyCompleted
