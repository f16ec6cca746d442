SPECIFICATION Spec
CONSTANTS
    c1 = c1  c2 = c2  c3 = c3  p1 = p1  p2 = p2
    Conns = {c1, c2, c3}
    PortNumbers = {p1, p2}
    FirstPorts <- MCTwoPorts
    MaxRequests = 2
    Mortal = {c1, c2, c3}
    Garbling = {c1, c2, c3}
    Silent = {c1, c2, c3}
    NoEntry = NoEntry  NoPort = NoPort  NoConn = NoConn  Pool = Pool  Lost = Lost
CHECK_DEADLOCK FALSE
SYMMETRY SymConns
INVARIANTS TypeOK PortExclusive LeakExplained
PROPERTY ImplementsPool
