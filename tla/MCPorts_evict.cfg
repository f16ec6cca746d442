SPECIFICATION Spec
CONSTANTS
    c1 = c1  c2 = c2  c3 = c3  p1 = p1  p2 = p2
    Conns = {c1}
    PortNumbers = {p1}
    FirstPorts <- MCOnePort
    MaxRequests = 1
    Mortal = {}
    Garbling = {}
    Silent = {c1}
    NoEntry = NoEntry  NoPort = NoPort  NoConn = NoConn  Pool = Pool  Lost = Lost
CHECK_DEADLOCK FALSE
INVARIANT PortsReleased
