SPECIFICATION Spec
CONSTANTS
    c1 = c1
    c2 = c2
    t1 = t1
    t2 = t2
    p1 = p1
    p2 = p2
    Clients = {c1, c2}
    Pids = {p1, p2}
    host = host
    hostV6 = hostV6
    otherHost = otherHost
    addr1 = addr1
    addr2 = addr2
    Addresses = {host, hostV6, otherHost, addr1, addr2}
    Unset = Unset
    Seconds = {t1}
    Link <- LinkApart
    Asks <- AsksShared
SYMMETRY PidSymmetry
INVARIANTS
    FrozenParameters
    StreamHasHolder
    OneClientsParameters
PROPERTIES
    ImplementsRelayStream
    StoppedByHolder
    SetupAnswers
