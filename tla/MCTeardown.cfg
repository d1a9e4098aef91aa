SPECIFICATION FairSpec
CONSTANTS
    c1 = c1
    c2 = c2
    t1 = t1
    t2 = t2
    p1 = p1
    Clients = {c1}
    Pids = {p1}
    host = host
    hostV6 = hostV6
    otherHost = otherHost
    addr1 = addr1
    addr2 = addr2
    Addresses = {host, hostV6, otherHost, addr1, addr2}
    Unset = Unset
    Seconds = {t1}
    Link <- LinkSame
    Asks <- AsksBasic
PROPERTIES
    TeardownAnswered
