SPECIFICATION Spec
CONSTANTS
    relay1 = relay1
    relay2 = relay2
    player1 = player1
    mixed = mixed
    unscoped = unscoped
    helpless = helpless
    nopeer = nopeer
    here = here
    there = there
    Procs <- MCProcs
    Hosts <- MCHosts
    Args <- MCArgs
INVARIANTS
    TypeOK
    AddressesAsGiven
    LoopConnected
    PortsExclusive
    SocketsFirst
