SPECIFICATION FairSpec
CHECK_DEADLOCK FALSE
CONSTANTS
    rtcp = rtcp
    sound = sound
    NoFd = NoFd
    Fds = {rtcp, sound}
    MaxHandlers = 3
    Script <- SessionCapture
    Garbage <- AnyGarbage
    Datagrams <- ReportsAndEmpty
    NoDatagram = NoDatagram
    Periods = 3
INVARIANTS
    TypeOK
    OneSlotEach
    CalledWhileRegistered
    WalkInStep
PROPERTIES
    RoundEnds
    RtcpHandled
    SeenOverrunRecovers
