SPECIFICATION FairSpec
CHECK_DEADLOCK FALSE
CONSTANTS
    rtcp = rtcp
    sound = sound
    NoFd = NoFd
    Fds = {rtcp, sound}
    MaxHandlers = 3
    Script <- SessionCapture
    Garbage <- AnyGarbage
    Datagrams <- OneReport
    NoDatagram = NoDatagram
    Periods = 3
PROPERTIES
    CaptureGoesOn
