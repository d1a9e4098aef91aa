\* Clients that have left do not return and the service may stay down, hence
\* no check for deadlock.
SPECIFICATION Spec
CONSTANTS
    c1 = c1
    c2 = c2
    options = options
    describe = describe
    setup = setup
    cseq = cseq
    CR = CR
    LF = LF
    Clients = {c1, c2}
    Units <- MCUnits
    Script <- MCScript
    Window = 2
    RecvMax = 6
CHECK_DEADLOCK FALSE
INVARIANTS
    TypeOK
    StreamInStep
PROPERTIES
    ImplementsChannel
    RequestsParsed
