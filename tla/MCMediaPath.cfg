SPECIFICATION FairSpec
CONSTANTS
    SeqMod = 3
    TsMod = 6
    UIntMod = 256
    Frames = 4
    Statuses <- EncoderReturns
    Room = 2
    MaxSends = 3
    MaxFaults = 2
    MaxErrors = 1
CHECK_DEADLOCK FALSE
INVARIANTS
    TypeOK
    InStep
    PlayerStaysOpen
    ErrorsNotPlayed
    PlaysWhatArrives
    RepeatsExplained
PROPERTIES
    PlayerReady
