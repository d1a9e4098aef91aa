\* The processes stop when no sound can flow, hence no check for deadlock.
SPECIFICATION FairSpec
CONSTANTS
    Devices <- AllDevices
    None = None
CHECK_DEADLOCK FALSE
INVARIANTS
    TypeOK
    PlaysAtSpeed
    FitsPlayer
PROPERTIES
    GoodDevicesPlay
