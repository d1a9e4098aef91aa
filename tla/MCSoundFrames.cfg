\* The processes stop when no sound can flow, hence no check for deadlock.
SPECIFICATION FairSpec
CONSTANTS
    Devices <- PowersOfTwo
    None = None
CHECK_DEADLOCK FALSE
INVARIANTS
    FramesAreOpusFrames
