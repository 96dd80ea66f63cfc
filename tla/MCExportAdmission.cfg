CONSTANTS
    None = None
    LongTexts = {"long"}
    LongBytes = 200
    Slot <- MCSlot
    WireDepth = 4
    Limits <- MCLimits
    WrongWidthIds = {"wide"}
    TraceStateMembers = 1
    TraceStateBytesCap = 9
    Padded = {" v "}
    Bare <- MCBare
    Exports <- MCExports
    MaxExports = 2
    PayloadCeiling = 5
    QueueCeiling = 10500
SPECIFICATION Spec
INVARIANTS
    AdmittedVerbatim
    AdmittedBounded
    FatesFollow
    InternedExactly
CHECK_DEADLOCK FALSE
