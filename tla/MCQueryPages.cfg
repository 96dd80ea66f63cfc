CONSTANTS
    None = None
    Base = 25
    WordBytes = 2
    TraceBytes = 1
    SpanBytes = 1
    FingerprintOf <- MCFingerprintOf
    Candidates <- MCCandidates
    Loads <- MCLoads
    Queries <- MCQueries
    PageBudgets <- MCBudgets
    Probe <- MCProbe
    ScanBatch = 2
    MaxPages = 2
    MaxMoves = 1
SPECIFICATION Spec
INVARIANTS
    CursorsBelong
    PageExact
    SpendTruthful
CHECK_DEADLOCK FALSE
