SPECIFICATION Spec
CONSTANTS
    None = None
    MaxKey = 8
    Facts <- Story
    ScanPage = 1
    Calls <- SomeCalls
    Stores <- SomeStores
    MaxMoves = 2
    FlowMoves = 1
    Subjects = {1, 14}
    Asked <- SomeWindows
    PageSize = 1
    MaxPages = 4
    MaxEntities = 4
    MaxExaminations = 3
    Slice = 1
    MaxRelations = 2
    MaxScan = 4
INVARIANTS AnswerTrue AnswerComplete BoundsKept EvidenceWhole EnvelopeSound
CHECK_DEADLOCK FALSE
