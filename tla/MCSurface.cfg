SPECIFICATION Spec
CONSTANTS
    None = None
    Null = Null
    Digits = 3
    TraceBytes = 2
    SpanBytes = 1
    Entities <- SomeEntities
    Spans <- SomeSpans
    Logs <- SomeLogs
    LogContext <- SomeContexts
    Flows <- SomeFlows
    Settings <- SomeSettings
    MaxMessageBytes = 4
    PageLimits = 1
    PageMaxBytes = 4
    PayloadCeiling = 4
    ChainLimits = 2
    MaxMoves = 1
    MaxPosts = 1
INVARIANTS
    RequestsAnsweredInOrder
    NothingFabricated
    SurfacesAgree
    AnswersReadBack
CHECK_DEADLOCK FALSE
