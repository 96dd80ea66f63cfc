SPECIFICATION Spec
CONSTANTS
    None = None
    SpanKeys = {1}
    PointKeys = {"p", "q"}
    Streams = {"S1", "S2"}
    Schemas = {"A"}
    Bodies = {"x"}
    StreamBytes <- FileStreams
    Wires <- FileWires
    Configs <- FileConfigs
    MaxClock = 4
    MaxSessions = 3
    MaxFailures = 1
INVARIANTS SidesAgree CommittedStands BoundedFromOpen
CHECK_DEADLOCK FALSE
