SPECIFICATION Spec
CONSTANTS
    None = None
    SpanKeys = {1}
    PointKeys = {"p", "q"}
    Streams = {"S1", "S2"}
    Schemas = {"A"}
    Bodies = {"x"}
    StreamBytes <- FileStreams
    Wires <- PointWires
    Configs <- RoomyConfigs
    MaxClock = 4
    MaxSessions = 3
    MaxFailures = 1
INVARIANTS StandingPointsResident
CHECK_DEADLOCK FALSE
