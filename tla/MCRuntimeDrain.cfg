SPECIFICATION FairSpec
CONSTANTS
    None = None
    h1 = h1
    h2 = h2
    S1 = S1
    S2 = S2
    Handlers = {h1, h2}
    SpanKeys = {1}
    PointKeys = {}
    Streams = {}
    Schemas = {"A", "B"}
    Bodies = {"x", "y"}
    StreamBytes <- NoSizes
    Exports <- DrainExports
    Wires <- DrainWires
    QueueCeiling = 3
    MaxRecords = 1
    MaxBytes = 2
    SeriesCap = 1
    Window = 2
    Jumps = {1}
    MaxExports = 2
    MaxTicks = 1
    MaxStops = 1
INVARIANT SummaryComplete
PROPERTIES DrainCompletes HandOffsComplete
