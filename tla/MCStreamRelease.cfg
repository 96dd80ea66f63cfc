SPECIFICATION Spec
CONSTANTS
    None = None
    h1 = h1
    h2 = h2
    S1 = S1
    S2 = S2
    Handlers = {h1, h2}
    SpanKeys = {}
    PointKeys = {"p", "q", "r"}
    Streams = {S1, S2}
    Schemas = {"A", "B"}
    Bodies = {"x", "y"}
    StreamBytes <- StreamSizes
    Exports <- StreamExports
    Wires <- StreamWires
    QueueCeiling = 5
    MaxRecords = 2
    MaxBytes = 3
    SeriesCap = 1
    Window = 2
    Jumps = {1}
    MaxExports = 3
    MaxTicks = 1
    MaxStops = 0
SYMMETRY HandlersSymmetry
INVARIANT ResidentStreamsInterned
