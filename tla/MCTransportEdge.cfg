SPECIFICATION FairSpec
CONSTANTS
    None = None
    Conns = {c1, c2}
    Requests = {r1, r2}
    Shapes <- EdgeShapes
    MaxConnections = 1
    PayloadCeiling = 1
    Slack = 1
    BodyCeiling = 2
    MaxAcceptErrors = 1
INVARIANTS EdgeBalances ReadsCovered
PROPERTIES EveryRequestEnds AcceptProgress
CHECK_DEADLOCK FALSE
