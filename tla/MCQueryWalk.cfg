SPECIFICATION FairSpec
CONSTANTS
    None = None
    MaxKey = 4
    EntityOf <- Names
    Matching <- Filtered
    Evidence <- Sizes
    ScanBatch = 2
    StallLimit = 3
    Budgets <- AllBudgets
    MaxPages = 3
    MayExpire = TRUE
    Drivers = {"conforming", "stalling"}
INVARIANTS ChainExact BudgetKept CutsTruthful
PROPERTY ChainEnds
CHECK_DEADLOCK FALSE
