SPECIFICATION Spec
CONSTANTS
    p1 = p1
    p2 = p2
    None = None
    Proc <- TwoProcs
    Step <- Chain
    Kind <- ChainKind
    Deps <- ChainDeps
    MaxPlans = 1
    MaxAttempts = 2
    ParallelReads = 2
    StoredDeadline = TRUE
    MaxCalls = 1
    MaxChecks = 1
    MaxFaults = 2
SYMMETRY ProcSymmetry
INVARIANTS
    GraphSound
PROPERTIES
    StepDoneIsFinal
    FrozenAfterEnd
    StaleRunSilent
CHECK_DEADLOCK FALSE
