SPECIFICATION FairSpec
CONSTANTS
    p1 = p1
    p2 = p2
    Proc <- OneProc
    Kinds = {"oneshot", "cadence", "recurring"}
    Defects = {"none", "dispatcher", "tools"}
    MaxIterations = 2
    MaxCrashes = 2
INVARIANTS
    TaskSound
    BudgetsHold
PROPERTIES
    OneShotEnds
    NothingStranded
    EndedStaysEnded
CHECK_DEADLOCK FALSE
