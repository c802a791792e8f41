SPECIFICATION FairSpec
CONSTANTS
    m1 = m1
    m2 = m2
    None = None
    Draft = Draft
    Commit = Commit
    Note = Note
    Reset = Reset
    Quiet = Quiet
    Msg <- TwoMsgs
    Pulse <- OnePulse
    DebounceCap = 2
    MaxTools = 0
    MaxBudget = 1
PROPERTY TurnsEnd
CHECK_DEADLOCK FALSE
