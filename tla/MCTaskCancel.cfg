SPECIFICATION Spec
CONSTANTS
    p1 = p1
    p2 = p2
    Proc <- OneProc
    Kinds = {"recurring"}
    Defects = {"none"}
    MaxIterations = 1
    MaxCrashes = 0
PROPERTY
    CancelSticks
CHECK_DEADLOCK FALSE
