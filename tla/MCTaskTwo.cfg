SPECIFICATION Spec
CONSTANTS
    p1 = p1
    p2 = p2
    Proc <- TwoProcs
    Kinds = {"oneshot"}
    Defects = {"none", "tools"}
    MaxIterations = 2
    MaxCrashes = 1
SYMMETRY ProcSymmetry
PROPERTIES
    ReportIsFinal
    
CHECK_DEADLOCK FALSE
