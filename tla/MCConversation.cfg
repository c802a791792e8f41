SPECIFICATION Spec
CONSTANTS
    m1 = m1
    m2 = m2
    None = None
    Draft = Draft
    Commit = Commit
    Note = Note
    Reset = Reset
    Quiet = Quiet
    Msg <- TwoMsgs
    Pulse <- OnePulse
    DebounceCap = 2
    MaxTools = 1
    MaxBudget = 2
SYMMETRY MsgSymmetry
INVARIANTS
    ConversationSound
    DialogueComplete
    StoppedTurnRecorded
PROPERTIES
    PulseFitsDialogue
    RetiredIsSilent
CHECK_DEADLOCK FALSE
