SPECIFICATION RuntimeSpec
CONSTANTS
    AgentConfigs <- MCAgentConfigs
    AgentResponses <- MCResponses
    MaxRows = 5
    RowLimit = 4
    dialogWindowBlock = 2
    FullRecent = 2
    DialogBudgets = {2, 9}
    CompactThreshold = 4
    CompactKeep = 2
    SummaryThreshold = 4
    SummaryMinNew = 3
    PromptCases <- MCPromptCases
    ResultInputs <- MCResults
    MessageTimes = {0, 1, 4, 12}
    DayLength = 10
    dialogGapMarkerAfter = 3
    MaxDialog = 2
    WorkerConfigs <- MCWorkerConfigs
    PlannerPlans <- MCPlannerPlans
    PatchOps <- MCPatchOps
    Claims = {"c1"}
    EvidenceCap = 1
    MaxFaults = 1
    Programs <- MCPrograms
    ItemKeys = {k1, k2}
    ProgramWorkers = {w1, w2}
    MaxTicks = 2
    GoalPlans <- MCGoalPlans
    MaxIterations = 12
    MaxPeers = 3
    MaxCrashes = 1
INVARIANTS
    AgentSound
    SessionSound
    
    
    ProgramSound
    GoalSound
PROPERTIES
    
    PlanMovesForward
CHECK_DEADLOCK FALSE
