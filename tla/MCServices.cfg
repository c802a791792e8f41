SPECIFICATION ServicesSpec
CONSTANTS
    r1 = r1
    r2 = r2
    w1 = w1
    w2 = w2
    None = None
    Ref <- MCRef
    Group <- MCGroup
    Autonomous <- MCAutonomous
    Worker <- MCWorker
    MaxClaims = 2
    ReviewUrls = {1, 2, 3, 4}
    UrlBucket <- MCUrlBucket
    ReviewTasks <- MCReviewTasks
    AuditTallies <- MCTallies
    ReportParts = 2
    MaxReports = 2
    MaxReviewFaults = 1
    FleetPeers = {"a"}
    YamlPeers = {"b"}
    Delegates = {1, 2}
    Addresses <- MCAddresses
    MaxCalls = 2
    MaxFedFaults = 1
    MaxLiveChildren = 1
    Holders = {"p", "q"}
    TokenCallers = {"request", "tick", "other"}
    CallerHome <- MCCallerHome
    CallerLead <- MCCallerLead
    RefreshRetries = 1
    MaxPairs = 3
    MaxTokenFaults = 1
    McpServers <- MCMcpServers
    McpNames <- MCMcpNames
    McpCallers = {"t", "u"}
    MaxConnects = 2
    MaxRefreshes = 1
    MaxStoreErrors = 1
INVARIANTS
    JournalSound
    HistorySound
    
    
    TokenSound
    McpSound
PROPERTIES
    TerminalIsFinal
    ImplementsOccurrenceDelivery
CHECK_DEADLOCK FALSE
