SPECIFICATION Spec
CONSTANTS
    NumSymbols = 2
    ExpectedLast = 10
    Lookback = 1
    Horizon = 1
    Embargo = 2
    MinTraining = 2
    MaxPosition = 50
    MinCash = 5
    Ticks = 10
    Failed = Failed
    Panels <- MCPanels
    Paths <- MCPaths
    RetrainEvery = 3
    CostBps = 5
    Sensitivity <- MCSensitivity
    WindowSessions = 3
    MinWindow = 2
    InitialEquity = 500
    Solutions <- MCSolutions
INVARIANTS
    TypeOK
    NeverLooksAhead
    
    NeverOverdrawn
    WealthIsAccountedFor
    WindowsTile
CHECK_DEADLOCK FALSE
