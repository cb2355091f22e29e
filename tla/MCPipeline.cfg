SPECIFICATION PartsSpec
CONSTANTS
    MaxAttempts = 3
    Deliverables = {d1, d2}
    Findings = {f1, f2}
    MaxSweeps = 3
    MaxRuns = 3
    MaxRows = 3
    Window = 3
    MaxBlocks = 3
    MaxMade = 4
    MaxLines = 2
    WheelRows = 1
    MaxText = 2
    MaxHistory = 1
    MaxHits = 2
    PlanScopes <- MCPlanScopes
    MaxProposals = 3
    MaxEvidence = 2
    MaxMarks = 2
INVARIANTS
    
    LoopsSound
    ProposalsSound
    
PROPERTIES
    VerdictsHold
    TerminalSteps
