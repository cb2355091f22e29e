SPECIFICATION PartsSpec
CONSTANTS
    Paths = {p1, p2}
    Contents = {c1, c2}
    Absent = absent
    MaxDepth = 2
    MaxTurns = 3
    MaxUserEdits = 1
    MaxMoves = 3
    MaxFaults = 1
    Values = {a, b}
    MaxMessages = 2
    MaxSaves = 4
    MaxStops = 2
    Nothing = nothing
    ApprovalModes = {"readonly", "ask"}
    MaxTyped = 2
    MaxSessions = 2
    MaxCrashes = 1
    None = none
    MaxTokens = 4
INVARIANTS
    
    LogSound
    
    

    
