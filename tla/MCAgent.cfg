SPECIFICATION PartsSpec
CONSTANTS
    MaxTasks = 2
    MaxTurns = 2
    MaxCalls = 2
    MaxRetries = 1
    MaxOverflow = 1
    MaxCrashes = 1
    MaxNotes = 1
    Signatures = {s1}
    None = none
    Files = {f1, f2}
    Marks = marks
    Theirs = theirs
    MaxEdits = 1
    MaxTrees = 3
    MaxSent = 2
    MaxIndex = 2
    MaxPieces = 2
    MaxText = 1
    maxRetries = 1
INVARIANTS
    LoopSound
    ProviderSound
    GitSound
PROPERTIES
    RunEnds
    GitSteps
