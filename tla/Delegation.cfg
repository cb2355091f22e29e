SPECIFICATION FairSpec
CONSTANTS
    w1 = w1
    w2 = w2
    w3 = w3
    f1 = f1
    f2 = f2
    Patches <- MCPatches
    Main = Main
    Workers = {w1, w2, w3}
    Files = {f1, f2}
    Order <- MCOrder
    DependsOn <- MCDependsOn
    LockPaths <- MCLockPaths
    MaxConcurrency = 2
    MaxRuns = 2
    MaxOthers = 1
    MaxFaults = 1
INVARIANTS
    PlanSound
    ConflictsSound
PROPERTIES
    EveryRunEnds
