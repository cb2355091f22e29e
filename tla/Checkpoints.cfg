CONSTANTS
    Paths = {p1, p2}
    Contents = {c1, key}
    Secrets = {key}
    Absent = absent
    Mode = "auto"
    Keep = 1
    Ops = {"write", "patch_delete", "rename"}
    Flags = {FALSE, TRUE}
    MaxTools = 2
    MaxUserEdits = 1
    MaxCheckpoints = 2
    MaxRollbacks = 2
    MaxCrashes = 1
    MaxFaults = 1

SPECIFICATION Spec
SYMMETRY Symmetry

INVARIANTS
    CheckpointsSound
PROPERTIES
    RollbackSound
