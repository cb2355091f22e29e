SPECIFICATION Spec
CONSTANTS
    Jobs = {j1, j2}
    MaxRuns = 3
    None = none
INVARIANT TerminalRestored
