SPECIFICATION Spec
CONSTANTS
    Findings = {f1, f2}
    MaxSweeps = 2
INVARIANT
    FixedIsMerged
