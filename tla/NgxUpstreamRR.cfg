SPECIFICATION Spec
CONSTANTS
    Requests = {r1, r2}
    Configs <- MCConfigs
    FailTimeout = 1
    MaxTime = 4
    MaxGets = 6
    MaxFaults = 2
INVARIANTS ConnsExact Smooth
PROPERTIES TriedOnce ProbeSpaced
CHECK_DEADLOCK FALSE
SYMMETRY Symmetry
