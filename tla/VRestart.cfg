SPECIFICATION Spec
CONSTANTS
    MaxRuns = 2
    MaxReq = 1
    MaxQueue = 2
INVARIANT
    IndicationsKnown
CHECK_DEADLOCK FALSE
