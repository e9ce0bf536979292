SPECIFICATION Spec
CONSTANTS
    MaxRuns = 3
    MaxReq = 1
    MaxQueue = 2
CHECK_DEADLOCK FALSE
INVARIANTS TypeOK TimersInStep AbortsExplained
PROPERTIES Reconnects Reports StopEnds
