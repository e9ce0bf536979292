CONSTANTS
    Nodes = {n1}
    XApps = {x1, x2}
    RanFuncs = {f1}
    UINT16 = 16
    ReqId0 = 1
    XAppId0 = 7
    MaxReq = 2
    MaxInd = 1
    MaxAssoc = 1
    MaxResend = 0
    TimersMayExpire = TRUE
SPECIFICATION Spec
CHECK_DEADLOCK FALSE
SYMMETRY Symmetry
INVARIANTS TypeOK ArrivalsExpected AbortsExplained
