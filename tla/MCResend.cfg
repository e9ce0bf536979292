CONSTANTS
    Nodes = {n1}
    XApps = {x1}
    RanFuncs = {f1, f2}
    UINT16 = 16
    ReqId0 = 14
    XAppId0 = 7
    MaxReq = 3
    MaxInd = 1
    MaxAssoc = 2
    MaxResend = 1
    TimersMayExpire = TRUE
SPECIFICATION Spec
CHECK_DEADLOCK FALSE
INVARIANTS LookupsSucceed AbortsExplained
PROPERTIES ImplementsService
