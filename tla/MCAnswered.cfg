CONSTANTS
    Nodes = {n1}
    XApps = {x1, x2}
    RanFuncs = {f1}
    UINT16 = 16
    ReqId0 = 1
    XAppId0 = 7
    MaxReq = 1
    MaxInd = 1
    MaxAssoc = 1
    MaxResend = 0
    TimersMayExpire = FALSE
SPECIFICATION FairSpec
CHECK_DEADLOCK FALSE
PROPERTIES AnsweredOrStuck ImplementsService
