CONSTANTS
    Nodes = {n1, n2}
    XApps = {x1}
    RanFuncs = {f1}
    UINT16 = 16
    ReqId0 = 1
    XAppId0 = 7
    MaxReq = 2
    MaxInd = 1
    MaxAssoc = 2
    MaxResend = 0
    TimersMayExpire = TRUE
SPECIFICATION Spec
CHECK_DEADLOCK FALSE
SYMMETRY Symmetry
INVARIANTS NodeViewsAgree TimersMatchRequests RoutedToRequester
