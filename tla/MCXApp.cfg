SPECIFICATION FairSpec
CONSTANTS
    KeySpace = 3
    MaxCalls = 4
    MaxInd = 2
    MaxResend = 1
CHECK_DEADLOCK FALSE
INVARIANTS TypeOK ReturnMeansAnswered NoStaleTimer DeathsExplained NoUseAfterFree
PROPERTIES CallReturns StopEnds
