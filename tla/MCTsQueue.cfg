SPECIFICATION FairSpec
CONSTANTS
    Batched = TRUE
    Small = 2
    Big = 4
    MaxPush = 7
CHECK_DEADLOCK FALSE
INVARIANTS SleepsOnlyWhenIdle PopHasElements NoUseAfterFree
PROPERTIES ImplementsFifo StopTerminates Delivered
