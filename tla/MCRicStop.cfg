SPECIFICATION Spec
CHECK_DEADLOCK FALSE
INVARIANTS LocksReleased FaultsExplained
PROPERTIES StopEnds
