SPECIFICATION Spec
CONSTANTS
    RbKeys = {1, 2, 3, 4}
    RbVals = {0, 1}
    RingElts = {1, 2}
    RingDefault = 4
    UINT32 = 16
    RingMaxCap = 8
    ArrMin = 8
    ArrElt = 40
    ArrMax = 80
    RegMin = 4
    RegMax = 10
CHECK_DEADLOCK FALSE
INVARIANTS RedBlack NoEntryMissed RingHoldsSequence ArrHasRoom RegFindsLiveKeys
PROPERTIES ImplementsMultimap FixupAscends
