SPECIFICATION ArrSpec
CONSTANTS
    ArrMin = 8
    ArrElt = 40
    ArrMax = 80
INVARIANT ArrFits
CHECK_DEADLOCK FALSE
