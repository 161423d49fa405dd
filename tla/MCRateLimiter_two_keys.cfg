SPECIFICATION Spec
CONSTANTS
    Keys = {k1, k2}
    Rps = 2
    Unit = 3
    NoBucket = NoBucket
    MaxTime = 6
INVARIANTS RateBounded
PROPERTY RefusesOnlyExcess
SYMMETRY Symmetry
CHECK_DEADLOCK FALSE
