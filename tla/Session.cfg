CONSTANTS
    Pictures = 3
    HeapMay = {"null", "wild"}
    Scenarios <- AllScenarios
SPECIFICATION Spec
INVARIANTS TypeOK FreedOnce FreshReport OnlyPicturesLost
CHECK_DEADLOCK FALSE
