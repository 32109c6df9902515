CONSTANTS
    Pictures = 3
    HeapMay = {"null"}
    Scenarios <- Loop
SPECIFICATION Spec
INVARIANT ReleasesOutputs
