CONSTANTS
    Frame = {f1, f2, f3, f4}
    NoFrame = NoFrame
    RecLen = 2
    QSize = 4
    StartAfterInit = FALSE
    CaptureMayFail = FALSE
SPECIFICATION Spec
INVARIANT MutualExclusion
