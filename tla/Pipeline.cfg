CONSTANTS
    Frame = {f1, f2, f3, f4}
    NoFrame = NoFrame
    RecLen = 2
    QSize = 4
    StartAfterInit = TRUE
    CaptureMayFail = TRUE
SPECIFICATION Spec
INVARIANTS TypeOK MutualExclusion SoundRecords NothingForgotten OnlyNullCrashes
PROPERTIES IsChannel BothGoOn
CHECK_DEADLOCK FALSE
