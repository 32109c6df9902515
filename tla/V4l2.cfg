CONSTANTS
    NrBufs = 2
    Shots = 3
    Tries = 2
    Exposures = {80, 90}
    Intervals = {1, 2}
    Scenarios <- AllScenarios
SPECIFICATION CameraSpec
INVARIANTS TypeOK OneHolder PictureWhole InitHonest ExposureTold
PROPERTY PicturesKeepComing
CHECK_DEADLOCK FALSE
