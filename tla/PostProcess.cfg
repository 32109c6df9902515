CONSTANTS
    OBJ_CLASS_NUM = 1
    OBJ_NUMB_MAX_SIZE = 2
    Heads <- FourCells
    Score = {0, 1, 2}
    thres = 1
    qnt_zps <- ZeroPoints
    qnt_scales <- Scales
    sigmoid <- Sigmoid
    Scenarios <- MCScenarios
SPECIFICATION Spec
INVARIANTS TypeOK SortedTogether IsGreedy ReportsBest LabelsKnown
CHECK_DEADLOCK FALSE
