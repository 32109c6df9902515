CONSTANTS
    OBJ_CLASS_NUM = 2
    OBJ_NUMB_MAX_SIZE = 2
    Heads <- ThreeCells
    Score = {1, 2}
    thres = 1
    qnt_zps <- ZeroPoints
    qnt_scales <- Scales
    sigmoid <- Sigmoid
    Scenarios <- OneScenario
SPECIFICATION Spec
INVARIANT IsGreedy
CHECK_DEADLOCK FALSE
