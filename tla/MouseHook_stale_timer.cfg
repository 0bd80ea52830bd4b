\* A WM_TIMER still in the queue after KillTimer.
SPECIFICATION Spec
CONSTANTS
    Btn = {0, 1, 2}
    ModeName = {"normal"}
    MouseConf <- ClickConf
    InitialConf = "normal"
    NULL = NULL
    TimerId = {1, 2}
    Rehook = "never"
    MaxComb = 5
PROPERTIES
    ThresholdHonoured
