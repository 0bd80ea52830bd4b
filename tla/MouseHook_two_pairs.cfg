\* Two combinations held at once.
SPECIFICATION Spec
CONSTANTS
    Btn = {0, 1, 2, 3}
    ModeName = {"normal"}
    MouseConf <- FourConf
    InitialConf = "normal"
    NULL = NULL
    TimerId = {1}
    Rehook = "never"
    MaxComb = 5
PROPERTIES
    CombinationReleaseHeld
