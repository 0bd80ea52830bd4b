\* The hook is removed and set again (pause, reload) while buttons are held.
SPECIFICATION Spec
CONSTANTS
    Btn = {0, 1, 2}
    ModeName = {"normal"}
    MouseConf <- ClickConf
    InitialConf = "normal"
    NULL = NULL
    TimerId = {1, 2}
    Rehook = "any"
    MaxComb = 5
PROPERTIES
    PressNotSwallowed
