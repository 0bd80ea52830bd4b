\* Three buttons, a normal and a scroll mode; the mode changes under pending presses,
\* and the hook is removed and set again at any time.
SPECIFICATION Spec
CONSTANTS
    Btn = {0, 1, 2}
    ModeName = {"normal", "scroll"}
    MouseConf <- ScrollConf
    InitialConf = "normal"
    NULL = NULL
    TimerId = {1, 2}
    Rehook = "any"
    MaxComb = 1
PROPERTIES
    PendingNeverLost
    PhasesWhileHeld
