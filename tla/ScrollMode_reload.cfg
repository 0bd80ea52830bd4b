\* A reload between two steps of the hook.
SPECIFICATION Spec
CONSTANTS
    NormalConf = {"normal"}
    ScrollConf = {"hv", "v"}
    InitialConf = "normal"
    Acts <- SmallActs
    ScrollRatio <- SmallRatio
    NULL = NULL
    MaxGen = 2
    MaxQueue = 2
    MaxRatio = 3
    MaxMove = 1
    Reload = "any"
INVARIANTS
    ReloadTakesEffect
