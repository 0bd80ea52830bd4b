\* A queue of two messages; settings are loaded again while the hook is away.
SPECIFICATION FairSpec
CONSTANTS
    NormalConf = {"normal"}
    ScrollConf = {"hv", "v"}
    InitialConf = "normal"
    Acts <- DefaultActs
    ScrollRatio <- DefaultRatio
    NULL = NULL
    MaxGen = 2
    MaxQueue = 2
    MaxRatio = 3
    MaxMove = 3
    Reload = "paused"
INVARIANTS
    TypeOK
    OpLifecycle
    OpConfLive
    Synced
    RatioAgrees
    ReloadTakesEffect
PROPERTIES
    MovementConserved
    OperatorEnds
