\* Three buttons, one mode whose combinations click as other buttons; the
\* hook is removed and set again only between two uses of the buttons.
SPECIFICATION FairSpec
CONSTANTS
    Btn = {0, 1, 2}
    ModeName = {"normal"}
    MouseConf <- ClickConf
    InitialConf = "normal"
    NULL = NULL
    TimerId = {1, 2}
    Rehook = "idle"
    MaxComb = 5
INVARIANTS
    TypeOK
    DebtsAreHeld
    PendingHasTimer
    NothingStuck
PROPERTIES
    BalancedOutput
    PressNotSwallowed
    PendingDecided
    ImplementsPhases
