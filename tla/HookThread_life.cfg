\* Two hook threads; in some behaviours the old one may be overtaken on its way out.
SPECIFICATION FairSpec
CONSTANTS
    Thread = {t1, t2}
    NULL = NULL
INVARIANTS
    AtMostOneHook
    PausedMeansUnhooked
    StackDataAlive
    EndEventAlive
    HookIsServedInTurn
PROPERTIES
    SetHookTerminates
    ClearHookTerminates
\* clear_hook may wait for ever here (run HookThread_race): the program hangs.
CHECK_DEADLOCK FALSE
