\* The old thread's last statement after the new thread's first.
SPECIFICATION Spec
CONSTANTS
    Thread = {t1, t2}
    NULL = NULL
INVARIANTS
    HookIsServed
