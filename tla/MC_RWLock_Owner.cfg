\* Two threads that both read: the first reader locks w, the second one
\* may be the last to leave.
CONSTANTS
    t1 = t1
    t2 = t2
    t3 = t3
    Threads = {t1, t2}
    NoThread = NoThread

SPECIFICATION Spec
CHECK_DEADLOCK FALSE

INVARIANT HolderInside
