\* As MCLog.cfg: one midnight and two callers are enough to reopen the file of
\* the day before.
CONSTANTS
    t1 = t1  t2 = t2
    Threads = {t1, t2}
    MaxLines = 2
    MaxDay = 1
    MaxQueue = 2
    Split = 2
    Modes = {TRUE, FALSE}
    None = None
SPECIFICATION Spec
INVARIANT SortedByDay
CHECK_DEADLOCK FALSE
