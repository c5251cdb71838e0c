\* Three timers are enough to lose one.
CONSTANTS
    t1 = t1  t2 = t2  t3 = t3  t4 = t4
    Timers = {t1, t2, t3}
    NULL = NULL
    Lifetime = 2
SPECIFICATION Spec
INVARIANT WellFormedList
