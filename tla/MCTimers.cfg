\* The list with four timers: the first of three and of four is adjusted, and
\* timers are lost both at the end and in the middle of what was the list.
\* The heap with four timers, three values of expire and capacities 0, 1 and 4;
\* the wheel with three timers, two slots and up to two turns.  Each may end
\* with a fault once it is broken.
CONSTANTS
    t1 = t1  t2 = t2  t3 = t3  t4 = t4
    Timers <- MCTimers
    WheelTimers <- MCWheelTimers
    NULL = NULL
    Lifetime = 2
    Capacities = {0, 1, 4}
    MaxExpire = 2
    Slots = 2
    MaxTimeout = 4
SPECIFICATION MCSpec
INVARIANTS TypeOK WellFormedUntilLoss HeapTypeOK HeapUntilLost WheelTypeOK ListsUntilSpoiled
PROPERTIES ImplementsTimerSet FiresOnTime
CHECK_DEADLOCK FALSE
