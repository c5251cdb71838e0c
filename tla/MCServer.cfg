\* Proactor, level triggered, three connections, which is what it takes to lose
\* a timer, answers in one block, a queue of one request, a SIGTERM.  The program
\* ends after the SIGTERM or with a fault, and may hang in write().
CONSTANTS
    w1 = w1
    Workers = {w1}
    Fds = {1, 2, 3}
    Timers = {1, 2, 3}
    MaxRequests = 1
    Lifetime = 1
    MaxUsers = 3
    MaxBacklog = 1
    MaxConnects = 3
    Kinds <- ThreeClients
    ActorModels = {0}
    TRIGMode = 0
    Slow = {}
    Leaving = {}
    Terminates = TRUE
    NULL = NULL
SPECIFICATION Spec
PROPERTIES RequestsAreAnswered SIGTERMStops
CHECK_DEADLOCK FALSE
