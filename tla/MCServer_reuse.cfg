\* Two descriptors for three clients, who wait for accept() by two and of whom
\* one may be refused; up to three timers, missing files, requests that outlive
\* their timer, both sockets edge triggered, both actor models.
\* The program can end with a fault once a timer is lost.
CONSTANTS
    w1 = w1
    Workers = {w1}
    Fds = {1, 2}
    Timers = {1, 2, 3}
    MaxRequests = 1
    Lifetime = 1
    MaxUsers = 2
    MaxBacklog = 2
    MaxConnects = 3
    Kinds <- TwoClients
    ActorModels = {0, 1}
    TRIGMode = 3
    Slow = {1}
    Leaving = {1}
    Terminates = FALSE
    NULL = NULL
SPECIFICATION SafeSpec
INVARIANTS TypeOK OneOwner EventsAreFresh TimersMatchConnections
INVARIANTS CountMatchesUntilDropped TimersInUseExist NobodyForgotten
CHECK_DEADLOCK FALSE
