\* A client that asks for a missing file.
CONSTANTS
    w1 = w1
    Workers = {w1}
    Fds = {1}
    Timers = {1, 2}
    MaxRequests = 1
    Lifetime = 1
    MaxUsers = 2
    MaxBacklog = 1
    MaxConnects = 2
    Kinds <- OneMissing
    ActorModels = {0}
    TRIGMode = 0
    Slow = {1}
    Leaving = {}
    Terminates = FALSE
    NULL = NULL
SPECIFICATION SafeSpec
INVARIANT CountMatches
