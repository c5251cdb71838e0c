\* m_actormodel = 1.
CONSTANTS
    w1 = w1
    Workers = {w1}
    Fds = {1}
    Timers = {1, 2}
    MaxRequests = 1
    Lifetime = 1
    MaxUsers = 2
    MaxBacklog = 1
    MaxConnects = 2
    Kinds <- OneKept
    ActorModels = {1}
    TRIGMode = 0
    Slow = {1}
    Leaving = {}
    Terminates = FALSE
    NULL = NULL
SPECIFICATION Spec
PROPERTY RequestsAreAnswered
