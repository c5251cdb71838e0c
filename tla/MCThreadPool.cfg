\* threadpool: two callers of append, two workers, a queue of two and an
\* interrupted wait: full queue, empty queue and surplus wake-ups all happen.
\* connection_pool: three callers for two connections.
\* processpool: two children, one of which may crash, a signal from outside and
\* a client.
CONSTANTS
    p1 = p1  p2 = p2  w1 = w1  w2 = w2  r1 = r1  r2 = r2
    c1 = c1  c2 = c2
    Producers <- MCProducers
    Workers <- MCWorkers
    Requests <- MCRequests
    MaxRequests = 2
    MaxInterrupts = 1
    NoThread = NoThread
    NoRequest = NoRequest
    Callers <- MCCallers
    Connections <- MCConnections
    NoConnection = NoConnection
    N = 2
    MaxStops = 1
    MaxCrashes = 1
    MaxConnections = 1
SPECIFICATION MCSpec
INVARIANTS TypeOK QueueGuarded NoLostWakeup EmptyOnlyAfterInterrupt EachHasOneUser
INVARIANTS ProcessesTypeOK RootKnowsItsChildren NoOrphans
PROPERTIES ImplementsTaskPool OneStopsAll DeathsAreNoticed
