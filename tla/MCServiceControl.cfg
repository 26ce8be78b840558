SPECIFICATION ControlSpec
CONSTANTS
    c1 = c1
    c2 = c2
    s1 = s1
    s2 = s2
    Conns = {c1, c2}
    Stops = {s1, s2}
    WorkerThreads = 1
    MaxRequests = 2
    MaxPolls = 1
CHECK_DEADLOCK FALSE
INVARIANTS
    EngineOutlivesRequests
    ResultsReturned
    StoppedMeansReleased
    UninstalledMeansReleased
PROPERTIES
    StopNotRevoked
    RunningServerStops
    QueuedServed
    TimedOutStillStops
