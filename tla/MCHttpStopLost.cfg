SPECIFICATION FairSpec
CONSTANTS
    c1 = c1
    s1 = s1
    Conns = {c1}
    Stops = {s1}
    WorkerThreads = 1
    MaxRequests = 2
CHECK_DEADLOCK FALSE
PROPERTY StopObeyed
