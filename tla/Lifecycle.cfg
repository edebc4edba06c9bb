\* A server or a client with two requests and two workers.
SPECIFICATION FairSpec
CONSTANTS
    r1 = r1  r2 = r2  k1 = k1  k2 = k2
    Requests = {r1, r2}
    Workers = {k1, k2}
    NoRequest = NoRequest
    MaxRefused = 2
INVARIANTS TypeOK PartsOutliveTheirUsers StoppedBetweenStages
PROPERTIES ShutdownReturns StartedServes
CHECK_DEADLOCK FALSE
