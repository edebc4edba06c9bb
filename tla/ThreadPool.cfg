\* A pool that is shut down and activated again while jobs are enqueued.
SPECIFICATION FairSpec
CONSTANTS
    j1 = j1  j2 = j2  j3 = j3  t1 = t1  t2 = t2  t3 = t3
    NoJob = NoJob
    Jobs = {j1, j2, j3}
    Threads = {t1, t2, t3}
    Rosters <- SmallRosters
    MaxCalls = 3
INVARIANTS TypeOK JobsConserved ShutdownDrains IdleMeansDone
PROPERTIES EveryJobRuns ShutdownReturns
CHECK_DEADLOCK FALSE
