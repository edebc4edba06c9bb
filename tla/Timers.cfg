\* A TimerCaller, or a ConcTimerCaller with two workers.
SPECIFICATION FairSpec
CONSTANTS
    a = a  b = b  c = c  p = p  q = q
    Timers = {a, b, c}
    When <- SmallWhen
    Times <- SmallTimes
    Round = 1
    End = End
    Workers = {p, q}
    NoTimer = NoTimer
    MaxTime = 2
INVARIANTS TypeOK TimersConserved PolledIsDone CalledInOrder
PROPERTIES EveryTimerRuns ShutdownReturns
CHECK_DEADLOCK FALSE
