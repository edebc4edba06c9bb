\* A write and a read; timeouts at any time; replies may be lost.
SPECIFICATION FairSpec
CONSTANTS
    w1 = w1  w2 = w2  r1 = r1  h1 = h1  h2 = h2
    Writes = {w1}
    Reads = {r1}
    Handlers = {h1, h2}
    NoReply = NoReply
    LossyReplies = TRUE
    ShortTimeouts = TRUE
    MaxCalls = 2
INVARIANTS TypeOK StatesWereReported
PROPERTIES NoLostNotification TimedCallsReturn
CHECK_DEADLOCK FALSE
