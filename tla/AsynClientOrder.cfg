\* Two handler threads; time limits that outlast both replies.
SPECIFICATION Spec
CONSTANTS
    w1 = w1  w2 = w2  r1 = r1  h1 = h1  h2 = h2
    Writes = {w1}
    Reads = {}
    Handlers = {h1, h2}
    NoReply = NoReply
    LossyReplies = FALSE
    ShortTimeouts = FALSE
    MaxCalls = 1
INVARIANT DiskWaitReturnsOnDisk
CHECK_DEADLOCK FALSE
