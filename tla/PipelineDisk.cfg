\* Clients that wait for onDisk; a fork of writes; no faults.
SPECIFICATION FairSpec
CONSTANTS
    w1 = w1  w2 = w2  w3 = w3  w4 = w4  r1 = r1  r2 = r2
    v0 = v0  v1 = v1  v2 = v2  v3 = v3  v4 = v4
    NoWrite = NoWrite
    k1 = k1  k2 = k2
    Workers = {k1, k2}
    Writes = {w1, w2, w3, w4}
    Versions = {v0, v1, v2, v3, v4}
    Base <- ForkBase
    Target <- ForkTarget
    Edits <- ForkEdits
    Reads = {r1, r2}
    ReadOf <- ForkReadOf
    Wait = "onDisk"
    TickPerBlock = TRUE
    WriteMayFail = FALSE
    CopyMayFail = FALSE
    LossyReplies = FALSE
    MaxCrashes = 0
INVARIANTS TypeOK AckedOnDiskIsReadable ReadsReturnWritten NothingUndefined SharedBlocksCounted
PROPERTIES ImplementsVersionStore EveryRequestAnswered
CHECK_DEADLOCK FALSE
