\* Clients that wait for onJournal only before they build on a version.
SPECIFICATION Spec
CONSTANTS
    w1 = w1  w2 = w2  w3 = w3  w4 = w4  r1 = r1  r2 = r2
    v0 = v0  v1 = v1  v2 = v2  v3 = v3  v4 = v4
    NoWrite = NoWrite
    k1 = k1  k2 = k2
    Workers = {k1, k2}
    Writes = {w1, w2, w3}
    Versions = {v0, v1, v2, v3}
    Base <- ChainBase
    Target <- ChainTarget
    Edits <- ChainEdits
    Reads = {r1}
    ReadOf <- ChainReadOf
    Wait = "onJournal"
    TickPerBlock = TRUE
    WriteMayFail = FALSE
    CopyMayFail = FALSE
    LossyReplies = FALSE
    MaxCrashes = 0
INVARIANT AckedOnDiskIsReadable
CHECK_DEADLOCK FALSE
