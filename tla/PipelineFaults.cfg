\* Clients that do not wait; a pair of overlapping writes; files that cannot be
\* written, a clock that stands still or is set back, a crash, lost replies and
\* failing copies.
SPECIFICATION Spec
CONSTANTS
    w1 = w1  w2 = w2  w3 = w3  w4 = w4  r1 = r1  r2 = r2
    v0 = v0  v1 = v1  v2 = v2  v3 = v3  v4 = v4
    NoWrite = NoWrite
    k1 = k1  k2 = k2
    Workers = {k1, k2}
    Writes = {w1, w2}
    Versions = {v0, v1, v2}
    Base <- PairBase
    Target <- PairTarget
    Edits <- PairEdits
    Reads = {r1}
    ReadOf <- PairReadOf
    Wait = "none"
    TickPerBlock = FALSE
    WriteMayFail = TRUE
    CopyMayFail = TRUE
    LossyReplies = TRUE
    MaxCrashes = 1
INVARIANTS BoundBlocksStored JournalAckSurvives
SYMMETRY Symmetry
CHECK_DEADLOCK FALSE
