\* A new store, and one that is about to give out headers of three digits.
SPECIFICATION Spec
CONSTANTS
    a = a  b = b  c = c  d = d
    slotA = slotA  slotC = slotC  slotD = slotD
    descA = descA  descB = descB  descD = descD
    t = t
    Objects = {a, b, c, d}
    Slot <- SmallSlot
    Uni <- SmallUni
    User = User
    Others = {t}
    NoObject = NoObject
    NoDesc = NoDesc
    NoThread = NoThread
    DefaultCount = 1
    FirstCounts = {0, 99}
    MaxHeaders = 4
    MaxRestarts = 1
INVARIANTS TypeOK FreshHeadersUnique CachesAgree LifeRecordsCached
CHECK_DEADLOCK FALSE
