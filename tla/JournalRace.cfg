\* Two requests, one added while the other's handler flushes.
SPECIFICATION Spec
CONSTANTS
    r1 = r1  r2 = r2  r3 = r3  x = x  y = y
    Requests = {r1, r2}
    Objects = {x, y}
    Char = {"a", "b", "c", "i", "j", "k", "l"}
    Text <- SmallText
    Inputs <- SmallInputs
    None = None
    Racing = TRUE
    WriteMayFail = FALSE
    MaxCrashes = 0
INVARIANT AnsweredIsFlushed
CHECK_DEADLOCK FALSE
