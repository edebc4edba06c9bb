\* Three requests, one crash, writes that fail or tear a file; no addition races
\* with a flush.
SPECIFICATION Spec
CONSTANTS
    r1 = r1  r2 = r2  r3 = r3  x = x  y = y
    Requests = {r1, r2, r3}
    Objects = {x, y}
    Char = {"a", "b", "c", "i", "j", "k", "l"}
    Text <- SmallText
    Inputs <- SmallInputs
    None = None
    Racing = FALSE
    WriteMayFail = TRUE
    MaxCrashes = 1
SYMMETRY Symmetry
INVARIANTS TypeOK FilesAreEdited AppliedInOrder AnsweredIsFlushed OnlyEndsLeaveTheList
CHECK_DEADLOCK FALSE
