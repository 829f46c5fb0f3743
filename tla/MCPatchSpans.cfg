\* Every edit of up to five lines.
SPECIFICATION Spec
CONSTANTS
    a = a  bb = bb  nil = nil
    Line = {a, bb, nil}
    Blank = nil
    Width <- mcWidth
    MaxScript = 5
CHECK_DEADLOCK FALSE
INVARIANTS
    ChangeIsOwned
    UnchangedIsLeftAlone
