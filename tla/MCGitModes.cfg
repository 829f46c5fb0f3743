\* Three paths; two edits, stages or commits while it works; one call
\* that fails by itself.
SPECIFICATION Spec
CONSTANTS
    Path = {"p", "q", "r"}
    Judged = {"p", "q"}
    Excluded = {"r"}
    Text <- MCText
    Words <- MCWords
    LinkText <- Other
    Link = Link
    Absent = Absent
    Directory = Directory
    Unmerged = Unmerged
    Unborn = Unborn
    Broken = Broken
    NoBase = NoBase
    Whole = Whole
    Nothing = Nothing
    Found <- MCFound
    Edits <- MCEdits
    MaxEdits = 2
    MaxFaults = 1
CHECK_DEADLOCK FALSE
INVARIANTS
    UnmergedIsLoud
    OnlyTheChangedAreShown
    NeverAShorterList
    OneIndex
    OnlyTheChangeIsReported
    PureReflowIsTrue
