\* Four sessions, three overlapping calls, a memory of two, six warnings.
SPECIFICATION Spec
CONSTANTS
    Session = {s1, s2, s3, s4}
    Call = {c1, c2, c3}
    Idle = Idle
    Limit = 2
    MaxWarnings = 6
SYMMETRY Symmetric
CHECK_DEADLOCK FALSE
INVARIANTS
    RecentSessionsStayQuiet
    MemoryIsTheLastWarnings
