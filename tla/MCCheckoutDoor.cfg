\* One repository, a branch and a tag, three commits, a tree that is none of them; any zipapp found.
SPECIFICATION DoorSpec
CONSTANTS
    released = released  next = next  rewritten = rewritten
    pub = pub  main = main  tag = tag  patched = patched
    Repo = {pub}
    Branch = {main}  Tag = {tag}  Main = main
    Commit = {released, next, rewritten}
    Uncommitted = {mixed}
    Build <- mcBuild
    Ancestors <- mcAncestors
    Published <- mcPublished
    Found <- mcFound
    NoCommit = NoCommit  NoHome = NoHome  Foreign = Foreign
    Detached = Detached  Latest = Latest
    Stamp = {s1, s2}
    UserText = {patched}
    Absent = Absent  Torn = Torn  Directory = Directory  Special = Special
    NoRecord = NoRecord  Squatted = Squatted  NoBytes = NoBytes
    NoRequest = NoRequest
    Requests <- mcRequests
    Asks <- mcAsks
    MaxEdits = 2
INVARIANTS
    CliSuccessIsComplete
    InstalledIsWhatWasAsked
    CliRerunAdmitted
PROPERTIES
    CliPromiseKept
SYMMETRY mcSymmetry
VIEW mcView
CHECK_DEADLOCK FALSE
