\* The checker, the skill that needs it and opencode's plugin, by a release and
\* by a build whose version does not parse; edits at any time, runs repeated.
SPECIFICATION FairSpec
CONSTANTS
    checker = checker  skill = skill  plugin = plugin
    codex = codex  opencode = opencode
    patched = patched  unknown = unknown
    Artifact = {checker, skill, plugin}
    Target = {codex, opencode}
    Shared = shared
    Owner <- mcOwner
    Order <- mcOrder
    Retained = {checker}
    Needs <- mcNeeds
    Release = {1}
    Unorderable = unknown
    Rendered <- mcRendered
    UserText = {patched}
    Absent = Absent  Torn = Torn  Directory = Directory  Special = Special
    NoRecord = NoRecord  Squatted = Squatted  NoRequest = NoRequest
    Requests <- mcPairRequests
    Found <- mcFoundFew
    MaxFaults = 2
    MaxEdits = 1
    KillsAllowed = FALSE
    Interrupts = TRUE
    EditsDuringRun = TRUE
INVARIANTS
    TypeOK
    NeededFirst
PROPERTIES
    SharedLeavesLast
    Converges
