\* One shared artifact, four releases' worth of versions, every request.
SPECIFICATION Spec
CONSTANTS
    checker = checker  skill = skill  plugin = plugin
    codex = codex  opencode = opencode
    patched = patched  unknown = unknown
    Artifact = {skill}
    Target = {codex, opencode}
    Shared = shared
    Owner <- mcOwner
    Order <- mcOrder
    Retained = {}
    Needs = {}
    Release = {1, 2, 3}
    Unorderable = unknown
    Rendered <- mcRendered3
    UserText = {patched}
    Absent = Absent  Torn = Torn  Directory = Directory  Special = Special
    NoRecord = NoRecord  Squatted = Squatted  NoRequest = NoRequest
    Requests <- mcAllRequests
    Found <- FileValue
    MaxFaults = 2
    MaxEdits = 3
    KillsAllowed = TRUE
    Interrupts = FALSE
    EditsDuringRun = FALSE
INVARIANTS
    SuccessIsComplete
    RerunAdmitted
    KilledRerunAdmitted
PROPERTIES
    PromiseKept
