\* A forced install that Ctrl-C reaches.
SPECIFICATION Spec
CONSTANTS
    checker = checker  skill = skill  plugin = plugin
    codex = codex  opencode = opencode
    patched = patched  unknown = unknown
    Artifact = {skill}
    Target = {codex, opencode}
    Shared = shared
    Owner <- mcOwner
    Order <- mcOrder
    Retained = {}
    Needs = {}
    Release = {1, 2}
    Unorderable = unknown
    Rendered <- mcRendered
    UserText = {patched}
    Absent = Absent  Torn = Torn  Directory = Directory  Special = Special
    NoRecord = NoRecord  Squatted = Squatted  NoRequest = NoRequest
    Requests <- mcForcedInstall
    Found <- mcFound
    MaxFaults = 1
    MaxEdits = 0
    KillsAllowed = FALSE
    Interrupts = TRUE
    EditsDuringRun = FALSE
PROPERTIES
    ReleasedBackupIsRedundant
