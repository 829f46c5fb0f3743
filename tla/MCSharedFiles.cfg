\* Every small hooks.json and AGENTS.md; edits while the prompt is up, too.
SPECIFICATION Spec
CONSTANTS
    old = old  new = new  theirs = theirs  u1 = u1  u2 = u2
    KitCommand = {old, new}
    OtherCommand = {theirs}
    OddBlock = OddBlock
    NL = NL  Open = Open  Close = Close
    Body = {old, new}
    Word = {u1, u2}
    Kind = {"hooks", "agents"}
    Release = {old, new}
    CommandOf <- mcCommandOf
    BodyOf <- mcBodyOf
    Absent = Absent  Unreadable = Unreadable  Torn = Torn  Irregular = Irregular
    NoChange = NoChange  Refused = Refused  NoRequest = NoRequest
    Found <- mcFound
    Written <- mcWritten
    FoundSlot <- mcSlots
    Requests <- mcRequests
    MaxFaults = 1
    MaxEdits = 1
    EditPhases = {"consent"}
INVARIANTS
    SecondRunWritesNothing
    UninstallUndoesInstall
PROPERTIES
    PreflightMissesOneSlot
    OthersSurvive
    ReplacedIsSaved
