\* A few hooks.json and AGENTS.md; no step fails by itself, and nobody edits.
SPECIFICATION Spec
CONSTANTS
    old = old  new = new  theirs = theirs  u1 = u1  u2 = u2
    KitCommand = {old, new}
    OtherCommand = {theirs}
    OddBlock = OddBlock
    NL = NL  Open = Open  Close = Close
    Body = {old, new}
    Word = {u1, u2}
    Kind = {"hooks", "agents"}
    Release = {old, new}
    CommandOf <- mcCommandOf
    BodyOf <- mcBodyOf
    Absent = Absent  Unreadable = Unreadable  Torn = Torn  Irregular = Irregular
    NoChange = NoChange  Refused = Refused  NoRequest = NoRequest
    Found <- mcFoundFew
    Written <- mcWritten
    FoundSlot <- mcSlots
    Requests <- mcRequests
    MaxFaults = 0
    MaxEdits = 0
    EditPhases = {}
PROPERTIES
    PreflightDecides
