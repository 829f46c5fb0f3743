\* Every topology; a step, record or forget that fails and two changes from outside.
SPECIFICATION Spec
CONSTANTS
    old = old
    new = new
    Kit = {old, new}
    Now = new
    Mine = Mine
    Absent = Absent
    None = None
    Topologies = {"apart", "hard", "leaf", "joined", "bound"}
    Foreign = "agentsmd"
    MaxFaults = 1
    MaxOutside = 2
CHECK_DEADLOCK FALSE
INVARIANTS
    MigrationIsComplete
    RerunAdmitted
PROPERTIES
    DoctorErrsInOneCase
    ProofIsCarriedOver
    LegacyStaysProvable
    ReplacementFirst
    SharedSurvivesCleanup
    UnprovenIsKept
