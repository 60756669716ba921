SPECIFICATION Spec
CONSTANTS
    Phone = {p1, p2, p3}
    Cap = 2
    Job = {j1}
    Approval = TRUE
    CliRuns = FALSE
    MaxFails = 2
    MaxRestarts = 1
    NoJob = NoJob
    NoPhone = NoPhone
SYMMETRY Symmetry
INVARIANTS
    AckedSurvives
    AckedIsHot
PROPERTIES
    ForgetsOnlyTheRefused
CHECK_DEADLOCK FALSE
