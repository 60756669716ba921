SPECIFICATION Spec
CONSTANTS
    Phone = {p1, p2}
    Cap = 1
    Job = {j1, j2}
    Approval = FALSE
    CliRuns = TRUE
    MaxFails = 0
    MaxRestarts = 0
    NoJob = NoJob
    NoPhone = NoPhone
SYMMETRY Symmetry
INVARIANTS
    MemoryIsRight
CHECK_DEADLOCK FALSE
