SPECIFICATION Spec
CONSTANTS
    Phone = {p1, p2, p3}
    Cap = 2
    Job = {j1}
    Approval = FALSE
    CliRuns = FALSE
    MaxFails = 0
    MaxRestarts = 0
    NoJob = NoJob
    NoPhone = NoPhone
SYMMETRY Symmetry
CHECK_DEADLOCK FALSE
PROPERTY AckMeansStored
