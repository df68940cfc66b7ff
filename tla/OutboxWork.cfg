SPECIFICATION Spec
CONSTANTS
    start = start
    report = report
    work = work
    patrol = patrol
    task = task
    Commands <- All
    Reports <- MCReports
    WorkCommands <- MCWork
    Reversible <- MCWork
    AssignmentOf <- MCAssignmentOf
    Rank <- MCRank
    Slots = {p1, p2}
    None = None
    BatchLimit = 2
    MaxBatches = 2
    MaxFaults = 1
    MaySignOut = TRUE
INVARIANTS
    TypeOK
    Inductive
    AcceptedWorkIsDone
CHECK_DEADLOCK FALSE
