SPECIFICATION Spec
CONSTANTS
    start = start
    report = report
    work = work
    patrol = patrol
    task = task
    Commands <- WorkToo
    Reports <- MCReports
    WorkCommands <- MCWork
    Reversible <- MCWork
    AssignmentOf <- MCAssignmentOf
    Rank <- MCRank
    Slots = {p1, p2}
    None = None
    BatchLimit = 2
    MaxBatches = 2
    MaxFaults = 2
    MaySignOut = FALSE
INVARIANT
    RefusedWorkIsNotDone
CHECK_DEADLOCK FALSE
