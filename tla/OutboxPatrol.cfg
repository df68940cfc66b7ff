SPECIFICATION FairSpec
CONSTANTS
    start = start
    report = report
    work = work
    patrol = patrol
    task = task
    Commands <- PatrolOnly
    Reports <- MCReports
    WorkCommands <- MCWork
    Reversible <- MCWork
    AssignmentOf <- MCAssignmentOf
    Rank <- MCRank
    Slots = {p1, p2}
    None = None
    BatchLimit = 2
    MaxBatches = 2
    MaxFaults = 3
    MaySignOut = FALSE
INVARIANTS
    AnswerIsRecorded
    PatrolEffectExactlyOnce
PROPERTIES
    AnswersAreFinal
    ImplementsExactlyOnce
    EveryCommandAnswered
CHECK_DEADLOCK FALSE
