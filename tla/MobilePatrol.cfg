CONSTANTS
    first = first  second = second
    Ids = {first, second}
    MaxCommands = 2
    MaxMoves = 1
SPECIFICATION FairSpec
INVARIANT TypeOK
INVARIANT RevisionNeverAhead
INVARIANT OneReportUnderWay
INVARIANT ReportKeepsItsPatrol
INVARIANT CompletedAsPlanned
PROPERTY LocalReportEnds
CHECK_DEADLOCK FALSE
