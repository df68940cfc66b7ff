CONSTANTS
    first = first  second = second
    Ids = {first, second}
    MaxCommands = 2
    MaxMoves = 0
SPECIFICATION Spec
INVARIANT OfflineReportAccepted
CHECK_DEADLOCK FALSE
