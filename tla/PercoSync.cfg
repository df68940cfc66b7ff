CONSTANTS
    Pass <- MCPass
    Syncs = {"worker", "user"}
    PageSize = 1
    MaxPages = 2
    Reliable = 3
    MaxDay = 2
    MaxFaults = 1
    MaxClicks = 1
    MaxClosings = 1
SPECIFICATION FairSpec
INVARIANT TypeOK
INVARIANT BehindWindowStored
PROPERTY ByHandStays
PROPERTY PassesAreStored
PROPERTY IntervalsSettle
