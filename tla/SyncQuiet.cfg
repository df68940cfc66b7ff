CONSTANTS
    report = report  other = other  order = order
    Orders = {order}
    Commands = {report, other}
    Prompt = {report}
    WithPhoto = {report}
    MaxBatches = 2
    MaxBreaks = 1
SPECIFICATION FairSpec
PROPERTY EveryCommandIsSent
