CONSTANTS
    w1 = w1  w2 = w2  none = none
    Boards = {"work"}
    Cards = {w1, w2}
    BoardOf <- MCBoardOf
    NoCard = none
    MaxTime = 4
    MaxPolls = 1
    MaxFails = 1
SPECIFICATION FairSpec
INVARIANT TypeOK
INVARIANT NothingMissed
PROPERTY ShownAtLast
