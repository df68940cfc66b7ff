CONSTANTS
    w1 = w1  w2 = w2
    Notes = {1, 2}
    Workers = {w1, w2}
    MaxAttempts = 2
    BatchSize = 1
    MaxDeaths = 2
    AccountOf <- MCAccountOf
SPECIFICATION FairSpec
INVARIANT TypeOK
INVARIANT PushesAreCounted
INVARIANT NothingInLimbo
PROPERTY QueuedIsSettled
