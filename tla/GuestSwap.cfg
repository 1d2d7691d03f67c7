CONSTANTS
    Threads = {t1, t2}
    Surfaces = {11, 12}
    MaxGeneration = 4
    MaxStarts = 2
    MaxProbes = 1
SPECIFICATION FairSpec
INVARIANTS GuestTypeOK LayersAgree AwaitedIsBacked
PROPERTY SentinelEnds
