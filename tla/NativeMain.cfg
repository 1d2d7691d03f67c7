CONSTANTS
    Fds = {f1}
    CallbackFds = {f1}
    Posters = {s1, s2}
    Lone = s1
    Watcher = watcher
    Owner = main
    Waits = {w1}
    TimedWaits = {}
    WakeR = wake
    None = None
    MaxFds = 1
    NestLimit = 1
    MaxNesting = 0
    MaxQueued = 1
SPECIFICATION MCSpec
INVARIANTS NativeTypeOK JobOnLiveStack NoMissedJob
PROPERTIES RanOnceOnReturn HandedOverReturns QueueMoves
