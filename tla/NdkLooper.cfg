CONSTANTS
    Fds = {f1}
    CallbackFds = {f1}
    Posters = {p1}
    Watcher = watcher
    Owner = owner
    Waits = {w1}
    TimedWaits = {w1}
    WakeR = wake
    None = None
    MaxFds = 1
    NestLimit = 2
    MaxNesting = 1
    MaxQueued = 1
SPECIFICATION FairSpec
INVARIANTS TypeOK NoLostWakeup
PROPERTY ReadyIsPolledWhileWaiting
