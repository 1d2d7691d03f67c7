CONSTANTS
    Fds = {f1, f2}
    CallbackFds = {f1, f2}
    Posters = {}
    Watcher = watcher
    Owner = owner
    Waits = {w1}
    TimedWaits = {}
    WakeR = wake
    None = None
    MaxFds = 2
    NestLimit = 2
    MaxNesting = 1
    MaxQueued = 1
SPECIFICATION Spec
INVARIANTS PostedFdsRunDuringWait
