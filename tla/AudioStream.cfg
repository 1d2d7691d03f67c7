CONSTANTS
    Buffers = {b1, b2}
    NoBuffer = nobuffer
    Capacity = 2
    Kinds = {"player", "recorder"}
    States = {"stopped", "paused", "active"}
    Callbacks = {TRUE, FALSE}
    Queries = {}
SPECIFICATION MCSpec
INVARIANTS AudioTypeOK StorageBounded NoLostWakeup StoppedIsClosed
PROPERTIES ImplementsQueue DestroyReturns SwitchOffShutsCapture WatcherEnds AudioFlows
