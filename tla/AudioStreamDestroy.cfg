CONSTANTS
    Buffers = {b1}
    NoBuffer = nobuffer
    Capacity = 1
    Kinds = {"player"}
    States = {"stopped", "active"}
    Callbacks = {TRUE}
    Queries = {}
SPECIFICATION FairSpec
PROPERTIES DestroyJoins
