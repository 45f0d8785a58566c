CONSTANTS
    Callers = {c1, c2}
    Subscribers = {store, web}
    Store = store
    ChunkDuration = 2
    MaxEntries = 3
    MaxTime = 4
    MaxInputs = 5
SPECIFICATION FairSpec
INVARIANTS
    ChunksSound
    QueriesExact
    FeedSound
PROPERTIES
    CallsReturn
CHECK_DEADLOCK FALSE
