CONSTANTS
    Callers = {c1}
    Subscribers = {store}
    Store = store
    ChunkDuration = 2
    MaxEntries = 3
    MaxTime = 4
    MaxInputs = 5
SPECIFICATION Spec
INVARIANTS
    SavedMessagesKept
CHECK_DEADLOCK FALSE
