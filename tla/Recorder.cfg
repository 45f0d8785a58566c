SPECIFICATION Spec
CONSTANTS
    None = None
    e1 = e1
    e2 = e2
    Senders = {e1, e2}
    RecDurations = {1, 3}
    Offset = 1
    VideoLength = 0
    Window = 1
    FirstID = 1
    MaxMuxers = 2
    MaxFailures = 1
    MaxInputs = 5
    MaxTime = 3
    MaxSegment = 2
SYMMETRY Symmetric
INVARIANTS
    SegmentsRecordedOnce
    RecorderStops
PROPERTIES
    EventsSaved
    CanceledWhenDue
CHECK_DEADLOCK FALSE
