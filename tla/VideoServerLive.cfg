SPECIFICATION FairSpec
CONSTANTS
    cam = cam
    None = None
    r1 = r1
    r2 = r2
    s1 = s1
    s2 = s2
    Names = {cam}
    MaxObjects = 1
    Sessions = {s1}
    MaxTracks = 1
    Requests = {r1, r2}
    Kinds = {"file", "blocking"}
PROPERTIES
    PathRemovedIfAnswered
    FailedMuxerDisconnectsIfAnswered
CHECK_DEADLOCK FALSE
