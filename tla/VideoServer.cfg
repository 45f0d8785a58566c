SPECIFICATION Spec
CONSTANTS
    cam = cam
    None = None
    r1 = r1
    r2 = r2
    s1 = s1
    s2 = s2
    Names = {cam}
    MaxObjects = 2
    Sessions = {s1, s2}
    MaxTracks = 2
    Requests = {r1}
    Kinds = {"blocking"}
SYMMETRY Symmetric
INVARIANTS
    PathsAgree
    ShutdownCompletes
CHECK_DEADLOCK FALSE
