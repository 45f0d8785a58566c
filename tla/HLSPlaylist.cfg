SPECIFICATION FairSpec
CONSTANTS
    c1 = c1
    c2 = c2
    Clients = {c1, c2}
    SegmentCount = 1
    InitialGaps = 2
    FirstSegmentID = 2
    Durations = {9}
    MaxSegmentID = 4
    MaxClosedID = 2
    MaxParts = 2
    Msns = {2, 4}
    PartIndexes = {0, 1}
    PrevIDs = {3, 9}
    FileIDs = {3}
    Requests <- MCRequests
INVARIANTS
    ListedIsServed
    RequestsOnTime
    DeltaKeepsNewest
PROPERTIES
    WindowSpec
    CancelReleasesAll
