SPECIFICATION Spec
CONSTANTS
    Queries <- MCQueries
    Trees <- MCTrees
    NewFiles <- MCNewFiles
    MaxChanges = 1
    Pages = {page}
    PruneInterval = 2
    PageAge = 1
    Spaces <- MCSpaces
    Saved <- MCSaved
    MaxOther = 1
    MaxTime = 4
    WritesFail = TRUE
    GroupReqs = {r1, r2}
    GroupIds = {g1, g2}
    GroupConfigs = {c1, c2}
    MaxGroupOps = 4
    MaxGroupCrashes = 1
INVARIANTS
    CrawlExact
    ManagerAtRest
    GroupsSound
PROPERTIES
    PruneSound
CHECK_DEADLOCK FALSE
