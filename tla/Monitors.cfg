SPECIFICATION MCSpec
CONSTANTS
    m1 = m1
    s1 = s1
    s2 = s2
    Ids = {m1}
    Inputs = {"main"}
    Configs <- MCConfigs
    Senders = {s1, s2}
    MaxRequests = 2
    MaxConns = 3
INVARIANTS
    OneProcess
    ResponsesReachCalls
    RegionsExact
PROPERTIES
    RequestsReturn
    FrozenRestarted
CHECK_DEADLOCK FALSE
