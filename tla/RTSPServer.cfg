CONSTANTS
  c1 = c1
  c2 = c2
  None = None
  Conns = {c1, c2}
  Publishers = {c1}
  MaxSessions = 2
  NumTracks = 1
  Hosts <- MCHosts
  Asks <- MCAsks
  MaxRequests = 3
SPECIFICATION Spec
INVARIANTS
    PanicsKnown
    LinksAgree
    NobodyStuck
CHECK_DEADLOCK FALSE
