SPECIFICATION FairSpec
CONSTANTS
  s1 = s1
  s2 = s2
  c1 = c1
  c2 = c2
  c3 = c3
  c4 = c4
  k1 = k1
  k2 = k2
  k3 = k3
  None = None
  Station = {s1}
  Camera = {c1, c2}
  Call = {k1, k2, k3}
  Standalone = {}
  LiveLimit = 1
  OwnerOf <- MCOwnerOf
INVARIANTS
    TypeOK
    LiveOnSession
    ClosedIsQuiet
PROPERTIES
    CloseSparesOthers
    Progress
CHECK_DEADLOCK FALSE
