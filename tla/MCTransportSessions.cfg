SPECIFICATION Spec
CONSTANTS
  s1 = s1
  s2 = s2
  c1 = c1
  c2 = c2
  c3 = c3
  c4 = c4
  k1 = k1
  k2 = k2
  k3 = k3
  None = None
  Station = {s1, s2}
  Camera = {c1, c2, c3, c4}
  Call = {k1, k2}
  Standalone = {s2}
  LiveLimit = 2
  OwnerOf <- MCOwnerOf
SYMMETRY MCSymmetry
INVARIANTS
    OneOwner
    ReservationsExact
PROPERTIES
    Admission
CHECK_DEADLOCK FALSE
