SPECIFICATION Spec
CONSTANTS
  k1 = k1
  k2 = k2
  u1 = u1
  u2 = u2
  None = None
  Requests = {r1}
  Issues = {i1, i2}
  Items = {k1}
  Users = {u1, u2}
  Workers = {w1, w2}
  Rates = {c1}
  Requested <- RequestedUnit
  Lines <- LinesUnit
  Assignments <- Fixed
  MaxVersion = 3
  MaxStock = 1
  MaxTaken = 0
PROPERTIES DraftOnlyFromApproved
