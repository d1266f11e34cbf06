SPECIFICATION Spec
CHECK_DEADLOCK FALSE
SYMMETRY Symmetry
CONSTANTS
  Threes = {x1, x2, x3}
  Pairs = {r1, r2}
  Marks = {q1, q2}
  s1 = s1
  b1 = b1
  b2 = b2
  b3 = b3
  u1 = u1
  u2 = u2
  c1 = c1
  c2 = c2
  c3 = c3
  c4 = c4
  n1 = n1
  n2 = n2
  a1 = a1
  None = None
  Logins = {r1, r2}
  Admins = {a1}
  Sessions = {q1, q2}
  MaxFailedAttempts = 2
  MaxRecorded = 4
  Ended = Ended
  Users = {u1, u2}
  Shops = {s1}
  Sites = {b1, b2}
  Staff <- MCStaff
  Places <- MCPlaces
  Dates = {1}
  Overlapping = {r1, r2}
  FewRoles = {"MAKER", "CHECKER"}
  FewTransfers = 1
  Single = a1
  Roles = {"MAKER", "CHECKER", "HR"}
  Switchable = {u2, s1}
  MoreTransfers = 2
  Stores = {x1, x2, x3}
  Branches = {b1, b2, b3}
  Seats = {b1, q1, q2}
  Saves = {r1, r2}
  Switched = {b1}
  StoreCodes = {c1, c2, c3, c4}
  StoreNames = {n1, n2}
  StoreFiles <- MCStoreFiles
  Databases <- MCDatabases
  Unknown = Unknown
  ItemCodes = {c1, c2}
  ItemNames = {n1, n2}
  Refs = {u1, u2}
  ItemFiles <- MCItemFiles
  Searches = {r1, r2}
  MaxCalls = 4
  MaxInputs = 4
  Contents = {r1, r2}
  Documents = {q1, q2}
  MaxVersion = 5
PROPERTY FormDoesWhatItShows
INVARIANTS TypeOK LockBoundsGuesses SessionsEndWithTheirCredentials PeopleAreWhereTheyWork CirclesOnlyFromCrossedSaves PreviewsKeepTheirWord SettledListIsRight
