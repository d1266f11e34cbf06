SPECIFICATION Spec
CHECK_DEADLOCK FALSE
SYMMETRY Symmetry
CONSTANTS
  a = a
  b = b
  UnitChanges <- FromAToB
  i1 = i1
  i2 = i2
  None = None
  Purchases = {p1, p2}
  Issues = {i1, i2}
  Units = {a, b}
  Workers = {w1, w2}
  Contents <- ContentsTwo
  Wanted <- WantedTwo
  Kind <- KindsBoth
  Incoming <- ArrivingOne
  Today = 3
  MaxVersion = 2
INVARIANTS TypeOK LedgerShowsDocuments FifoTakesOldestFirst ShortLayersOnlyByPurchase
