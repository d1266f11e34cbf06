SPECIFICATION Spec
CHECK_DEADLOCK FALSE
CONSTANTS
  a = a
  b = b
  UnitChanges <- FromAToB
  i1 = i1
  i2 = i2
  None = None
  Purchases = {p1}
  Issues = {i1, i2}
  Units = {a, b}
  Workers = {w1, w2}
  Contents <- ContentsRates
  Wanted <- WantedOne
  Kind <- KindsBoth
  Incoming <- ArrivingOne
  Today = 3
  MaxVersion = 3
INVARIANT ConsumptionWithinBalance
