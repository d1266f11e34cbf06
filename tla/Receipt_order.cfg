SPECIFICATION Spec
CONSTANTS
  k1 = k1
  k2 = k2
  None = None
  Items = {k1, k2}
  Receipts = {r1, r2, r3}
  Workers = {w1}
  Dispatched <- Sent
  Layers <- SentAt
  ReadOrders <- Unstable
  Lines <- Sheets
SYMMETRY Symmetry
INVARIANT LayersNotReused
