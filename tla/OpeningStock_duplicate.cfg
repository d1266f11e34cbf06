SPECIFICATION Spec
CONSTANTS
  b1 = b1
  b2 = b2
  b3 = b3
  s1 = s1
  s2 = s2
  current = current
  legacy = legacy
  None = None
  Batches <- ThreeBatches
  Stores = {s1, s2}
  Names = {current, legacy}
  Workers = {w1, w2}
  NameOf <- BatchNames
  Known <- KnownStores
SYMMETRY Symmetry
INVARIANT NoDuplicateOpening
