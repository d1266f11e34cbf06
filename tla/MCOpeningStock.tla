--------------------------- MODULE MCOpeningStock ---------------------------
(* Small instances of OpeningStock: batches b1 and b2 name a store that    *)
(* exists, b3 a legacy name that nobody has mapped yet; or all name that.  *)
EXTENDS OpeningStock, TLC

CONSTANTS b1, b2, b3, s1, s2, current, legacy

TwoBatches    == {b1, b3}
ThreeBatches  == {b1, b2, b3}
SharedName    == [b \in Batches |-> legacy]
BatchNames    == [b \in Batches |-> IF b = b3 THEN legacy ELSE current]
KnownStores   == (current :> s1) @@ (legacy :> None)

Symmetry == Permutations(Workers)
=============================================================================
