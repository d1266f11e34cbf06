--------------------------- MODULE MCStockLedger ---------------------------
(* Small instances of StockLedger.                                         *)
EXTENDS StockLedger, TLC

CONSTANTS i1, i2, a, b

Line(qty, rate, date) == [qty |-> qty, rate |-> rate, date |-> date]

(* Two goods bought at one rate and dated early, or one at another rate    *)
(* and dated late.                                                         *)
ContentsTwo == {Line(2, 2, 1), Line(1, 1, 2)}

(* The same quantity at either rate.                                       *)
ContentsRates == {Line(1, 1, 1), Line(1, 2, 1)}

ArrivingOne == [qty |-> 1, rate |-> 1]

WantedTwo == [i \in Issues |-> IF i = i1 THEN 2 ELSE 1]
WantedOne == [i \in Issues |-> 1]

KindsBoth == [i \in Issues |-> IF i = i1 THEN "ITEM_ISSUE" ELSE "DEPARTMENT_CONSUMPTION"]

(* The unit of the item changes once.                                       *)
FromAToB == {<<a, b>>}

Symmetry == Permutations(Purchases) \cup Permutations(Workers)
=============================================================================
