--------------------------- MODULE MCItemRequest ---------------------------
(* Small instances of ItemRequest.                                         *)
EXTENDS RequestQueues, TLC

CONSTANTS s1, s2, hq, m1, m2, c1, c2, mh, ch, ad

Pair(m, c) == [maker |-> m, checker |-> c]

(* The stores have different checkers.  The checker and the maker of s1    *)
(* may change places; its checker and the maker of hq may leave.           *)
Usual   == (s1 :> Pair(m1, c1)) @@ (s2 :> Pair(m2, c2)) @@ (hq :> Pair(mh, ch))
Swapped == (s1 :> Pair(c1, m1)) @@ (s2 :> Pair(m2, c2)) @@ (hq :> Pair(mh, ch))
Vacant  == (s1 :> Pair(m1, None)) @@ (s2 :> Pair(m2, c2)) @@ (hq :> Pair(None, ch))

Changing == {Usual, Swapped, Vacant}

Symmetry == Permutations(Workers) \cup Permutations(Contents)
=============================================================================
