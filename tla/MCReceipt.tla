----------------------------- MODULE MCReceipt -----------------------------
(* Small instances of Receipt: two items, one of them dispatched from two  *)
(* FIFO layers.                                                            *)
EXTENDS Receipt, Sequences, TLC

CONSTANTS k1, k2

Sent      == (k1 :> 4) @@ (k2 :> 2)
SentAt    == (k1 :> <<2, 2>>) @@ (k2 :> <<2>>)
InOrder   == (k1 :> <<1, 2>>) @@ (k2 :> <<1>>)
Reversed  == (k1 :> <<2, 1>>) @@ (k2 :> <<1>>)

Unstable  == {InOrder, Reversed}

Entry(received, damaged) == [received |-> received, damaged |-> damaged]

(* Whole, partial and damaged receipts of one item, and of both.           *)
Entries == {Entry(0, 0), Entry(1, 0), Entry(2, 0), Entry(1, 1)}
Sheets  == {q \in [{k1, k2} -> Entries] : \E k \in {k1, k2} : q[k].received > 0}

Symmetry == Permutations(Receipts) \cup Permutations(Workers)
=============================================================================
