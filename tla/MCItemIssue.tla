---------------------------- MODULE MCItemIssue ----------------------------
(* Small instances of ItemIssue and its pages.                             *)
EXTENDS IssueQueues, TLC

CONSTANTS k1, k2, u1, u2

Ask(a, b) == [k \in Items |-> IF k = k1 THEN a ELSE b]

(* A request for one of k1 and one of k2, issued in two parts.      *)
RequestedBoth == [r \in Requests |-> Ask(1, 1)]
LinesParts    == {Ask(1, 0), Ask(0, 1)}

(* Requests, and a department, for one of a single item.                   *)
RequestedUnit == [r \in Requests |-> Ask(1, 0)]
LinesUnit     == {Ask(1, 0)}

(* The two users keep their offices, or exchange them at any time.         *)
Fixed   == {<<u1, u2>>}
Swapped == {<<u1, u2>>, <<u2, u1>>}

(* Sound with Swapped, RequestedBoth and LinesParts only: those sets do    *)
(* not change when the users, or the items, change places.                 *)
Symmetry ==
  Permutations(Workers) \cup Permutations(Issues) \cup Permutations(Requests)
    \cup Permutations(Users) \cup Permutations(Items)
=============================================================================
