------------------------------ MODULE MCOffice ------------------------------
(* Small instances of the administration of the office.                    *)
EXTENDS Office, TLC

CONSTANTS
  Threes, Pairs, Marks,  \* interchangeable model values: three, two and two
  s1, b1, b2, b3, u1, u2, c1, c2, c3, c4, n1, n2, a1

(* Two people at the first branch, a maker and a checker, and its store.   *)
MCStaff == u1 :> [branch |-> b1, role |-> "MAKER", active |-> TRUE]
           @@ u2 :> [branch |-> b1, role |-> "CHECKER", active |-> TRUE]
MCPlaces == s1 :> b1

(* Workbooks of three rows, where a code, a name and a branch may occur    *)
(* twice; the database is empty, or has a store with one of the names.     *)
StoreRow(c, n, b, u, a) == [code |-> c, name |-> n, branch |-> b, under |-> u, active |-> a]
MCStoreFiles ==
  {<<StoreRow(c1, x[1], x[2], x[3], TRUE), StoreRow(c2, y[1], y[2], y[3], y[4]),
     StoreRow(z[1], z[2], b3, z[3], TRUE)>> :
     x \in StoreNames \X {b1, Unknown} \X (StoreNames \cup {None}),
     y \in StoreNames \X {b1, b2} \X (StoreNames \cup {None}) \X BOOLEAN,
     z \in {c1, c3} \X StoreNames \X (StoreNames \cup {None})}
MCDatabases == {{}, {[code |-> c4, name |-> n1, branch |-> b2, active |-> TRUE]}}

(* Workbooks of two rows.                                                  *)
ItemRow == [code : ItemCodes, name : ItemNames, ref : Refs]
MCItemFiles == {<<x, y>> : x, y \in ItemRow}

Symmetry == Permutations(Threes) \cup Permutations(Pairs) \cup Permutations(Marks)
=============================================================================
