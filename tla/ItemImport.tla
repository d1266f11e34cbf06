----------------------------- MODULE ItemImport -----------------------------
(***************************************************************************)
(* Importing items from a workbook (services/items-import.service.ts) next *)
(* to the forms that create and switch items, units and groups             *)
(* (services/items.service.ts).  The imports of units, branches and        *)
(* employees have the same two calls with fewer references.                *)
(***************************************************************************)
EXTENDS Naturals, Sequences, FiniteSets

CONSTANTS
  Codes, Names,  \* of items, compared without case
  Refs,          \* units and item groups an item refers to
  Files,         \* the workbooks: sequences of rows
  None

VARIABLES
  items,    \* the items of the database: [code, name, ref]
  usable,   \* the units and groups that are active
  book,     \* the workbook
  listed,   \* the rows of it that the preview called ready, or None
  confirm,  \* those that a confirmation under way is going to insert, or None
  form,     \* the item a form has checked and is going to insert, or None
  touched,  \* whether somebody changed the database since the preview
  answer    \* whether the confirmation succeeded, and its counts, or None
vars == <<items, usable, book, listed, confirm, form, touched, answer>>

Failed == [ok |-> FALSE, imported |-> 0, skipped |-> 0]

Row == [code : Codes, name : Names, ref : Refs]

(* What is assumed of the constants.                                       *)
ItemImportAssumption ==
  /\ Files \subseteq Seq(Row)
  /\ None \notin Row \cup [ok : BOOLEAN, imported : Nat, skipped : Nat]

-----------------------------------------------------------------------------

Taken(row, among) == \E i \in among : i.code = row.code \/ i.name = row.name

UniqueCode(i) == \A j \in DOMAIN book : book[j].code = book[i].code => j = i

(* Judging the rows by their codes only.                                   *)
Ready_CodesOnly ==
  {i \in DOMAIN book : /\ UniqueCode(i) /\ book[i].ref \in usable
                       /\ \A it \in items : it.code # book[i].code}

(* previewItemImport: no code twice in the workbook, an active unit and    *)
(* group, neither code nor name in use.                                    *)
Ready ==
  {i \in DOMAIN book : /\ UniqueCode(i) /\ book[i].ref \in usable
                       /\ ~Taken(book[i], items)}

(* The unique indexes on code and name.                                    *)
Insertable(rows) ==
  /\ \A i \in rows : ~Taken(book[i], items)
  /\ \A i, j \in rows : i # j =>
       book[i].code # book[j].code /\ book[i].name # book[j].name

-----------------------------------------------------------------------------

Init ==
  /\ items = {}
  /\ usable = Refs
  /\ book \in Files
  /\ listed = None /\ confirm = None /\ form = None
  /\ touched = FALSE
  /\ answer = None

PreviewItemImport ==
  /\ listed = None
  /\ listed' = Ready
  /\ touched' = FALSE
  /\ UNCHANGED <<items, usable, book, confirm, form, answer>>

(* confirmItemImport: the transaction checks the references and drops the  *)
(* rows whose code or name is in use by now...                             *)
New(rows) == {i \in rows : ~Taken(book[i], items)}

ConfirmRead ==
  /\ listed \notin {None, {}} /\ confirm = None /\ answer = None
  /\ IF \A i \in listed : book[i].ref \in usable
     THEN confirm' = New(listed) /\ UNCHANGED answer
     ELSE answer' = Failed /\ UNCHANGED confirm
  /\ UNCHANGED <<items, usable, book, listed, form, touched>>

(* ... and inserts the others with one statement.                          *)
ConfirmInsert ==
  /\ confirm # None
  /\ IF Insertable(confirm)
     THEN /\ items' = items \cup {book[i] : i \in confirm}
          /\ answer' = [ok |-> TRUE, imported |-> Cardinality(confirm),
                        skipped |-> Cardinality(listed) - Cardinality(confirm)]
     ELSE answer' = Failed /\ UNCHANGED items
  /\ confirm' = None
  /\ UNCHANGED <<usable, book, listed, form, touched>>

(* createItem: the checks, then the insert.                                *)
CreateItem(row) ==
  /\ form = None
  /\ row.ref \in usable /\ ~Taken(row, items)
  /\ form' = row
  /\ UNCHANGED <<items, usable, book, listed, confirm, touched, answer>>

(* Inserting what the check allowed, with no unique index.                 *)
SaveItem_NoIndex ==
  /\ form # None
  /\ items' = items \cup {form}
  /\ touched' = TRUE
  /\ form' = None
  /\ UNCHANGED <<usable, book, listed, confirm, answer>>

(* The insert itself, which the unique indexes may refuse.                 *)
SaveItem ==
  /\ form # None
  /\ items' = IF Taken(form, items) THEN items ELSE items \cup {form}
  /\ touched' = (touched \/ ~Taken(form, items))
  /\ form' = None
  /\ UNCHANGED <<usable, book, listed, confirm, answer>>

(* updateUnitStatus and updateItemGroupStatus                              *)
SwitchRef(r) ==
  /\ usable' = IF r \in usable THEN usable \ {r} ELSE usable \cup {r}
  /\ touched' = TRUE
  /\ UNCHANGED <<items, book, listed, confirm, form, answer>>

Next ==
  \/ PreviewItemImport
  \/ ConfirmRead
  \/ ConfirmInsert
  \/ \E row \in Row : CreateItem(row)
  \/ SaveItem
  \/ \E r \in Refs : SwitchRef(r)

Spec == Init /\ [][Next]_vars

-----------------------------------------------------------------------------

TypeOK ==
  /\ items \subseteq Row
  /\ \A i, j \in items : i # j => i.code # j.code /\ i.name # j.name
  /\ usable \subseteq Refs
  /\ book \in Seq(Row)
  /\ listed # None => listed \subseteq DOMAIN book
  /\ form \in Row \cup {None}
  /\ touched \in BOOLEAN

(* What the preview calls ready is imported, every row of it, as long as   *)
(* nobody saves an item or switches a unit in between, except when the     *)
(* workbook gives two ready rows one name: the preview compares names with *)
(* the database only, and the import then fails as a whole.                *)
ReadyItemsCanBeImported ==
  answer # None /\ ~touched =>
    \/ answer = [ok |-> TRUE, imported |-> Cardinality(listed), skipped |-> 0]
    \/ /\ answer = Failed
       /\ \E i, j \in listed : i # j /\ book[i].name = book[j].name

=============================================================================
