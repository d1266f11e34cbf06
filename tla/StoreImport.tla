---------------------------- MODULE StoreImport ----------------------------
(***************************************************************************)
(* Importing stores from a workbook (services/stores-import.service.ts):   *)
(* the preview sorts the rows into ready, existing and faulty ones, the    *)
(* user confirms, and the ready rows go to the server again, which checks  *)
(* and inserts them in one transaction.  Rows name their branch and the    *)
(* store they stand under; the latter may be a store of the same workbook. *)
(***************************************************************************)
EXTENDS Naturals, Sequences

CONSTANTS
  Names,     \* store names, compared without case
  Codes,     \* store codes
  Branches,  \* branches of the database
  Unknown,   \* a branch name the database does not have
  Files,     \* the workbooks: sequences of rows
  Databases, \* the stores there are at first: sets of them
  None

VARIABLES
  stores,   \* the stores of the database
  open,     \* the branches that are active
  file,     \* the workbook
  ready,    \* the rows of it that the preview called ready, with the code of
            \* the store each was found to stand under (or None); or None
  changed,  \* whether somebody changed the database since
  outcome   \* "none", "failed" or "imported"
vars == <<stores, open, file, ready, changed, outcome>>

Row == [code : Codes, name : Names, branch : Branches \cup {Unknown},
        under : Names \cup {None}, active : BOOLEAN]
Store == [code : Codes, name : Names, branch : Branches, active : BOOLEAN]

-----------------------------------------------------------------------------

(* What is assumed of the constants.                                       *)
StoreImportAssumption ==
  /\ Files \subseteq Seq(Row) /\ Databases \subseteq SUBSET Store
  /\ None \notin Codes \cup Names

Named(name, among) == {s \in among : s.name = name}

DuplicateCode(i) == \E j \in DOMAIN file \ {i} : file[j].code = file[i].code

NamesInFile == {file[i].name : i \in DOMAIN file}

(* resolveUnderStore: one active store of the database by that name, or    *)
(* else any row of the workbook, whatever becomes of that row.             *)
ResolveUnderStore(row) ==
  LET found == Named(row.under, stores)
  IN  \/ row.under = None
      \/ \E s \in found : found = {s} /\ s.active
      \/ found = {} /\ row.under \in NamesInFile

(* The tests before the one on earlier rows: no row under itself, no code  *)
(* twice, a known active branch without a store, a code not in use.        *)
Candidate(i) ==
  LET row == file[i] IN
  /\ row.under # row.name
  /\ ~DuplicateCode(i)
  /\ row.branch \in open
  /\ ResolveUnderStore(row)
  /\ \A s \in stores : s.code # row.code /\ s.branch # row.branch

(* The store of the database that the row stands under, if there is one.   *)
Parent(i) ==
  LET found == Named(file[i].under, stores)
  IN  IF found = {} THEN None ELSE (CHOOSE s \in found : TRUE).code

(* Without the test on earlier rows two ready rows may want one branch.    *)
Ready_SameBranch == [i \in {j \in DOMAIN file : Candidate(j)} |-> Parent(i)]

(* previewStoreImport: a branch goes to the first candidate that wants it. *)
Ready ==
  LET first(i) == Candidate(i) /\ \A j \in 1 .. i - 1 :
                    ~(Candidate(j) /\ file[j].branch = file[i].branch)
  IN  [i \in {j \in DOMAIN file : first(j)} |-> Parent(i)]

(* sortStoresParentsFirst: rows that stand under nothing come first, and   *)
(* otherwise the order of the workbook is kept.                            *)
Before(j, i) ==
  LET top(k) == file[k].under = None
  IN  IF top(j) <=> top(i) THEN j < i ELSE top(j)

(* confirmStoreImport inserts row after row; a row under a row of the      *)
(* workbook looks its parent up by name when its turn comes.               *)
ParentFound(i, now) ==
  file[i].under # None /\ ready[i] = None =>
    \E s \in Named(file[i].under, now) : Named(file[i].under, now) = {s} /\ s.active

StoreOf(i) == [code |-> file[i].code, name |-> file[i].name, branch |-> file[i].branch,
               active |-> file[i].active]

(* The rows whose code is not in use, as stores.                           *)
Inserted == {i \in DOMAIN ready : \A s \in stores : s.code # file[i].code}

(* Nothing is imported unless everything is.                               *)
Importable ==
  /\ \A i \in DOMAIN ready :
       /\ file[i].branch \in open
       /\ ready[i] # None => \E s \in stores : s.code = ready[i] /\ s.active
  /\ \A i \in Inserted :
       /\ \A s \in stores : s.branch # file[i].branch
       /\ \A j \in Inserted \ {i} : file[j].branch # file[i].branch
       /\ ParentFound(i, stores \cup {StoreOf(j) : j \in {k \in Inserted : Before(k, i)}})

-----------------------------------------------------------------------------

Init ==
  /\ file \in Files
  /\ stores \in Databases
  /\ open = Branches
  /\ ready = None
  /\ changed = FALSE
  /\ outcome = "none"

PreviewStoreImport ==
  /\ ready = None
  /\ ready' = Ready
  /\ changed' = FALSE
  /\ UNCHANGED <<stores, open, file, outcome>>

(* Somebody else switches a store or a branch while the preview is read.   *)
SwitchStore(s) ==
  /\ outcome = "none"
  /\ stores' = (stores \ {s}) \cup {[s EXCEPT !.active = ~@]}
  /\ changed' = TRUE
  /\ UNCHANGED <<open, file, ready, outcome>>

SwitchBranch(b) ==
  /\ outcome = "none"
  /\ open' = IF b \in open THEN open \ {b} ELSE open \cup {b}
  /\ changed' = TRUE
  /\ UNCHANGED <<stores, file, ready, outcome>>

(* The ready rows, all of them, come back; at least one is needed.         *)
ConfirmStoreImport ==
  /\ ready # None /\ DOMAIN ready # {} /\ outcome = "none"
  /\ outcome' = IF Importable THEN "imported" ELSE "failed"
  /\ stores' = IF Importable THEN stores \cup {StoreOf(i) : i \in Inserted} ELSE stores
  /\ UNCHANGED <<open, file, ready, changed>>

Next ==
  \/ PreviewStoreImport
  \/ \E s \in stores : SwitchStore(s)
  \/ \E b \in Branches : SwitchBranch(b)
  \/ ConfirmStoreImport

Spec == Init /\ [][Next]_vars

-----------------------------------------------------------------------------

TypeOK ==
  /\ stores \subseteq Store
  /\ open \subseteq Branches
  /\ file \in Seq(Row)
  /\ ready # None => DOMAIN ready \subseteq DOMAIN file
  /\ changed \in BOOLEAN
  /\ outcome \in {"none", "failed", "imported"}

(* The row finds its parent among the ready rows before it, once those     *)
(* under nothing have been moved to the front.                             *)
ParentComesFirst(i) ==
  LET before == {j \in DOMAIN ready : Before(j, i) /\ file[j].name = file[i].under}
  IN  \E j \in before : before = {j} /\ file[j].active

(* What the preview calls ready can be imported as long as nobody changes  *)
(* the stores in between.  The one exception is inside the workbook: a row *)
(* under another row of it that is not ready, is inactive, shares its name *)
(* or comes later among the nested rows.  Then nothing at all is imported. *)
(* (previewStoreImport accepts any name of the workbook as a parent;       *)
(* sortStoresParentsFirst orders one level.)                               *)
ReadyRowsCanBeImported ==
  outcome = "failed" /\ ~changed =>
    \E i \in DOMAIN ready :
      file[i].under # None /\ ready[i] = None /\ ~ParentComesFirst(i)

=============================================================================
