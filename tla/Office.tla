------------------------------- MODULE Office -------------------------------
(* The administration of the office: the accounts and their sessions, who  *)
(* runs which store, the stores and the ones they stand under, the imports *)
(* of stores and of items, a set-up page, and the forms of requests and    *)
(* issues.                                                                 *)
(* They share no state, so a behaviour is about one of them (area); the    *)
(* variables of the others stay None.                                      *)
EXTENDS Naturals, Sequences

CONSTANTS
  \* Accounts
  Logins, Admins, Sessions, MaxFailedAttempts, MaxRecorded, Ended,
  \* Assignments, twice: requests that overlap, and one at a time
  Users, Shops, Sites, Staff, Places, Dates,
  Overlapping, FewRoles, FewTransfers,
  Single, Roles, Switchable, MoreTransfers,
  \* StoreTree
  Stores, Seats, Saves, Switched,
  \* StoreImport
  Branches, StoreCodes, StoreNames, StoreFiles, Databases, Unknown,
  \* ItemImport
  ItemCodes, ItemNames, Refs, ItemFiles,
  \* ListPage
  Searches, MaxCalls, MaxInputs,
  \* EntryForm
  Contents, Documents, MaxVersion,
  None

VARIABLES
  area,
  account, session, login, change, admin, guesses,
  user, store, slot, transfers, req, loose,
  tree, branch, save, crossed,
  stores, open, file, ready, changed, outcome,
  items, usable, book, listed, confirm, form, touched, answer,
  typed, inputs, search, latest, calls, shown, saving, saved, own, former,
  kind, row, page, entry, sent, created, failed, overtaken

accountVars == <<account, session, login, change, admin, guesses>>
assignmentVars == <<user, store, slot, transfers, req, loose>>
treeVars == <<tree, branch, save, crossed>>
storeImportVars == <<stores, open, file, ready, changed, outcome>>
itemImportVars == <<items, usable, book, listed, confirm, form, touched, answer>>
pageVars == <<typed, inputs, search, latest, calls, shown, saving, saved, own, former>>
formVars == <<kind, row, page, entry, sent, created, failed, overtaken>>
vars == <<area, accountVars, assignmentVars, treeVars, storeImportVars,
          itemImportVars, pageVars, formVars>>

-----------------------------------------------------------------------------

Acc == INSTANCE Accounts

(* Requests overlap while nobody's status changes, or come one at a time   *)
(* while everything does.                                                  *)
Overlap == INSTANCE Assignments WITH
             Stores <- Shops, Branches <- Sites, Requests <- Overlapping,
             Role <- FewRoles, Switchable <- {}, MaxTransfers <- FewTransfers

Sequel == INSTANCE Assignments WITH
            Stores <- Shops, Branches <- Sites, Requests <- {Single},
            Role <- Roles, MaxTransfers <- MoreTransfers

Tree == INSTANCE StoreTree WITH Requests <- Saves, Branches <- Seats

SImp == INSTANCE StoreImport WITH
          Names <- StoreNames, Codes <- StoreCodes, Files <- StoreFiles

IImp == INSTANCE ItemImport WITH
          Codes <- ItemCodes, Names <- ItemNames, Files <- ItemFiles

Page == INSTANCE ListPage

Form == INSTANCE EntryForm

(* What each component assumes of its constants, and the people and places *)
(* that Assignments starts from.                                           *)
ASSUME OfficeAssumption ==
  /\ Acc!AccountsAssumption
  /\ Overlap!AssignmentsAssumption /\ Sequel!AssignmentsAssumption
  /\ Tree!StoreTreeAssumption
  /\ SImp!StoreImportAssumption /\ IImp!ItemImportAssumption
  /\ Page!ListPageAssumption
  /\ Form!EntryFormAssumption
  /\ Staff \in [Users -> [branch : Sites, role : FewRoles \cap Roles, active : BOOLEAN]]
  /\ Places \in [Shops -> Sites]

-----------------------------------------------------------------------------
NoAccounts == account = None /\ session = None /\ login = None /\ change = None
                /\ admin = None /\ guesses = None
NoAssignments == user = None /\ store = None /\ slot = None /\ transfers = None
                   /\ req = None /\ loose = None
NoTree == tree = None /\ branch = None /\ save = None /\ crossed = None
NoStoreImport == stores = None /\ open = None /\ file = None /\ ready = None
                   /\ changed = None /\ outcome = None
NoItemImport == items = None /\ usable = None /\ book = None /\ listed = None
                  /\ confirm = None /\ form = None /\ touched = None /\ answer = None
NoPage == typed = None /\ inputs = None /\ search = None /\ latest = None
            /\ calls = None /\ shown = None /\ saving = None /\ saved = None
            /\ own = None /\ former = None
NoForm == kind = None /\ row = None /\ page = None /\ entry = None
            /\ sent = None /\ created = None /\ failed = None /\ overtaken = None

AssignmentsInit ==
  \/ area = "overlap" /\ Overlap!InitWith(Staff, Places)
  \/ area = "sequel" /\ Sequel!InitWith(Staff, Places)

Init ==
  \/ /\ area = "accounts" /\ Acc!Init
     /\ NoAssignments /\ NoTree /\ NoStoreImport /\ NoItemImport /\ NoPage /\ NoForm
  \/ /\ AssignmentsInit
     /\ NoAccounts /\ NoTree /\ NoStoreImport /\ NoItemImport /\ NoPage /\ NoForm
  \/ /\ area = "tree" /\ Tree!Init
     /\ NoAccounts /\ NoAssignments /\ NoStoreImport /\ NoItemImport /\ NoPage /\ NoForm
  \/ /\ area = "store import" /\ SImp!Init
     /\ NoAccounts /\ NoAssignments /\ NoTree /\ NoItemImport /\ NoPage /\ NoForm
  \/ /\ area = "item import" /\ IImp!Init
     /\ NoAccounts /\ NoAssignments /\ NoTree /\ NoStoreImport /\ NoPage /\ NoForm
  \/ /\ area = "page" /\ Page!Init
     /\ NoAccounts /\ NoAssignments /\ NoTree /\ NoStoreImport /\ NoItemImport /\ NoForm
  \/ /\ area = "form" /\ Form!Init
     /\ NoAccounts /\ NoAssignments /\ NoTree /\ NoStoreImport /\ NoItemImport /\ NoPage

Next ==
  /\ UNCHANGED area
  /\ \/ /\ area = "accounts" /\ Acc!Next
        /\ UNCHANGED <<assignmentVars, treeVars, storeImportVars, itemImportVars, pageVars, formVars>>
     \/ /\ \/ area = "overlap" /\ Overlap!Next
           \/ area = "sequel" /\ Sequel!Next
        /\ UNCHANGED <<accountVars, treeVars, storeImportVars, itemImportVars, pageVars, formVars>>
     \/ /\ area = "tree" /\ Tree!Next
        /\ UNCHANGED <<accountVars, assignmentVars, storeImportVars, itemImportVars, pageVars, formVars>>
     \/ /\ area = "store import" /\ SImp!Next
        /\ UNCHANGED <<accountVars, assignmentVars, treeVars, itemImportVars, pageVars, formVars>>
     \/ /\ area = "item import" /\ IImp!Next
        /\ UNCHANGED <<accountVars, assignmentVars, treeVars, storeImportVars, pageVars, formVars>>
     \/ /\ area = "page" /\ Page!Next
        /\ UNCHANGED <<accountVars, assignmentVars, treeVars, storeImportVars, itemImportVars, formVars>>
     \/ /\ area = "form" /\ Form!Next
        /\ UNCHANGED <<accountVars, assignmentVars, treeVars, storeImportVars, itemImportVars,
                       pageVars>>

Spec == Init /\ [][Next]_vars

-----------------------------------------------------------------------------

(* Every component keeps its types.                                        *)
TypeOK ==
  /\ area = "accounts" => Acc!TypeOK
  /\ area = "overlap" => Overlap!TypeOK
  /\ area = "sequel" => Sequel!TypeOK
  /\ area = "tree" => Tree!TypeOK
  /\ area = "store import" => SImp!TypeOK
  /\ area = "item import" => IImp!TypeOK
  /\ area = "page" => Page!TypeOK
  /\ area = "form" => Form!TypeOK

(* Overlapping sign-ins do not get around the lockout (Accounts).          *)
LockBoundsGuesses == area = "accounts" => Acc!LockBoundsGuesses

(* A session ends with the credentials it was given for (Accounts).        *)
SessionsEndWithTheirCredentials ==
  area = "accounts" => Acc!SessionsEndWithTheirCredentials

(* Makers and checkers fit the store they run, and the transfers of an     *)
(* employee join up and end where he is (Assignments).                     *)
PeopleAreWhereTheyWork ==
  /\ area = "overlap" => Overlap!SlotsFitTheirPeople /\ Overlap!TransfersAreAJourney
  /\ area = "sequel" => Sequel!SlotsFitTheirPeople /\ Sequel!TransfersAreAJourney

(* Saves one after the other make no circle of stores (StoreTree).         *)
CirclesOnlyFromCrossedSaves == area = "tree" => Tree!CirclesOnlyFromCrossedSaves

(* What the preview of a workbook calls ready can be imported, of stores   *)
(* (StoreImport) and of items (ItemImport).                                *)
PreviewsKeepTheirWord ==
  /\ area = "store import" => SImp!ReadyRowsCanBeImported
  /\ area = "item import" => IImp!ReadyItemsCanBeImported

(* A settled list answers the search and shows what was saved (ListPage).  *)
SettledListIsRight ==
  area = "page" => Page!SettledListAnswersTheSearch /\ Page!SettledListShowsOwnSaves

(* A form overwrites and hands in what its user has seen (EntryForm).      *)
FormDoesWhatItShows == [][area = "form" => Form!FormStep]_vars
=============================================================================
