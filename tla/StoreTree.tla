----------------------------- MODULE StoreTree -----------------------------
(***************************************************************************)
(* The stores and the store each one stands under (services/               *)
(* stores.service.ts): creating, updating and switching a store.  A store  *)
(* is checked by a row of separate queries and written afterwards, without *)
(* a transaction; the database keeps a branch from having two stores, and  *)
(* nothing but the walk in assertNoUnderStoreCycle keeps the stores a      *)
(* forest.  The queries before the walk are one step, the walk is a step   *)
(* for each of its queries.                                                *)
(***************************************************************************)
EXTENDS Naturals, FiniteSets

CONSTANTS
  Stores,
  Branches,
  Requests,  \* HTTP requests that may be under way at once
  Switched,  \* branches whose status is switched in this instance
  None

(* A row of stores.                                                        *)
Row == [branch : Branches, under : Stores \cup {None}, active : BOOLEAN]

(* What is assumed of the constants.                                      *)
StoreTreeAssumption ==
  /\ IsFiniteSet(Stores)
  /\ None \notin Stores \cup Branches \cup Row

VARIABLES
  tree,     \* Stores -> the row of stores, or None
  branch,   \* Branches -> is_active
  save,     \* Requests -> the save that is checked or still to be written,
            \* or None; "at" is where its walk is, None when it has ended
  crossed   \* stores saved while another save was under way

vars == <<tree, branch, save, crossed>>

-----------------------------------------------------------------------------

Under(s) == IF tree[s] = None THEN None ELSE tree[s].under

(* assertBranchForSave: an inactive branch is accepted only from the store *)
(* that is already there.                                                  *)
BranchForSave(s, b) == branch[b] \/ (tree[s] # None /\ tree[s].branch = b)

BranchHasNoOtherStore(s, b) == \A t \in Stores \ {s} : tree[t] # None => tree[t].branch # b

(* assertUnderStoreForSave up to the walk.                                 *)
UnderStoreForSave(s, under) ==
  under # None =>
  /\ under # s
  /\ tree[under] # None
  /\ tree[under].active \/ Under(s) = under

(* The save whose walk is over.                                            *)
WalkOver(w) == [w EXCEPT !.at = None, !.visited = {}]

(* Looking no further than one store above the chosen one.                 *)
Walked_OneLevel(w) == WalkOver(w)

(* One query of the walk in assertNoUnderStoreCycle, which ends at the top *)
(* or when it comes back to a store.                                       *)
Walked(w) ==
  LET up == Under(w.at) IN
  IF up \in w.visited \cup {w.at, None} THEN WalkOver(w)
  ELSE [w EXCEPT !.at = up, !.visited = @ \cup {w.at}]

-----------------------------------------------------------------------------

Init ==
  /\ tree = [s \in Stores |-> None]
  /\ branch = [b \in Branches |-> TRUE]
  /\ save = [r \in Requests |-> None]
  /\ crossed = {}

(* createStore up to its write, and updateStore up to the walk, which is   *)
(* for a store that others may stand under.                                *)
CreateStore(r, s, b, under) ==
  /\ save[r] = None /\ tree[s] = None
  /\ \A q \in Requests : save[q] # None => save[q].store # s
  /\ BranchForSave(s, b) /\ BranchHasNoOtherStore(s, b) /\ UnderStoreForSave(s, under)
  /\ save' = [save EXCEPT ![r] =
       [store |-> s, branch |-> b, under |-> under, create |-> TRUE, crossed |-> FALSE,
        at |-> None, visited |-> {}]]
  /\ UNCHANGED <<tree, branch, crossed>>

UpdateStore(r, s, b, under) ==
  /\ save[r] = None /\ tree[s] # None
  /\ BranchForSave(s, b) /\ BranchHasNoOtherStore(s, b) /\ UnderStoreForSave(s, under)
  /\ save' = [save EXCEPT ![r] =
       [store |-> s, branch |-> b, under |-> under, create |-> FALSE, crossed |-> FALSE,
        at |-> under, visited |-> {}]]
  /\ UNCHANGED <<tree, branch, crossed>>

(* assertNoUnderStoreCycle: the save is refused when its walk comes to the *)
(* store that is saved.                                                    *)
WalkUp(r) ==
  LET w == save[r] IN
  /\ w # None /\ w.at # None
  /\ save' = [save EXCEPT ![r] = IF Under(w.at) = w.store THEN None ELSE Walked(w)]
  /\ UNCHANGED <<tree, branch, crossed>>

(* The unique index on the branch.                                         *)
BranchTaken(w) == \E t \in Stores \ {w.store} : tree[t] # None /\ tree[t].branch = w.branch

(* The write: the row as the form gave it; saves still under way have      *)
(* looked at the tree before it.                                           *)
SaveStore(r) ==
  LET w == save[r] IN
  /\ w # None /\ w.at = None /\ ~BranchTaken(w)
  /\ tree' = [tree EXCEPT ![w.store] =
       [branch |-> w.branch, under |-> w.under,
        active |-> IF w.create THEN TRUE ELSE @.active]]
  /\ crossed' = IF w.crossed THEN crossed \cup {w.store} ELSE crossed
  /\ save' = [q \in Requests |->
       IF q = r \/ save[q] = None THEN None ELSE [save[q] EXCEPT !.crossed = TRUE]]
  /\ UNCHANGED branch

SaveRefused(r) ==
  /\ save[r] # None /\ save[r].at = None /\ BranchTaken(save[r])
  /\ save' = [save EXCEPT ![r] = None]
  /\ UNCHANGED <<tree, branch, crossed>>

(* updateStoreStatus and updateBranchStatus look at nothing.               *)
UpdateStoreStatus(s) ==
  /\ tree[s] # None
  /\ tree' = [tree EXCEPT ![s].active = ~@]
  /\ UNCHANGED <<branch, save, crossed>>

UpdateBranchStatus(b) ==
  /\ b \in Switched
  /\ branch' = [branch EXCEPT ![b] = ~@]
  /\ UNCHANGED <<tree, save, crossed>>

Next ==
  \/ \E r \in Requests :
       \/ \E s \in Stores, b \in Branches, under \in Stores \cup {None} :
            CreateStore(r, s, b, under) \/ UpdateStore(r, s, b, under)
       \/ WalkUp(r)
       \/ SaveStore(r)
       \/ SaveRefused(r)
  \/ \E s \in Stores : UpdateStoreStatus(s)
  \/ \E b \in Branches : UpdateBranchStatus(b)

Spec == Init /\ [][Next]_vars

-----------------------------------------------------------------------------

TypeOK ==
  /\ tree \in [Stores -> Row \cup {None}]
  /\ branch \in [Branches -> BOOLEAN]
  /\ save \in [Requests -> [store : Stores, branch : Branches,
                            under : Stores \cup {None}, create : BOOLEAN,
                            crossed : BOOLEAN, at : Stores \cup {None},
                            visited : SUBSET Stores] \cup {None}]
  /\ crossed \subseteq Stores

(* The stores above s, and s.                                              *)
Above(s) ==
  LET path[n \in 0 .. Cardinality(Stores)] ==
        IF n = 0 THEN {s}
        ELSE path[n - 1] \cup ({Under(t) : t \in path[n - 1]} \ {None})
  IN  path[Cardinality(Stores)]

InCycle(s) == s \in UNION {Above(t) : t \in {Under(s)} \ {None}}

(* Saves that follow one another keep the stores a forest: there is a      *)
(* circle of stores only where a store in it was saved although another    *)
(* save was written between its checks and its write.  (assertNoUnder-     *)
(* StoreCycle walks up before the write; nothing repeats it at the write.) *)
CirclesOnlyFromCrossedSaves ==
  \A s \in Stores : InCycle(s) => \E t \in Above(s) : t \in crossed

=============================================================================
