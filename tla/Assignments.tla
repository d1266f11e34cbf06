---------------------------- MODULE Assignments ----------------------------
(***************************************************************************)
(* Who runs which store.  An assignment (a row of store_users) names the   *)
(* maker and the checker of a store; an employee who is transferred, or    *)
(* whose account gets another role, has to leave the slots he held         *)
(* (services/store-users.service.ts, store-users.assignment.ts and         *)
(* employees.service.ts).                                                  *)
(*                                                                         *)
(* Every request reads what it needs first and writes later; only a        *)
(* transfer locks a row, the employee's, and looks at his branch again.    *)
(* The writes of a request are patches of the columns it sets.             *)
(***************************************************************************)
EXTENDS Naturals, Sequences

CONSTANTS
  Users,         \* application users, one for each employee
  Stores,
  Branches,
  Requests,      \* HTTP requests that may be under way at once
  Role,          \* roles in use, MAKER and CHECKER among them
  Switchable,    \* users and stores whose status is switched in this instance
  Dates,         \* effective dates of transfers
  MaxTransfers,  \* bound on the transfers of one employee
  None

(* What is assumed of the constants.                                      *)
AssignmentsAssumption ==
  /\ Dates \subseteq Nat
  /\ MaxTransfers \in Nat
  /\ None \notin Users \cup Stores \cup Branches \cup Role

VARIABLES
  user,      \* Users -> branch, role and whether account and employee are active
  store,     \* Stores -> branch and whether the store and its branch are active
  slot,      \* Stores -> the row of store_users, or None
  transfers, \* Users -> the rows of employee_transfers, in the order of insertion
  req,       \* Requests -> what the request has read and is going to write, or None
  loose      \* users and stores that an overlap, or a moved store, has touched

vars == <<user, store, slot, transfers, req, loose>>

Managing == {"MAKER", "CHECKER"}

-----------------------------------------------------------------------------

Active(s) == slot[s] # None /\ slot[s].active

HeldBy(u) == {s \in Stores : Active(s) /\ u \in {slot[s].maker, slot[s].checker}}

(* Without the branch.                                                     *)
Assignable_AnyBranch(u, role, s) ==
  user[u].active /\ user[u].role = role

(* assertAssignablePerson: an active account and employee, with the role   *)
(* the slot needs, in the branch of the store.                             *)
Assignable(u, role, s) ==
  user[u].active /\ user[u].role = role /\ user[u].branch = store[s].branch

(* assertMakerAvailable *)
MakerAvailable(u, s) == \A t \in Stores \ {s} : Active(t) => slot[t].maker # u

(* The unique indexes and checks of the table.                             *)
RowsAllowed(rows) ==
  /\ \A s \in Stores : rows[s] # None =>
       /\ {rows[s].maker, rows[s].checker} # {None}
       /\ rows[s].maker # rows[s].checker
  /\ \A s, t \in Stores :
       /\ s # t /\ rows[s] # None /\ rows[t] # None
       /\ rows[s].active /\ rows[t].active /\ rows[s].maker # None
       => rows[s].maker # rows[t].maker

Patched(row, patch) ==
  LET new(c) == IF c \in DOMAIN patch THEN patch[c] ELSE row[c]
  IN  [maker |-> new("maker"), checker |-> new("checker"), active |-> new("active")]

(* detachUserFromAssignment writes both slots as it read them, without the *)
(* user; the last one out leaves his name and an inactive row.             *)
Detach(u, s) ==
  LET maker == IF slot[s].maker = u THEN None ELSE slot[s].maker
      checker == IF slot[s].checker = u THEN None ELSE slot[s].checker
  IN  IF {maker, checker} = {None} THEN [active |-> FALSE]
      ELSE [maker |-> maker, checker |-> checker]

(* Looking for him as a maker only would leave a checker behind.           *)
RemoveFrom_MakerOnly(u, but) ==
  [s \in {t \in HeldBy(u) \ but : slot[t].maker = u} |-> Detach(u, s)]

(* removeUserFromStoreAssignments looks for the user in both slots.        *)
RemoveFrom(u, but) == [s \in HeldBy(u) \ but |-> Detach(u, s)]

(* upsertStoreAssignmentSlot: the user takes the slot of his role; whoever *)
(* fills the other one stays if he may.  users is what the transaction     *)
(* sees: the branch or the role it has written itself.                     *)
Stays(p, u, role, s, users) ==
  /\ p \notin {u, None}
  /\ users[p].active /\ users[p].role = role
  /\ users[p].branch = store[s].branch

TakeSlot(u, role, s, users) ==
  LET other(column) == IF slot[s] = None THEN None ELSE slot[s][column]
      keep(column, r) == IF Stays(other(column), u, r, s, users)
                         THEN other(column) ELSE None
  IN  [maker |-> IF role = "MAKER" THEN u ELSE keep("maker", "MAKER"),
       checker |-> IF role = "CHECKER" THEN u ELSE keep("checker", "CHECKER"),
       active |-> TRUE]

SlotFree(u, role, s) ==
  Active(s) => IF role = "MAKER" THEN slot[s].maker \in {u, None}
                                 ELSE slot[s].checker \in {u, None}

(* resolveStoreAssignment: a branch has at most one store.                 *)
ActiveStores(b) == {s \in Stores : store[s].branch = b /\ store[s].active}

-----------------------------------------------------------------------------

(* What a request writes when it commits.                                  *)
Writes(who, people, role, branch, date, insert, patch) ==
  [step |-> "write", who |-> who, people |-> people, role |-> role,
   from |-> None, branch |-> branch, date |-> date, insert |-> insert,
   patch |-> patch, stale |-> FALSE]

Submit(r, writes) ==
  /\ req' = [req EXCEPT ![r] = writes]
  /\ UNCHANGED <<user, store, slot, transfers, loose>>

(* Looking at the row without locking it.                                  *)
Locked_Never(u) == FALSE

(* A transfer that has locked the employee's row waits for its commit.     *)
Locked(u) == \E q \in Requests : /\ req[q] # None /\ req[q].step = "write"
                                 /\ req[q].branch # None /\ req[q].who = u

(* createStoreUser: all the checks, then an insert.                        *)
CreateStoreUser(r, s, m, c) ==
  /\ req[r] = None
  /\ m # c /\ store[s].active /\ slot[s] = None
  /\ Assignable(m, "MAKER", s) /\ MakerAvailable(m, s)
  /\ Assignable(c, "CHECKER", s)
  /\ Submit(r, Writes(None, {m, c}, None, None, 0, {s},
                      [t \in {s} |-> [maker |-> m, checker |-> c, active |-> TRUE]]))

(* updateStoreUser: both people, whether or not the row is active.         *)
UpdateStoreUser(r, s, m, c) ==
  /\ req[r] = None
  /\ m # c /\ store[s].active /\ slot[s] # None
  /\ Assignable(m, "MAKER", s) /\ MakerAvailable(m, s)
  /\ Assignable(c, "CHECKER", s)
  /\ Submit(r, Writes(None, {m, c}, None, None, 0, {},
                      [t \in {s} |-> [maker |-> m, checker |-> c]]))

(* updateStoreUserStatus: assertReactivationEligibility before activating. *)
ActivateStoreUser(r, s) ==
  /\ req[r] = None
  /\ slot[s] # None /\ store[s].active
  /\ slot[s].maker # None => Assignable(slot[s].maker, "MAKER", s)
                               /\ MakerAvailable(slot[s].maker, s)
  /\ slot[s].checker # None => Assignable(slot[s].checker, "CHECKER", s)
  /\ Submit(r, Writes(None, {slot[s].maker, slot[s].checker} \ {None}, None, None, 0,
                      {}, [t \in {s} |-> [active |-> TRUE]]))

DeactivateStoreUser(r, s) ==
  /\ req[r] = None
  /\ slot[s] # None
  /\ Submit(r, Writes(None, {}, None, None, 0, {}, [t \in {s} |-> [active |-> FALSE]]))

(* An UPDATE under way that names a row which is gone finds nothing.       *)
Missing(w, s) ==
  IF w = None \/ w.step = "context" THEN w
  ELSE [w EXCEPT !.patch =
          [t \in (DOMAIN w.patch \ {s}) \cup w.insert |-> w.patch[t]]]

(* deleteStoreUser *)
DeleteStoreUser(s) ==
  /\ slot[s] # None
  /\ slot' = [slot EXCEPT ![s] = None]
  /\ req' = [r \in Requests |-> Missing(req[r], s)]
  /\ UNCHANGED <<user, store, transfers, loose>>

-----------------------------------------------------------------------------

(* syncApplicationUserStoreAssignment for a user with the given role in    *)
(* branch b: he leaves every other slot and takes his at the store of the  *)
(* branch.  There may be no such store (then he only leaves).              *)
Sync(u, role, b, users) ==
  IF role \notin Managing \/ ActiveStores(b) = {}
  THEN [insert |-> {}, patch |-> RemoveFrom(u, {})]
  ELSE LET s == CHOOSE t \in ActiveStores(b) : TRUE
           left == RemoveFrom(u, {s})
       IN  [insert |-> IF slot[s] = None THEN {s} ELSE {},
            patch |-> [t \in {s} \cup DOMAIN left |->
                         IF t = s THEN TakeSlot(u, role, s, users) ELSE left[t]]]

SyncAllowed(u, role, b, users) ==
  role \in Managing =>
    \A s \in ActiveStores(b) :
      /\ users[u].active /\ users[u].role = role
      /\ SlotFree(u, role, s)

(* createApplicationUser and updateApplicationUser: the role, then the     *)
(* slots that go with it; a store is required for a managing role.         *)
SetRole(r, u, role) ==
  LET users == [user EXCEPT ![u].role = role]
      b == user[u].branch
      sync == Sync(u, role, b, users)
  IN
  /\ req[r] = None
  /\ role \in Managing => ActiveStores(b) # {}
  /\ SyncAllowed(u, role, b, users)
  /\ Submit(r, Writes(u, {u}, role, None, 0, sync.insert, sync.patch))

(* transferEmployee reads the employee, his role and his last transfer...  *)
TransferRead(r, u, b, date) ==
  /\ req[r] = None
  /\ user[u].active /\ b # user[u].branch
  /\ \A i \in DOMAIN transfers[u] : transfers[u][i].date <= date
  /\ Submit(r, [step |-> "context", who |-> u, from |-> user[u].branch,
                role |-> user[u].role, to |-> b, date |-> date, stale |-> FALSE])

(* The transfer may also name the new checker of the store he becomes the  *)
(* maker of; who held that slot is not asked.                              *)
WithSupervisor(u, role, c, b, patch) ==
  IF c = None \/ role # "MAKER" THEN patch
  ELSE [s \in DOMAIN patch |->
          IF s \in ActiveStores(b) THEN [patch[s] EXCEPT !.checker = c] ELSE patch[s]]

(* ... and in the transaction, with the employee's row locked, refuses if  *)
(* he is no longer in the branch it read.  The sync then moves him to the  *)
(* store of his new branch.                                                *)
TransferLocked(r, u, c) ==
  LET was == req[r]
      users == [user EXCEPT ![u].branch = was.to]
      sync == Sync(u, was.role, was.to, users)
  IN
  /\ was # None /\ was.step = "context" /\ u = was.who
  /\ ~Locked(u)
  /\ user[u].branch = was.from
  /\ \A i \in DOMAIN transfers[u] :
       transfers[u][i] # [from |-> user[u].branch, to |-> was.to, date |-> was.date]
  /\ c # None => /\ c # u /\ was.role \in Managing
                 /\ user[c].active /\ user[c].role = "CHECKER"
                 /\ user[c].branch = was.to
  /\ SyncAllowed(u, was.role, was.to, users)
  /\ Submit(r, [Writes(u, {u} \cup ({c} \ {None}), None, was.to, was.date, sync.insert,
                       WithSupervisor(u, was.role, c, was.to, sync.patch))
                  EXCEPT !.from = user[u].branch, !.stale = was.stale])

-----------------------------------------------------------------------------

(* The rows after a request wrote its patches.                             *)
RowsAfter(w) ==
  [s \in Stores |->
     IF s \notin DOMAIN w.patch THEN slot[s]
     ELSE IF s \in w.insert THEN w.patch[s]
     ELSE Patched(slot[s], w.patch[s])]

(* The people after it: one of them may have a new role or branch.         *)
UsersAfter(w) ==
  [u \in Users |->
     IF u # w.who THEN user[u]
     ELSE [user[u] EXCEPT !.role = IF w.role = None THEN @ ELSE w.role,
                          !.branch = IF w.branch = None THEN @ ELSE w.branch]]

Accepted(w) ==
  /\ \A s \in w.insert : slot[s] = None
  /\ RowsAllowed(RowsAfter(w))

(* The people and stores a request is about; another one that changes any  *)
(* of them overtakes it.                                                   *)
NamedIn(row) == {row[c] : c \in DOMAIN row \ {"active"}} \ {None}

Touches(w) ==
  IF w.step = "context" THEN {w.who}
  ELSE w.people \cup DOMAIN w.patch \cup
         UNION {NamedIn(w.patch[s]) : s \in DOMAIN w.patch}

Overtaken(w, changed) ==
  IF w = None \/ Touches(w) \cap changed = {} THEN w
  ELSE [w EXCEPT !.stale = TRUE]

Commit(r) ==
  LET w == req[r] IN
  /\ w # None /\ w.step = "write"
  /\ Accepted(w)
  /\ slot' = RowsAfter(w)
  /\ user' = UsersAfter(w)
  /\ transfers' = [u \in Users |->
       IF u # w.who \/ w.branch = None THEN transfers[u]
       ELSE Append(transfers[u],
                   [from |-> w.from, to |-> w.branch, date |-> w.date])]
  /\ loose' = IF w.stale THEN loose \cup Touches(w) ELSE loose
  /\ req' = [q \in Requests |-> IF q = r THEN None ELSE Overtaken(req[q], Touches(w))]
  /\ UNCHANGED store

(* A constraint or a later check fails and the transaction rolls back, or  *)
(* the transfer answers 409.                                               *)
Refused(r) ==
  /\ req[r] # None
  /\ \/ req[r].step = "write" /\ ~Accepted(req[r])
     \/ req[r].step = "context"
  /\ req' = [req EXCEPT ![r] = None]
  /\ UNCHANGED <<user, store, slot, transfers, loose>>

-----------------------------------------------------------------------------

(* updateApplicationUserStatus and updateEmployeeStatus leave the slots.   *)
UserStatus(u) ==
  /\ u \in Switchable
  /\ user' = [user EXCEPT ![u].active = ~@]
  /\ UNCHANGED <<store, slot, transfers, req, loose>>

(* updateStoreStatus and updateBranchStatus leave them too, ...            *)
StoreStatus(s) ==
  /\ s \in Switchable
  /\ store' = [store EXCEPT ![s].active = ~@]
  /\ UNCHANGED <<user, slot, transfers, req, loose>>

(* ... and updateStore may move a store, with its maker and checker, to a  *)
(* branch that has none.                                                   *)
MoveStore(s, b) ==
  /\ \A t \in Stores : store[t].branch # b
  /\ store' = [store EXCEPT ![s].branch = b]
  /\ loose' = loose \cup {s}
  /\ req' = [r \in Requests |-> Overtaken(req[r], {s})]
  /\ UNCHANGED <<user, slot, transfers>>

-----------------------------------------------------------------------------

InitWith(users, branches) ==
  /\ user = users
  /\ store = [s \in Stores |-> [branch |-> branches[s], active |-> TRUE]]
  /\ slot = [s \in Stores |-> None]
  /\ transfers = [u \in Users |-> <<>>]
  /\ req = [r \in Requests |-> None]
  /\ loose = {}

(* Every assignment of people and branches the setup pages may have made,  *)
(* before the first slot is filled.                                        *)
Init ==
  \E users \in [Users -> [branch : Branches, role : Role, active : {TRUE}]],
     branches \in [Stores -> Branches] :
    /\ \A s, t \in Stores : s # t => branches[s] # branches[t]
    /\ InitWith(users, branches)

Next ==
  \/ \E r \in Requests :
       \/ \E s \in Stores :
            \/ \E m, c \in Users : CreateStoreUser(r, s, m, c)
                                  \/ UpdateStoreUser(r, s, m, c)
            \/ ActivateStoreUser(r, s)
            \/ DeactivateStoreUser(r, s)
       \/ \E u \in Users :
            \/ \E role \in Role : SetRole(r, u, role)
            \/ /\ Len(transfers[u]) < MaxTransfers
               /\ \E b \in Branches, date \in Dates : TransferRead(r, u, b, date)
            \/ \E c \in Users \cup {None} : TransferLocked(r, u, c)
       \/ Commit(r)
       \/ Refused(r)
  \/ \E s \in Stores : \/ DeleteStoreUser(s)
                       \/ StoreStatus(s)
                       \/ \E b \in Branches : MoveStore(s, b)
  \/ \E u \in Users : UserStatus(u)

Spec == Init /\ [][Next]_vars

-----------------------------------------------------------------------------

(* Rows, people and pending requests keep their shape, and the constraints *)
(* of store_users hold.                                                    *)
TypeOK ==
  /\ user \in [Users -> [branch : Branches, role : Role, active : BOOLEAN]]
  /\ store \in [Stores -> [branch : Branches, active : BOOLEAN]]
  /\ slot \in [Stores -> [maker : Users \cup {None}, checker : Users \cup {None},
                          active : BOOLEAN] \cup {None}]
  /\ RowsAllowed(slot)
  /\ loose \subseteq Users \cup Stores

Fits(u, role, s) ==
  \/ u = None \/ {u, s} \cap loose # {}
  \/ user[u].role = role /\ user[u].branch = store[s].branch

(* Whatever sequence of new roles, transfers, saved, deactivated, deleted  *)
(* and reactivated assignments, the maker and the checker of an active     *)
(* assignment have that role and work in the branch of the store; only a   *)
(* save that overlapped another one, or a store moved to another branch    *)
(* with its people, leaves someone in a slot that is not his.              *)
(* (removeUserFromStoreAssignments and upsertStoreAssignmentSlot clean up  *)
(* after every transfer and every new role.)                               *)
SlotsFitTheirPeople ==
  \A s \in Stores : Active(s) => /\ Fits(slot[s].maker, "MAKER", s)
                                 /\ Fits(slot[s].checker, "CHECKER", s)

(* The transfers of an employee are a journey: each leads to another       *)
(* branch, starts where the one before ended, and the last one ended where *)
(* he is now, however the transfers overlap.  (transferEmployee locks the  *)
(* employee's row before it compares and records his branch.)              *)
TransfersAreAJourney ==
  \A u \in Users :
    /\ \A i \in DOMAIN transfers[u] : transfers[u][i].from # transfers[u][i].to
    /\ \A i \in 1 .. Len(transfers[u]) - 1 :
         transfers[u][i].to = transfers[u][i + 1].from
    /\ transfers[u] # <<>> => transfers[u][Len(transfers[u])].to = user[u].branch

=============================================================================
