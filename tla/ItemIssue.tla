----------------------------- MODULE ItemIssue -----------------------------
(***************************************************************************)
(* Item issues of one supplying store: a maker drafts an issue against an  *)
(* approved item request (or for a department), submits it, and a checker  *)
(* dispatches it, returns it or rejects it (item-issues.service.ts).       *)
(*                                                                         *)
(* Every HTTP call is run by one worker and is split where another call    *)
(* can come in between: reads made before the database transaction, each   *)
(* wait for a lock, and the commit.  A row lock or advisory lock is held   *)
(* until the transaction ends, so who holds what follows from the "pc" of  *)
(* the calls and needs no variable.                                        *)
(*                                                                         *)
(* Abstractions.  All requests name the supplying store of this module, so *)
(* the SELECT ... FOR UPDATE that joins the request row with the store row *)
(* is one lock, the store lock.  An item is on a request, and on an issue, *)
(* at most once (unique indexes), so the lines of an issue are a function  *)
(* from items to quantities, 0 for "no line"; quantities are scaled        *)
(* integers as in the code.  Audit rows, notifications and the shipment    *)
(* row that a dispatch inserts are left out (Receipt starts from it).      *)
(*                                                                         *)
(* Of the AVAILABLE rows of the ledger the module keeps their sums for     *)
(* each item and rate, which is what the balance and the FIFO layers are   *)
(* computed from.  An item keeps its unit here, and which layer comes      *)
(* first is left open: StockLedger has units, dates and single rows.       *)
(***************************************************************************)
EXTENDS Integers, FiniteSets, Functions

CONSTANTS Requests,    \* approved item requests addressed to this store
          Issues,      \* identifiers for item_issues rows
          Items,
          Users,
          Workers,     \* concurrent calls of the backend
          None,
          Requested,   \* Requested[r][k]: quantity of item k on request r
          Lines,       \* the line sets that clients send
          Rates,       \* the rates at which goods come in
          Assignments, \* <<maker, checker>> pairs the store is given
          MaxVersion,  \* bound: an issue at this version is not changed
          MaxStock,    \* bound: a layer with so many goods gets no more
          MaxTaken     \* bound: so many goods of a layer are taken back

Quantities == [Items -> Nat]
Goods      == [Items -> [Rates -> Nat]]

ASSUME ConstantsAssumption ==
  /\ None \notin Requests \cup Issues \cup Users
  /\ Requested \in [Requests -> Quantities]
  /\ Lines \subseteq {q \in Quantities : \E k \in Items : q[k] > 0}
  /\ Assignments \subseteq {a \in Users \X Users : a[1] # a[2]}
  /\ MaxVersion \in Nat
  /\ MaxStock \in Nat /\ MaxTaken \in Nat

(* Sums are over the rows of a table.                                      *)
ASSUME FiniteAssumption ==
  IsFiniteSet(Items) /\ IsFiniteSet(Issues) /\ IsFiniteSet(Rates)

(* A request has at least one line, and a line asks for more than nothing. *)
ASSUME RequestsAskAssumption == \A r \in Requests : \E k \in Items : Requested[r][k] > 0

VARIABLES
  request,     \* request[r]: status of item_requests row r
  issue,       \* issue[i]: item_issues row i with its lines
  issued,      \* issued[r][k]: SUM of issue_quantity over the POSTED issues
  quantityIn,  \* quantityIn[k][c]: SUM of quantity_in, item k at rate c
  quantityOut, \* quantityOut[k][c]: SUM of quantity_out, item k at rate c
  taken,       \* history: taken[k][c] of the goods that came in, a purchase
               \* has taken back
  maker,       \* the store's active maker (store_users)
  checker,     \* the store's active checker
  call         \* call[w]: the call worker w is serving

ledger == <<quantityIn, quantityOut, taken>>

vars == <<request, issue, issued, quantityIn, quantityOut, taken, maker, checker, call>>

RequestStatuses == {"APPROVED", "PARTIALLY_ISSUED", "ISSUED"}
Editable        == {"DRAFT", "RETURNED"}
Open            == Editable \cup {"PENDING_VERIFICATION"}
IssueStatuses   == Open \cup {"ABSENT", "POSTED", "REJECTED"}

NoLines == [k \in Items |-> 0]
NoGoods == [k \in Items |-> [c \in Rates |-> 0]]

NoIssue == [status |-> "ABSENT", version |-> 0, request |-> None,
            qty |-> NoLines, creator |-> None, verifier |-> None]

Idle == [op |-> "NONE", pc |-> "idle", issue |-> None, request |-> None,
         user |-> None, expected |-> 0, seen |-> 0, qty |-> NoLines,
         rows |-> NoGoods, allotted |-> NoGoods]

-----------------------------------------------------------------------------
(* Locks.                                                                  *)

HoldsIssue(w, i) ==
  /\ call[w].pc \in {"issueLocked", "verifierChecked", "stockLocked", "stockChecked"}
  /\ call[w].issue = i

HoldsStore(w) ==
  /\ call[w].pc \in {"verifierChecked", "stockLocked", "stockChecked"}
  /\ issue[call[w].issue].request # None

HoldsStock(w) == call[w].pc \in {"stockLocked", "stockChecked"}

IssueFree_NoRowLock(i) == i \in Issues

IssueFree(i) == \A w \in Workers : ~HoldsIssue(w, i)
StoreFree    == \A w \in Workers : ~HoldsStore(w)
StockFree_NotLocked == TRUE

StockFree    == \A w \in Workers : ~HoldsStock(w)

-----------------------------------------------------------------------------
(* Checks shared by the handlers.                                          *)

AllowsIssue(status) == status \in {"APPROVED", "PARTIALLY_ISSUED"}

Total(q) == FoldFunction(LAMBDA a, b : a + b, 0, q)

Outstanding_IgnoresPosted(r, k) == Requested[r][k]

Outstanding(r, k) == Requested[r][k] - issued[r][k]

FitsRequest(r, q) == \A k \in Items : q[k] > 0 => q[k] <= Outstanding(r, k)

Layer_Gross(k, c) == quantityIn[k][c]

Layer(k, c) == quantityIn[k][c] - quantityOut[k][c]

Balance(k) == Total([c \in Rates |-> Layer(k, c)])

FitsStock(q) == \A k \in Items : q[k] > 0 => q[k] <= Balance(k)

(* The ways to take the lines q from layers that have goods left, short    *)
(* layers left aside (allocateFifoCost without its order).                 *)
Allotments(q) ==
  {a \in [Items -> [Rates -> 0 .. Total(q)]] :
     \A k \in Items : /\ Total(a[k]) = q[k]
                       /\ \A c \in Rates : a[k][c] > 0 => a[k][c] <= Layer(k, c)}

HasOpenIssue_DraftsOnly(r) ==
  \E i \in Issues : issue[i].request = r /\ issue[i].status = "DRAFT"

HasOpenIssue(r) == \E i \in Issues : issue[i].request = r /\ issue[i].status \in Open

MayVerify(u, i) == u = checker /\ u # issue[i].creator

Fulfilment_IssueStatus(r, posted) ==
  IF Total(posted) = 0 THEN "APPROVED" ELSE "POSTED"

Fulfilment_Strict(r, posted) ==
  IF Total(posted) = 0 THEN "APPROVED"
  ELSE IF Total(posted) > Total(Requested[r]) THEN "ISSUED"
  ELSE "PARTIALLY_ISSUED"

(* Compares totals over all lines, not line by line.                       *)
Fulfilment(r, posted) ==
  IF Total(posted) = 0 THEN "APPROVED"
  ELSE IF Total(posted) >= Total(Requested[r]) THEN "ISSUED"
  ELSE "PARTIALLY_ISSUED"

Eligible(r) ==
  /\ AllowsIssue(request[r])
  /\ \E k \in Items : Outstanding(r, k) > 0
  /\ ~HasOpenIssue(r)

-----------------------------------------------------------------------------
Init ==
  /\ request = [r \in Requests |-> "APPROVED"]
  /\ issue = [i \in Issues |-> NoIssue]
  /\ issued = [r \in Requests |-> NoLines]
  /\ quantityIn = NoGoods /\ quantityOut = NoGoods /\ taken = NoGoods
  /\ \E a \in Assignments : maker = a[1] /\ checker = a[2]
  /\ call = [w \in Workers |-> Idle]

Finish(w) == call' = [call EXCEPT ![w] = Idle]

Refuse(w) == Finish(w) /\ UNCHANGED <<request, issue, issued, ledger>>

(* createItemIssueFromRequest and createDepartmentIssue (r = None), the    *)
(* part that runs before the transaction: assignment, eligibility, lines.  *)
CreateCheck(w, u, r, q) ==
  /\ call[w].pc = "idle"
  /\ u = maker
  /\ r # None => Eligible(r) /\ FitsRequest(r, q)
  /\ call' = [call EXCEPT ![w] = [Idle EXCEPT !.op = "CREATE", !.pc = "checked",
                                   !.request = r, !.user = u, !.qty = q]]
  /\ UNCHANGED <<request, issue, issued, ledger, maker, checker>>

NewIssue(c) == [NoIssue EXCEPT !.status = "DRAFT", !.version = 1,
                !.request = c.request, !.qty = c.qty, !.creator = c.user]

(* createDraftWithRetry: locks the request row and looks for an open issue *)
(* only.  The foreign key to the store waits for the store lock.           *)
CreateCommit(w) ==
  /\ call[w].op = "CREATE"
  /\ StoreFree
  /\ \/ /\ call[w].request # None => ~HasOpenIssue(call[w].request)
        /\ \E i \in Issues :
             /\ issue[i].status = "ABSENT"
             /\ issue' = [issue EXCEPT ![i] = NewIssue(call[w])]
        /\ Finish(w)
        /\ UNCHANGED <<request, issued, ledger>>
     \/ /\ \/ call[w].request # None /\ HasOpenIssue(call[w].request)
           \/ \A i \in Issues : issue[i].status # "ABSENT"   \* bound: no row left
        /\ Refuse(w)
  /\ UNCHANGED <<maker, checker>>

(* updateItemIssue and updateDepartmentIssue before their transaction.     *)
(* "expected" is the version on the client's screen.                       *)
UpdateRead(w, u, i, expected, q) ==
  /\ call[w].pc = "idle"
  /\ issue[i].status \in Editable
  /\ issue[i].version < MaxVersion
  /\ u = maker
  /\ issue[i].request # None => FitsRequest(issue[i].request, q)
  /\ call' = [call EXCEPT ![w] = [Idle EXCEPT !.op = "UPDATE", !.pc = "checked",
                                   !.issue = i, !.qty = q,
                                   !.expected = expected, !.seen = issue[i].version]]
  /\ UNCHANGED <<request, issue, issued, ledger, maker, checker>>

StillEditable_NoVersion(c) == issue[c.issue].status \in Editable

StillEditable_Unguarded(c) == issue[c.issue].status # "ABSENT"

(* The WHERE clause of the guarded UPDATE.                                 *)
StillEditable(c) ==
  /\ issue[c.issue].version = c.expected
  /\ issue[c.issue].status \in Editable

UpdateCommit(w) ==
  /\ call[w].op = "UPDATE"
  /\ IssueFree(call[w].issue)
  /\ \/ /\ StillEditable(call[w])
        /\ issue' = [issue EXCEPT ![call[w].issue].version = call[w].seen + 1,
                                  ![call[w].issue].qty = call[w].qty]
        /\ Finish(w)
        /\ UNCHANGED <<request, issued, ledger>>
     \/ ~StillEditable(call[w]) /\ Refuse(w)
  /\ UNCHANGED <<maker, checker>>

(* The first statement of submit, verify, return and reject: SELECT the    *)
(* issue FOR UPDATE, then its status and version are checked.              *)
LockIssue(w, u, i, op) ==
  /\ call[w].pc = "idle"
  /\ IssueFree(i)
  /\ IF op = "SUBMIT" THEN issue[i].status \in Editable
                      ELSE issue[i].status = "PENDING_VERIFICATION"
  /\ issue[i].version < MaxVersion
  /\ call' = [call EXCEPT ![w] = [Idle EXCEPT !.op = op, !.pc = "issueLocked",
                                   !.issue = i, !.user = u]]
  /\ UNCHANGED <<request, issue, issued, ledger, maker, checker>>

SubmitAllowed(c) ==
  LET r == issue[c.issue].request IN
  /\ c.user = maker
  /\ r # None => AllowsIssue(request[r]) /\ FitsRequest(r, issue[c.issue].qty)

(* The rest of submitItemIssue.  A branch issue waits for the request and  *)
(* store rows and its lines are checked again.                             *)
Submit(w) ==
  LET i == call[w].issue IN
  /\ call[w].op = "SUBMIT"
  /\ issue[i].request # None => StoreFree
  /\ \/ /\ SubmitAllowed(call[w])
        /\ issue' = [issue EXCEPT ![i].status = "PENDING_VERIFICATION",
                                  ![i].version = @ + 1]
        /\ Finish(w)
        /\ UNCHANGED <<request, issued, ledger>>
     \/ ~SubmitAllowed(call[w]) /\ Refuse(w)
  /\ UNCHANGED <<maker, checker>>

(* concludePendingIssue: the rest of return and reject.                    *)
Conclude(w) ==
  LET i == call[w].issue IN
  /\ call[w].op \in {"RETURN", "REJECT"}
  /\ issue[i].request # None => StoreFree
  /\ \/ /\ MayVerify(call[w].user, i)
        /\ issue' = [issue EXCEPT
             ![i].status = IF call[w].op = "RETURN" THEN "RETURNED" ELSE "REJECTED",
             ![i].version = @ + 1]
        /\ Finish(w)
        /\ UNCHANGED <<request, issued, ledger>>
     \/ ~MayVerify(call[w].user, i) /\ Refuse(w)
  /\ UNCHANGED <<maker, checker>>

VerifyAllowed(c) ==
  LET r == issue[c.issue].request IN
  /\ r # None => AllowsIssue(request[r])
  /\ MayVerify(c.user, c.issue)

(* verifyAndPostItemIssue: a branch issue locks the request and store      *)
(* rows, a department issue neither; then who verifies is looked at.       *)
LockRequest(w) ==
  /\ call[w].op = "VERIFY" /\ call[w].pc = "issueLocked"
  /\ issue[call[w].issue].request # None => StoreFree
  /\ \/ /\ VerifyAllowed(call[w])
        /\ call' = [call EXCEPT ![w].pc = "verifierChecked"]
        /\ UNCHANGED <<request, issue, issued, ledger>>
     \/ ~VerifyAllowed(call[w]) /\ Refuse(w)
  /\ UNCHANGED <<maker, checker>>

(* lockStoreStockForUpdate: the advisory lock, and a lock on the rows that *)
(* the ledger then has of the items on the issue.                          *)
LockStock(w) ==
  LET q == issue[call[w].issue].qty IN
  /\ call[w].pc = "verifierChecked"
  /\ StockFree
  /\ call' = [call EXCEPT ![w].pc = "stockLocked",
                          ![w].rows = [k \in Items |-> IF q[k] > 0 THEN quantityIn[k]
                                                                   ELSE NoGoods[k]]]
  /\ UNCHANGED <<request, issue, issued, ledger, maker, checker>>

(* A dispatch compares its lines with the remainder of the request and     *)
(* with the balance, a department consumption with neither.                *)
DispatchFits(i) ==
  issue[i].request # None =>
    FitsRequest(issue[i].request, issue[i].qty) /\ FitsStock(issue[i].qty)

(* Those checks, and allocateFifoCost for each line of either.             *)
CheckStock(w) ==
  LET i == call[w].issue IN
  /\ call[w].pc = "stockLocked"
  /\ \/ /\ DispatchFits(i)
        /\ \E a \in Allotments(issue[i].qty) :
             call' = [call EXCEPT ![w].pc = "stockChecked", ![w].allotted = a]
        /\ UNCHANGED <<request, issue, issued, ledger>>
     \/ /\ DispatchFits(i) => Allotments(issue[i].qty) = {}
        /\ Refuse(w)
  /\ UNCHANGED <<maker, checker>>

(* Posted totals of request r once issue i is posted too.                  *)
PostedWith_ThisIssueOnly(r, i) == issue[i].qty

PostedWith(r, i) == [k \in Items |-> issued[r][k] + issue[i].qty[k]]

(* The writes of the dispatch, or of confirmDepartmentConsumption, and the *)
(* commit.  The ledger rows of a department issue reference the store row, *)
(* which its transaction has not locked: the insert waits for that lock.   *)
Post(w) ==
  LET i == call[w].issue
      r == issue[i].request
  IN
  /\ call[w].pc = "stockChecked"
  /\ r = None => StoreFree
  /\ issue' = [issue EXCEPT ![i].status = "POSTED", ![i].version = @ + 1,
                            ![i].verifier = call[w].user]
  /\ quantityOut' = [k \in Items |-> [c \in Rates |->
                       quantityOut[k][c] + call[w].allotted[k][c]]]
  /\ IF r = None THEN UNCHANGED <<issued, request>>
     ELSE /\ issued' = [issued EXCEPT ![r] = PostedWith(r, i)]
          /\ request' = [request EXCEPT ![r] = Fulfilment(r, PostedWith(r, i))]
  /\ Finish(w)
  /\ UNCHANGED <<quantityIn, taken, maker, checker>>

(* The database rolls a transaction back: crash, lost connection, error.   *)
Abort(w) ==
  /\ call[w].pc # "idle"
  /\ Refuse(w)
  /\ UNCHANGED <<maker, checker>>

(* A department consumption holds the advisory lock and waits for the      *)
(* store row; a dispatch holds the store row and waits for the advisory    *)
(* lock.  PostgreSQL detects the cycle and aborts one of the two.          *)
DeadlockedWith(w, v) ==
  /\ call[w].pc = "stockChecked" /\ issue[call[w].issue].request = None
  /\ call[v].pc = "verifierChecked" /\ HoldsStore(v)

BreakDeadlock_Disabled(w) == w \notin Workers /\ UNCHANGED vars

BreakDeadlock(w) ==
  /\ \E v \in Workers : DeadlockedWith(w, v) \/ DeadlockedWith(v, w)
  /\ Refuse(w)
  /\ UNCHANGED <<maker, checker>>

(* store-users.service.ts gives the store another maker or checker.        *)
Assign(a) ==
  /\ a # <<maker, checker>>
  /\ maker' = a[1] /\ checker' = a[2]
  /\ UNCHANGED <<request, issue, issued, ledger, call>>

(* A purchase or an opening stock batch adds to the ledger, without locks. *)
StockIn(k, c) ==
  /\ Layer(k, c) < MaxStock
  /\ quantityIn' = [quantityIn EXCEPT ![k][c] = @ + 1]
  /\ UNCHANGED <<request, issue, issued, quantityOut, taken, maker, checker, call>>

(* A purchase that is saved again or deleted takes its rows back without   *)
(* asking whether the goods are still there.  The DELETE waits for rows    *)
(* that a dispatch or a consumption has locked, not for those that came in *)
(* since then.  (Saved again with other goods it is a StockIn as well.)    *)
TakeBack(k, c) ==
  /\ quantityIn[k][c] > 0
  /\ \A w \in Workers : call[w].rows[k][c] < quantityIn[k][c]
  /\ taken[k][c] < MaxTaken
  /\ quantityIn' = [quantityIn EXCEPT ![k][c] = @ - 1]
  /\ taken' = [taken EXCEPT ![k][c] = @ + 1]
  /\ UNCHANGED <<request, issue, issued, quantityOut, maker, checker, call>>

Start(w) ==
  \/ \E u \in Users, r \in Requests \cup {None}, q \in Lines : CreateCheck(w, u, r, q)
  \/ \E u \in Users, i \in Issues, q \in Lines :
       \E expected \in 1 .. issue[i].version : UpdateRead(w, u, i, expected, q)
  \/ \E u \in Users, i \in Issues, op \in {"SUBMIT", "VERIFY", "RETURN", "REJECT"} :
       LockIssue(w, u, i, op)

Advance(w) ==
  \/ CreateCommit(w) \/ UpdateCommit(w) \/ Submit(w) \/ Conclude(w)
  \/ LockRequest(w) \/ LockStock(w) \/ CheckStock(w) \/ Post(w)

Next ==
  \/ \E w \in Workers : Start(w) \/ Advance(w) \/ Abort(w) \/ BreakDeadlock(w)
  \/ \E a \in Assignments : Assign(a)
  \/ \E k \in Items, c \in Rates : StockIn(k, c) \/ TakeBack(k, c)

Spec == Init /\ [][Next]_vars

(* Lock queues are first come first served, hence strong fairness of the   *)
(* steps that wait; the deadlock detector runs after deadlock_timeout.     *)
Fairness == \A w \in Workers : SF_vars(Advance(w)) /\ SF_vars(BreakDeadlock(w))

FairSpec == Spec /\ Fairness

-----------------------------------------------------------------------------
(* Every variable has its type.                                            *)
IssueRecords ==
  [status : IssueStatuses, version : Nat, request : Requests \cup {None},
   qty : Quantities, creator : Users \cup {None}, verifier : Users \cup {None}]

Calls ==
  [op : {"NONE", "CREATE", "UPDATE", "SUBMIT", "VERIFY", "RETURN", "REJECT"},
   pc : {"idle", "checked", "issueLocked", "verifierChecked", "stockLocked",
         "stockChecked"},
   issue : Issues \cup {None}, request : Requests \cup {None},
   user : Users \cup {None}, expected : Nat, seen : Nat, qty : Quantities,
   rows : Goods, allotted : Goods]

TypeOK ==
  /\ request \in [Requests -> RequestStatuses]
  /\ issue \in [Issues -> IssueRecords]
  /\ issued \in [Requests -> Quantities]
  /\ quantityIn \in Goods /\ quantityOut \in Goods /\ taken \in Goods
  /\ maker \in Users /\ checker \in Users
  /\ call \in [Workers -> Calls]

(* However calls interleave, no line of a request is issued beyond the     *)
(* quantity requested: validateIssueLinesAgainstAvailability is run on     *)
(* totals that the commit does not read again.                             *)
NoOverIssue ==
  \A r \in Requests, k \in Items : issued[r][k] <= Requested[r][k]

(* Goods leave the store once: of an item at one rate, dispatches and      *)
(* department consumptions take no more than ever came in, although only a *)
(* dispatch looks at the balance, and purchases take rows back meanwhile.  *)
(* So a layer (lockStoreStockForUpdate, allocateFifoCost) is short by no   *)
(* more than purchases took back from it.                                  *)
GoodsLeaveOnce ==
  \A k \in Items, c \in Rates : quantityOut[k][c] <= quantityIn[k][c] + taken[k][c]

(* A request has at most one open issue: two makers who both saw none do   *)
(* not both insert one (createDraftWithRetry).                             *)
OneOpenIssue ==
  \A i, j \in Issues :
     /\ issue[i].request # None /\ issue[i].request = issue[j].request
     /\ issue[i].status \in Open /\ issue[j].status \in Open
     => i = j

(* The running totals of the model are what the SQL sums over POSTED       *)
(* issues: every posted issue is counted exactly once.                     *)
IssuedIsPostedSum ==
  \A r \in Requests, k \in Items :
    issued[r][k] =
      Total([i \in Issues |->
               IF issue[i].request = r /\ issue[i].status = "POSTED"
               THEN issue[i].qty[k] ELSE 0])

(* Those totals, and a status that agrees with them: the request is ISSUED *)
(* exactly when every one of its lines is complete, although               *)
(* applyRequestFulfilmentStatus compares only the two totals; it is        *)
(* APPROVED exactly as long as nothing was issued.                         *)
FulfilmentAgreesWithLines ==
  /\ IssuedIsPostedSum
  /\ \A r \in Requests :
       /\ request[r] = "ISSUED" <=> \A k \in Items : issued[r][k] = Requested[r][k]
       /\ request[r] = "APPROVED" <=> \A k \in Items : issued[r][k] = 0

(* What waits for the checker still fits the request: between submit and   *)
(* dispatch no other issue can use up the remainder, so a dispatch is      *)
(* never refused for it.                                                   *)
PendingFitsRequest ==
  \A i \in Issues :
    issue[i].status = "PENDING_VERIFICATION" /\ issue[i].request # None
      => FitsRequest(issue[i].request, issue[i].qty)

(* A version names one content: two editors who saw the same version       *)
(* cannot both write, and nothing changes an issue without a new version.  *)
VersionNamesContent ==
  [][\A i \in Issues : issue'[i].version = issue[i].version => issue'[i] = issue[i]]_vars

(* The checker verifies what the maker submitted: the lines of an issue    *)
(* pending verification cannot be edited, even by an update that was       *)
(* validated while it was still a draft.                                   *)
FrozenWhilePending ==
  [][\A i \in Issues :
       issue[i].status = "PENDING_VERIFICATION" => issue'[i].qty = issue[i].qty]_vars

(* A posted or rejected issue never changes again, whatever calls were     *)
(* under way when it was posted.                                           *)
ConcludedIsFinal ==
  [][\A i \in Issues :
       issue[i].status \in {"POSTED", "REJECTED"} => issue'[i] = issue[i]]_vars

(* The store keeps the promise of Supply: every dispatch looks like one    *)
(* step that takes goods which came in and were not issued yet, and        *)
(* credits them to its request, though the handler looks at goods and      *)
(* remainder long before it commits.  What a purchase took back had come   *)
(* in all the same.                                                        *)
Promise == INSTANCE Supply WITH
  came <- [k \in Items |-> [c \in Rates |-> quantityIn[k][c] + taken[k][c]]],
  left <- quantityOut

KeepsPromise == Promise!Spec

(* Every call ends, by commit or by refusal: no call waits for ever for a  *)
(* lock, not even when a dispatch and a department consumption block each  *)
(* other.                                                                  *)
CallsFinish == \A w \in Workers : call[w].pc # "idle" ~> call[w].pc = "idle"

(* "An item issue can be created only from an approved request."           *)
(* (item-issues.service.ts): the request of a new draft is not complete.   *)
DraftOnlyFromApproved ==
  [][\A i \in Issues :
       issue[i].status = "ABSENT" /\ issue'[i].request # None
         => AllowsIssue(request[issue'[i].request])]_vars
=============================================================================
