-------------------------- MODULE ItemIssue_proofs --------------------------
(***************************************************************************)
(* Proofs about ItemIssue and its pages (IssueQueues), for any number of   *)
(* requests, issues, items, users and concurrent calls.                    *)
(***************************************************************************)
EXTENDS IssueQueues, SumTheorems, TLAPS

(* Which operation can be at which point of its handler.                   *)
WellFormed(c) ==
  /\ c.pc = "idle" <=> c.op = "NONE"
  /\ c.pc = "checked" <=> c.op \in {"CREATE", "UPDATE"}
  /\ c.pc \in {"verifierChecked", "stockLocked", "stockChecked"} => c.op = "VERIFY"
  /\ c.op \notin {"NONE", "CREATE"} => c.issue \in Issues

Typed == TypeOK /\ \A w \in Workers : WellFormed(call[w])

(* The empty values have the types of the others.                          *)
LEMMA ConstantsTyped ==
  /\ NoLines \in Quantities
  /\ NoGoods \in Goods
  /\ NoIssue \in IssueRecords
  /\ Idle \in Calls /\ WellFormed(Idle)
  /\ Lines \subseteq Quantities
BY ConstantsAssumption DEF NoLines, Quantities, NoGoods, Goods, NoIssue, IssueRecords, IssueStatuses,
   Open, Editable, Idle, Calls, WellFormed

(* The status that a dispatch gives the request is a request status.       *)
LEMMA FulfilmentTyped ==
  ASSUME NEW r, NEW posted PROVE Fulfilment(r, posted) \in RequestStatuses
BY DEF Fulfilment, RequestStatuses

(* A call record that is well formed keeps the calls well formed.          *)
LEMMA CallTyped ==
  ASSUME Typed, NEW w \in Workers, NEW c \in Calls, WellFormed(c),
         call' = [call EXCEPT ![w] = c]
  PROVE  call' \in [Workers -> Calls] /\ \A v \in Workers : WellFormed(call'[v])
BY DEF Typed, TypeOK

(* A worker that ends its call is idle.                                    *)
LEMMA FinishTyped ==
  ASSUME Typed, NEW w \in Workers, Finish(w)
  PROVE  call' \in [Workers -> Calls] /\ \A v \in Workers : WellFormed(call'[v])
BY ConstantsTyped, CallTyped DEF Finish

(* A refusal ends the call and changes nothing else.                       *)
LEMMA RefuseTyped ==
  ASSUME Typed, NEW w \in Workers, Refuse(w), UNCHANGED <<maker, checker>>
  PROVE  Typed'
BY FinishTyped DEF Typed, TypeOK, Refuse, ledger

(* The first step of a call keeps the types.                               *)
LEMMA StartTyped ==
  ASSUME Typed, NEW w \in Workers, Start(w)
  PROVE  Typed'
<1> SUFFICES /\ \E c \in Calls : WellFormed(c) /\ call' = [call EXCEPT ![w] = c]
             /\ UNCHANGED <<request, issue, issued, ledger, maker, checker>>
  BY CallTyped DEF Typed, TypeOK, ledger
<1>1. ASSUME NEW u \in Users, NEW r \in Requests \cup {None}, NEW q \in Lines,
             CreateCheck(w, u, r, q)
      PROVE  /\ \E c \in Calls : WellFormed(c) /\ call' = [call EXCEPT ![w] = c]
             /\ UNCHANGED <<request, issue, issued, ledger, maker, checker>>
  <2> DEFINE c == [Idle EXCEPT !.op = "CREATE", !.pc = "checked",
                               !.request = r, !.user = u, !.qty = q]
  <2>1. c \in Calls /\ WellFormed(c)
    BY ConstantsTyped DEF Calls, Idle, WellFormed
  <2> QED BY <1>1, <2>1 DEF CreateCheck
<1>2. ASSUME NEW u \in Users, NEW i \in Issues, NEW q \in Lines,
             NEW expected \in 1 .. issue[i].version, UpdateRead(w, u, i, expected, q)
      PROVE  /\ \E c \in Calls : WellFormed(c) /\ call' = [call EXCEPT ![w] = c]
             /\ UNCHANGED <<request, issue, issued, ledger, maker, checker>>
  <2> DEFINE c == [Idle EXCEPT !.op = "UPDATE", !.pc = "checked", !.issue = i, !.qty = q,
                               !.expected = expected, !.seen = issue[i].version]
  <2>1. issue[i].version \in Nat /\ expected \in Nat
    <3>1. issue[i].version \in Nat
      BY DEF Typed, TypeOK, IssueRecords
    <3> QED BY <3>1
  <2>2. c \in Calls /\ WellFormed(c)
    BY ConstantsTyped, <2>1 DEF Calls, Idle, WellFormed
  <2> QED BY <1>2, <2>2 DEF UpdateRead
<1>3. ASSUME NEW u \in Users, NEW i \in Issues,
             NEW op \in {"SUBMIT", "VERIFY", "RETURN", "REJECT"}, LockIssue(w, u, i, op)
      PROVE  /\ \E c \in Calls : WellFormed(c) /\ call' = [call EXCEPT ![w] = c]
             /\ UNCHANGED <<request, issue, issued, ledger, maker, checker>>
  <2> DEFINE c == [Idle EXCEPT !.op = op, !.pc = "issueLocked", !.issue = i, !.user = u]
  <2>1. c \in Calls /\ WellFormed(c)
    BY ConstantsTyped DEF Calls, Idle, WellFormed
  <2> QED BY <1>3, <2>1 DEF LockIssue
<1> QED BY <1>1, <1>2, <1>3 DEF Start

(* So does every later step.                                               *)
LEMMA AdvanceTyped ==
  ASSUME Typed, NEW w \in Workers, Advance(w)
  PROVE  Typed'
<1> DEFINE c == call[w]
<1>c. c \in Calls /\ WellFormed(c)
  BY DEF Typed, TypeOK
<1>0. CASE Refuse(w) /\ UNCHANGED <<maker, checker>>
  BY <1>0, RefuseTyped
<1>1. CASE CreateCommit(w) /\ ~Refuse(w)
  <2>1. NewIssue(c) \in IssueRecords
    BY <1>c, ConstantsTyped DEF NewIssue, NoIssue, IssueRecords, IssueStatuses, Open,
       Editable, Calls
  <2> QED BY <1>1, <2>1, FinishTyped DEF CreateCommit, Typed, TypeOK, ledger
<1>2. CASE UpdateCommit(w) /\ ~Refuse(w)
  <2>1. c.issue \in Issues /\ c.seen + 1 \in Nat /\ c.qty \in Quantities
    BY <1>2, <1>c DEF UpdateCommit, WellFormed, Calls
  <2>2. issue' = [issue EXCEPT ![c.issue] =
                    [issue[c.issue] EXCEPT !.version = c.seen + 1, !.qty = c.qty]]
    BY <1>2, <2>1 DEF UpdateCommit, Typed, TypeOK
  <2>3. issue' \in [Issues -> IssueRecords]
    BY <2>1, <2>2 DEF Typed, TypeOK, IssueRecords
  <2> QED BY <1>2, <2>3, FinishTyped DEF UpdateCommit, Typed, TypeOK, ledger
<1>3. CASE Submit(w) /\ ~Refuse(w)
  BY <1>3, FinishTyped DEF Submit, Typed, TypeOK, IssueRecords, IssueStatuses, Open, ledger
<1>4. CASE Conclude(w) /\ ~Refuse(w)
  BY <1>4, FinishTyped DEF Conclude, Typed, TypeOK, IssueRecords, IssueStatuses, Open, Editable,
     ledger
<1>5. CASE LockRequest(w) /\ ~Refuse(w)
  BY <1>5, <1>c, CallTyped DEF LockRequest, Typed, TypeOK, Calls, WellFormed, ledger
<1>6. CASE LockStock(w)
  <2> DEFINE q == issue[c.issue].qty
             g == [k \in Items |-> IF q[k] > 0 THEN quantityIn[k] ELSE NoGoods[k]]
  <2>1. g \in Goods
    BY ConstantsTyped DEF Goods, Typed, TypeOK
  <2>2. call' = [call EXCEPT ![w] = [c EXCEPT !.pc = "stockLocked", !.rows = g]]
    BY <1>6 DEF LockStock
  <2> HIDE DEF g
  <2>3. /\ [c EXCEPT !.pc = "stockLocked", !.rows = g] \in Calls
        /\ WellFormed([c EXCEPT !.pc = "stockLocked", !.rows = g])
    BY <1>6, <1>c, <2>1 DEF LockStock, Calls, WellFormed
  <2> QED BY <1>6, <2>2, <2>3, CallTyped DEF LockStock, Typed, TypeOK, ledger
<1>8. CASE CheckStock(w) /\ ~Refuse(w)
  <2>1. PICK a \in Allotments(issue[c.issue].qty) :
          call' = [call EXCEPT ![w] = [c EXCEPT !.pc = "stockChecked", !.allotted = a]]
    BY <1>8 DEF CheckStock
  <2>2. a \in Goods
    BY DEF Allotments, Goods
  <2>3. /\ [c EXCEPT !.pc = "stockChecked", !.allotted = a] \in Calls
        /\ WellFormed([c EXCEPT !.pc = "stockChecked", !.allotted = a])
    BY <1>8, <1>c, <2>2 DEF CheckStock, Calls, WellFormed
  <2> QED BY <1>8, <2>1, <2>3, CallTyped DEF CheckStock, Typed, TypeOK, ledger
<1>7. CASE Post(w)
  <2> DEFINE i == c.issue
             r == issue[i].request
  <2>1. i \in Issues /\ issue[i] \in IssueRecords /\ c.user \in Users \cup {None}
    BY <1>7, <1>c DEF Post, WellFormed, Calls, Typed, TypeOK
  <2>2. issue[i].qty \in Quantities
    BY <2>1 DEF IssueRecords
  <2>3. issue' \in [Issues -> IssueRecords]
    <3>1. issue' = [issue EXCEPT ![i] = [issue[i] EXCEPT !.status = "POSTED",
                      !.version = @ + 1, !.verifier = c.user]]
      BY <1>7 DEF Post, Typed, TypeOK
    <3>2. \A x \in IssueRecords, u \in Users \cup {None} :
            [x EXCEPT !.status = "POSTED", !.version = @ + 1, !.verifier = u] \in IssueRecords
      <4>1. "POSTED" \in IssueStatuses
        BY DEF IssueStatuses
      <4>2. \A n \in Nat : n + 1 \in Nat
        OBVIOUS
      <4> QED BY <4>1, <4>2 DEF IssueRecords
    <3> HIDE DEF i
    <3> QED BY <2>1, <3>1, <3>2 DEF Typed, TypeOK
  <2>4. quantityOut' \in Goods
    <3>1. c.allotted \in Goods
      BY <1>c DEF Calls
    <3> QED BY <1>7, <3>1 DEF Post, Typed, TypeOK, Goods
  <2>5. issued' \in [Requests -> Quantities] /\ request' \in [Requests -> RequestStatuses]
    <3>1. CASE r = None
      BY <1>7, <3>1 DEF Post, Typed, TypeOK
    <3>2. CASE r # None
      <4>1. r \in Requests
        BY <2>1, <3>2 DEF IssueRecords
      <4>2. PostedWith(r, i) \in Quantities
        BY <2>2, <4>1 DEF PostedWith, Quantities, Typed, TypeOK
      <4>3. Fulfilment(r, PostedWith(r, i)) \in RequestStatuses
        BY FulfilmentTyped
      <4> QED BY <1>7, <3>2, <4>2, <4>3 DEF Post, Typed, TypeOK
    <3> QED BY <3>1, <3>2
  <2> QED BY <1>7, <2>3, <2>4, <2>5, FinishTyped DEF Post, Typed, TypeOK
<1> QED BY <1>0, <1>1, <1>2, <1>3, <1>4, <1>5, <1>6, <1>7, <1>8
     DEF Advance, CreateCommit, UpdateCommit, Submit, Conclude, LockRequest, CheckStock

(* Every step keeps the types.                                             *)
LEMMA NextTyped == Typed /\ [Next]_vars => Typed'
<1> SUFFICES ASSUME Typed, [Next]_vars PROVE Typed'
  OBVIOUS
<1>1. ASSUME NEW w \in Workers, Start(w) PROVE Typed'
  BY <1>1, StartTyped
<1>2. ASSUME NEW w \in Workers, Advance(w) PROVE Typed'
  BY <1>2, AdvanceTyped
<1>3. ASSUME NEW w \in Workers, Abort(w) \/ BreakDeadlock(w) PROVE Typed'
  BY <1>3, RefuseTyped DEF Abort, BreakDeadlock
<1>4. ASSUME NEW a \in Assignments, Assign(a) PROVE Typed'
  BY <1>4, ConstantsAssumption DEF Assign, Typed, TypeOK, ledger
<1>5. ASSUME NEW k \in Items, NEW d \in Rates, StockIn(k, d) \/ TakeBack(k, d) PROVE Typed'
  <2>1. /\ quantityIn[k] \in [Rates -> Nat] /\ quantityIn[k][d] \in Nat
        /\ taken[k] \in [Rates -> Nat] /\ taken[k][d] \in Nat
    BY DEF Typed, TypeOK, Goods
  <2>2. CASE StockIn(k, d)
    <3>1. quantityIn' = [quantityIn EXCEPT ![k] = [quantityIn[k] EXCEPT ![d] = @ + 1]]
      BY <2>2 DEF StockIn
    <3>2. quantityIn' \in Goods
      BY <2>1, <3>1 DEF Typed, TypeOK, Goods
    <3> QED BY <2>2, <3>2 DEF StockIn, Typed, TypeOK
  <2>3. CASE TakeBack(k, d)
    <3>1. /\ quantityIn' = [quantityIn EXCEPT ![k] = [quantityIn[k] EXCEPT ![d] = @ - 1]]
          /\ taken' = [taken EXCEPT ![k] = [taken[k] EXCEPT ![d] = @ + 1]]
          /\ quantityIn[k][d] > 0
      BY <2>3 DEF TakeBack
    <3>2. quantityIn' \in Goods /\ taken' \in Goods
      BY <2>1, <3>1 DEF Typed, TypeOK, Goods
    <3> QED BY <2>3, <3>2 DEF TakeBack, Typed, TypeOK
  <2> QED BY <1>5, <2>2, <2>3
<1>6. CASE UNCHANGED vars
  BY <1>6 DEF vars, Typed, TypeOK
<1> QED BY <1>1, <1>2, <1>3, <1>4, <1>5, <1>6 DEF Next

(* The first state is typed.                                               *)
LEMMA InitTyped == Init => Typed
BY ConstantsTyped, ConstantsAssumption DEF Init, Typed, TypeOK, RequestStatuses, Quantities,
   NoLines

(* Type correctness of the issue workflow.                                 *)
THEOREM TypeCorrect == Spec => []TypeOK
<1>1. Typed => TypeOK
  BY DEF Typed
<1> QED BY <1>1, InitTyped, NextTyped, PTL DEF Spec

-----------------------------------------------------------------------------
(* The inductive invariant behind the two quantity invariants.  A call     *)
(* that passed the checks still has, at its commit, what it checked:       *)
(* nobody else holds its locks, and only a holder of all of them writes    *)
(* what it read.                                                           *)

(* Row and advisory locks are exclusive.                                   *)
LocksExclusive ==
  \A v, w \in Workers :
    /\ \A i \in Issues : HoldsIssue(v, i) /\ HoldsIssue(w, i) => v = w
    /\ HoldsStore(v) /\ HoldsStore(w) => v = w
    /\ HoldsStock(v) /\ HoldsStock(w) => v = w

(* A locked issue keeps the status under which it was locked.              *)
LockedStatus ==
  \A w \in Workers, i \in Issues :
    HoldsIssue(w, i) =>
      IF call[w].op = "SUBMIT" THEN issue[i].status \in Editable
                               ELSE issue[i].status = "PENDING_VERIFICATION"

(* A dispatch still fits its request, the goods allotted to an issue add   *)
(* up to its lines, and none of them has left the store.                   *)
StillFits(i, a) ==
  /\ issue[i].request # None => FitsRequest(issue[i].request, issue[i].qty)
  /\ \A k \in Items : Total(a[k]) = issue[i].qty[k]
  /\ \A k \in Items, d \in Rates :
       quantityOut[k][d] + a[k][d] <= quantityIn[k][d] + taken[k][d]

(* What was checked under the locks still holds.                           *)
CheckedStillFits ==
  \A w \in Workers : call[w].pc = "stockChecked" => StillFits(call[w].issue, call[w].allotted)

Inv ==
  /\ Typed
  /\ LocksExclusive
  /\ LockedStatus
  /\ CheckedStillFits
  /\ NoOverIssue
  /\ GoodsLeaveOnce

(* The first state satisfies the invariant.                                *)
LEMMA InitInv == Init => Inv
<1> SUFFICES ASSUME Init PROVE Inv
  OBVIOUS
<1>1. \A w \in Workers : call[w] = Idle
  BY DEF Init
<1>2. LocksExclusive /\ LockedStatus /\ CheckedStillFits
  BY <1>1 DEF LocksExclusive, LockedStatus, CheckedStillFits, HoldsIssue, HoldsStore,
     HoldsStock, Idle
<1>3. NoOverIssue /\ GoodsLeaveOnce
  BY ConstantsAssumption DEF Init, NoOverIssue, GoodsLeaveOnce, NoLines, NoGoods, Quantities
<1> QED BY <1>2, <1>3, InitTyped DEF Inv

(* Ending a call, with nothing else changed, keeps the invariant.          *)
LEMMA RefuseInv ==
  ASSUME Inv, NEW w \in Workers, Refuse(w), UNCHANGED <<maker, checker>>
  PROVE  Inv'
<1>1. Typed'
  BY RefuseTyped DEF Inv
<1>2. \A v \in Workers : call'[v] = IF v = w THEN Idle ELSE call[v]
  BY DEF Inv, Typed, TypeOK, Refuse, Finish
<1>3. LocksExclusive' /\ LockedStatus' /\ CheckedStillFits'
  BY <1>2 DEF Inv, LocksExclusive, LockedStatus, CheckedStillFits, HoldsIssue, HoldsStore,
     HoldsStock, Idle, Refuse, StillFits, FitsRequest, Outstanding, ledger
<1>4. NoOverIssue' /\ GoodsLeaveOnce'
  BY DEF Inv, NoOverIssue, GoodsLeaveOnce, Refuse, ledger
<1> QED BY <1>1, <1>3, <1>4 DEF Inv

(* A new call holds at most the issue lock, which was free.                *)
LEMMA StartInv ==
  ASSUME Inv, NEW w \in Workers, Start(w)
  PROVE  Inv'
<1>1. Typed'
  BY StartTyped DEF Inv
<1>2. UNCHANGED <<request, issue, issued, ledger, maker, checker>> /\ call[w].pc = "idle"
  BY DEF Start, CreateCheck, UpdateRead, LockIssue
<1>3. \A v \in Workers : v # w => call'[v] = call[v]
  BY DEF Start, CreateCheck, UpdateRead, LockIssue, Inv, Typed, TypeOK
<1>4. \/ call'[w].pc = "checked"
      \/ /\ call'[w].pc = "issueLocked"
         /\ call'[w].issue \in Issues /\ IssueFree(call'[w].issue)
         /\ IF call'[w].op = "SUBMIT" THEN issue[call'[w].issue].status \in Editable
            ELSE issue[call'[w].issue].status = "PENDING_VERIFICATION"
  <2>1. CASE \E u \in Users, r \in Requests \cup {None}, q \in Lines : CreateCheck(w, u, r, q)
    BY <2>1 DEF CreateCheck, Inv, Typed, TypeOK, Idle
  <2>2. CASE \E u \in Users, i \in Issues, q \in Lines :
               \E expected \in 1 .. issue[i].version : UpdateRead(w, u, i, expected, q)
    BY <2>2 DEF UpdateRead, Inv, Typed, TypeOK, Idle
  <2>3. CASE \E u \in Users, i \in Issues, op \in {"SUBMIT", "VERIFY", "RETURN", "REJECT"} :
               LockIssue(w, u, i, op)
    <3>1. PICK u \in Users, i \in Issues, op \in {"SUBMIT", "VERIFY", "RETURN", "REJECT"} :
               LockIssue(w, u, i, op)
      BY <2>3
    <3>2. call'[w].pc = "issueLocked" /\ call'[w].issue = i /\ call'[w].op = op
      BY <3>1 DEF LockIssue, Inv, Typed, TypeOK, Idle
    <3> QED BY <3>1, <3>2 DEF LockIssue
  <2> QED BY <2>1, <2>2, <2>3 DEF Start
<1>5. LocksExclusive'
  BY <1>2, <1>3, <1>4 DEF Inv, LocksExclusive, HoldsIssue, HoldsStore, HoldsStock, IssueFree
<1>6. LockedStatus'
  BY <1>2, <1>3, <1>4 DEF Inv, LockedStatus, HoldsIssue
<1>7. CheckedStillFits'
  BY <1>2, <1>3, <1>4 DEF Inv, CheckedStillFits, StillFits, FitsRequest, Outstanding, ledger
<1>8. NoOverIssue' /\ GoodsLeaveOnce'
  BY <1>2 DEF Inv, NoOverIssue, GoodsLeaveOnce, ledger
<1> QED BY <1>1, <1>5, <1>6, <1>7, <1>8 DEF Inv

(* A commit that writes one issue row, which no other call has locked, and *)
(* leaves the request of the issue alone, keeps the invariant.             *)
LEMMA WriteIssueInv ==
  ASSUME Inv, Typed', NEW w \in Workers, NEW i \in Issues, Finish(w),
         \A v \in Workers : HoldsIssue(v, i) => v = w,
         \A j \in Issues : j # i => issue'[j] = issue[j],
         UNCHANGED <<request, issued, ledger>>
  PROVE  Inv'
<1>1. \A v \in Workers : call'[v] = IF v = w THEN Idle ELSE call[v]
  BY DEF Inv, Typed, TypeOK, Finish
<1>2. \A v \in Workers, j \in Issues :
        HoldsIssue(v, j)' => HoldsIssue(v, j) /\ v # w /\ j # i
  BY <1>1 DEF HoldsIssue, Idle
<1>3. \A v \in Workers : HoldsStock(v)' \/ HoldsStore(v)' =>
        /\ v # w /\ call'[v] = call[v]
        /\ call[v].issue \in Issues /\ call[v].issue # i
  <2> SUFFICES ASSUME NEW v \in Workers, HoldsStock(v)' \/ HoldsStore(v)'
               PROVE  /\ v # w /\ call'[v] = call[v]
                      /\ call[v].issue \in Issues /\ call[v].issue # i
    OBVIOUS
  <2>1. /\ v # w /\ call'[v] = call[v]
        /\ call[v].pc \in {"verifierChecked", "stockLocked", "stockChecked"}
    BY <1>1 DEF HoldsStock, HoldsStore, Idle
  <2>2. call[v].issue \in Issues
    BY <2>1 DEF Inv, Typed, WellFormed
  <2>3. HoldsIssue(v, call[v].issue)
    BY <2>1 DEF HoldsIssue
  <2> QED BY <2>1, <2>2, <2>3
<1>4. LocksExclusive'
  <2>1. \A v \in Workers : (HoldsStore(v)' => HoldsStore(v)) /\ (HoldsStock(v)' => HoldsStock(v))
    BY <1>3 DEF HoldsStore, HoldsStock
  <2> QED BY <1>2, <2>1 DEF Inv, LocksExclusive
<1>5. LockedStatus'
  BY <1>1, <1>2 DEF Inv, LockedStatus
<1>6. CheckedStillFits'
  BY <1>3 DEF Inv, CheckedStillFits, HoldsStock, StillFits, FitsRequest, Outstanding, ledger
<1>7. NoOverIssue' /\ GoodsLeaveOnce'
  BY DEF Inv, NoOverIssue, GoodsLeaveOnce, ledger
<1> QED BY <1>4, <1>5, <1>6, <1>7 DEF Inv

(* A step of a call under way keeps the invariant.                         *)
LEMMA AdvanceInv ==
  ASSUME Inv, NEW w \in Workers, Advance(w)
  PROVE  Inv'
<1> DEFINE c == call[w]
<1>t. Typed'
  BY AdvanceTyped DEF Inv
<1>c. c \in Calls /\ WellFormed(c)
  BY DEF Inv, Typed, TypeOK
<1>h. ASSUME c.pc = "issueLocked"
      PROVE  /\ c.issue \in Issues
             /\ \A v \in Workers : HoldsIssue(v, c.issue) => v = w
  <2>1. c.issue \in Issues /\ HoldsIssue(w, c.issue)
    BY <1>h, <1>c DEF WellFormed, HoldsIssue
  <2> QED BY <2>1 DEF Inv, LocksExclusive
<1>0. CASE Refuse(w) /\ UNCHANGED <<maker, checker>>
  BY <1>0, RefuseInv
<1>1. CASE CreateCommit(w) /\ ~Refuse(w)
  <2>1. PICK i \in Issues : /\ issue[i].status = "ABSENT"
                            /\ issue' = [issue EXCEPT ![i] = NewIssue(c)]
    BY <1>1 DEF CreateCommit
  <2>2. \A v \in Workers : ~HoldsIssue(v, i)
    BY <2>1 DEF Inv, LockedStatus, Editable
  <2>3. \A j \in Issues : j # i => issue'[j] = issue[j]
    BY <2>1 DEF Inv, Typed, TypeOK
  <2> QED BY <1>1, <1>t, <2>2, <2>3, WriteIssueInv DEF CreateCommit
<1>2. CASE UpdateCommit(w) /\ ~Refuse(w)
  <2>1. c.issue \in Issues
    BY <1>2, <1>c DEF UpdateCommit, WellFormed
  <2>2. \A v \in Workers : ~HoldsIssue(v, c.issue)
    BY <1>2 DEF UpdateCommit, IssueFree
  <2>3. \A j \in Issues : j # c.issue => issue'[j] = issue[j]
    BY <1>2 DEF UpdateCommit, Inv, Typed, TypeOK
  <2> QED BY <1>2, <1>t, <2>1, <2>2, <2>3, WriteIssueInv DEF UpdateCommit
<1>3. CASE (Submit(w) \/ Conclude(w)) /\ ~Refuse(w)
  <2>1. c.pc = "issueLocked"
    BY <1>3, <1>c DEF Submit, Conclude, WellFormed, Calls
  <2>2. \A j \in Issues : j # c.issue => issue'[j] = issue[j]
    BY <1>3 DEF Submit, Conclude, Inv, Typed, TypeOK
  <2>3. Finish(w) /\ UNCHANGED <<request, issued, ledger>>
    BY <1>3 DEF Submit, Conclude
  <2> QED BY <1>t, <1>h, <2>1, <2>2, <2>3, WriteIssueInv
<1>4. CASE LockRequest(w) /\ ~Refuse(w)
  <2>1. /\ c.pc = "issueLocked" /\ c.op = "VERIFY"
        /\ issue[c.issue].request # None => StoreFree
        /\ call' = [call EXCEPT ![w] = [c EXCEPT !.pc = "verifierChecked"]]
        /\ UNCHANGED <<request, issue, issued, ledger>>
    BY <1>4 DEF LockRequest
  <2>2. \A v \in Workers : /\ v # w => call'[v] = call[v]
                           /\ call'[w].pc = "verifierChecked"
                           /\ call'[w].issue = c.issue /\ call'[w].op = c.op
    BY <2>1, <1>c DEF Inv, Typed, TypeOK, Calls
  <2>3. \A v \in Workers, i \in Issues : HoldsIssue(v, i)' => HoldsIssue(v, i)
    BY <2>1, <2>2 DEF HoldsIssue
  <2>4. \A u, v \in Workers : /\ HoldsStore(u)' /\ HoldsStore(v)' => u = v
                              /\ HoldsStock(v)' => HoldsStock(v) /\ v # w
    BY <2>1, <2>2 DEF HoldsStore, HoldsStock, StoreFree, Inv, LocksExclusive
  <2>5. LocksExclusive'
    <3> SUFFICES ASSUME NEW u \in Workers, NEW v \in Workers
                 PROVE  /\ \A i \in Issues : HoldsIssue(u, i)' /\ HoldsIssue(v, i)' => u = v
                        /\ HoldsStore(u)' /\ HoldsStore(v)' => u = v
                        /\ HoldsStock(u)' /\ HoldsStock(v)' => u = v
      BY DEF LocksExclusive
    <3>1. \A i \in Issues : HoldsIssue(u, i)' /\ HoldsIssue(v, i)' => u = v
      BY <2>3 DEF Inv, LocksExclusive
    <3>2. HoldsStore(u)' /\ HoldsStore(v)' => u = v
      BY <2>4 DEF Inv, LocksExclusive
    <3>3. HoldsStock(u)' /\ HoldsStock(v)' => u = v
      BY <2>4 DEF Inv, LocksExclusive
    <3> QED BY <3>1, <3>2, <3>3
  <2>6. LockedStatus'
    BY <2>1, <2>2, <2>3 DEF Inv, LockedStatus
  <2>7. CheckedStillFits'
    <3> SUFFICES ASSUME NEW v \in Workers, call'[v].pc = "stockChecked"
                 PROVE  StillFits(call[v].issue, call[v].allotted)'
      BY DEF CheckedStillFits
    <3>1. StillFits(call[v].issue, call[v].allotted) /\ call'[v] = call[v]
      BY <2>2 DEF Inv, CheckedStillFits
    <3> QED BY <2>1, <3>1 DEF StillFits, FitsRequest, Outstanding, ledger
  <2> QED BY <1>t, <2>1, <2>5, <2>6, <2>7 DEF Inv, NoOverIssue, GoodsLeaveOnce, ledger
<1>5. CASE LockStock(w)
  <2>1. /\ c.pc = "verifierChecked" /\ StockFree
        /\ UNCHANGED <<request, issue, issued, ledger>>
    BY <1>5 DEF LockStock
  <2>2. \A v \in Workers : /\ v # w => call'[v] = call[v]
                           /\ call'[w].pc = "stockLocked"
                           /\ call'[w].issue = c.issue /\ call'[w].op = c.op
    BY <1>5, <1>c DEF LockStock, Inv, Typed, TypeOK, Calls
  <2>3. \A v \in Workers, i \in Issues : HoldsIssue(v, i)' => HoldsIssue(v, i)
    BY <2>1, <2>2 DEF HoldsIssue
  <2>4. \A v \in Workers : /\ HoldsStore(v)' => HoldsStore(v)
                           /\ HoldsStock(v)' => v = w
    BY <2>1, <2>2 DEF HoldsStore, HoldsStock, StockFree
  <2>5. LocksExclusive'
    <3> SUFFICES ASSUME NEW u \in Workers, NEW v \in Workers
                 PROVE  /\ \A i \in Issues : HoldsIssue(u, i)' /\ HoldsIssue(v, i)' => u = v
                        /\ HoldsStore(u)' /\ HoldsStore(v)' => u = v
                        /\ HoldsStock(u)' /\ HoldsStock(v)' => u = v
      BY DEF LocksExclusive
    <3>1. \A i \in Issues : HoldsIssue(u, i)' /\ HoldsIssue(v, i)' => u = v
      BY <2>3 DEF Inv, LocksExclusive
    <3>2. HoldsStore(u)' /\ HoldsStore(v)' => u = v
      BY <2>4 DEF Inv, LocksExclusive
    <3>3. HoldsStock(u)' /\ HoldsStock(v)' => u = v
      BY <2>4 DEF Inv, LocksExclusive
    <3> QED BY <3>1, <3>2, <3>3
  <2>6. LockedStatus'
    BY <2>1, <2>2, <2>3 DEF Inv, LockedStatus
  <2>7. CheckedStillFits'
    <3> SUFFICES ASSUME NEW v \in Workers, call'[v].pc = "stockChecked"
                 PROVE  StillFits(call[v].issue, call[v].allotted)'
      BY DEF CheckedStillFits
    <3>1. StillFits(call[v].issue, call[v].allotted) /\ call'[v] = call[v]
      BY <2>2 DEF Inv, CheckedStillFits
    <3> QED BY <2>1, <3>1 DEF StillFits, FitsRequest, Outstanding, ledger
  <2> QED BY <1>t, <2>1, <2>5, <2>6, <2>7 DEF Inv, NoOverIssue, GoodsLeaveOnce, ledger
<1>7. CASE CheckStock(w) /\ ~Refuse(w)
  <2>1. /\ c.pc = "stockLocked" /\ DispatchFits(c.issue)
        /\ UNCHANGED <<request, issue, issued, ledger>>
    BY <1>7 DEF CheckStock
  <2>0. PICK a \in Allotments(issue[c.issue].qty) :
          call' = [call EXCEPT ![w] = [c EXCEPT !.pc = "stockChecked", !.allotted = a]]
    BY <1>7 DEF CheckStock
  <2>2. \A v \in Workers : /\ v # w => call'[v] = call[v]
                           /\ call'[w].pc = "stockChecked" /\ call'[w].allotted = a
                           /\ call'[w].issue = c.issue /\ call'[w].op = c.op
    BY <2>0, <1>c DEF Inv, Typed, TypeOK, Calls
  <2>3. \A v \in Workers, i \in Issues : HoldsIssue(v, i)' => HoldsIssue(v, i)
    BY <2>1, <2>2 DEF HoldsIssue
  <2>4. \A v \in Workers : /\ HoldsStore(v)' => HoldsStore(v)
                           /\ HoldsStock(v)' => HoldsStock(v)
    BY <2>1, <2>2 DEF HoldsStore, HoldsStock
  <2>5. LocksExclusive'
    <3> SUFFICES ASSUME NEW u \in Workers, NEW v \in Workers
                 PROVE  /\ \A i \in Issues : HoldsIssue(u, i)' /\ HoldsIssue(v, i)' => u = v
                        /\ HoldsStore(u)' /\ HoldsStore(v)' => u = v
                        /\ HoldsStock(u)' /\ HoldsStock(v)' => u = v
      BY DEF LocksExclusive
    <3>1. \A i \in Issues : HoldsIssue(u, i)' /\ HoldsIssue(v, i)' => u = v
      BY <2>3 DEF Inv, LocksExclusive
    <3>2. HoldsStore(u)' /\ HoldsStore(v)' => u = v
      BY <2>4 DEF Inv, LocksExclusive
    <3>3. HoldsStock(u)' /\ HoldsStock(v)' => u = v
      BY <2>4 DEF Inv, LocksExclusive
    <3> QED BY <3>1, <3>2, <3>3
  <2>6. LockedStatus'
    BY <2>1, <2>2, <2>3 DEF Inv, LockedStatus
  <2>7. CheckedStillFits'
    <3> SUFFICES ASSUME NEW v \in Workers, call'[v].pc = "stockChecked"
                 PROVE  StillFits(call[v].issue, call[v].allotted)'
      BY DEF CheckedStillFits
    <3>1. CASE v # w
      <4>1. StillFits(call[v].issue, call[v].allotted) /\ call'[v] = call[v]
        BY <2>2, <3>1 DEF Inv, CheckedStillFits
      <4> QED BY <2>1, <4>1 DEF StillFits, FitsRequest, Outstanding, ledger
    <3>2. CASE v = w
      <4>1. /\ issue[c.issue].request # None => FitsRequest(issue[c.issue].request, issue[c.issue].qty)
            /\ \A k \in Items : Total(a[k]) = issue[c.issue].qty[k]
        BY <2>0, <2>1 DEF DispatchFits, Allotments
      <4>2. ASSUME NEW k \in Items, NEW d \in Rates
            PROVE  quantityOut[k][d] + a[k][d] <= quantityIn[k][d] + taken[k][d]
        <5>1. /\ quantityIn[k][d] \in Nat /\ quantityOut[k][d] \in Nat /\ taken[k][d] \in Nat
              /\ quantityOut[k][d] <= quantityIn[k][d] + taken[k][d]
          BY DEF Inv, Typed, TypeOK, Goods, GoodsLeaveOnce
        <5>2. a[k][d] \in Nat /\ (a[k][d] > 0 => a[k][d] <= quantityIn[k][d] - quantityOut[k][d])
          BY DEF Allotments, Layer
        <5> QED BY <5>1, <5>2
      <4>3. StillFits(c.issue, a)
        BY <4>1, <4>2 DEF StillFits
      <4> QED BY <2>1, <2>2, <3>2, <4>3 DEF StillFits, FitsRequest, Outstanding, ledger
    <3> QED BY <3>1, <3>2
  <2> QED BY <1>t, <2>1, <2>5, <2>6, <2>7 DEF Inv, NoOverIssue, GoodsLeaveOnce, ledger
<1>6. CASE Post(w)
  <2> DEFINE i == c.issue
             r == issue[i].request
             q == issue[i].qty
  <2>1. /\ i \in Issues /\ r \in Requests \cup {None} /\ q \in Quantities
        /\ HoldsStock(w) /\ HoldsIssue(w, i)
    <3>1. c.pc = "stockChecked"
      BY <1>6 DEF Post
    <3>2. i \in Issues
      BY <1>c, <3>1 DEF WellFormed
    <3> QED BY <3>1, <3>2 DEF HoldsStock, HoldsIssue, Inv, Typed, TypeOK, IssueRecords
  <2>0. c.pc = "stockChecked"
    BY <1>6 DEF Post
  <2>2. \A v \in Workers : call'[v] = IF v = w THEN Idle ELSE call[v]
    BY <1>6 DEF Post, Inv, Typed, TypeOK, Finish
  <2>3. \A j \in Issues : issue'[j].request = issue[j].request /\ (j # i => issue'[j] = issue[j])
    BY <1>6, <2>1 DEF Post, Inv, Typed, TypeOK, IssueRecords
  <2>4. \A v \in Workers, j \in Issues : HoldsIssue(v, j)' => HoldsIssue(v, j) /\ v # w /\ j # i
    BY <2>1, <2>2 DEF HoldsIssue, Idle, Inv, LocksExclusive
  <2>5. \A v \in Workers : ~HoldsStock(v)'
    BY <2>1, <2>2 DEF HoldsStock, Idle, Inv, LocksExclusive
  <2>6. \A v \in Workers : HoldsStore(v)' => HoldsStore(v)
    <3> SUFFICES ASSUME NEW v \in Workers, HoldsStore(v)' PROVE HoldsStore(v)
      OBVIOUS
    <3>1. /\ v # w /\ call'[v] = call[v]
          /\ call[v].pc \in {"verifierChecked", "stockLocked", "stockChecked"}
      BY <2>2 DEF HoldsStore, Idle
    <3>2. call[v].issue \in Issues
      BY <3>1 DEF Inv, Typed, WellFormed
    <3> QED BY <2>3, <3>1, <3>2 DEF HoldsStore
  <2>7. LocksExclusive'
    BY <2>4, <2>5, <2>6 DEF Inv, LocksExclusive
  <2>8. LockedStatus'
    BY <2>2, <2>3, <2>4 DEF Inv, LockedStatus
  <2>9. CheckedStillFits'
    BY <2>5 DEF CheckedStillFits, HoldsStock
  <2>10. StillFits(i, c.allotted) /\ c.allotted \in Goods
    BY <2>0, <1>c DEF Inv, CheckedStillFits, Calls
  <2>11. GoodsLeaveOnce'
    <3> SUFFICES ASSUME NEW k \in Items, NEW d \in Rates
                 PROVE  quantityOut'[k][d] <= quantityIn'[k][d] + taken'[k][d]
      BY DEF GoodsLeaveOnce
    <3>1. /\ quantityOut'[k][d] = quantityOut[k][d] + c.allotted[k][d]
          /\ UNCHANGED <<quantityIn, taken>>
      BY <1>6 DEF Post
    <3> QED BY <2>10, <3>1 DEF StillFits
  <2>12. NoOverIssue'
    <3>1. CASE r = None
      BY <1>6, <3>1 DEF Post, Inv, NoOverIssue
    <3>2. CASE r # None
      <4>1. /\ r \in Requests /\ issued' = [issued EXCEPT ![r] = PostedWith(r, i)]
            /\ \A k \in Items : q[k] > 0 => q[k] <= Requested[r][k] - issued[r][k]
        BY <1>6, <2>1, <2>10, <3>2 DEF Post, StillFits, FitsRequest, Outstanding
      <4>2. \A k \in Items : /\ issued[r][k] \in Nat /\ q[k] \in Nat
                             /\ Requested[r][k] \in Nat /\ issued[r][k] <= Requested[r][k]
        <5>1. issued[r] \in Quantities /\ Requested[r] \in Quantities
          BY <4>1, ConstantsAssumption DEF Inv, Typed, TypeOK
        <5> QED BY <2>1, <4>1, <5>1 DEF Quantities, Inv, NoOverIssue
      <4>3. \A k \in Items : PostedWith(r, i)[k] <= Requested[r][k]
        BY <4>1, <4>2 DEF PostedWith
      <4> QED BY <4>1, <4>3 DEF Inv, Typed, TypeOK, NoOverIssue
    <3> QED BY <3>1, <3>2
  <2> QED BY <1>t, <2>7, <2>8, <2>9, <2>11, <2>12 DEF Inv
<1> QED BY <1>0, <1>1, <1>2, <1>3, <1>4, <1>5, <1>6, <1>7
     DEF Advance, CreateCommit, UpdateCommit, Submit, Conclude, LockRequest, CheckStock

(* Goods that came in have come in, also when a purchase takes them back.  *)
LEMMA CameOnlyGrows ==
  ASSUME Typed, NEW k \in Items, NEW d \in Rates, StockIn(k, d) \/ TakeBack(k, d)
  PROVE  \A j \in Items, e \in Rates :
           quantityIn[j][e] + taken[j][e] <= quantityIn'[j][e] + taken'[j][e]
<1> SUFFICES ASSUME NEW j \in Items, NEW e \in Rates
             PROVE  quantityIn[j][e] + taken[j][e] <= quantityIn'[j][e] + taken'[j][e]
  OBVIOUS
<1>1. /\ quantityIn \in [Items -> [Rates -> Nat]] /\ taken \in [Items -> [Rates -> Nat]]
      /\ quantityIn[j][e] \in Nat /\ taken[j][e] \in Nat
  BY DEF Typed, TypeOK, Goods
<1>2. CASE StockIn(k, d)
  <2>1. quantityIn'[j][e] \in {quantityIn[j][e], quantityIn[j][e] + 1} /\ taken' = taken
    BY <1>1, <1>2 DEF StockIn
  <2> QED BY <1>1, <2>1
<1>3. CASE TakeBack(k, d)
  <2>1. quantityIn'[j][e] + taken'[j][e] = quantityIn[j][e] + taken[j][e]
    <3>1. CASE j = k /\ e = d
      <4>1. quantityIn'[j][e] = quantityIn[j][e] - 1 /\ taken'[j][e] = taken[j][e] + 1
        BY <1>1, <1>3, <3>1 DEF TakeBack
      <4> QED BY <1>1, <4>1
    <3>2. CASE ~(j = k /\ e = d)
      <4>1. quantityIn'[j][e] = quantityIn[j][e] /\ taken'[j][e] = taken[j][e]
        BY <1>1, <1>3, <3>2 DEF TakeBack
      <4> QED BY <4>1
    <3> QED BY <3>1, <3>2
  <2> QED BY <1>1, <2>1
<1> QED BY <1>2, <1>3

(* Every step keeps the invariant.                                         *)
LEMMA NextInv == Inv /\ [Next]_vars => Inv'
<1> SUFFICES ASSUME Inv, [Next]_vars PROVE Inv'
  OBVIOUS
<1>t. Typed'
  BY NextTyped DEF Inv
<1>1. ASSUME NEW w \in Workers, Start(w) PROVE Inv'
  BY <1>1, StartInv
<1>2. ASSUME NEW w \in Workers, Advance(w) PROVE Inv'
  BY <1>2, AdvanceInv
<1>3. ASSUME NEW w \in Workers, Abort(w) \/ BreakDeadlock(w) PROVE Inv'
  BY <1>3, RefuseInv DEF Abort, BreakDeadlock
<1>4. CASE (\E a \in Assignments : Assign(a)) \/ UNCHANGED vars
  <2>1. UNCHANGED <<request, issue, issued, ledger, call>>
    BY <1>4 DEF Assign, vars, ledger
  <2> QED BY <1>t, <2>1 DEF Inv, LocksExclusive, LockedStatus, CheckedStillFits, NoOverIssue,
          GoodsLeaveOnce, HoldsIssue, HoldsStore, HoldsStock, StillFits, FitsRequest,
          Outstanding, ledger
<1>5. ASSUME NEW k \in Items, NEW d \in Rates, StockIn(k, d) \/ TakeBack(k, d) PROVE Inv'
  <2>1. UNCHANGED <<request, issue, issued, quantityOut, call>>
    BY <1>5 DEF StockIn, TakeBack
  <2>2. \A j \in Items, e \in Rates :
          quantityIn[j][e] + taken[j][e] <= quantityIn'[j][e] + taken'[j][e]
    BY <1>5, CameOnlyGrows DEF Inv
  <2>3. LocksExclusive' /\ LockedStatus' /\ NoOverIssue'
    BY <2>1 DEF Inv, LocksExclusive, LockedStatus, NoOverIssue, HoldsIssue, HoldsStore, HoldsStock
  <2>t. \A j \in Items, e \in Rates :
          /\ quantityOut[j][e] \in Nat
          /\ quantityIn[j][e] + taken[j][e] \in Nat /\ quantityIn'[j][e] + taken'[j][e] \in Nat
    BY <1>t DEF Inv, Typed, TypeOK, Goods
  <2>4. CheckedStillFits'
    <3> SUFFICES ASSUME NEW w \in Workers, call[w].pc = "stockChecked"
                 PROVE  StillFits(call[w].issue, call[w].allotted)'
      BY <2>1 DEF CheckedStillFits
    <3>1. StillFits(call[w].issue, call[w].allotted) /\ call[w].allotted \in Goods
      BY DEF Inv, CheckedStillFits, Typed, TypeOK, Calls
    <3>2. ASSUME NEW j \in Items, NEW e \in Rates
          PROVE  quantityOut[j][e] + call[w].allotted[j][e] <= quantityIn'[j][e] + taken'[j][e]
      <4>1. /\ call[w].allotted[j][e] \in Nat
            /\ quantityOut[j][e] + call[w].allotted[j][e] <= quantityIn[j][e] + taken[j][e]
        BY <3>1 DEF StillFits, Goods
      <4> QED BY <2>2, <2>t, <4>1
    <3> QED BY <2>1, <3>1, <3>2 DEF StillFits, FitsRequest, Outstanding
  <2>5. GoodsLeaveOnce'
    BY <2>1, <2>2, <2>t DEF Inv, GoodsLeaveOnce
  <2> QED BY <1>t, <2>3, <2>4, <2>5 DEF Inv
<1> QED BY <1>1, <1>2, <1>3, <1>4, <1>5 DEF Next

(* The invariant holds in every state.                                     *)
LEMMA InvHolds == Spec => []Inv
BY InitInv, NextInv, PTL DEF Spec

(* No line of a request is ever issued beyond the quantity requested.      *)
THEOREM NeverOverIssued == Spec => []NoOverIssue
<1>1. Inv => NoOverIssue
  BY DEF Inv
<1> QED BY <1>1, InvHolds, PTL

(* Goods leave the store once, whatever calls and purchases overlap: of no *)
(* item at no rate more than ever came in (allocateFifoCost).              *)
THEOREM GoodsLeaveOnlyOnce == Spec => []GoodsLeaveOnce
<1>1. Inv => GoodsLeaveOnce
  BY DEF Inv
<1> QED BY <1>1, InvHolds, PTL
-----------------------------------------------------------------------------
(* The steps of the handlers map to steps of Supply, or to stutters: only a*)
(* commit moves goods, and what it checked still fits.                     *)
Came == [k \in Items |-> [d \in Rates |-> quantityIn[k][d] + taken[k][d]]]

PromiseVars == <<issued, Came, quantityOut>>

LEMMA PostPromised ==
  ASSUME Inv, NEW w \in Workers, Post(w)
  PROVE  Promise!Next
<1> DEFINE i == call[w].issue
           r == issue[i].request
           q == issue[i].qty
           a == call[w].allotted
<1>1. /\ i \in Issues /\ r \in Requests \cup {None} /\ q \in Quantities
      /\ a \in Goods /\ StillFits(i, a)
  <2>1. call[w].pc = "stockChecked" /\ i \in Issues /\ call[w] \in Calls
    BY DEF Post, Inv, Typed, TypeOK, WellFormed
  <2> QED BY <2>1 DEF Inv, Typed, TypeOK, IssueRecords, CheckedStillFits, Calls
<1>2. ASSUME NEW k \in Items, NEW d \in Rates
      PROVE  /\ quantityOut'[k][d] = quantityOut[k][d] + a[k][d]
             /\ a[k][d] \in Nat /\ quantityOut[k][d] \in Nat
             /\ quantityOut[k][d] + a[k][d] <= quantityIn[k][d] + taken[k][d]
  BY <1>1 DEF Post, StillFits, Goods, Inv, Typed, TypeOK
<1>3. Promise!Leave
  <2>1. UNCHANGED <<quantityIn, taken>>
    BY DEF Post
  <2>2. \A k \in Items, d \in Rates :
          /\ quantityOut[k][d] <= quantityOut'[k][d]
          /\ quantityOut'[k][d] <= quantityIn[k][d] + taken[k][d]
    BY <1>2
  <2> QED BY <2>1, <2>2 DEF Promise!Leave
<1>4. ASSUME NEW k \in Items PROVE Promise!Leaving(k) = q[k]
  <2>1. [d \in Rates |-> quantityOut'[k][d] - quantityOut[k][d]] = a[k]
    <3>1. a[k] \in [Rates -> Nat]
      BY <1>1 DEF Goods
    <3>2. \A d \in Rates : quantityOut'[k][d] - quantityOut[k][d] = a[k][d]
      BY <1>2
    <3> QED BY <3>1, <3>2
  <2>2. Total(a[k]) = q[k]
    BY <1>1 DEF StillFits
  <2>3. Promise!Leaving(k) = Total([d \in Rates |-> quantityOut'[k][d] - quantityOut[k][d]])
    BY DEF Promise!Leaving, Total, FoldFunction, FoldFunctionOnSet, MapThenFoldSet,
       Promise!FoldFunction, Promise!FoldFunctionOnSet, Promise!MapThenFoldSet
  <2> HIDE DEF a, q
  <2> QED BY <2>1, <2>2, <2>3
<1>5. CASE r = None
  <2>1. UNCHANGED issued
    BY <1>5 DEF Post
  <2> QED BY <1>3, <2>1 DEF Promise!Next, Promise!Consume
<1>6. CASE r # None
  <2>1. r \in Requests /\ issued' = [issued EXCEPT ![r] = PostedWith(r, i)]
    BY <1>1, <1>6 DEF Post
  <2>2. issued \in [Requests -> Quantities] /\ Requested[r] \in Quantities
    BY <2>1, ConstantsAssumption DEF Inv, Typed, TypeOK
  <2>3. /\ issued'[r] = PostedWith(r, i)
        /\ \A s \in Requests \ {r} : issued'[s] = issued[s]
    BY <2>1, <2>2
  <2>4. ASSUME NEW k \in Items
        PROVE  /\ issued'[r][k] = issued[r][k] + q[k]
               /\ issued'[r][k] <= Requested[r][k]
    <3>1. q[k] \in Nat /\ issued[r][k] \in Nat /\ Requested[r][k] \in Nat
      BY <1>1, <2>1, <2>2 DEF Quantities
    <3>2. issued[r][k] <= Requested[r][k]
      BY <2>1 DEF Inv, NoOverIssue
    <3>3. q[k] > 0 => q[k] <= Requested[r][k] - issued[r][k]
      BY <1>1, <1>6 DEF StillFits, FitsRequest, Outstanding
    <3>4. issued'[r][k] = issued[r][k] + q[k]
      BY <2>3 DEF PostedWith
    <3> QED BY <3>1, <3>2, <3>3, <3>4
  <2>5. Promise!Deliver(r)
    BY <1>3, <1>4, <2>3, <2>4 DEF Promise!Deliver
  <2> QED BY <2>1, <2>5 DEF Promise!Next
<1> QED BY <1>5, <1>6

(* Goods that come in are a step of Supply; goods taken back are none.     *)
LEMMA PurchasePromised ==
  ASSUME Inv, NEW k \in Items, NEW d \in Rates, StockIn(k, d) \/ TakeBack(k, d)
  PROVE  Promise!Next
<1>1. \A j \in Items, e \in Rates :
        quantityIn[j][e] + taken[j][e] <= quantityIn'[j][e] + taken'[j][e]
  BY CameOnlyGrows DEF Inv
<1>2. UNCHANGED <<issued, quantityOut>>
  BY DEF StockIn, TakeBack
<1> QED BY <1>1, <1>2 DEF Promise!Next, Promise!Receive

(* Every step is a step of Supply or changes nothing of it.                *)
LEMMA NextPromised ==
  Inv /\ [Next]_vars => [Promise!Next]_PromiseVars
<1> SUFFICES ASSUME Inv, [Next]_vars
             PROVE  Promise!Next \/ UNCHANGED PromiseVars
  OBVIOUS
<1>0. ASSUME UNCHANGED <<issued, ledger>> PROVE UNCHANGED PromiseVars
  BY <1>0 DEF PromiseVars, Came, ledger
<1>1. ASSUME NEW w \in Workers, Start(w) PROVE UNCHANGED <<issued, ledger>>
  BY <1>1 DEF Start, CreateCheck, UpdateRead, LockIssue
<1>2. ASSUME NEW w \in Workers, Advance(w), ~Post(w)
      PROVE  UNCHANGED <<issued, ledger>>
  BY <1>2 DEF Advance, CreateCommit, UpdateCommit, Submit, Conclude, LockRequest,
     LockStock, CheckStock, Refuse
<1>3. ASSUME NEW w \in Workers, Post(w) PROVE Promise!Next
  BY <1>3, PostPromised
<1>4. ASSUME NEW w \in Workers, Abort(w) \/ BreakDeadlock(w)
      PROVE  UNCHANGED <<issued, ledger>>
  BY <1>4 DEF Abort, BreakDeadlock, Refuse
<1>5. ASSUME NEW a \in Assignments, Assign(a) PROVE UNCHANGED <<issued, ledger>>
  BY <1>5 DEF Assign
<1>6. ASSUME NEW k \in Items, NEW d \in Rates, StockIn(k, d) \/ TakeBack(k, d)
      PROVE  Promise!Next
  BY <1>6, PurchasePromised
<1>7. CASE UNCHANGED vars
  BY <1>7 DEF vars, PromiseVars, Came
<1> QED BY <1>0, <1>1, <1>2, <1>3, <1>4, <1>5, <1>6, <1>7 DEF Next

(* The issue workflow, with its calls, checks and locks, implements the    *)
(* one-step deliveries of Supply.                                          *)
THEOREM PromiseKept == Spec => KeepsPromise
<1>1. Init => Promise!Init
  BY DEF Init, Promise!Init, NoLines, NoGoods
<1>2. Inv /\ [Next]_vars =>
        [Promise!Next]_<<issued, [k \in Items |-> [c \in Rates |-> quantityIn[k][c] + taken[k][c]]],
                         quantityOut>>
  BY NextPromised DEF PromiseVars, Came
<1> QED BY <1>1, <1>2, InvHolds, PTL DEF Spec, KeepsPromise, Promise!Spec
-----------------------------------------------------------------------------
(* What one step may do to the rows of item_issues: at most one row is     *)
(* written, and how depends on its status alone.  The properties of the    *)
(* issue life cycle follow from this.                                      *)
Created(i) ==
  /\ issue[i].status = "ABSENT"
  /\ issue'[i].status = "DRAFT" /\ issue'[i].version = 1
  /\ issue'[i].request # None => ~HasOpenIssue(issue'[i].request)

Edited(i) ==
  /\ issue[i].status \in Editable
  /\ \E w \in Workers :
       /\ issue[i].version = call[w].expected
       /\ \E q \in Quantities :
            issue'[i] = [issue[i] EXCEPT !.version = call[w].seen + 1, !.qty = q]

Submitted(i) ==
  /\ issue[i].status \in Editable
  /\ issue'[i] = [issue[i] EXCEPT !.status = "PENDING_VERIFICATION", !.version = @ + 1]

Decided(i) ==
  /\ issue[i].status = "PENDING_VERIFICATION"
  /\ \E s \in {"RETURNED", "REJECTED", "POSTED"}, u \in Users \cup {None} :
       issue'[i] = [issue[i] EXCEPT !.status = s, !.version = @ + 1, !.verifier = u]

OneRowWritten ==
  \/ UNCHANGED issue
  \/ \E i \in Issues :
       /\ \A j \in Issues : j # i => issue'[j] = issue[j]
       /\ Created(i) \/ Edited(i) \/ Submitted(i) \/ Decided(i)

(* A step of a call under way writes at most one issue.                    *)
LEMMA AdvanceWritesOneRow ==
  ASSUME Inv, NEW w \in Workers, Advance(w)
  PROVE  OneRowWritten
<1> DEFINE c == call[w]
           i == c.issue
<1>c. c \in Calls /\ WellFormed(c)
  BY DEF Inv, Typed, TypeOK
<1>i. \A j \in Issues : issue[j] \in IssueRecords
  BY DEF Inv, Typed, TypeOK
<1>1. CASE UNCHANGED issue
  BY <1>1 DEF OneRowWritten
<1>2. CASE CreateCommit(w) /\ issue' # issue
  <2>1. /\ c.request # None => ~HasOpenIssue(c.request)
        /\ \E j \in Issues : /\ issue[j].status = "ABSENT"
                             /\ issue' = [issue EXCEPT ![j] = NewIssue(c)]
    BY <1>2 DEF CreateCommit, Refuse
  <2>2. PICK j \in Issues : /\ issue[j].status = "ABSENT"
                            /\ issue' = [issue EXCEPT ![j] = NewIssue(c)]
    BY <2>1
  <2>3. issue'[j] = NewIssue(c) /\ \A k \in Issues : k # j => issue'[k] = issue[k]
    BY <2>2 DEF Inv, Typed, TypeOK
  <2>4. NewIssue(c).status = "DRAFT" /\ NewIssue(c).version = 1 /\ NewIssue(c).request = c.request
    BY DEF NewIssue, NoIssue
  <2>5. Created(j)
    BY <2>1, <2>2, <2>3, <2>4 DEF Created
  <2> QED BY <2>3, <2>5 DEF OneRowWritten
<1>3. CASE UpdateCommit(w) /\ issue' # issue
  <2>1. /\ StillEditable(c)
        /\ issue' = [issue EXCEPT ![i].version = c.seen + 1, ![i].qty = c.qty]
    BY <1>3 DEF UpdateCommit, Refuse
  <2>2. i \in Issues /\ c.qty \in Quantities
    BY <1>3, <1>c DEF UpdateCommit, WellFormed, Calls
  <2>3. /\ issue'[i] = [issue[i] EXCEPT !.version = c.seen + 1, !.qty = c.qty]
        /\ \A j \in Issues : j # i => issue'[j] = issue[j]
    BY <2>1, <2>2, <1>i DEF Inv, Typed, TypeOK, IssueRecords
  <2>4. Edited(i)
    BY <2>1, <2>2, <2>3 DEF Edited, StillEditable
  <2> QED BY <2>2, <2>3, <2>4 DEF OneRowWritten
<1>4. CASE (Submit(w) \/ Conclude(w) \/ Post(w)) /\ issue' # issue
  <2>1. i \in Issues /\ HoldsIssue(w, i)
    BY <1>4, <1>c DEF Submit, Conclude, Post, WellFormed, Calls, HoldsIssue
  <2>2. IF c.op = "SUBMIT" THEN issue[i].status \in Editable
                           ELSE issue[i].status = "PENDING_VERIFICATION"
    BY <2>1 DEF Inv, LockedStatus
  <2>3. \A j \in Issues : j # i => issue'[j] = issue[j]
    BY <1>4 DEF Submit, Conclude, Post, Inv, Typed, TypeOK, Refuse
  <2>4. CASE Submit(w)
    <3>1. issue' = [issue EXCEPT ![i].status = "PENDING_VERIFICATION", ![i].version = @ + 1]
      BY <1>4, <2>4 DEF Submit, Refuse
    <3>2. issue'[i] = [issue[i] EXCEPT !.status = "PENDING_VERIFICATION", !.version = @ + 1]
      BY <2>1, <3>1, <1>i DEF Inv, Typed, TypeOK, IssueRecords
    <3>3. Submitted(i)
      BY <2>2, <2>4, <3>2 DEF Submitted, Submit
    <3> QED BY <2>1, <2>3, <3>3 DEF OneRowWritten
  <2>5. CASE Conclude(w)
    <3> DEFINE s == IF c.op = "RETURN" THEN "RETURNED" ELSE "REJECTED"
    <3>1. issue' = [issue EXCEPT ![i].status = s, ![i].version = @ + 1]
      BY <1>4, <2>5 DEF Conclude, Refuse
    <3>2. issue'[i] = [issue[i] EXCEPT !.status = s, !.version = @ + 1,
                                       !.verifier = issue[i].verifier]
      BY <2>1, <3>1, <1>i DEF Inv, Typed, TypeOK, IssueRecords
    <3>3. issue[i].verifier \in Users \cup {None} /\ s \in {"RETURNED", "REJECTED", "POSTED"}
      BY <2>1, <1>i DEF IssueRecords
    <3>4. Decided(i)
      BY <2>2, <2>5, <3>2, <3>3 DEF Decided, Conclude
    <3> QED BY <2>1, <2>3, <3>4 DEF OneRowWritten
  <2>6. CASE Post(w)
    <3>1. issue' = [issue EXCEPT ![i].status = "POSTED", ![i].version = @ + 1,
                                 ![i].verifier = c.user]
      BY <2>6 DEF Post
    <3>2. issue'[i] = [issue[i] EXCEPT !.status = "POSTED", !.version = @ + 1,
                                       !.verifier = c.user]
      BY <2>1, <3>1, <1>i DEF Inv, Typed, TypeOK, IssueRecords
    <3>3. c.user \in Users \cup {None} /\ c.op = "VERIFY"
      BY <2>6, <1>c DEF Calls, WellFormed, Post
    <3>4. Decided(i)
      BY <2>2, <3>2, <3>3 DEF Decided
    <3> QED BY <2>1, <2>3, <3>4 DEF OneRowWritten
  <2> QED BY <1>4, <2>4, <2>5, <2>6
<1> QED BY <1>1, <1>2, <1>3, <1>4 DEF Advance, LockRequest, LockStock, CheckStock, Refuse

(* And so does every step.                                                 *)
LEMMA StepsWriteOneRow == Inv /\ [Next]_vars => OneRowWritten
<1> SUFFICES ASSUME Inv, [Next]_vars PROVE OneRowWritten
  OBVIOUS
<1>1. ASSUME NEW w \in Workers, Advance(w) PROVE OneRowWritten
  BY <1>1, AdvanceWritesOneRow
<1>2. ASSUME NEW w \in Workers, Start(w) \/ Abort(w) \/ BreakDeadlock(w)
      PROVE  UNCHANGED issue
  BY <1>2 DEF Start, CreateCheck, UpdateRead, LockIssue, Abort, BreakDeadlock, Refuse
<1>3. CASE \/ \E a \in Assignments : Assign(a)
           \/ \E k \in Items, d \in Rates : StockIn(k, d) \/ TakeBack(k, d)
           \/ UNCHANGED vars
  BY <1>3 DEF Assign, StockIn, TakeBack, vars, OneRowWritten
<1> QED BY <1>1, <1>2, <1>3 DEF Next, OneRowWritten

(* A posted or rejected issue never changes again.                         *)
THEOREM ConcludedStays == Spec => ConcludedIsFinal
<1>1. Inv /\ [Next]_vars =>
        [\A i \in Issues :
           issue[i].status \in {"POSTED", "REJECTED"} => issue'[i] = issue[i]]_vars
  BY StepsWriteOneRow DEF OneRowWritten, Created, Edited, Submitted, Decided, Editable
<1> QED BY <1>1, InvHolds, PTL DEF Spec, ConcludedIsFinal

(* The checker verifies the lines that the maker submitted.                *)
THEOREM PendingIsFrozen == Spec => FrozenWhilePending
<1>1. Inv /\ [Next]_vars =>
        [\A i \in Issues :
           issue[i].status = "PENDING_VERIFICATION" => issue'[i].qty = issue[i].qty]_vars
  <2> SUFFICES ASSUME Inv, [Next]_vars, NEW i \in Issues,
                      issue[i].status = "PENDING_VERIFICATION"
               PROVE  issue'[i].qty = issue[i].qty
    OBVIOUS
  <2>1. issue[i] \in IssueRecords
    BY DEF Inv, Typed, TypeOK
  <2>2. CASE issue'[i] = issue[i]
    BY <2>2
  <2>3. CASE Decided(i)
    BY <2>1, <2>3 DEF Decided, IssueRecords
  <2> QED BY <2>2, <2>3, StepsWriteOneRow DEF OneRowWritten, Created, Edited, Submitted, Editable
<1> QED BY <1>1, InvHolds, PTL DEF Spec, FrozenWhilePending

(* A request never has two open issues: the draft is inserted by the call  *)
(* that looked for an open one, and no other write opens a row.            *)
THEOREM OneOpenIssueHolds == Spec => []OneOpenIssue
<1>1. Init => OneOpenIssue
  BY DEF Init, OneOpenIssue, NoIssue
<1>2. Inv /\ OneOpenIssue /\ [Next]_vars => OneOpenIssue'
  <2> SUFFICES ASSUME Inv, OneOpenIssue, OneRowWritten PROVE OneOpenIssue'
    BY StepsWriteOneRow
  <2>1. CASE UNCHANGED issue
    BY <2>1 DEF OneOpenIssue
  <2>2. ASSUME NEW i \in Issues,
               \A j \in Issues : j # i => issue'[j] = issue[j],
               Created(i) \/ Edited(i) \/ Submitted(i) \/ Decided(i)
        PROVE  OneOpenIssue'
    <3>1. issue[i] \in IssueRecords
      BY DEF Inv, Typed, TypeOK
    <3>2. CASE Created(i)
      BY <2>2, <3>2 DEF Created, OneOpenIssue, HasOpenIssue
    <3>3. CASE Edited(i) \/ Submitted(i) \/ Decided(i)
      <4>1. issue'[i].request = issue[i].request /\ issue[i].status \in Open
        BY <3>1, <3>3 DEF Edited, Submitted, Decided, IssueRecords, Open, Editable
      <4> QED BY <2>2, <4>1 DEF OneOpenIssue
    <3> QED BY <2>2, <3>2, <3>3
  <2> QED BY <2>1, <2>2 DEF OneRowWritten
<1> QED BY <1>1, <1>2, InvHolds, PTL DEF Spec

(* A row that was never written has version 0, and an editor's screen is   *)
(* never newer than the row its update read.                               *)
Versions ==
  /\ \A i \in Issues : issue[i].status = "ABSENT" => issue[i].version = 0
  /\ \A w \in Workers : call[w].expected <= call[w].seen

(* The version a call expects is never above the one it read.              *)
LEMMA VersionsHold == Spec => []Versions
<1>1. Init => Versions
  BY DEF Init, Versions, NoIssue, Idle
<1>2. Inv /\ Versions /\ [Next]_vars => Versions'
  <2> SUFFICES ASSUME Inv, Versions, [Next]_vars PROVE Versions'
    OBVIOUS
  <2>1. \A i \in Issues : issue'[i].status = "ABSENT" => issue'[i].version = 0
    <3> SUFFICES ASSUME NEW i \in Issues, issue'[i] # issue[i]
                 PROVE  issue'[i].status # "ABSENT"
      BY DEF Versions
    <3>1. issue[i] \in IssueRecords
      BY DEF Inv, Typed, TypeOK
    <3>2. CASE Created(i)
      BY <3>2 DEF Created
    <3>3. CASE Edited(i)
      <4>1. issue'[i].status = issue[i].status
        BY <3>1, <3>3 DEF Edited, IssueRecords
      <4> QED BY <3>3, <4>1 DEF Edited, Editable
    <3>4. CASE Submitted(i)
      BY <3>1, <3>4 DEF Submitted, IssueRecords
    <3>5. CASE Decided(i)
      BY <3>1, <3>5 DEF Decided, IssueRecords
    <3> QED BY <3>2, <3>3, <3>4, <3>5, StepsWriteOneRow DEF OneRowWritten
  <2>2. \A v \in Workers : call'[v].expected <= call'[v].seen
    <3>1. ASSUME NEW w \in Workers, Start(w)
          PROVE  \A v \in Workers : call'[v].expected <= call'[v].seen
      <4>1. ASSUME NEW u \in Users, NEW r \in Requests \cup {None}, NEW q \in Lines,
                   CreateCheck(w, u, r, q)
            PROVE  \A v \in Workers : call'[v].expected <= call'[v].seen
        BY <4>1 DEF CreateCheck, Versions, Inv, Typed, TypeOK, Idle
      <4>2. ASSUME NEW u \in Users, NEW i \in Issues, NEW q \in Lines,
                   NEW expected \in 1 .. issue[i].version, UpdateRead(w, u, i, expected, q)
            PROVE  \A v \in Workers : call'[v].expected <= call'[v].seen
        <5>1. issue[i].version \in Nat
          BY DEF Inv, Typed, TypeOK, IssueRecords
        <5> QED BY <4>2, <5>1 DEF UpdateRead, Versions, Inv, Typed, TypeOK, Idle
      <4>3. ASSUME NEW u \in Users, NEW i \in Issues,
                   NEW op \in {"SUBMIT", "VERIFY", "RETURN", "REJECT"}, LockIssue(w, u, i, op)
            PROVE  \A v \in Workers : call'[v].expected <= call'[v].seen
        BY <4>3 DEF LockIssue, Versions, Inv, Typed, TypeOK, Idle
      <4> QED BY <3>1, <4>1, <4>2, <4>3 DEF Start
    <3>2. ASSUME NEW w \in Workers, Finish(w) \/ LockRequest(w) \/ LockStock(w) \/ CheckStock(w)
          PROVE  \A v \in Workers : call'[v].expected <= call'[v].seen
      <4>1. CASE Finish(w)
        BY <4>1 DEF Finish, Versions, Inv, Typed, TypeOK, Idle
      <4>2. CASE ~Finish(w)
        <5>1. \A v \in Workers : /\ v # w => call'[v] = call[v]
                                 /\ call'[w].expected = call[w].expected
                                 /\ call'[w].seen = call[w].seen
          BY <3>2, <4>2 DEF LockRequest, LockStock, CheckStock, Refuse, Inv, Typed, TypeOK, Calls
        <5> QED BY <5>1 DEF Versions
      <4> QED BY <4>1, <4>2
    <3>3. CASE UNCHANGED call
      BY <3>3 DEF Versions
    <3> QED BY <3>1, <3>2, <3>3 DEF Next, Advance, CreateCommit, UpdateCommit, Submit, Conclude,
            Post, Abort, BreakDeadlock, Refuse, Assign, StockIn, TakeBack, vars
  <2> QED BY <2>1, <2>2 DEF Versions
<1> QED BY <1>1, <1>2, InvHolds, PTL DEF Spec

(* A version names one content: no write of a row leaves its version as it *)
(* was, and an editor cannot overwrite what he has not seen.               *)
THEOREM VersionsNameContents == Spec => VersionNamesContent
<1>1. Inv /\ Versions /\ [Next]_vars =>
        [\A i \in Issues : issue'[i].version = issue[i].version => issue'[i] = issue[i]]_vars
  <2> SUFFICES ASSUME Inv, Versions, [Next]_vars, NEW i \in Issues, issue'[i] # issue[i]
               PROVE  issue'[i].version # issue[i].version
    OBVIOUS
  <2>1. issue[i] \in IssueRecords /\ issue[i].version \in Nat
    BY DEF Inv, Typed, TypeOK, IssueRecords
  <2>2. Created(i) \/ Edited(i) \/ Submitted(i) \/ Decided(i)
    BY StepsWriteOneRow DEF OneRowWritten
  <2>3. CASE Created(i)
    BY <2>3 DEF Created, Versions
  <2>4. CASE Edited(i)
    <3>1. PICK w \in Workers, q \in Quantities :
            /\ issue[i].version = call[w].expected
            /\ issue'[i] = [issue[i] EXCEPT !.version = call[w].seen + 1, !.qty = q]
      BY <2>4 DEF Edited
    <3>2. call[w].expected <= call[w].seen /\ call[w].seen \in Nat
      BY DEF Versions, Inv, Typed, TypeOK, Calls
    <3>3. issue'[i].version = call[w].seen + 1
      BY <2>1, <3>1 DEF IssueRecords
    <3> QED BY <2>1, <3>1, <3>2, <3>3
  <2>5. CASE Submitted(i) \/ Decided(i)
    <3>1. issue'[i].version = issue[i].version + 1
      BY <2>1, <2>5 DEF Submitted, Decided, IssueRecords
    <3> QED BY <2>1, <3>1
  <2> QED BY <2>2, <2>3, <2>4, <2>5
<1> QED BY <1>1, InvHolds, VersionsHold, PTL DEF Spec, VersionNamesContent

(* What waits for the checker still fits the request: the goods that a     *)
(* dispatch credits belong to the only open issue of that request.         *)
LEMMA PendingAdvance ==
  ASSUME Inv, OneOpenIssue, PendingFitsRequest, NEW w \in Workers, Advance(w)
  PROVE  PendingFitsRequest'
<1> DEFINE c == call[w]
<1>c. c \in Calls /\ WellFormed(c)
  BY DEF Inv, Typed, TypeOK
<1>1. CASE UNCHANGED <<issue, issued>>
  BY <1>1 DEF PendingFitsRequest, FitsRequest, Outstanding
<1>2. CASE (CreateCommit(w) \/ UpdateCommit(w) \/ Conclude(w)) /\ issue' # issue
  <2>1. UNCHANGED issued
    BY <1>2 DEF CreateCommit, UpdateCommit, Conclude, Refuse
  <2>2. ASSUME NEW i \in Issues, issue'[i].status = "PENDING_VERIFICATION"
        PROVE  issue'[i] = issue[i]
    <3>1. issue[i] \in IssueRecords
      BY DEF Inv, Typed, TypeOK
    <3>2. CASE CreateCommit(w)
      <4>1. NewIssue(c).status = "DRAFT"
        BY DEF NewIssue, NoIssue
      <4> QED BY <1>2, <2>2, <3>2, <4>1 DEF CreateCommit, Refuse, Inv, Typed, TypeOK
    <3>3. CASE UpdateCommit(w)
      BY <1>2, <2>2, <3>1, <3>3 DEF UpdateCommit, Refuse, StillEditable, Editable, Inv, Typed,
         TypeOK, IssueRecords
    <3>4. CASE Conclude(w)
      BY <1>2, <2>2, <3>1, <3>4 DEF Conclude, Refuse, Inv, Typed, TypeOK, IssueRecords
    <3> QED BY <1>2, <3>2, <3>3, <3>4
  <2> QED BY <2>1, <2>2 DEF PendingFitsRequest, FitsRequest, Outstanding
<1>3. CASE Submit(w) /\ issue' # issue
  <2> DEFINE i == c.issue
  <2>1. /\ SubmitAllowed(c)
        /\ issue' = [issue EXCEPT ![i].status = "PENDING_VERIFICATION", ![i].version = @ + 1]
        /\ UNCHANGED issued
    BY <1>3 DEF Submit, Refuse
  <2>2. i \in Issues /\ issue[i] \in IssueRecords
    BY <1>3, <1>c DEF Submit, WellFormed, Inv, Typed, TypeOK
  <2>3. /\ issue'[i].request = issue[i].request /\ issue'[i].qty = issue[i].qty
        /\ \A j \in Issues : j # i => issue'[j] = issue[j]
    BY <2>1, <2>2 DEF Inv, Typed, TypeOK, IssueRecords
  <2>4. issue[i].request # None => FitsRequest(issue[i].request, issue[i].qty)
    BY <2>1 DEF SubmitAllowed
  <2> QED BY <2>1, <2>3, <2>4 DEF PendingFitsRequest, FitsRequest, Outstanding
<1>4. CASE Post(w)
  <2> DEFINE i == c.issue
             r == issue[i].request
  <2>1. i \in Issues /\ HoldsIssue(w, i) /\ c.op = "VERIFY"
    BY <1>4, <1>c DEF Post, WellFormed, HoldsIssue, Calls
  <2>2. issue[i].status = "PENDING_VERIFICATION" /\ issue[i] \in IssueRecords
    BY <2>1 DEF Inv, LockedStatus, Typed, TypeOK
  <2>3. /\ issue'[i].status = "POSTED"
        /\ \A j \in Issues : j # i => issue'[j] = issue[j]
    BY <1>4, <2>1, <2>2 DEF Post, Inv, Typed, TypeOK, IssueRecords
  <2>4. \A s \in Requests : s # r => issued'[s] = issued[s]
    BY <1>4, <2>2 DEF Post, Inv, Typed, TypeOK, IssueRecords
  <2> SUFFICES ASSUME NEW j \in Issues, issue'[j].status = "PENDING_VERIFICATION",
                      issue'[j].request # None
               PROVE  FitsRequest(issue[j].request, issue[j].qty)'
    BY DEF PendingFitsRequest
  <2>5. j # i /\ issue'[j] = issue[j] /\ FitsRequest(issue[j].request, issue[j].qty)
    BY <2>3 DEF PendingFitsRequest
  <2>6. issue[j].request # r
    BY <2>1, <2>2, <2>5 DEF OneOpenIssue, Open
  <2>7. issue[j].request \in Requests
    BY <2>5 DEF Inv, Typed, TypeOK, IssueRecords
  <2> QED BY <2>4, <2>5, <2>6, <2>7 DEF FitsRequest, Outstanding
<1> QED BY <1>1, <1>2, <1>3, <1>4 DEF Advance, CreateCommit, UpdateCommit, Submit, Conclude,
        LockRequest, LockStock, CheckStock, Refuse

(* What waits for the checker fits what its request still lacks, from      *)
(* submission to conclusion (submitItemIssue compares under the request    *)
(* lock, and a request has one open issue).                                *)
THEOREM PendingAlwaysFits == Spec => []PendingFitsRequest
<1>1. Init => PendingFitsRequest
  BY DEF Init, PendingFitsRequest, NoIssue
<1>2. Inv /\ OneOpenIssue /\ PendingFitsRequest /\ [Next]_vars => PendingFitsRequest'
  <2> SUFFICES ASSUME Inv, OneOpenIssue, PendingFitsRequest, [Next]_vars
               PROVE  PendingFitsRequest'
    OBVIOUS
  <2>1. ASSUME NEW w \in Workers, Advance(w) PROVE PendingFitsRequest'
    BY <2>1, PendingAdvance
  <2>2. CASE UNCHANGED <<issue, issued>>
    BY <2>2 DEF PendingFitsRequest, FitsRequest, Outstanding
  <2> QED BY <2>1, <2>2 DEF Next, Start, CreateCheck, UpdateRead, LockIssue, Abort, BreakDeadlock,
          Refuse, Assign, StockIn, TakeBack, vars
<1> QED BY <1>1, <1>2, InvHolds, OneOpenIssueHolds, PTL DEF Spec
-----------------------------------------------------------------------------
(* What the status of a request says about its lines.  The SQL sums, so    *)
(* this is where the facts about sums come in.                             *)
LEMMA TotalIsSum ==
  ASSUME NEW S, NEW q, DOMAIN q = S PROVE Total(q) = SumFunctionOnSet(q, S)
BY DEF Total, FoldFunction, SumFunctionOnSet

(* When no line is above what was asked, the totals alone tell whether all *)
(* lines are complete, and whether none was begun.                         *)
LEMMA TotalsTellLines ==
  ASSUME NEW p \in Quantities, NEW q \in Quantities, \A k \in Items : p[k] <= q[k]
  PROVE  /\ Total(p) \in Nat /\ Total(q) \in Nat
         /\ Total(p) >= Total(q) <=> \A k \in Items : p[k] = q[k]
         /\ Total(p) = 0 <=> \A k \in Items : p[k] = 0
<1>1. \A k \in Items : p[k] \in Nat /\ q[k] \in Nat /\ p[k] \in Int /\ q[k] \in Int
  BY DEF Quantities
<1>2. Total(p) = SumFunctionOnSet(p, Items) /\ Total(q) = SumFunctionOnSet(q, Items)
  BY TotalIsSum DEF Quantities
<1>3. /\ SumFunctionOnSet(p, Items) \in Nat
      /\ SumFunctionOnSet(p, Items) = 0 <=> \A k \in Items : p[k] = 0
  BY <1>1, FiniteAssumption, SumNat
<1>4. SumFunctionOnSet(q, Items) \in Nat
  BY <1>1, FiniteAssumption, SumNat
<1>5. ASSUME Total(p) >= Total(q), NEW k \in Items PROVE p[k] = q[k]
  BY <1>1, <1>2, <1>5, FiniteAssumption, SumEqual
<1>6. ASSUME \A k \in Items : p[k] = q[k] PROVE Total(p) >= Total(q)
  <2>1. SumFunctionOnSet(p, Items) = SumFunctionOnSet(q, Items)
    BY <1>6, FiniteAssumption, SumSame
  <2> QED BY <1>2, <1>4, <2>1
<1> QED BY <1>2, <1>3, <1>4, <1>5, <1>6

(* The status that applyRequestFulfilmentStatus computes tells nothing     *)
(* issued and everything issued from the rest.                             *)
LEMMA FulfilmentTells ==
  ASSUME NEW r \in Requests, NEW posted \in Quantities,
         \A k \in Items : posted[k] <= Requested[r][k]
  PROVE  /\ Fulfilment(r, posted) = "ISSUED" <=> \A k \in Items : posted[k] = Requested[r][k]
         /\ Fulfilment(r, posted) = "APPROVED" <=> \A k \in Items : posted[k] = 0
<1>1. Requested[r] \in Quantities
  BY ConstantsAssumption
<1>2. /\ Total(posted) >= Total(Requested[r]) <=> \A k \in Items : posted[k] = Requested[r][k]
      /\ Total(posted) = 0 <=> \A k \in Items : posted[k] = 0
  BY <1>1, TotalsTellLines
<1>3. \E k \in Items : Requested[r][k] > 0
  BY RequestsAskAssumption
<1>4. ~((\A k \in Items : posted[k] = 0) /\ (\A k \in Items : posted[k] = Requested[r][k]))
  BY <1>1, <1>3 DEF Quantities
<1>5. CASE Total(posted) = 0
  BY <1>2, <1>4, <1>5 DEF Fulfilment
<1>6. CASE Total(posted) # 0
  BY <1>2, <1>6 DEF Fulfilment
<1> QED BY <1>5, <1>6

(* What the posted issues of request r add up to in line k.                *)
PostedOf(r, k) ==
  [i \in Issues |-> IF issue[i].request = r /\ issue[i].status = "POSTED"
                    THEN issue[i].qty[k] ELSE 0]

StatusTellsLines ==
  \A r \in Requests :
    /\ request[r] = "ISSUED" <=> \A k \in Items : issued[r][k] = Requested[r][k]
    /\ request[r] = "APPROVED" <=> \A k \in Items : issued[r][k] = 0

(* FulfilmentAgreesWithLines in the sums that SumTheorems speaks of.       *)
LEMMA AgreementParts ==
  /\ IssuedIsPostedSum <=>
       \A r \in Requests, k \in Items :
         issued[r][k] = SumFunctionOnSet(PostedOf(r, k), Issues)
  /\ FulfilmentAgreesWithLines <=> IssuedIsPostedSum /\ StatusTellsLines
<1>1. \A r, k : Total(PostedOf(r, k)) = SumFunctionOnSet(PostedOf(r, k), Issues)
  <2> SUFFICES ASSUME NEW r, NEW k
               PROVE  Total(PostedOf(r, k)) = SumFunctionOnSet(PostedOf(r, k), Issues)
    OBVIOUS
  <2>1. DOMAIN PostedOf(r, k) = Issues
    BY DEF PostedOf
  <2> QED BY <2>1, TotalIsSum
<1>2. IssuedIsPostedSum <=>
        \A r \in Requests, k \in Items : issued[r][k] = Total(PostedOf(r, k))
  BY DEF IssuedIsPostedSum, PostedOf
<1>3. FulfilmentAgreesWithLines <=> IssuedIsPostedSum /\ StatusTellsLines
  BY DEF FulfilmentAgreesWithLines, StatusTellsLines
<1> QED BY <1>1, <1>2, <1>3

(* A step that posts nothing leaves what is posted as it was.              *)
LEMMA NothingPosted ==
  ASSUME Inv, FulfilmentAgreesWithLines, UNCHANGED <<request, issued>>,
         \A i \in Issues : issue'[i].status = "POSTED" \/ issue[i].status = "POSTED"
                             => issue'[i] = issue[i]
  PROVE  FulfilmentAgreesWithLines'
<1>1. StatusTellsLines'
  BY AgreementParts DEF StatusTellsLines
<1>2. \A r, k : PostedOf(r, k)' = PostedOf(r, k)
  BY DEF PostedOf
<1>3. \A r \in Requests, k \in Items :
        issued[r][k] = SumFunctionOnSet(PostedOf(r, k), Issues)
  BY AgreementParts
<1>4. \A r \in Requests, k \in Items :
        issued'[r][k] = Total(PostedOf(r, k)')
  <2>1. \A r \in Requests, k \in Items : Total(PostedOf(r, k)) = issued[r][k]
    BY AgreementParts DEF IssuedIsPostedSum, FulfilmentAgreesWithLines, PostedOf
  <2> QED BY <1>2, <2>1
<1>5. IssuedIsPostedSum'
  BY <1>4 DEF IssuedIsPostedSum, PostedOf
<1> QED BY <1>1, <1>5 DEF FulfilmentAgreesWithLines, StatusTellsLines

(* A dispatch adds its lines to the totals of its request, whose posted    *)
(* issues it joins; the new status follows from those totals.              *)
LEMMA PostAgrees ==
  ASSUME Inv, Inv', FulfilmentAgreesWithLines, NEW w \in Workers, Post(w)
  PROVE  FulfilmentAgreesWithLines'
<1> DEFINE i == call[w].issue
           r == issue[i].request
           q == issue[i].qty
<1>1. i \in Issues /\ HoldsIssue(w, i) /\ call[w].op = "VERIFY"
  BY DEF Post, Inv, Typed, TypeOK, WellFormed, HoldsIssue, Calls
<1>2. issue[i].status = "PENDING_VERIFICATION" /\ issue[i] \in IssueRecords
  BY <1>1 DEF Inv, LockedStatus, Typed, TypeOK
<1>3. /\ issue'[i].status = "POSTED" /\ issue'[i].request = r /\ issue'[i].qty = q
      /\ \A j \in Issues : j # i => issue'[j] = issue[j]
  BY <1>1, <1>2 DEF Post, Inv, Typed, TypeOK, IssueRecords
<1>4. /\ \A s \in Requests : s # r => issued'[s] = issued[s] /\ request'[s] = request[s]
      /\ r \in Requests => /\ issued'[r] = PostedWith(r, i)
                           /\ request'[r] = Fulfilment(r, PostedWith(r, i))
  BY <1>2, ConstantsAssumption DEF Post, Inv, Typed, TypeOK, IssueRecords
<1>5. StatusTellsLines'
  <2> SUFFICES ASSUME NEW s \in Requests
               PROVE  /\ request'[s] = "ISSUED" <=> \A k \in Items : issued'[s][k] = Requested[s][k]
                      /\ request'[s] = "APPROVED" <=> \A k \in Items : issued'[s][k] = 0
    BY DEF StatusTellsLines
  <2>1. CASE s # r
    BY <1>4, <2>1, AgreementParts DEF StatusTellsLines
  <2>2. CASE s = r
    <3>1. issued'[s] \in Quantities /\ \A k \in Items : issued'[s][k] <= Requested[s][k]
      BY DEF Inv, Typed, TypeOK, NoOverIssue
    <3>2. request'[s] = Fulfilment(s, issued'[s])
      BY <1>4, <2>2
    <3> QED BY <3>1, <3>2, FulfilmentTells
  <2> QED BY <2>1, <2>2
<1>6. ASSUME NEW s \in Requests, NEW k \in Items
      PROVE  issued'[s][k] = Total(PostedOf(s, k)')
  <2> DEFINE f == PostedOf(s, k)
             g == PostedOf(s, k)'
  <2>1. /\ DOMAIN f = Issues /\ DOMAIN g = Issues
        /\ f[i] = 0
        /\ g[i] = IF s = r THEN q[k] ELSE 0
        /\ \A j \in Issues \ {i} : g[j] = f[j]
    BY <1>1, <1>2, <1>3 DEF PostedOf
  <2>2. \A j \in Issues : f[j] \in Int
    BY DEF PostedOf, Inv, Typed, TypeOK, IssueRecords, Quantities
  <2>3. q[k] \in Int /\ g[i] \in Int
    BY <1>2, <2>1 DEF IssueRecords, Quantities
  <2>4. issued[s][k] = SumFunctionOnSet(f, Issues) /\ issued[s][k] \in Int
    BY AgreementParts DEF Inv, Typed, TypeOK, Quantities
  <2>5. Total(g) = SumFunctionOnSet(g, Issues)
    BY <2>1, TotalIsSum
  <2> HIDE DEF f, g, i, r, q
  <2>6. SumFunctionOnSet(g, Issues) = SumFunctionOnSet(f, Issues) + g[i] - f[i]
    BY <1>1, <2>1, <2>2, <2>3, FiniteAssumption, SumChange
  <2>7. Total(g) = issued[s][k] + (IF s = r THEN q[k] ELSE 0)
    BY <2>1, <2>3, <2>4, <2>5, <2>6
  <2>8. issued'[s][k] = issued[s][k] + (IF s = r THEN q[k] ELSE 0)
    <3>1. CASE s = r
      BY <1>4, <3>1 DEF PostedWith, q
    <3>2. CASE s # r
      BY <1>4, <2>4, <3>2
    <3> QED BY <3>1, <3>2
  <2> QED BY <2>7, <2>8 DEF g
<1>7. IssuedIsPostedSum'
  BY <1>6 DEF IssuedIsPostedSum, PostedOf
<1> QED BY <1>5, <1>7 DEF FulfilmentAgreesWithLines, StatusTellsLines

(* Only a dispatch, or a consumption, posts an issue.                      *)
LEMMA OnlyPostPosts ==
  ASSUME Inv, [Next]_vars, NEW i \in Issues,
         issue[i].status # "POSTED", issue'[i].status = "POSTED"
  PROVE  \E w \in Workers : Post(w)
<1>0. issue \in [Issues -> IssueRecords] /\ \A w \in Workers : call[w] \in Calls
  BY DEF Inv, Typed, TypeOK
<1>1. ASSUME NEW w \in Workers, CreateCommit(w) PROVE FALSE
  <2>1. NewIssue(call[w]).status = "DRAFT"
    BY DEF NewIssue, NoIssue
  <2> QED BY <1>0, <1>1, <2>1 DEF CreateCommit, Refuse
<1>2. ASSUME NEW w \in Workers, UpdateCommit(w) PROVE FALSE
  BY <1>0, <1>2 DEF UpdateCommit, Refuse, IssueRecords
<1>3. ASSUME NEW w \in Workers, Submit(w) PROVE FALSE
  BY <1>0, <1>3 DEF Submit, Refuse, IssueRecords
<1>4. ASSUME NEW w \in Workers, Conclude(w) PROVE FALSE
  BY <1>0, <1>4 DEF Conclude, Refuse, IssueRecords
<1> QED BY <1>1, <1>2, <1>3, <1>4 DEF Next, Start, Advance, CreateCheck, UpdateRead, LockIssue,
        LockRequest, LockStock, CheckStock, Abort, BreakDeadlock, Refuse, Assign, StockIn,
        TakeBack, vars

(* The totals are those of the posted issues, and the status of a request  *)
(* agrees with all of its lines although the code compares two totals.     *)
THEOREM StatusAgreesWithLines == Spec => []FulfilmentAgreesWithLines
<1>1. Init => FulfilmentAgreesWithLines
  <2> SUFFICES ASSUME Init PROVE FulfilmentAgreesWithLines
    OBVIOUS
  <2>1. StatusTellsLines
    <3>1. \A r \in Requests : \E k \in Items : Requested[r][k] # 0
      BY RequestsAskAssumption
    <3> QED BY <3>1 DEF Init, StatusTellsLines, NoLines
  <2>2. ASSUME NEW r \in Requests, NEW k \in Items
        PROVE  issued[r][k] = SumFunctionOnSet(PostedOf(r, k), Issues)
    <3>1. \A i \in Issues : PostedOf(r, k)[i] = 0
      BY DEF Init, NoIssue, PostedOf
    <3>2. SumFunctionOnSet(PostedOf(r, k), Issues) = 0
      BY <3>1, FiniteAssumption, SumZero
    <3> QED BY <3>2 DEF Init, NoLines
  <2> QED BY <2>1, <2>2, AgreementParts
<1>2. Inv /\ Inv' /\ FulfilmentAgreesWithLines /\ [Next]_vars => FulfilmentAgreesWithLines'
  <2> SUFFICES ASSUME Inv, Inv', FulfilmentAgreesWithLines, [Next]_vars
               PROVE  FulfilmentAgreesWithLines'
    OBVIOUS
  <2>1. ASSUME NEW w \in Workers, Post(w) PROVE FulfilmentAgreesWithLines'
    BY <2>1, PostAgrees
  <2>2. CASE ~ \E w \in Workers : Post(w)
    <3>1. UNCHANGED <<request, issued>>
      BY <2>2 DEF Next, Start, Advance, CreateCheck, UpdateRead, LockIssue, CreateCommit,
         UpdateCommit, Submit, Conclude, LockRequest, LockStock, CheckStock, Abort,
         BreakDeadlock, Refuse, Assign, StockIn, TakeBack, vars
    <3>2. ASSUME NEW i \in Issues, issue'[i].status = "POSTED" \/ issue[i].status = "POSTED"
          PROVE  issue'[i] = issue[i]
      <4>1. CASE issue[i].status = "POSTED"
        BY <4>1, StepsWriteOneRow DEF OneRowWritten, Created, Edited, Submitted, Decided, Editable
      <4>2. CASE issue[i].status # "POSTED" /\ issue'[i].status = "POSTED"
        BY <2>2, <4>2, OnlyPostPosts
      <4> QED BY <3>2, <4>1, <4>2
    <3> QED BY <3>1, <3>2, NothingPosted
  <2> QED BY <2>1, <2>2
<1>3. Inv /\ [Next]_vars => Inv'
  BY NextInv
<1> QED BY <1>1, <1>2, <1>3, InvHolds, PTL DEF Spec

-----------------------------------------------------------------------------
(* The pages.  The list compares totals, the server lines: with no line    *)
(* issued beyond what was asked, something remains in total exactly when   *)
(* some line has a remainder, and the status is not ISSUED.                *)
LEMMA RemainderInLines ==
  ASSUME Inv, FulfilmentAgreesWithLines, NEW r \in Requests
  PROVE  /\ RemainingPosted(r) <=> \E k \in Items : Outstanding(r, k) > 0
         /\ RemainingPosted(r) <=> request[r] # "ISSUED"
<1>1. Requested[r] \in Quantities /\ issued[r] \in Quantities
  BY ConstantsAssumption DEF Inv, Typed, TypeOK
<1>2. \A k \in Items : issued[r][k] <= Requested[r][k]
  BY DEF Inv, NoOverIssue
<1>3. /\ Total(issued[r]) \in Nat /\ Total(Requested[r]) \in Nat
      /\ Total(issued[r]) >= Total(Requested[r])
           <=> \A k \in Items : issued[r][k] = Requested[r][k]
  BY <1>1, <1>2, TotalsTellLines
<1>4. RemainingPosted(r) <=> ~ \A k \in Items : issued[r][k] = Requested[r][k]
  BY <1>3 DEF RemainingPosted
<1>5. \A k \in Items : Outstanding(r, k) > 0 <=> issued[r][k] # Requested[r][k]
  BY <1>1, <1>2 DEF Outstanding, Quantities
<1>6. request[r] # "ISSUED" <=> ~ \A k \in Items : issued[r][k] = Requested[r][k]
  BY DEF FulfilmentAgreesWithLines
<1> QED BY <1>4, <1>5, <1>6

(* A new issue is offered only where the server would accept one.          *)
LEMMA OfferedIsAccepted ==
  ASSUME Inv, FulfilmentAgreesWithLines, NEW r \in Requests, NEW u \in Users,
         IssueAction(u, r) \in {"CREATE", "CREATE_REMAINING"}
  PROVE  u = maker /\ Eligible(r)
<1>1. CanCreateIssue(u, r)
  BY DEF IssueAction
<1> QED BY <1>1, RemainderInLines DEF CanCreateIssue, Eligible

(* The next step of an incomplete request is on somebody's page.           *)
LEMMA NextStepIsOffered ==
  ASSUME Inv, OneOpenIssue, FulfilmentAgreesWithLines,
         NEW r \in Requests, request[r] # "ISSUED",
         NEW at \in [corporate : {TRUE}, owner : {maker}, others : SUBSET Users]
  PROVE  \/ \E i \in Issues : issue[i].request = r /\ IssueOffered(at, i)
         \/ HasButton(at, maker, r, {"CREATE", "CREATE_REMAINING", "CONTINUE_DRAFT"})
         \/ \E i \in Issues : issue[i].request = r /\ issue[i].creator = checker
                                /\ issue[i].status = "PENDING_VERIFICATION"
<1>1. /\ r # None
      /\ maker \in Users /\ checker \in Users
      /\ at.corporate = TRUE /\ at.owner = maker
      /\ AllowsIssue(request[r])
      /\ RemainingPosted(r)
  BY ConstantsAssumption, RemainderInLines DEF Inv, Typed, TypeOK, RequestStatuses, AllowsIssue
<1>2. ASSUME ~Blocked(r)
      PROVE  \E q \in RequestPages(at, maker) : RequestListed(at, maker, q, r)
  <2>1. CASE request[r] = "APPROVED"
    BY <1>1, <1>2, <2>1 DEF RequestPages, RequestListed
  <2>2. CASE request[r] = "PARTIALLY_ISSUED"
    BY <1>1, <1>2, <2>2 DEF RequestPages, RequestListed
  <2> QED BY <1>1, <2>1, <2>2 DEF AllowsIssue
<1>3. CASE ~HasOpenIssue(r)
  <2>1. /\ ~Blocked(r) /\ CanCreateIssue(maker, r)
        /\ \A s \in Open : ~ \E i \in Issues : issue[i].request = r /\ issue[i].status = s
    BY <1>1, <1>3 DEF HasOpenIssue, Blocked, CanCreateIssue
  <2>2. IssueAction(maker, r) \in {"CREATE", "CREATE_REMAINING"}
    BY <2>1 DEF IssueAction, Open, Editable
  <2> QED BY <1>2, <2>1, <2>2 DEF HasButton
<1>4. ASSUME NEW i \in Issues, issue[i].request = r, issue[i].status = "DRAFT"
      PROVE  HasButton(at, maker, r, {"CREATE", "CREATE_REMAINING", "CONTINUE_DRAFT"})
  <2>1. \A j \in Issues : issue[j].request = r /\ issue[j].status \in Open => j = i
    BY <1>1, <1>4 DEF OneOpenIssue, Open, Editable
  <2>2. ~Blocked(r)
    BY <1>4, <2>1 DEF Blocked
  <2>3. IssueAction(maker, r) = "CONTINUE_DRAFT"
    <3>1. /\ ~ \E j \in Issues : issue[j].request = r /\ issue[j].status = "PENDING_VERIFICATION"
          /\ ~ \E j \in Issues : issue[j].request = r /\ issue[j].status = "RETURNED"
      BY <1>4, <2>1 DEF Open, Editable
    <3>2. ~CanCreateIssue(maker, r)
      BY <1>4 DEF CanCreateIssue, HasOpenIssue, Open, Editable
    <3> QED BY <1>4, <3>1, <3>2 DEF IssueAction
  <2> QED BY <1>2, <2>2, <2>3 DEF HasButton
<1>5. ASSUME NEW i \in Issues, issue[i].request = r, issue[i].status = "PENDING_VERIFICATION",
             issue[i].creator # checker
      PROVE  IssueOffered(at, i)
  BY <1>1, <1>5 DEF IssueOffered, IssuePages, IssueListed, CanVerify, MayVerify
<1>6. ASSUME NEW i \in Issues, issue[i].request = r, issue[i].status = "RETURNED"
      PROVE  IssueOffered(at, i)
  BY <1>1, <1>6 DEF IssueOffered, IssuePages, IssueListed, CanEdit, Editable
<1> QED BY <1>3, <1>4, <1>5, <1>6 DEF HasOpenIssue, Open, Editable

(* No request is forgotten half way, and no new issue is offered in vain.  *)
THEOREM IssueWorkAlwaysOffered == Spec => []IssueWorkIsOffered
<1>1. Inv /\ OneOpenIssue /\ FulfilmentAgreesWithLines => IssueWorkIsOffered
  BY NextStepIsOffered, OfferedIsAccepted DEF IssueWorkIsOffered, HasButton
<1> QED BY <1>1, InvHolds, OneOpenIssueHolds, StatusAgreesWithLines, PTL
=============================================================================
