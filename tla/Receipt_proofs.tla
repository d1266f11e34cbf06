--------------------------- MODULE Receipt_proofs ---------------------------
(***************************************************************************)
(* Proofs about Receipt, for any number of items, receipts and concurrent  *)
(* confirmations, and any quantities.                                      *)
(***************************************************************************)
EXTENDS Receipt, SumTheorems, TLAPS

(* A receipt that exists has lines that a client can send: its lines were  *)
(* checked when it was saved or submitted.                                 *)
ReceiptsHaveLines ==
  \A r \in Receipts : receipt[r].status # "ABSENT" => receipt[r].qty \in Lines

(* A confirmation under way is for some receipt, and has a resolution.     *)
CallsAreComplete ==
  \A w \in Workers :
    call[w] # Idle => /\ call[w].receipt \in Receipts
                      /\ call[w].resolution \in Resolutions

(* The inductive invariant.  The balance in transit is natural because it  *)
(* is what remains on the line, so the types need the agreement of ledger  *)
(* and lines; the status tells what the lines say because every posting    *)
(* keeps the balance of each line and receives something.                  *)
Inv ==
  /\ TypeOK
  /\ LedgerAgreesWithLines
  /\ StatusAgreesWithLines
  /\ ReceiptsHaveLines
  /\ CallsAreComplete

Row == [confirmed : Nat, remaining : Nat, discrepancy : Nat]

(* What a posting writes to one line, from the balance of that line.       *)
LEMMA LineAfterPosting ==
  ASSUME Inv, NEW k \in Items, NEW q \in Lines, NEW resolution \in Resolutions, Fits(q),
         LineAfter(q, resolution, k).confirmed + LineAfter(q, resolution, k).remaining
           + LineAfter(q, resolution, k).discrepancy = Dispatched[k]
  PROVE  /\ q[k].received \in Nat /\ q[k].damaged \in Nat
         /\ Missing(q, resolution, k) \in Nat
         /\ LineAfter(q, resolution, k) \in Row
         /\ LineAfter(q, resolution, k).confirmed = line[k].confirmed + q[k].received
         /\ LineAfter(q, resolution, k).remaining
              = line[k].remaining - InTransitOut(q, resolution, k)
         /\ LineAfter(q, resolution, k).discrepancy
              = line[k].discrepancy + q[k].damaged + Missing(q, resolution, k)
<1>1. q[k] \in [received : Nat, damaged : Nat]
  BY ConstantsAssumption DEF Quantities
<1>2. line[k] \in Row /\ Dispatched[k] \in Nat
  BY ConstantsAssumption DEF Inv, TypeOK, Row
<1>3. line[k].confirmed + line[k].remaining + line[k].discrepancy = Dispatched[k]
  BY DEF Inv, LedgerAgreesWithLines
<1>4. Missing(q, resolution, k) \in Nat
  BY <1>1, <1>2 DEF Missing, Fits, Row
<1> QED BY <1>1, <1>2, <1>3, <1>4
     DEF LineAfter, Lost, InTransitOut, RemainingInTransit, Row

(* The delivery status after a posting.                                    *)
LEMMA StatusAfterPosting ==
  ASSUME NEW lines \in [Items -> Row],
         \A k \in Items :
           lines[k].confirmed + lines[k].remaining + lines[k].discrepancy = Dispatched[k],
         \E k \in Items : lines[k].confirmed > 0
  PROVE  /\ NextStatus(lines) \in Deliveries \ {"IN_TRANSIT"}
         /\ NextStatus(lines) = "RECEIVED"
              <=> \A k \in Items : lines[k].confirmed = Dispatched[k]
         /\ NextStatus(lines) \in Receivable <=> \E k \in Items : lines[k].remaining > 0
         /\ ~ \A k \in Items : lines[k].confirmed = 0
<1>1. \A k \in Items : /\ lines[k].confirmed \in Nat /\ lines[k].remaining \in Nat
                       /\ lines[k].discrepancy \in Nat
  BY DEF Row
<1>2. (\A k \in Items : lines[k].confirmed = Dispatched[k])
        <=> \A k \in Items : ~(lines[k].remaining > 0) /\ ~(lines[k].discrepancy > 0)
  BY <1>1
<1>3. ~ \A k \in Items : lines[k].confirmed = 0
  BY <1>1
<1> QED BY <1>2, <1>3 DEF NextStatus, Deliveries, Receivable

(* A posting keeps the invariant, whichever call makes it.                 *)
LEMMA PostingInv ==
  ASSUME Inv, NEW r \in Receipts, NEW q \in Lines, NEW resolution \in Resolutions,
         Posting(r, q, resolution)
  PROVE  /\ line' \in [Items -> Row]
         /\ shipment' \in Deliveries /\ delivery' \in Deliveries
         /\ receipt' \in [Receipts -> [status : OpenReceipt \cup {"ABSENT", "CONFIRMED"},
                                       version : Nat, qty : Quantities,
                                       resolution : Resolutions \cup {None}]]
         /\ ledger' \in [Categories -> [Items -> Nat]]
         /\ orders' \subseteq ReadOrders
         /\ LedgerAgreesWithLines' /\ StatusAgreesWithLines' /\ ReceiptsHaveLines'
<1> DEFINE after == [k \in Items |-> LineAfter(q, resolution, k)]
           wrote == [status |-> "CONFIRMED", version |-> receipt[r].version + 1,
                     qty |-> q, resolution |-> resolution]
<1>1. \A k \in Items :
        LineAfter(q, resolution, k).confirmed + LineAfter(q, resolution, k).remaining
          + LineAfter(q, resolution, k).discrepancy = Dispatched[k]
  BY DEF Posting
<1>2. Fits(q) /\ line' = after /\ ledger' = LedgerAfter(q, resolution)
      /\ shipment' = NextStatus(after) /\ delivery' = NextStatus(after)
  BY DEF Posting
<1>3. after \in [Items -> Row]
  BY <1>1, <1>2, LineAfterPosting
<1>4. receipt' = [receipt EXCEPT ![r] = wrote]
  BY DEF Posting, Inv, TypeOK
<1>5. q \in Quantities
  BY ConstantsAssumption
<1>6. receipt[r].version + 1 \in Nat
  BY DEF Inv, TypeOK
<1>7. receipt' \in [Receipts -> [status : OpenReceipt \cup {"ABSENT", "CONFIRMED"},
                                 version : Nat, qty : Quantities,
                                 resolution : Resolutions \cup {None}]]
  BY <1>4, <1>5, <1>6 DEF Inv, TypeOK
<1>8. ReceiptsHaveLines'
  BY <1>4 DEF Inv, TypeOK, ReceiptsHaveLines
<1>9. ASSUME NEW k \in Items
      PROVE  /\ ledger'["AVAILABLE"][k] = after[k].confirmed
             /\ ledger'["IN_TRANSIT"][k] = after[k].remaining
             /\ ledger'["DAMAGED"][k] + ledger'["DISCREPANCY"][k] = after[k].discrepancy
             /\ \A c \in Categories : ledger'[c][k] \in Nat
  <2>1. /\ q[k].received \in Nat /\ q[k].damaged \in Nat
        /\ Missing(q, resolution, k) \in Nat
        /\ after[k] \in Row
        /\ after[k].confirmed = line[k].confirmed + q[k].received
        /\ after[k].remaining = line[k].remaining - InTransitOut(q, resolution, k)
        /\ after[k].discrepancy
             = line[k].discrepancy + q[k].damaged + Missing(q, resolution, k)
    BY <1>1, <1>2, LineAfterPosting
  <2>2. /\ ledger'["AVAILABLE"][k] = ledger["AVAILABLE"][k] + q[k].received
        /\ ledger'["IN_TRANSIT"][k]
             = ledger["IN_TRANSIT"][k] + (-InTransitOut(q, resolution, k))
        /\ ledger'["DAMAGED"][k] = ledger["DAMAGED"][k] + q[k].damaged
        /\ ledger'["DISCREPANCY"][k]
             = ledger["DISCREPANCY"][k] + Missing(q, resolution, k)
    BY <1>2 DEF LedgerAfter, Categories
  <2>3. /\ ledger["AVAILABLE"][k] = line[k].confirmed
        /\ ledger["IN_TRANSIT"][k] = line[k].remaining
        /\ ledger["DAMAGED"][k] + ledger["DISCREPANCY"][k] = line[k].discrepancy
    BY DEF Inv, LedgerAgreesWithLines
  <2>4. /\ ledger["DAMAGED"][k] \in Nat /\ ledger["DISCREPANCY"][k] \in Nat
        /\ line[k] \in Row
    BY DEF Inv, TypeOK, Categories, Row
  <2>5. InTransitOut(q, resolution, k) \in Nat
    BY <2>1 DEF InTransitOut, Lost
  <2>6. /\ ledger'["AVAILABLE"][k] = after[k].confirmed
        /\ ledger'["IN_TRANSIT"][k] = after[k].remaining
        /\ ledger'["DAMAGED"][k] + ledger'["DISCREPANCY"][k] = after[k].discrepancy
        /\ ledger'["DAMAGED"][k] \in Nat /\ ledger'["DISCREPANCY"][k] \in Nat
    BY <2>1, <2>2, <2>3, <2>4, <2>5 DEF Row
  <2>7. after[k].confirmed \in Nat /\ after[k].remaining \in Nat
    BY <2>1 DEF Row
  <2> QED BY <2>6, <2>7 DEF Categories
<1>10. ledger' \in [Categories -> [Items -> Nat]]
  BY <1>2, <1>9 DEF LedgerAfter
<1>11. LedgerAgreesWithLines'
  BY <1>1, <1>2, <1>9 DEF LedgerAgreesWithLines
<1>12. \E k \in Items : after[k].confirmed > 0
  <2>1. PICK k \in Items : q[k].received > 0
    BY ConstantsAssumption
  <2>2. /\ after[k].confirmed = line[k].confirmed + q[k].received
        /\ q[k].received \in Nat
    BY <1>1, <1>2, LineAfterPosting
  <2>3. line[k].confirmed \in Nat
    BY DEF Inv, TypeOK
  <2> QED BY <2>1, <2>2, <2>3
<1>13. /\ NextStatus(after) \in Deliveries \ {"IN_TRANSIT"}
       /\ NextStatus(after) = "RECEIVED"
            <=> \A k \in Items : after[k].confirmed = Dispatched[k]
       /\ NextStatus(after) \in Receivable <=> \E k \in Items : after[k].remaining > 0
       /\ ~ \A k \in Items : after[k].confirmed = 0
  <2>1. \A k \in Items :
          after[k].confirmed + after[k].remaining + after[k].discrepancy = Dispatched[k]
    BY <1>1
  <2> HIDE DEF after
  <2> QED BY <1>3, <1>12, <2>1, StatusAfterPosting
<1>14. StatusAgreesWithLines'
  BY <1>2, <1>13 DEF StatusAgreesWithLines
<1>15. orders' \subseteq ReadOrders
  BY DEF Posting, Inv, TypeOK
<1> QED BY <1>2, <1>3, <1>7, <1>8, <1>10, <1>11, <1>13, <1>14, <1>15

(* The shipment as dispatched satisfies the invariant.                     *)
LEMMA InitInv == Init => Inv
<1> SUFFICES ASSUME Init PROVE Inv
  OBVIOUS
<1>1. Dispatched \in [Items -> Nat \ {0}] /\ Items # {}
  BY ConstantsAssumption
<1>2. NoQuantities \in Quantities
  BY DEF NoQuantities, Quantities
<1>3. /\ receipt \in [Receipts -> [status : OpenReceipt \cup {"ABSENT", "CONFIRMED"},
                                   version : Nat, qty : Quantities,
                                   resolution : Resolutions \cup {None}]]
      /\ ReceiptsHaveLines
  <2>1. CASE receipt = [r \in Receipts |-> NoReceipt]
    BY <1>2, <2>1 DEF NoReceipt, ReceiptsHaveLines
  <2>2. ASSUME NEW r \in Receipts, NEW status \in OpenReceipt, NEW version \in 1 .. 2,
               NEW q \in Lines, NEW resolution \in Resolutions \cup {None},
               receipt = [[s \in Receipts |-> NoReceipt] EXCEPT ![r] =
                           [status |-> status, version |-> version, qty |-> q,
                            resolution |-> resolution]]
        PROVE  /\ receipt \in [Receipts -> [status : OpenReceipt \cup {"ABSENT", "CONFIRMED"},
                                            version : Nat, qty : Quantities,
                                            resolution : Resolutions \cup {None}]]
               /\ ReceiptsHaveLines
    <3>1. q \in Quantities
      BY ConstantsAssumption
    <3> QED BY <1>2, <2>2, <3>1 DEF NoReceipt, ReceiptsHaveLines
  <2> QED BY <2>1, <2>2 DEF Init
<1>4. /\ shipment \in Deliveries /\ delivery \in Deliveries
      /\ line \in [Items -> Row]
      /\ StatusAgreesWithLines
  BY <1>1 DEF Init, Deliveries, Receivable, Row, StatusAgreesWithLines
<1>5. ledger \in [Categories -> [Items -> Nat]] /\ LedgerAgreesWithLines
  BY <1>1 DEF Init, Categories, LedgerAgreesWithLines
<1>6. /\ call \in [Workers -> [receipt : Receipts \cup {None}, expected : Nat,
                               resolution : Resolutions \cup {None}]]
      /\ CallsAreComplete
  BY DEF Init, Idle, CallsAreComplete
<1>7. orders \subseteq ReadOrders
  BY DEF Init
<1> QED BY <1>3, <1>4, <1>5, <1>6, <1>7 DEF Inv, TypeOK, Row

(* A step that leaves the rows and the ledger alone and keeps the calls    *)
(* complete keeps the invariant.                                           *)
LEMMA CallOnlyInv ==
  ASSUME Inv, UNCHANGED <<shipment, delivery, line, receipt, ledger, orders>>,
         call' \in [Workers -> [receipt : Receipts \cup {None}, expected : Nat,
                                resolution : Resolutions \cup {None}]],
         CallsAreComplete'
  PROVE  Inv'
BY DEF Inv, TypeOK, LedgerAgreesWithLines, StatusAgreesWithLines, ReceiptsHaveLines

(* Every step keeps the invariant.                                         *)
LEMMA NextInv == Inv /\ [Next]_vars => Inv'
<1> SUFFICES ASSUME Inv, [Next]_vars PROVE Inv'
  OBVIOUS
<1> DEFINE Calls == [receipt : Receipts \cup {None}, expected : Nat,
                     resolution : Resolutions \cup {None}]
<1>0. Idle \in Calls /\ call \in [Workers -> Calls]
  BY DEF Idle, Inv, TypeOK
<1>1. ASSUME NEW q \in Lines, NEW resolution \in Resolutions, Submit(q, resolution)
      PROVE  Inv'
  <2>1. PICK r \in Receipts : Posting(r, q, resolution)
    BY <1>1 DEF Submit, OpenReceipts
  <2>2. call' = call
    BY <1>1 DEF Submit
  <2> QED BY <2>1, <2>2, PostingInv DEF Inv, TypeOK, CallsAreComplete, Row
<1>2. ASSUME NEW w \in Workers, NEW r \in Receipts, NEW sent \in Resolutions \cup {None},
             NEW expected \in 1 .. receipt[r].version, ConfirmRead(w, r, expected, sent)
      PROVE  Inv'
  <2> DEFINE c == [receipt |-> r, expected |-> expected,
                   resolution |-> IF sent # None THEN sent
                                  ELSE IF receipt[r].resolution # None
                                  THEN receipt[r].resolution ELSE "KEEP_IN_TRANSIT"]
  <2>1. receipt[r].resolution \in Resolutions \cup {None} /\ receipt[r].version \in Nat
    BY DEF Inv, TypeOK
  <2>2. expected \in Nat
    BY <2>1
  <2>3. c \in Calls /\ c.receipt \in Receipts /\ c.resolution \in Resolutions
    BY <2>1, <2>2 DEF Resolutions
  <2>4. call' = [call EXCEPT ![w] = c]
    BY <1>2 DEF ConfirmRead
  <2> HIDE DEF c
  <2>5. call' \in [Workers -> Calls] /\ CallsAreComplete'
    BY <1>0, <2>3, <2>4 DEF CallsAreComplete, Inv
  <2> QED BY <1>2, <2>5, CallOnlyInv DEF ConfirmRead
<1>3. ASSUME NEW w \in Workers, ConfirmPost(w)
      PROVE  Inv'
  <2> DEFINE c == call[w]
  <2>1. c.receipt \in Receipts /\ c.resolution \in Resolutions
    BY <1>3 DEF ConfirmPost, Inv, CallsAreComplete
  <2>2. receipt[c.receipt].qty \in Lines
    BY <1>3, <2>1 DEF ConfirmPost, StillOpen, OpenReceipt, Inv, ReceiptsHaveLines
  <2>3. Posting(c.receipt, receipt[c.receipt].qty, c.resolution)
    BY <1>3 DEF ConfirmPost
  <2>4. call' \in [Workers -> Calls] /\ CallsAreComplete'
    BY <1>0, <1>3 DEF ConfirmPost, Inv, CallsAreComplete
  <2> QED BY <2>1, <2>2, <2>3, <2>4, PostingInv DEF Inv, TypeOK, Row
<1>4. ASSUME NEW w \in Workers, Abort(w)
      PROVE  Inv'
  <2>1. call' \in [Workers -> Calls] /\ CallsAreComplete'
    BY <1>0, <1>4 DEF Abort, Inv, CallsAreComplete
  <2> QED BY <1>4, <2>1, CallOnlyInv DEF Abort
<1>5. CASE UNCHANGED vars
  BY <1>5, CallOnlyInv DEF vars, Inv, TypeOK, CallsAreComplete
<1> QED BY <1>1, <1>2, <1>3, <1>4, <1>5 DEF Next

(* The invariant holds in every state.                                     *)
LEMMA InvHolds == Spec => []Inv
BY InitInv, NextInv, PTL DEF Spec

(* However receipts overlap, for each item the ledger of the destination   *)
(* says what the shipment's lines say, and nothing sent is lost or found.  *)
THEOREM LedgerFollowsLines == Spec => []LedgerAgreesWithLines
<1>1. Inv => LedgerAgreesWithLines
  BY DEF Inv
<1> QED BY <1>1, InvHolds, PTL

(* The delivery status on shipment and issue tells what the lines say.     *)
THEOREM StatusFollowsLines == Spec => []StatusAgreesWithLines
<1>1. Inv => StatusAgreesWithLines
  BY DEF Inv
<1> QED BY <1>1, InvHolds, PTL

(* Every variable keeps its type; no balance at the destination, not even  *)
(* the one in transit, becomes negative.                                   *)
THEOREM TypeCorrect == Spec => []TypeOK
<1>1. Inv => TypeOK
  BY DEF Inv
<1> QED BY <1>1, InvHolds, PTL

(* A confirmed receipt never changes again.                                *)
THEOREM ConfirmedReceiptsStay == Spec => ConfirmedIsFinal
<1> DEFINE Stays == \A r \in Receipts : receipt[r].status = "CONFIRMED" =>
                                          receipt'[r] = receipt[r]
<1>1. Inv /\ [Next]_vars => [Stays]_vars
  <2> SUFFICES ASSUME Inv, Next PROVE Stays
    OBVIOUS
  <2>1. ASSUME NEW s \in Receipts, receipt[s].status # "CONFIRMED",
               NEW q, NEW resolution, Posting(s, q, resolution)
        PROVE  Stays
    BY <2>1 DEF Posting, Inv, TypeOK
  <2>2. ASSUME NEW q \in Lines, NEW resolution \in Resolutions, Submit(q, resolution)
        PROVE  Stays
    <3>1. PICK s \in Receipts : /\ receipt[s].status # "CONFIRMED"
                                /\ Posting(s, q, resolution)
      BY <2>2 DEF Submit, OpenReceipts, OpenReceipt
    <3> QED BY <2>1, <3>1
  <2>3. ASSUME NEW w \in Workers, ConfirmPost(w)
        PROVE  Stays
    <3>1. call[w].receipt \in Receipts
      BY <2>3 DEF ConfirmPost, Inv, CallsAreComplete
    <3> QED BY <2>1, <2>3, <3>1 DEF ConfirmPost, StillOpen, OpenReceipt
  <2> QED BY <2>2, <2>3 DEF Next, ConfirmRead, Abort
<1> QED BY <1>1, InvHolds, PTL DEF Spec, ConfirmedIsFinal

-----------------------------------------------------------------------------
(* Every posting confirms one receipt that was not confirmed before, and   *)
(* receives what that receipt shows; so the stock received is the sum over *)
(* the confirmed receipts.                                                 *)
Received(k) == [r \in Receipts |-> receipt[r].qty[k].received]
Confirmed   == {r \in Receipts : receipt[r].status = "CONFIRMED"}

(* What a receipt received is a number.                                    *)
LEMMA ReceivedInt ==
  ASSUME Inv, NEW k \in Items, NEW r \in Receipts PROVE Received(k)[r] \in Int
BY DEF Inv, TypeOK, Quantities, Received

(* The fold of the model is the sum of a function.                         *)
LEMMA ReceivedSum ==
  ASSUME NEW k, NEW T, T \subseteq Receipts
  PROVE  MapThenSumSet(LAMBDA r : receipt[r].qty[k].received, T)
           = SumFunctionOnSet(Received(k), T)
<1> DEFINE f == Received(k)
           g == [r \in T |-> receipt[r].qty[k].received]
<1>1. IsFiniteSet(T)
  BY FiniteAssumption, FS_Subset
<1>2. PICK h : Adds(f, T, h)
  BY <1>1, AddsExists
<1>3. h = [s \in SUBSET T |-> IF s = {} THEN 0
             ELSE receipt[First(s)].qty[k].received + h[s \ {First(s)}]]
  <2>1. \A s \in SUBSET T : s # {} => First(s) \in Receipts
    BY FirstIn
  <2>2. \A s \in SUBSET T : s # {} => f[First(s)] = receipt[First(s)].qty[k].received
    BY <2>1 DEF Received
  <2> HIDE DEF f
  <2> QED BY <1>2, <2>2 DEF Adds
<1>4. PICK h2 : /\ h2 = [s \in SUBSET T |-> IF s = {} THEN 0
                           ELSE receipt[First(s)].qty[k].received + h2[s \ {First(s)}]]
                /\ MapThenSumSet(LAMBDA r : receipt[r].qty[k].received, T) = h2[T]
  BY <1>3 DEF MapThenSumSet, MapThenFoldSet, First
<1>5. Adds(f, T, h2)
  <2>1. \A s \in SUBSET T : s # {} => First(s) \in Receipts
    BY FirstIn
  <2>2. \A s \in SUBSET T : s # {} => f[First(s)] = receipt[First(s)].qty[k].received
    BY <2>1 DEF Received
  <2> HIDE DEF f
  <2> QED BY <1>4, <2>2 DEF Adds
<1> HIDE DEF f
<1>6. SumFunctionOnSet(f, T) = h2[T]
  BY <1>1, <1>5, SumUnfold
<1> QED BY <1>4, <1>6 DEF f

PostedOnce ==
  \A k \in Items : ledger["AVAILABLE"][k] = SumFunctionOnSet(Received(k), Confirmed)

(* ReceiptsPostedOnce in the sums that SumTheorems speaks of.              *)
LEMMA PostedOnceIs == PostedOnce <=> ReceiptsPostedOnce
<1>1. \A k : MapThenSumSet(LAMBDA r : receipt[r].qty[k].received, Confirmed)
               = SumFunctionOnSet(Received(k), Confirmed)
  BY ReceivedSum DEF Confirmed
<1> QED BY <1>1 DEF PostedOnce, ReceiptsPostedOnce, Confirmed

(* A posting adds to the lines what its receipt says, once.                *)
LEMMA PostingPostsOnce ==
  ASSUME Inv, Inv', PostedOnce, NEW r \in Receipts, receipt[r].status # "CONFIRMED",
         NEW q \in Lines, NEW resolution \in Resolutions, Posting(r, q, resolution)
  PROVE  PostedOnce'
<1> SUFFICES ASSUME NEW k \in Items
             PROVE  ledger'["AVAILABLE"][k] = SumFunctionOnSet(Received(k)', Confirmed')
  BY DEF PostedOnce
<1>1. /\ receipt'[r].status = "CONFIRMED" /\ receipt'[r].qty = q
      /\ \A s \in Receipts : s # r => receipt'[s] = receipt[s]
  BY DEF Posting, Inv, TypeOK
<1>2. Confirmed' = Confirmed \cup {r} /\ r \notin Confirmed /\ Confirmed \subseteq Receipts
  BY <1>1 DEF Confirmed
<1>3. IsFiniteSet(Confirmed)
  BY <1>2, FiniteAssumption, FS_Subset
<1>4. /\ Received(k)'[r] = q[k].received
      /\ \A s \in Confirmed : Received(k)'[s] = Received(k)[s]
  BY <1>1, <1>2 DEF Received
<1>5. \A s \in Receipts : Received(k)'[s] \in Int
  BY ReceivedInt DEF Inv, TypeOK, Quantities, Received
<1>6. ledger'["AVAILABLE"][k] = ledger["AVAILABLE"][k] + q[k].received
  BY DEF Posting, LedgerAfter, Categories
<1> DEFINE f == Received(k)
           g == Received(k)'
<1>7. ledger["AVAILABLE"][k] = SumFunctionOnSet(f, Confirmed)
  BY DEF PostedOnce
<1>8. ledger["AVAILABLE"][k] \in Int
  BY DEF Inv, TypeOK, Categories
<1> HIDE DEF f, g
<1>9. SumFunctionOnSet(f, Confirmed) = SumFunctionOnSet(g, Confirmed)
  BY <1>3, <1>4, SumSame DEF f, g
<1>10. \A s \in Confirmed : g[s] \in Int
  BY <1>2, <1>5 DEF g
<1>11. g[r] \in Int
  BY <1>5 DEF g
<1>12. SumFunctionOnSet(g, Confirmed \cup {r}) = g[r] + SumFunctionOnSet(g, Confirmed)
  BY <1>2, <1>3, <1>10, <1>11, SumAdd
<1>13. SumFunctionOnSet(g, Confirmed') = ledger'["AVAILABLE"][k]
  BY <1>2, <1>4, <1>6, <1>7, <1>8, <1>9, <1>11, <1>12 DEF g
<1> QED BY <1>13 DEF g

(* What a step does to the receipts: it posts one that was not confirmed,  *)
(* or it writes none of the rows.                                          *)
LEMMA StepPosts ==
  ASSUME Inv, [Next]_vars
  PROVE  \/ UNCHANGED <<shipment, delivery, line, receipt, ledger, landed, orders>>
         \/ \E r \in Receipts, q \in Lines, resolution \in Resolutions :
              receipt[r].status # "CONFIRMED" /\ Posting(r, q, resolution)
<1>1. ASSUME NEW q \in Lines, NEW resolution \in Resolutions, Submit(q, resolution)
      PROVE  \E r \in Receipts : receipt[r].status # "CONFIRMED" /\ Posting(r, q, resolution)
  BY <1>1 DEF Submit, OpenReceipts, OpenReceipt
<1>2. ASSUME NEW w \in Workers, ConfirmPost(w)
      PROVE  \E r \in Receipts, q \in Lines, resolution \in Resolutions :
               receipt[r].status # "CONFIRMED" /\ Posting(r, q, resolution)
  <2>1. call[w].receipt \in Receipts /\ call[w].resolution \in Resolutions
    BY <1>2 DEF ConfirmPost, Inv, CallsAreComplete
  <2>2. /\ receipt[call[w].receipt].status \in OpenReceipt
        /\ receipt[call[w].receipt].qty \in Lines
    BY <1>2, <2>1 DEF ConfirmPost, StillOpen, OpenReceipt, Inv, ReceiptsHaveLines
  <2> QED BY <1>2, <2>1, <2>2 DEF ConfirmPost, OpenReceipt
<1> QED BY <1>1, <1>2 DEF Next, ConfirmRead, Abort, vars

(* Every confirmed receipt was posted exactly once, with its lines.        *)
THEOREM PostedExactlyOnce == Spec => []ReceiptsPostedOnce
<1>1. Init => PostedOnce
  <2> SUFFICES ASSUME Init, NEW k \in Items
               PROVE  ledger["AVAILABLE"][k] = SumFunctionOnSet(Received(k), Confirmed)
    BY DEF PostedOnce
  <2>1. Confirmed = {}
    <3>1. ASSUME NEW r \in Receipts PROVE receipt[r].status # "CONFIRMED"
      <4>1. CASE receipt = [s \in Receipts |-> NoReceipt]
        BY <4>1 DEF NoReceipt
      <4>2. CASE \E s \in Receipts, status \in OpenReceipt : \E version, q, resolution :
                   receipt = [[t \in Receipts |-> NoReceipt] EXCEPT ![s] =
                     [status |-> status, version |-> version, qty |-> q,
                      resolution |-> resolution]]
        BY <4>2 DEF NoReceipt, OpenReceipt
      <4> QED BY <4>1, <4>2 DEF Init
    <3> QED BY <3>1 DEF Confirmed
  <2>2. SumFunctionOnSet(Received(k), Confirmed) = 0
    BY <2>1, SumEmpty
  <2> QED BY <2>2 DEF Init, Categories
<1>2. Inv /\ Inv' /\ PostedOnce /\ [Next]_vars => PostedOnce'
  <2> SUFFICES ASSUME Inv, Inv', PostedOnce, [Next]_vars PROVE PostedOnce'
    OBVIOUS
  <2>1. CASE UNCHANGED <<shipment, delivery, line, receipt, ledger, landed, orders>>
    BY <2>1 DEF PostedOnce, Received, Confirmed
  <2> QED BY <2>1, StepPosts, PostingPostsOnce
<1>3. PostedOnce => ReceiptsPostedOnce
  BY PostedOnceIs
<1> QED BY <1>1, <1>2, <1>3, InvHolds, PTL DEF Spec

-----------------------------------------------------------------------------
(* The layers of an item, one after the other in the order in which they   *)
(* are read, tile what was dispatched; a posting prices the stretch that   *)
(* begins after everything consumed before.                                *)
LEMMA OverlapIs ==
  ASSUME NEW from \in Int, NEW to \in Int, NEW lo \in Int, NEW hi \in Int
  PROVE  Overlap(from, to, lo, hi)
           = LET size == (IF to <= hi THEN to ELSE hi) - (IF from >= lo THEN from ELSE lo)
             IN  IF size < 0 THEN 0 ELSE size
<1>1. Min({to, hi}) = IF to <= hi THEN to ELSE hi
  <2> DEFINE m == IF to <= hi THEN to ELSE hi
  <2>1. /\ m \in {to, hi} /\ \A y \in {to, hi} : m =< y
        /\ \A x \in {to, hi} : (\A y \in {to, hi} : x =< y) => x = m
    OBVIOUS
  <2> HIDE DEF m
  <2>2. Min({to, hi}) = m
    BY <2>1 DEF Min
  <2> QED BY <2>2 DEF m
<1>2. Max({from, lo}) = IF from >= lo THEN from ELSE lo
  <2> DEFINE m == IF from >= lo THEN from ELSE lo
  <2>1. /\ m \in {from, lo} /\ \A y \in {from, lo} : m >= y
        /\ \A x \in {from, lo} : (\A y \in {from, lo} : x >= y) => x = m
    OBVIOUS
  <2> HIDE DEF m
  <2>2. Max({from, lo}) = m
    BY <2>1 DEF Max
  <2> QED BY <2>2 DEF m
<1> QED BY <1>1, <1>2 DEF Overlap

(* The part of an interval that lies in another one is at most as long as  *)
(* that one, and all of it if it lies inside.                              *)
LEMMA OverlapBounds ==
  ASSUME NEW from \in Int, NEW to \in Int, NEW lo \in Int, NEW hi \in Int, lo <= hi
  PROVE  /\ Overlap(from, to, lo, hi) \in Nat
         /\ Overlap(from, to, lo, hi) <= hi - lo
         /\ lo <= from /\ from <= to /\ to <= hi => Overlap(from, to, lo, hi) = to - from
<1> DEFINE o == Overlap(from, to, lo, hi)
<1>1. o = LET size == (IF to <= hi THEN to ELSE hi) - (IF from >= lo THEN from ELSE lo)
          IN  IF size < 0 THEN 0 ELSE size
  BY OverlapIs
<1> HIDE DEF o
<1>2. /\ o \in Nat /\ o <= hi - lo
      /\ lo <= from /\ from <= to /\ to <= hi => o = to - from
  BY <1>1
<1> QED BY <1>2 DEF o

(* Two stretches that meet overlap a layer in what they overlap together.  *)
LEMMA StretchesMeet ==
  ASSUME NEW from \in Int, NEW mid \in Int, NEW to \in Int, NEW lo \in Int, NEW hi \in Int,
         lo <= hi, from <= mid, mid <= to
  PROVE  Overlap(from, to, lo, hi) = Overlap(from, mid, lo, hi) + Overlap(mid, to, lo, hi)
<1> DEFINE Size(a, b, c, d) == (IF b <= d THEN b ELSE d) - (IF a >= c THEN a ELSE c)
           O(a, b, c, d) == IF Size(a, b, c, d) < 0 THEN 0 ELSE Size(a, b, c, d)
<1>1. \A a, b, c, d \in Int : Overlap(a, b, c, d) = O(a, b, c, d)
  BY OverlapIs
<1>2. O(from, to, lo, hi) = O(from, mid, lo, hi) + O(mid, to, lo, hi)
  OBVIOUS
<1> HIDE DEF O
<1> QED BY <1>1, <1>2

(* Two layers that meet are overlapped likewise.                           *)
LEMMA LayersMeet ==
  ASSUME NEW from \in Int, NEW to \in Int, NEW lo \in Int, NEW mid \in Int, NEW hi \in Int,
         from <= to, lo <= mid, mid <= hi
  PROVE  Overlap(from, to, lo, hi) = Overlap(from, to, lo, mid) + Overlap(from, to, mid, hi)
<1> DEFINE Size(a, b, c, d) == (IF b <= d THEN b ELSE d) - (IF a >= c THEN a ELSE c)
           O(a, b, c, d) == IF Size(a, b, c, d) < 0 THEN 0 ELSE Size(a, b, c, d)
<1>1. \A a, b, c, d \in Int : Overlap(a, b, c, d) = O(a, b, c, d)
  BY OverlapIs
<1>2. O(from, to, lo, hi) = O(from, to, lo, mid) + O(from, to, mid, hi)
  OBVIOUS
<1> HIDE DEF O
<1> QED BY <1>1, <1>2

(* The folds over the layers of an item are sums.                          *)
LEMMA LayerSums ==
  ASSUME NEW k, NEW f, NEW T, IsFiniteSet(T)
  PROVE  MapThenSumSet(LAMBDA n : f[n], T) = SumFunctionOnSet(f, T)
<1>1. PICK h : Adds(f, T, h)
  BY AddsExists
<1>2. PICK h2 : /\ Adds(f, T, h2)
                /\ MapThenSumSet(LAMBDA n : f[n], T) = h2[T]
  BY <1>1 DEF MapThenSumSet, MapThenFoldSet, Adds, First
<1> QED BY <1>2, SumUnfold

LEMMA StartIs ==
  ASSUME NEW order, NEW k, NEW n
  PROVE  Start(order, k, n)
           = SumFunctionOnSet(Layers[k], {m \in DOMAIN Layers[k] : order[k][m] < order[k][n]})
BY DEF Start, MapThenSumSet, SumFunctionOnSet, FoldFunctionOnSet

(* A stretch of item k overlaps all layers together in all of it that was  *)
(* dispatched.                                                             *)
LEMMA LayersTile ==
  ASSUME NEW k \in Items, NEW order \in ReadOrders,
         NEW from \in Int, NEW to \in Int, from <= to,
         NEW part, part = [n \in DOMAIN Layers[k] |->
           Overlap(from, to, Start(order, k, n), Start(order, k, n) + Layers[k][n])]
  PROVE  SumFunctionOnSet(part, DOMAIN Layers[k]) = Overlap(from, to, 0, Dispatched[k])
<1> DEFINE D == DOMAIN Layers[k]
           L == Layers[k]
           o == order[k]
           Down(T) == \A n \in T, m \in D : o[m] < o[n] => m \in T
           Bad == {T \in SUBSET D : /\ Down(T)
                                    /\ SumFunctionOnSet(part, T)
                                         # Overlap(from, to, 0, SumFunctionOnSet(L, T))}
<1>1. /\ IsFiniteSet(D)
      /\ \A n \in D : L[n] \in Nat /\ o[n] \in Int
      /\ \A m, n \in D : o[m] = o[n] => m = n
  BY ConstantsAssumption, FiniteAssumption DEF Injection, IsInjective
<1>2. ASSUME NEW T \in SUBSET D
      PROVE  IsFiniteSet(T) /\ SumFunctionOnSet(L, T) \in Nat
  <2>1. IsFiniteSet(T) /\ \A n \in T : L[n] \in Nat
    BY <1>1, FS_Subset
  <2> HIDE DEF L
  <2> QED BY <2>1, SumNat
<1>3. ASSUME NEW n \in D PROVE Start(order, k, n) \in Nat
  BY <1>2, StartIs
<1>4. ASSUME NEW n \in D PROVE part[n] \in Int
  <2> DEFINE lo == Start(order, k, n)
             hi == lo + L[n]
  <2>1. lo \in Int /\ hi \in Int /\ lo <= hi
    BY <1>1, <1>3
  <2>2. part[n] = Overlap(from, to, lo, hi)
    OBVIOUS
  <2> HIDE DEF lo, hi
  <2>3. Overlap(from, to, lo, hi) \in Nat
    BY <2>1, OverlapBounds
  <2> QED BY <2>2, <2>3
<1> HIDE DEF D, L, o
<1>5. ASSUME Bad # {} PROVE FALSE
  <2>1. PICK T \in Bad : \A U \in SUBSET T : U # T => U \notin Bad
    <3>1. Bad \subseteq SUBSET D
      OBVIOUS
    <3> HIDE DEF Bad
    <3> QED BY <1>1, <1>5, <3>1, MinimalSubset
  <2>2. /\ T \in SUBSET D /\ IsFiniteSet(T) /\ Down(T)
        /\ SumFunctionOnSet(part, T) # Overlap(from, to, 0, SumFunctionOnSet(L, T))
    BY <1>2
  <2>3. T # {}
    <3>1. Overlap(from, to, 0, 0) = 0
      <4> DEFINE a == 0
      <4>1. a \in Int /\ a <= a /\ a - a = 0
        OBVIOUS
      <4> HIDE DEF a
      <4>2. Overlap(from, to, a, a) \in Nat /\ Overlap(from, to, a, a) <= a - a
        BY <4>1, OverlapBounds
      <4>3. Overlap(from, to, a, a) = 0
        BY <4>1, <4>2
      <4> QED BY <4>3 DEF a
    <3>2. ASSUME T = {} PROVE FALSE
      <4>1. SumFunctionOnSet(part, T) = 0 /\ SumFunctionOnSet(L, T) = 0
        BY <3>2, SumEmpty
      <4> QED BY <2>2, <3>1, <4>1
    <3> QED BY <3>2
  <2>4. PICK m \in T : \A x \in T : o[x] <= o[m]
    <3>1. \A x \in T : o[x] \in Int
      BY <1>1, <2>2
    <3> QED BY <2>2, <2>3, <3>1, GreatestMember
  <2> DEFINE U == T \ {m}
  <2>5. {x \in D : o[x] < o[m]} = U
    BY <1>1, <2>2, <2>4
  <2>6. Down(U)
    BY <1>1, <2>2, <2>4
  <2>7. SumFunctionOnSet(part, U) = Overlap(from, to, 0, SumFunctionOnSet(L, U))
    <3>1. U \in SUBSET T /\ U # T /\ U \in SUBSET D
      BY <2>2, <2>4
    <3> QED BY <2>1, <2>6, <3>1
  <2>8. Start(order, k, m) = SumFunctionOnSet(L, U)
    BY <2>5, StartIs DEF D, L, o
  <2>9. SumFunctionOnSet(L, T) = L[m] + SumFunctionOnSet(L, U)
    BY <1>1, <2>2, SumTake
  <2>10. SumFunctionOnSet(part, T) = part[m] + SumFunctionOnSet(part, U)
    <3>1. \A x \in T : part[x] \in Int
      BY <1>4, <2>2
    <3> QED BY <2>2, <3>1, SumTake
  <2>11. SumFunctionOnSet(L, U) \in Nat /\ L[m] \in Nat
    BY <1>1, <1>2, <2>2
  <2> DEFINE u == SumFunctionOnSet(L, U)
  <2>12. part[m] = Overlap(from, to, u, u + L[m])
    BY <2>2, <2>8 DEF D, L
  <2> DEFINE v == u + L[m]
             zero == 0
  <2> HIDE DEF u, v, U, zero
  <2>13. u \in Int /\ v \in Int /\ zero \in Int /\ zero <= u /\ u <= v /\ zero <= v
    BY <2>11 DEF u, v, zero
  <2>14. Overlap(from, to, zero, v) = Overlap(from, to, zero, u) + Overlap(from, to, u, v)
    BY <2>13, LayersMeet
  <2>15. Overlap(from, to, zero, u) \in Nat /\ Overlap(from, to, u, v) \in Nat
    BY <2>13, OverlapBounds
  <2>16. SumFunctionOnSet(L, T) = v
    BY <2>9, <2>11 DEF u, v
  <2> QED BY <2>2, <2>7, <2>10, <2>12, <2>14, <2>15, <2>16 DEF u, v, zero
<1>6. SumFunctionOnSet(L, D) = Dispatched[k]
  BY ConstantsAssumption DEF L, D, MapThenSumSet, SumFunctionOnSet, FoldFunctionOnSet
<1>7. D \notin Bad
  BY <1>5
<1>8. SumFunctionOnSet(part, D) = Overlap(from, to, 0, SumFunctionOnSet(L, D))
  BY <1>7
<1> QED BY <1>6, <1>8 DEF D

(* The inductive invariant of the prices.  What landed adds up to what is  *)
(* confirmed; and of a layer that all postings have read at one place, no  *)
(* more has landed than lies in it before what is consumed.                *)
Place(k, n, s) == \A order \in orders : Start(order, k, n) = s

Priced ==
  \A k \in Items :
    /\ landed[k] \in [DOMAIN Layers[k] -> Nat]
    /\ \A n \in DOMAIN Layers[k], s \in Nat :
         Place(k, n, s) => landed[k][n] <= Overlap(0, Consumed(k), s, s + Layers[k][n])
    /\ SumFunctionOnSet(landed[k], DOMAIN Layers[k]) = line[k].confirmed

(* Layers have a length and a place in every order.                        *)
LEMMA LayerTypes ==
  ASSUME NEW k \in Items, NEW order \in ReadOrders, NEW n \in DOMAIN Layers[k]
  PROVE  Layers[k][n] \in Nat /\ Start(order, k, n) \in Nat
<1> DEFINE L == Layers[k]
           T == {m \in DOMAIN Layers[k] : order[k][m] < order[k][n]}
<1>1. IsFiniteSet(T) /\ \A m \in T : L[m] \in Nat
  <2>1. T \in SUBSET DOMAIN Layers[k] /\ IsFiniteSet(DOMAIN Layers[k])
    BY FiniteAssumption
  <2>2. \A m \in DOMAIN Layers[k] : L[m] \in Nat
    BY ConstantsAssumption
  <2> HIDE DEF T
  <2> QED BY <2>1, <2>2, FS_Subset
<1>2. SumFunctionOnSet(L, T) \in Nat
  <2> HIDE DEF L, T
  <2> QED BY <1>1, SumNat
<1> QED BY <1>2, StartIs, ConstantsAssumption

(* A posting receives no more than is still under way, and consumes at     *)
(* least what it receives.                                                 *)
LEMMA PostingConsumes ==
  ASSUME Inv, NEW q \in Lines, NEW resolution \in Resolutions, NEW r \in Receipts,
         Posting(r, q, resolution), NEW k \in Items
  PROVE  /\ q[k].received \in Nat /\ Consumed(k) \in Nat /\ Consumed(k)' \in Nat
         /\ Consumed(k) + q[k].received <= Consumed(k)'
         /\ Consumed(k)' <= Dispatched[k]
         /\ line'[k].confirmed = line[k].confirmed + q[k].received
         /\ line[k].confirmed \in Nat /\ Dispatched[k] \in Nat
<1> DEFINE after == LineAfter(q, resolution, k)
<1>1. /\ Fits(q) /\ line'[k] = after
      /\ after.confirmed + after.remaining + after.discrepancy = Dispatched[k]
  BY DEF Posting
<1>2. /\ q[k].received \in Nat /\ q[k].damaged \in Nat
      /\ Missing(q, resolution, k) \in Nat
      /\ after \in Row
      /\ after.confirmed = line[k].confirmed + q[k].received
      /\ after.discrepancy = line[k].discrepancy + q[k].damaged + Missing(q, resolution, k)
  BY <1>1, LineAfterPosting
<1>3. line[k].confirmed \in Nat /\ line[k].discrepancy \in Nat /\ Dispatched[k] \in Nat
  BY ConstantsAssumption DEF Inv, TypeOK
<1>4. Consumed(k)' = after.confirmed + after.discrepancy
  BY <1>1 DEF Consumed
<1>5. after.confirmed \in Nat /\ after.remaining \in Nat /\ after.discrepancy \in Nat
  BY <1>2 DEF Row
<1> HIDE DEF after
<1> QED BY <1>1, <1>2, <1>3, <1>4, <1>5 DEF Consumed

(* A posting prices what comes next in the order it reads.                 *)
LEMMA PostingPrices ==
  ASSUME Inv, Priced, NEW r \in Receipts, NEW q \in Lines, NEW resolution \in Resolutions,
         Posting(r, q, resolution)
  PROVE  Priced'
<1> SUFFICES ASSUME NEW k \in Items
             PROVE  /\ landed'[k] \in [DOMAIN Layers[k] -> Nat]
                    /\ \A n \in DOMAIN Layers[k], s \in Nat :
                         Place(k, n, s)' =>
                           landed'[k][n] <= Overlap(0, Consumed(k)', s, s + Layers[k][n])
                    /\ SumFunctionOnSet(landed'[k], DOMAIN Layers[k]) = line'[k].confirmed
  BY DEF Priced
<1>o. PICK order \in ReadOrders :
        /\ landed' = [j \in Items |-> [n \in DOMAIN Layers[j] |->
                        landed[j][n] + Slice(q, order, j, n)]]
        /\ orders' = orders \cup {order}
  BY DEF Posting
<1> DEFINE D == DOMAIN Layers[k]
           c == Consumed(k)
           d == Consumed(k)'
           got == q[k].received
           slice == [n \in D |-> Overlap(c, c + got, Start(order, k, n),
                                         Start(order, k, n) + Layers[k][n])]
<1>1. landed'[k] = [n \in D |-> landed[k][n] + slice[n]]
  BY <1>o DEF Slice
<1>2. /\ got \in Nat /\ c \in Nat /\ d \in Nat /\ c + got <= d /\ d <= Dispatched[k]
      /\ line'[k].confirmed = line[k].confirmed + got
      /\ line[k].confirmed \in Nat /\ Dispatched[k] \in Nat
  BY PostingConsumes
<1>3. /\ landed[k] \in [D -> Nat]
      /\ \A n \in D, s \in Nat :
           Place(k, n, s) => landed[k][n] <= Overlap(0, c, s, s + Layers[k][n])
      /\ SumFunctionOnSet(landed[k], D) = line[k].confirmed
  BY DEF Priced
<1> HIDE DEF c, d, got
<1>4. ASSUME NEW n \in D
      PROVE  slice[n] \in Nat /\ landed'[k][n] = landed[k][n] + slice[n]
  <2> DEFINE lo == Start(order, k, n)
             hi == lo + Layers[k][n]
             e == c + got
  <2>1. lo \in Int /\ hi \in Int /\ lo <= hi /\ c \in Int /\ e \in Int
    BY <1>2, LayerTypes
  <2>2. slice[n] = Overlap(c, e, lo, hi)
    OBVIOUS
  <2>3. landed'[k][n] = landed[k][n] + slice[n]
    BY <1>1
  <2> HIDE DEF lo, hi, e, slice
  <2>4. Overlap(c, e, lo, hi) \in Nat
    BY <2>1, OverlapBounds
  <2> QED BY <2>2, <2>3, <2>4
<1>5. ASSUME NEW n \in D, NEW s \in Nat, Place(k, n, s)'
      PROVE  landed'[k][n] <= Overlap(0, d, s, s + Layers[k][n])
  <2> DEFINE lo == s
             hi == lo + Layers[k][n]
             e == c + got
             zero == 0
  <2>p. Start(order, k, n) = s /\ Place(k, n, s)
    BY <1>5, <1>o DEF Place
  <2>1. lo \in Int /\ hi \in Int /\ lo <= hi
    BY LayerTypes
  <2>2. slice[n] = Overlap(c, e, lo, hi) /\ landed[k][n] <= Overlap(zero, c, lo, hi)
    BY <1>3, <2>p
  <2>3. /\ c \in Int /\ d \in Int /\ e \in Int /\ zero \in Int
        /\ zero <= c /\ c <= e /\ e <= d /\ zero <= e
    BY <1>2
  <2>4. landed'[k][n] = landed[k][n] + slice[n] /\ landed[k][n] \in Nat
    BY <1>3, <1>4
  <2> HIDE DEF lo, hi, e, zero, slice
  <2>5. Overlap(zero, e, lo, hi) = Overlap(zero, c, lo, hi) + Overlap(c, e, lo, hi)
    BY <2>1, <2>3, StretchesMeet
  <2>6. Overlap(zero, d, lo, hi) = Overlap(zero, e, lo, hi) + Overlap(e, d, lo, hi)
    BY <2>1, <2>3, StretchesMeet
  <2>7. /\ Overlap(zero, c, lo, hi) \in Nat /\ Overlap(c, e, lo, hi) \in Nat
        /\ Overlap(e, d, lo, hi) \in Nat
    BY <2>1, <2>3, OverlapBounds
  <2>8. landed'[k][n] <= Overlap(zero, d, lo, hi)
    BY <2>2, <2>4, <2>5, <2>6, <2>7
  <2> QED BY <2>8 DEF lo, hi, zero
<1>6. landed'[k] \in [D -> Nat]
  <2> HIDE DEF slice, D
  <2>1. \A n \in D : landed[k][n] + slice[n] \in Nat
    BY <1>3, <1>4
  <2> QED BY <1>1, <2>1
<1>7. SumFunctionOnSet(slice, D) = got
  <2> DEFINE e == c + got
             zero == 0
             all == Dispatched[k]
  <2>1. c \in Int /\ e \in Int /\ zero \in Int /\ all \in Int /\ c <= e /\ zero <= c
        /\ e <= all /\ zero <= all /\ e - c = got
    BY <1>2
  <2>2. SumFunctionOnSet(slice, D) = Overlap(c, e, zero, all)
    BY <2>1, LayersTile
  <2> HIDE DEF e, zero, all, slice
  <2>3. Overlap(c, e, zero, all) = e - c
    BY <2>1, OverlapBounds
  <2> QED BY <2>1, <2>2, <2>3
<1>8. IsFiniteSet(D)
  BY FiniteAssumption
<1>9. SumFunctionOnSet(landed'[k], D) = SumFunctionOnSet(landed[k], D) + SumFunctionOnSet(slice, D)
  <2> DEFINE f == landed[k]
             h == landed'[k]
  <2>1. \A n \in D : f[n] \in Int /\ slice[n] \in Int /\ h[n] = f[n] + slice[n]
    BY <1>3, <1>4
  <2> HIDE DEF f, h, slice, D
  <2>2. SumFunctionOnSet(h, D) = SumFunctionOnSet(f, D) + SumFunctionOnSet(slice, D)
    BY <1>8, <2>1, SumPlus
  <2> QED BY <2>2 DEF f, h
<1> HIDE DEF slice
<1> QED BY <1>2, <1>3, <1>5, <1>6, <1>7, <1>9 DEF d

(* A layer read at one place each time is not priced twice.                *)
LEMMA PricedMeans ==
  ASSUME Inv, Priced
  PROVE  ReusedOnlyOutOfOrder
<1>1. ASSUME NEW k \in Items, NEW n \in DOMAIN Layers[k],
             \A one, other \in orders : Start(one, k, n) = Start(other, k, n)
      PROVE  landed[k][n] <= Layers[k][n]
  <2>1. PICK s \in Nat : Place(k, n, s)
    <3>1. CASE orders = {}
      BY <3>1 DEF Place
    <3>2. CASE orders # {}
      <4>1. PICK one \in orders : one \in ReadOrders
        BY <3>2 DEF Inv, TypeOK
      <4>2. Start(one, k, n) \in Nat
        BY <4>1, LayerTypes
      <4> QED BY <1>1, <4>2 DEF Place
    <3> QED BY <3>1, <3>2
  <2> DEFINE lo == s
             hi == lo + Layers[k][n]
             zero == 0
             c == Consumed(k)
  <2>2. Layers[k][n] \in Nat
    BY ConstantsAssumption
  <2>3. /\ lo \in Int /\ hi \in Int /\ lo <= hi /\ hi - lo = Layers[k][n]
        /\ zero \in Int /\ c \in Int /\ landed[k][n] \in Nat
        /\ landed[k][n] <= Overlap(zero, c, lo, hi)
    BY <2>1, <2>2 DEF Inv, TypeOK, Consumed, Priced
  <2> HIDE DEF lo, hi, zero, c
  <2>4. Overlap(zero, c, lo, hi) \in Nat /\ Overlap(zero, c, lo, hi) <= hi - lo
    BY <2>3, OverlapBounds
  <2> QED BY <2>2, <2>3, <2>4
<1>2. ASSUME NEW k \in Items, NEW n \in DOMAIN Layers[k], landed[k][n] > Layers[k][n]
      PROVE  \E one, other \in orders : Start(one, k, n) # Start(other, k, n)
  <2>1. landed[k][n] \in Nat /\ Layers[k][n] \in Nat
    BY ConstantsAssumption DEF Priced
  <2> QED BY <1>1, <1>2, <2>1
<1>3. ASSUME NEW k \in Items
      PROVE  MapThenSumSet(LAMBDA n : landed[k][n], DOMAIN Layers[k]) = line[k].confirmed
  BY DEF Priced, MapThenSumSet, SumFunctionOnSet, FoldFunctionOnSet
<1> QED BY <1>2, <1>3 DEF ReusedOnlyOutOfOrder

(* In whatever orders the database returns the layers, everything received *)
(* is priced, and a layer is priced beyond what was dispatched at its rate *)
(* only when two postings read it at different places.  (That this happens *)
(* is what run receipt_order shows.)                                       *)
THEOREM LayersPricedOnce == Spec => []ReusedOnlyOutOfOrder
<1>1. Init => Priced
  <2> SUFFICES ASSUME Init, NEW k \in Items
               PROVE  /\ landed[k] \in [DOMAIN Layers[k] -> Nat]
                      /\ \A n \in DOMAIN Layers[k], s \in Nat :
                           landed[k][n] <= Overlap(0, Consumed(k), s, s + Layers[k][n])
                      /\ SumFunctionOnSet(landed[k], DOMAIN Layers[k]) = line[k].confirmed
    BY DEF Priced
  <2>1. landed[k] = [n \in DOMAIN Layers[k] |-> 0] /\ line[k].confirmed = 0 /\ Consumed(k) = 0
    BY DEF Init, Consumed
  <2>2. ASSUME NEW n \in DOMAIN Layers[k], NEW s \in Nat
        PROVE  0 <= Overlap(0, Consumed(k), s, s + Layers[k][n])
    <3> DEFINE lo == s
               hi == lo + Layers[k][n]
               c == Consumed(k)
               zero == 0
    <3>1. lo \in Int /\ hi \in Int /\ lo <= hi /\ c \in Int /\ zero \in Int
      BY <2>1, ConstantsAssumption
    <3> HIDE DEF lo, hi, c, zero
    <3>2. Overlap(zero, c, lo, hi) \in Nat
      BY <3>1, OverlapBounds
    <3> QED BY <3>2 DEF lo, hi, c, zero
  <2>3. SumFunctionOnSet(landed[k], DOMAIN Layers[k]) = 0
    <3> DEFINE f == landed[k]
    <3>1. \A n \in DOMAIN Layers[k] : f[n] = 0
      BY <2>1
    <3>2. IsFiniteSet(DOMAIN Layers[k])
      BY FiniteAssumption
    <3> HIDE DEF f
    <3>3. SumFunctionOnSet(f, DOMAIN Layers[k]) = 0
      BY <3>1, <3>2, SumZero
    <3> QED BY <3>3 DEF f
  <2> QED BY <2>1, <2>2, <2>3
<1>2. Inv /\ Priced /\ [Next]_vars => Priced'
  <2> SUFFICES ASSUME Inv, Priced, [Next]_vars PROVE Priced'
    OBVIOUS
  <2>1. CASE UNCHANGED <<shipment, delivery, line, receipt, ledger, landed, orders>>
    BY <2>1 DEF Priced, Place, Consumed
  <2> QED BY <2>1, StepPosts, PostingPrices
<1>3. Inv /\ Priced => ReusedOnlyOutOfOrder
  BY PricedMeans
<1> QED BY <1>1, <1>2, <1>3, InvHolds, PTL DEF Spec
=============================================================================
