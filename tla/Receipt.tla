------------------------------ MODULE Receipt ------------------------------
(***************************************************************************)
(* Delivery of one shipment: what a dispatch sent is received at the       *)
(* destination store, in one or several receipts (item-issue-receipts and  *)
(* item-issue-receipt-posting).  A receipt is recorded and posted in one   *)
(* transaction that locks the shipment row first; a receipt saved open by  *)
(* an earlier release can also be confirmed by its id and version, which   *)
(* are read before that transaction.                                       *)
(*                                                                         *)
(* Abstractions.  A receipt line is [received, damaged], received = 0 for  *)
(* "no line"; the quantities "missing" and "excess" that a client sends    *)
(* are only stored.  The ledger is kept as the destination's balances per  *)
(* category, and the AVAILABLE one also per FIFO layer (rate) of the       *)
(* dispatch.  Roles, notifications and audit rows are left out.            *)
(***************************************************************************)
EXTENDS FiniteSetsExt

CONSTANTS Items,
          Receipts,    \* identifiers for item_issue_receipts rows
          Workers,
          None,
          Dispatched,  \* Dispatched[k]: quantity of item k on the shipment
          Layers,      \* Layers[k][n]: the part of it dispatched at rate n
          ReadOrders,  \* ReadOrders[k][n]: position of layer n when read
          Lines        \* the line sets that clients send

Quantities == [Items -> [received : Nat, damaged : Nat]]

ASSUME ConstantsAssumption ==
  /\ Items # {}
  /\ None \notin Receipts
  /\ Dispatched \in [Items -> Nat \ {0}]
  /\ \A k \in Items : \A n \in DOMAIN Layers[k] : Layers[k][n] \in Nat \ {0}
  /\ \A k \in Items :
       MapThenSumSet(LAMBDA n : Layers[k][n], DOMAIN Layers[k]) = Dispatched[k]
  /\ \A order \in ReadOrders, k \in Items :
       order[k] \in Injection(DOMAIN Layers[k], Int)
  /\ Lines \subseteq {q \in Quantities :
                      /\ \E k \in Items : q[k].received > 0
                      /\ \A k \in Items : q[k].received = 0 => q[k].damaged = 0}

(* Sums are over the rows of a table.                                      *)
ASSUME FiniteAssumption ==
  IsFiniteSet(Receipts) /\ \A k \in Items : IsFiniteSet(DOMAIN Layers[k])

VARIABLES
  shipment,  \* delivery status of the item_issue_shipments row
  delivery,  \* delivery status on the item_issues row
  line,      \* line[k]: item_issue_shipment_lines row of item k
  receipt,   \* receipt[r]: item_issue_receipts row r with its lines
  ledger,    \* ledger[c][k]: balance of item k in category c, destination
  landed,    \* landed[k][n]: AVAILABLE quantity received at rate n
  orders,    \* history: the orders in which postings read the layers
  call       \* call[w]: the confirmation worker w is serving

vars == <<shipment, delivery, line, receipt, ledger, landed, orders, call>>

Receivable  == {"IN_TRANSIT", "PARTIALLY_RECEIVED"}
Deliveries  == Receivable \cup {"RECEIVED", "RECEIVED_WITH_DISCREPANCY"}
OpenReceipt_AlsoConfirmed == {"DRAFT", "PENDING_VERIFICATION", "RETURNED", "CONFIRMED"}

OpenReceipt == {"DRAFT", "PENDING_VERIFICATION", "RETURNED"}
Resolutions == {"KEEP_IN_TRANSIT", "COMPLETE_WITH_DISCREPANCY"}
Categories  == {"AVAILABLE", "IN_TRANSIT", "DAMAGED", "DISCREPANCY"}

NoQuantities == [k \in Items |-> [received |-> 0, damaged |-> 0]]

(* A new row has version 1.                                                *)
NoReceipt == [status |-> "ABSENT", version |-> 1, qty |-> NoQuantities,
              resolution |-> None]

Idle == [receipt |-> None, expected |-> 0, resolution |-> None]

OpenReceipts == {r \in Receipts : receipt[r].status \in OpenReceipt}

Fits(q) ==
  \A k \in Items :
    q[k].received > 0 => q[k].received + q[k].damaged <= line[k].remaining

-----------------------------------------------------------------------------
(* What a posting computes for item k, from its receipt line.              *)

Missing(q, resolution, k) ==
  IF resolution = "COMPLETE_WITH_DISCREPANCY" /\ q[k].received > 0
  THEN line[k].remaining - q[k].received - q[k].damaged
  ELSE 0

Lost(q, resolution, k) == q[k].damaged + Missing(q, resolution, k)

(* remainingNonNegativeDecimalString: the difference, but never negative.  *)
RemainingInTransit(dispatched, confirmed, discrepancy) ==
  LET rest == dispatched - (confirmed + discrepancy)
  IN  IF rest < 0 THEN 0 ELSE rest

LineAfter(q, resolution, k) ==
  LET confirmed   == line[k].confirmed + q[k].received
      discrepancy == line[k].discrepancy + Lost(q, resolution, k)
  IN  [confirmed |-> confirmed, discrepancy |-> discrepancy,
       remaining |-> RemainingInTransit(Dispatched[k], confirmed, discrepancy)]

InTransitOut_ReceivedAndDamaged(q, resolution, k) == q[k].received + q[k].damaged

InTransitOut_LostTwice(q, resolution, k) ==
  q[k].received + q[k].damaged + Lost(q, resolution, k)

InTransitOut(q, resolution, k) == q[k].received + Lost(q, resolution, k)

LedgerAfter(q, resolution) ==
  [c \in Categories |-> [k \in Items |-> ledger[c][k] +
     CASE c = "AVAILABLE"   -> q[k].received
       [] c = "IN_TRANSIT"  -> -InTransitOut(q, resolution, k)
       [] c = "DAMAGED"     -> q[k].damaged
       [] c = "DISCREPANCY" -> Missing(q, resolution, k)]]

Consumed_NothingYet(k) == 0

(* Goods of item k that earlier receipts priced or wrote off.              *)
Consumed(k) == line[k].confirmed + line[k].discrepancy

Overlap(from, to, lo, hi) ==
  LET size == Min({to, hi}) - Max({from, lo})
  IN  IF size < 0 THEN 0 ELSE size

(* Where layer n begins: the layers lie one after the other, in the order  *)
(* in which they are read.                                                 *)
Start(order, k, n) ==
  MapThenSumSet(LAMBDA m : Layers[k][m],
                {m \in DOMAIN Layers[k] : order[k][m] < order[k][n]})

(* fifoAllocationsForReceiptSlice: what lies in layer n of the stretch     *)
(* received, which begins after what is consumed already.                  *)
Slice(q, order, k, n) ==
  Overlap(Consumed(k), Consumed(k) + q[k].received,
          Start(order, k, n), Start(order, k, n) + Layers[k][n])

NextStatus_DiscrepancyFirst(lines) ==
  IF \E k \in Items : lines[k].discrepancy > 0 THEN "RECEIVED_WITH_DISCREPANCY"
  ELSE IF \E k \in Items : lines[k].remaining > 0 THEN "PARTIALLY_RECEIVED"
  ELSE "RECEIVED"

NextStatus(lines) ==
  IF \E k \in Items : lines[k].remaining > 0 THEN "PARTIALLY_RECEIVED"
  ELSE IF \E k \in Items : lines[k].discrepancy > 0 THEN "RECEIVED_WITH_DISCREPANCY"
  ELSE "RECEIVED"

(* postDestinationReceiptConfirmation for receipt r with lines q.  The     *)
(* layers are read without ORDER BY, in some order.                        *)
Posting(r, q, resolution) ==
  LET after == [k \in Items |-> LineAfter(q, resolution, k)] IN
  /\ Fits(q)
  /\ \A k \in Items :
       after[k].confirmed + after[k].remaining + after[k].discrepancy = Dispatched[k]
  /\ line' = after
  /\ ledger' = LedgerAfter(q, resolution)
  /\ \E order \in ReadOrders :
       /\ landed' = [k \in Items |-> [n \in DOMAIN Layers[k] |->
                       landed[k][n] + Slice(q, order, k, n)]]
       /\ orders' = orders \cup {order}
  /\ shipment' = NextStatus(after) /\ delivery' = NextStatus(after)
  /\ receipt' = [receipt EXCEPT ![r] =
       [status |-> "CONFIRMED", version |-> @.version + 1, qty |-> q,
        resolution |-> resolution]]

-----------------------------------------------------------------------------
(* The shipment as its dispatch leaves it; a receipt may have been saved   *)
(* open by an earlier release.                                             *)
Init ==
  /\ shipment = "IN_TRANSIT" /\ delivery = "IN_TRANSIT"
  /\ line = [k \in Items |-> [confirmed |-> 0, remaining |-> Dispatched[k],
                              discrepancy |-> 0]]
  /\ \/ receipt = [r \in Receipts |-> NoReceipt]
     \/ \E r \in Receipts, status \in OpenReceipt, version \in 1 .. 2, q \in Lines,
           resolution \in Resolutions \cup {None} :
          /\ \A k \in Items : q[k].received + q[k].damaged <= Dispatched[k]
          /\ receipt = [[s \in Receipts |-> NoReceipt] EXCEPT ![r] =
               [status |-> status, version |-> version, qty |-> q,
                resolution |-> resolution]]
  /\ ledger = [c \in Categories |-> IF c = "IN_TRANSIT" THEN Dispatched
                                    ELSE [k \in Items |-> 0]]
  /\ landed = [k \in Items |-> [n \in DOMAIN Layers[k] |-> 0]]
  /\ orders = {}
  /\ call = [w \in Workers |-> Idle]

(* submitItemIssueReceipt: an open receipt takes over the new lines,       *)
(* otherwise a row is inserted; it is posted in the same transaction.      *)
Submit(q, resolution) ==
  /\ shipment \in Receivable
  /\ \E r \in IF OpenReceipts # {} THEN OpenReceipts
              ELSE {s \in Receipts : receipt[s].status = "ABSENT"} :
       Posting(r, q, resolution)
  /\ UNCHANGED call

(* confirmItemIssueReceipt before its transaction: the saved resolution    *)
(* stands in for one that the client does not send.  "expected" is the     *)
(* version on the client's screen.                                         *)
ConfirmRead(w, r, expected, sent) ==
  /\ call[w] = Idle
  /\ receipt[r].status # "ABSENT"
  /\ call' = [call EXCEPT ![w] =
       [receipt |-> r, expected |-> expected,
        resolution |-> IF sent # None THEN sent
                       ELSE IF receipt[r].resolution # None THEN receipt[r].resolution
                       ELSE "KEEP_IN_TRANSIT"]]
  /\ UNCHANGED <<shipment, delivery, line, receipt, ledger, landed, orders>>

StillOpen_AnyStatus(c) == receipt[c.receipt].version = c.expected

StillOpen(c) ==
  /\ receipt[c.receipt].status \in OpenReceipt
  /\ receipt[c.receipt].version = c.expected

ConfirmPost(w) ==
  /\ call[w] # Idle
  /\ shipment \in Receivable
  /\ StillOpen(call[w])
  /\ Posting(call[w].receipt, receipt[call[w].receipt].qty, call[w].resolution)
  /\ call' = [call EXCEPT ![w] = Idle]

(* A confirmation that is refused, fails or crashes keeps nothing.         *)
Abort(w) ==
  /\ call[w] # Idle
  /\ call' = [call EXCEPT ![w] = Idle]
  /\ UNCHANGED <<shipment, delivery, line, receipt, ledger, landed, orders>>

Next ==
  \/ \E q \in Lines, resolution \in Resolutions : Submit(q, resolution)
  \/ \E w \in Workers :
       \/ \E r \in Receipts, sent \in Resolutions \cup {None} :
            \E expected \in 1 .. receipt[r].version : ConfirmRead(w, r, expected, sent)
       \/ ConfirmPost(w)
       \/ Abort(w)

Spec == Init /\ [][Next]_vars

-----------------------------------------------------------------------------
(* Every variable has its type.                                            *)
TypeOK ==
  /\ shipment \in Deliveries /\ delivery \in Deliveries
  /\ line \in [Items -> [confirmed : Nat, remaining : Nat, discrepancy : Nat]]
  /\ receipt \in [Receipts -> [status : OpenReceipt \cup {"ABSENT", "CONFIRMED"},
                               version : Nat, qty : Quantities,
                               resolution : Resolutions \cup {None}]]
  /\ ledger \in [Categories -> [Items -> Nat]]
  /\ orders \subseteq ReadOrders
  /\ call \in [Workers -> [receipt : Receipts \cup {None}, expected : Nat,
                           resolution : Resolutions \cup {None}]]

(* "Invariant for every shipment line: dispatched = confirmed usable       *)
(* received + remaining in transit + finalized discrepancy", and the       *)
(* ledger of the destination says the same: what is usable is confirmed,   *)
(* what is in transit remains, the rest is damaged or a discrepancy.       *)
LedgerAgreesWithLines ==
  \A k \in Items :
    /\ line[k].confirmed + line[k].remaining + line[k].discrepancy = Dispatched[k]
    /\ ledger["AVAILABLE"][k] = line[k].confirmed
    /\ ledger["IN_TRANSIT"][k] = line[k].remaining
    /\ ledger["DAMAGED"][k] + ledger["DISCREPANCY"][k] = line[k].discrepancy

(* Every confirmed receipt was posted exactly once, with the lines it      *)
(* shows: the stock received is the sum over the confirmed receipts.       *)
ReceiptsPostedOnce ==
  \A k \in Items :
    ledger["AVAILABLE"][k] =
      MapThenSumSet(LAMBDA r : receipt[r].qty[k].received,
                    {r \in Receipts : receipt[r].status = "CONFIRMED"})

(* The delivery status, kept on the shipment and on the issue, tells what  *)
(* the lines say: RECEIVED means that everything arrived in good order,    *)
(* and a shipment with goods under way is still open for a receipt.        *)
StatusAgreesWithLines ==
  /\ delivery = shipment
  /\ shipment = "RECEIVED" <=> \A k \in Items : line[k].confirmed = Dispatched[k]
  /\ shipment \in Receivable <=> \E k \in Items : line[k].remaining > 0
  /\ shipment = "IN_TRANSIT" <=> \A k \in Items : line[k].confirmed = 0

(* "A later partial receipt does not reuse cost already applied"           *)
(* (stock-ledger.ts): no more is received at a rate than was dispatched    *)
(* at it, and all goods received are priced.                               *)
LayersNotReused ==
  \A k \in Items :
    /\ \A n \in DOMAIN Layers[k] : landed[k][n] <= Layers[k][n]
    /\ MapThenSumSet(LAMBDA n : landed[k][n], DOMAIN Layers[k]) = line[k].confirmed

(* What the code does keep, in whatever order the layers are read: all     *)
(* goods received are priced, and a layer is priced beyond what was        *)
(* dispatched at its rate only when two postings read it at different      *)
(* places (fifoAllocationsForReceiptSlice).                                *)
ReusedOnlyOutOfOrder ==
  \A k \in Items :
    /\ \A n \in DOMAIN Layers[k] :
         landed[k][n] > Layers[k][n] =>
           \E one, other \in orders : Start(one, k, n) # Start(other, k, n)
    /\ MapThenSumSet(LAMBDA n : landed[k][n], DOMAIN Layers[k]) = line[k].confirmed

(* A confirmed receipt stays as it was confirmed, also when another is     *)
(* submitted for the shipment or its own confirmation is repeated.         *)
ConfirmedIsFinal ==
  [][\A r \in Receipts : receipt[r].status = "CONFIRMED" => receipt'[r] = receipt[r]]_vars
=============================================================================
