---------------------------- MODULE StockLedger ----------------------------
(***************************************************************************)
(* The stock ledger of one store, for one item: purchases put rows into it *)
(* and may be edited and deleted (purchases.service.ts), dispatches and    *)
(* department consumptions take goods out, priced first in first out       *)
(* (stock-ledger.ts, item-issues.service.ts), and the balance page and the *)
(* ledger dialog add its rows up (stock-balances.service.ts).              *)
(*                                                                         *)
(* A call is split at its reads, its waits for locks and its commit.  What *)
(* a transaction has deleted or written stays in its call until it         *)
(* commits, so that other calls read committed rows only; a DELETE and a   *)
(* SELECT ... FOR UPDATE work on the rows that were visible when the       *)
(* statement began, also when they then wait for a lock.                   *)
(*                                                                         *)
(* Abstractions.  A purchase has one line.  Quantities and rates are       *)
(* scaled integers; amounts are left out.  The request, the status and the *)
(* version of an issue are the business of ItemIssue: here an issue is     *)
(* verified by one call at most.                                           *)
(***************************************************************************)
EXTENDS Integers, FiniteSets, FiniteSetsExt, SequencesExt

CONSTANTS Purchases, Issues, Units, Workers, None,
          Contents,    \* the [qty, rate, date] that clients enter as a purchase
          Wanted,      \* Wanted[i]: quantity of issue i
          Kind,        \* Kind[i]: "ITEM_ISSUE" or "DEPARTMENT_CONSUMPTION"
          Incoming,    \* [qty, rate] of one shipment on its way to the store
          Today,       \* date of what is posted now
          UnitChanges, \* bound: the <<from, to>> changes of the item's unit
          MaxVersion   \* bound: a purchase at this version is not edited

ASSUME LedgerConstants ==
  /\ Contents \subseteq [qty : Nat \ {0}, rate : Nat, date : Nat]
  /\ Wanted \in [Issues -> Nat \ {0}]
  /\ Kind \in [Issues -> {"ITEM_ISSUE", "DEPARTMENT_CONSUMPTION"}]
  /\ None \notin Purchases \cup Issues \cup Units
  /\ UnitChanges \subseteq Units \X Units
  /\ Incoming \in [qty : Nat \ {0}, rate : Nat]
  /\ Today \in Nat
  /\ MaxVersion \in Nat \ {0}

(* Sums are over the rows of a table.                                      *)
ASSUME FiniteAssumption == IsFiniteSet(Purchases) /\ IsFiniteSet(Issues)

VARIABLES
  itemUnit,    \* items.unit_id of the item
  purchase,    \* purchase[p]: purchases row p with its line
  ledger,      \* the committed stock_ledger rows
  verified,    \* verified[i]: the unit in which issue i was posted, or None
  edited,      \* history: <<unit, rate>> of ledger rows a purchase took back
  call         \* call[w]: the call worker w is serving

vars == <<itemUnit, purchase, ledger, verified, edited, call>>

Categories == {"AVAILABLE", "IN_TRANSIT"}

NoPurchase == [status |-> "ABSENT", version |-> 0, unit |-> None,
               qty |-> 0, rate |-> 0, date |-> 0]

Idle == [op |-> "NONE", pc |-> "idle", target |-> None, unit |-> None,
         expected |-> 0, seen |-> 0, content |-> NoPurchase, rows |-> {},
         layers |-> <<>>, taken |-> <<>>, balance |-> 0]

-----------------------------------------------------------------------------
(* Ledger rows.  quantity_in - quantity_out is one signed quantity.        *)

Row(type, ref, line, cat, unit, rate, qty, date) ==
  [type |-> type, ref |-> ref, line |-> line, cat |-> cat, unit |-> unit,
   rate |-> rate, qty |-> qty, date |-> date]

SourceKey(row) == <<row.type, row.ref, row.line, row.cat, row.rate>>

RowsOf(p) == {row \in ledger : row.type = "PURCHASE" /\ row.ref = p}

(* Every insert makes new lines, so the version of the insert names them.  *)
PurchaseRow(p, c) ==
  Row("PURCHASE", p, c.version, "AVAILABLE", c.unit, c.rate, c.qty, c.date)

Net(rows) == MapThenSumSet(LAMBDA row : row.qty, rows)

Stock(cat, unit) == {row \in ledger : row.cat = cat /\ row.unit = unit}

Balance(cat, unit) == Net(Stock(cat, unit))

-----------------------------------------------------------------------------
(* Cost of goods that leave the store.                                     *)

Layer(unit, rate) == {row \in Stock("AVAILABLE", unit) : row.rate = rate}

MinDate(rows) == Min({row.date : row \in rows})

(* Rates with goods left, and since when there are goods of them.          *)
PricedLayers(unit) ==
  {layer \in {[rate |-> r, left |-> Net(Layer(unit, r)), since |-> MinDate(Layer(unit, r))] :
                r \in {row.rate : row \in Stock("AVAILABLE", unit)}} :
     layer.left > 0}

Layers_NewestFirst(unit) ==
  CHOOSE s \in SetToSeqs(PricedLayers(unit)) :
    \A j, k \in DOMAIN s : j < k => s[j].rate < s[k].rate

Older(a, b) == a.since < b.since \/ (a.since = b.since /\ a.rate < b.rate)

(* Those layers, oldest first.                                             *)
Layers(unit) ==
  CHOOSE s \in SetToSeqs(PricedLayers(unit)) :
    \A j, k \in DOMAIN s : j < k => Older(s[j], s[k])

Allocate_NoBreak(layers, qty) ==
  FoldLeft(LAMBDA acc, layer :
             LET take == Min({layer.left, acc.short})
             IN  [short |-> acc.short - take,
                  taken |-> Append(acc.taken, [rate |-> layer.rate, qty |-> take])],
           [short |-> qty, taken |-> <<>>], layers)

(* What is taken from each layer, and what no layer could cover.           *)
Allocate(layers, qty) ==
  FoldLeft(LAMBDA acc, layer :
             LET take == Min({layer.left, acc.short})
             IN  IF take = 0 THEN acc
                 ELSE [short |-> acc.short - take,
                       taken |-> Append(acc.taken, [rate |-> layer.rate, qty |-> take])],
           [short |-> qty, taken |-> <<>>], layers)

-----------------------------------------------------------------------------
(* Locks.                                                                  *)

HeaderFree(p) ==
  \A w \in Workers : ~(call[w].pc \in {"headerWritten", "rowsDeleted"} /\ call[w].op = "UPDATE"
                       /\ call[w].target = p)

Holds(w) ==
  IF call[w].pc \in {"rowsDeleted", "stockLocked", "checked", "allocated"}
  THEN call[w].rows ELSE {}

RowsFree(w, rows) == \A v \in Workers \ {w} : Holds(v) \cap rows = {}

StoreFree_NoAdvisoryLock == TRUE

StoreFree ==
  \A w \in Workers : ~(call[w].op = "VERIFY" /\ call[w].pc # "idle")

-----------------------------------------------------------------------------
TypeOK ==
  /\ itemUnit \in Units
  /\ purchase \in [Purchases -> [status : {"ABSENT", "LIVE", "DELETED"},
        version : 0..MaxVersion, unit : Units \cup {None},
        qty : Nat, rate : Nat, date : Nat]]
  /\ \A row \in ledger : row.cat \in Categories /\ row.unit \in Units /\ row.qty # 0
  /\ \A r1, r2 \in ledger : SourceKey(r1) = SourceKey(r2) => r1 = r2
  /\ verified \in [Issues -> Units \cup {None}]
  /\ edited \subseteq Units \X Nat
  /\ DOMAIN call = Workers

Init ==
  /\ itemUnit \in {c[1] : c \in UnitChanges}
  /\ purchase = [p \in Purchases |-> NoPurchase]
  /\ ledger = {}
  /\ verified = [i \in Issues |-> None]
  /\ edited = {}
  /\ call = [w \in Workers |-> Idle]

Begin(w, state) == call[w].pc = "idle" /\ call' = [call EXCEPT ![w] = state]
Goto(w, state)  == call' = [call EXCEPT ![w] = state]
End(w)          == call' = [call EXCEPT ![w] = Idle]

Entered(c, version, unit) ==
  [status |-> "LIVE", version |-> version, unit |-> unit,
   qty |-> c.qty, rate |-> c.rate, date |-> c.date]

(* createPurchase: the unit of the item is read before the transaction.    *)
CreateRead(w, p, c) ==
  /\ purchase[p].status = "ABSENT"
  /\ \A v \in Workers : call[v].target # p
  /\ Begin(w, [Idle EXCEPT !.op = "CREATE", !.pc = "read", !.target = p,
                 !.content = Entered(c, 1, itemUnit)])
  /\ UNCHANGED <<itemUnit, purchase, ledger, verified, edited>>

CreateCommit(w) ==
  LET p == call[w].target IN
  /\ call[w].op = "CREATE"
  /\ purchase' = [purchase EXCEPT ![p] = call[w].content]
  /\ ledger' = ledger \cup {PurchaseRow(p, call[w].content)}
  /\ End(w)
  /\ UNCHANGED <<itemUnit, verified, edited>>

(* updatePurchase: the new version is the one read here plus one.          *)
UpdateRead(w, p, c, expected) ==
  /\ purchase[p].status = "LIVE"
  /\ purchase[p].version < MaxVersion
  /\ expected \in 1..purchase[p].version
  /\ Begin(w, [Idle EXCEPT !.op = "UPDATE", !.pc = "read", !.target = p,
                 !.expected = expected, !.seen = purchase[p].version,
                 !.content = Entered(c, purchase[p].version + 1, itemUnit)])
  /\ UNCHANGED <<itemUnit, purchase, ledger, verified, edited>>

SameVersion_Unguarded(p, expected) == purchase[p].status = "LIVE" /\ expected > 0

SameVersion(p, expected) ==
  purchase[p].status = "LIVE" /\ purchase[p].version = expected

UpdateHeader(w) ==
  LET p == call[w].target IN
  /\ call[w].op = "UPDATE" /\ call[w].pc = "read"
  /\ HeaderFree(p)
  /\ SameVersion(p, call[w].expected)
  /\ Goto(w, [call[w] EXCEPT !.pc = "headerWritten", !.rows = RowsOf(p)])
  /\ UNCHANGED <<itemUnit, purchase, ledger, verified, edited>>

(* deletePurchaseLedger: waits for every row that it saw.                  *)
DeleteRows(w) ==
  /\ \/ call[w].op = "UPDATE" /\ call[w].pc = "headerWritten"
     \/ call[w].op = "DELETE" /\ call[w].pc = "waiting"
  /\ RowsFree(w, call[w].rows \cap ledger)
  /\ Goto(w, [call[w] EXCEPT !.pc = "rowsDeleted", !.rows = @ \cap ledger])
  /\ UNCHANGED <<itemUnit, purchase, ledger, verified, edited>>

TakeBack(rows) == edited' = edited \cup {<<row.unit, row.rate>> : row \in rows}

UpdateCommit(w) ==
  LET p == call[w].target IN
  /\ call[w].op = "UPDATE" /\ call[w].pc = "rowsDeleted"
  /\ purchase' = [purchase EXCEPT ![p] = call[w].content]
  /\ ledger' = (ledger \ call[w].rows) \cup {PurchaseRow(p, call[w].content)}
  /\ TakeBack(call[w].rows)
  /\ End(w)
  /\ UNCHANGED <<itemUnit, verified>>

(* deletePurchase: first the ledger rows, then the header under its version. *)
DeleteStart(w, p, expected) ==
  /\ purchase[p].status = "LIVE"
  /\ expected \in 1..purchase[p].version
  /\ Begin(w, [Idle EXCEPT !.op = "DELETE", !.pc = "waiting", !.target = p,
                 !.expected = expected, !.rows = RowsOf(p)])
  /\ UNCHANGED <<itemUnit, purchase, ledger, verified, edited>>

DeleteCommit(w) ==
  LET p == call[w].target IN
  /\ call[w].op = "DELETE" /\ call[w].pc = "rowsDeleted"
  /\ HeaderFree(p)
  /\ SameVersion(p, call[w].expected)
  /\ purchase' = [purchase EXCEPT ![p].status = "DELETED"]
  /\ ledger' = ledger \ call[w].rows
  /\ TakeBack(call[w].rows)
  /\ End(w)
  /\ UNCHANGED <<itemUnit, verified>>

-----------------------------------------------------------------------------
(* verifyAndPostItemIssue, confirmDepartmentConsumption.                   *)

(* The advisory lock; SELECT ... FOR UPDATE begins.  The unit is the one   *)
(* the item has now.                                                       *)
VerifyStart(w, i) ==
  /\ verified[i] = None
  /\ StoreFree
  /\ Begin(w, [Idle EXCEPT !.op = "VERIFY", !.pc = "waiting", !.target = i,
                 !.unit = itemUnit, !.rows = ledger])
  /\ UNCHANGED <<itemUnit, purchase, ledger, verified, edited>>

LockRows(w) ==
  /\ call[w].op = "VERIFY" /\ call[w].pc = "waiting"
  /\ RowsFree(w, call[w].rows \cap ledger)
  /\ Goto(w, [call[w] EXCEPT !.rows = @ \cap ledger,
       !.pc = IF Kind[call[w].target] = "ITEM_ISSUE" THEN "stockLocked" ELSE "checked"])
  /\ UNCHANGED <<itemUnit, purchase, ledger, verified, edited>>

(* Only a dispatch compares its quantity with the balance, in the unit the *)
(* item has by then (buildAvailability reads it again).                    *)
CheckBalance(w) ==
  /\ call[w].op = "VERIFY" /\ call[w].pc = "stockLocked"
  /\ Wanted[call[w].target] <= Balance("AVAILABLE", itemUnit)
  /\ Goto(w, [call[w] EXCEPT !.pc = "checked"])
  /\ UNCHANGED <<itemUnit, purchase, ledger, verified, edited>>

(* allocateFifoCost; "balance" is remembered for the properties only.      *)
AllocateFifo(w) ==
  LET layers == Layers(call[w].unit)
      result == Allocate(layers, Wanted[call[w].target])
  IN
  /\ call[w].op = "VERIFY" /\ call[w].pc = "checked"
  /\ result.short = 0
  /\ Goto(w, [call[w] EXCEPT !.pc = "allocated", !.layers = layers,
                !.taken = result.taken,
                !.balance = Balance("AVAILABLE", call[w].unit)])
  /\ UNCHANGED <<itemUnit, purchase, ledger, verified, edited>>

VerifyCommit(w) ==
  LET i == call[w].target IN
  /\ call[w].op = "VERIFY" /\ call[w].pc = "allocated"
  /\ verified' = [verified EXCEPT ![i] = call[w].unit]
  /\ ledger' = ledger \cup
       {Row(Kind[i], i, 1, "AVAILABLE", call[w].unit, t.rate, -t.qty, Today) :
          t \in ToSet(call[w].taken)}
  /\ End(w)
  /\ UNCHANGED <<itemUnit, purchase, edited>>

(* A check fails, or the database ends one of two deadlocked transactions. *)
Abort(w) ==
  /\ call[w].pc # "idle"
  /\ End(w)
  /\ UNCHANGED <<itemUnit, purchase, ledger, verified, edited>>

-----------------------------------------------------------------------------
(* Goods of another store arrive: on dispatch they came IN_TRANSIT without *)
(* a rate, and the receipt makes them AVAILABLE at the rates of the        *)
(* dispatch.  Receipt has the steps in between; no row here depends on them. *)
Receive ==
  LET row(type, line, cat, rate, qty) ==
        Row(type, None, line, cat, itemUnit, rate, qty, Today)
  IN
  /\ \A r \in ledger : r.type # "ITEM_ISSUE_RECEIPT"
  /\ ledger' = ledger \cup
       {row("ITEM_ISSUE_IN_TRANSIT", 1, "IN_TRANSIT", 0, Incoming.qty),
        row("ITEM_ISSUE_IN_TRANSIT", 2, "IN_TRANSIT", 0, -Incoming.qty),
        row("ITEM_ISSUE_RECEIPT", 2, "AVAILABLE", Incoming.rate, Incoming.qty)}
  /\ UNCHANGED <<itemUnit, purchase, verified, edited, call>>

(* updateItem changes the unit whether or not there is stock.              *)
ChangeUnit(u) ==
  /\ <<itemUnit, u>> \in UnitChanges
  /\ itemUnit' = u
  /\ UNCHANGED <<purchase, ledger, verified, edited, call>>

PurchaseStep(w) ==
  \/ \E p \in Purchases, c \in Contents : CreateRead(w, p, c)
  \/ CreateCommit(w)
  \/ \E p \in Purchases, c \in Contents, n \in 1..MaxVersion : UpdateRead(w, p, c, n)
  \/ UpdateHeader(w)
  \/ DeleteRows(w)
  \/ UpdateCommit(w)
  \/ \E p \in Purchases, n \in 1..MaxVersion : DeleteStart(w, p, n)
  \/ DeleteCommit(w)

VerifyStep(w) ==
  \/ \E i \in Issues : VerifyStart(w, i)
  \/ LockRows(w)
  \/ CheckBalance(w)
  \/ AllocateFifo(w)
  \/ VerifyCommit(w)

Next ==
  \/ \E w \in Workers : PurchaseStep(w) \/ VerifyStep(w) \/ Abort(w)
  \/ Receive
  \/ \E u \in Units : ChangeUnit(u)

Spec == Init /\ [][Next]_vars

-----------------------------------------------------------------------------
(* Properties.                                                             *)

Live(unit)    == {p \in Purchases : purchase[p].status = "LIVE" /\ purchase[p].unit = unit}
Posted(unit)  == {i \in Issues : verified[i] = unit}
Arrived(unit) == Net({row \in Stock("AVAILABLE", unit) : row.type = "ITEM_ISSUE_RECEIPT"})

(* The ledger holds exactly one row for each purchase that exists, as it   *)
(* was last saved, and none for a deleted one; and the balance shown for a *)
(* unit is what the documents say: purchases and arrivals less issues.     *)
(* updatePurchase and deletePurchase write rows and document in opposite   *)
(* order, with other edits and dispatches in between.                      *)
LedgerShowsDocuments ==
  /\ \A p \in Purchases :
       RowsOf(p) = IF purchase[p].status = "LIVE" THEN {PurchaseRow(p, purchase[p])} ELSE {}
  /\ \A u \in Units :
       Balance("AVAILABLE", u)
         = MapThenSumSet(LAMBDA p : purchase[p].qty, Live(u)) + Arrived(u)
           - MapThenSumSet(LAMBDA i : Wanted[i], Posted(u))

(* What an issue costs (allocateFifoCost) is taken from layers that hold   *)
(* it, adds up to the issued quantity, and leaves no older layer while a   *)
(* newer one is used.                                                      *)
FifoTakesOldestFirst ==
  \A w \in Workers : call[w].pc = "allocated" =>
    LET layers == call[w].layers
        took   == [k \in DOMAIN layers |->
                     MapThenSumSet(LAMBDA t : t.qty,
                       {t \in ToSet(call[w].taken) : t.rate = layers[k].rate})]
    IN  /\ MapThenSumSet(LAMBDA k : took[k], DOMAIN layers) = Wanted[call[w].target]
        /\ \A k \in DOMAIN layers : took[k] <= layers[k].left
        /\ \A j, k \in DOMAIN layers :
             /\ \/ layers[j].since < layers[k].since
                \/ layers[j].since = layers[k].since /\ layers[j].rate < layers[k].rate
             /\ took[k] > 0
             => took[j] = layers[j].left

(* A rate is short of goods only after a purchase took rows of that rate   *)
(* back: two issues that are verified at the same time never take the same *)
(* goods, and neither do an issue and a purchase that is being changed.    *)
ShortLayersOnlyByPurchase ==
  \A u \in Units : \A rate \in {row.rate : row \in Stock("AVAILABLE", u)} :
    Net(Layer(u, rate)) < 0 => <<u, rate>> \in edited

(* stock-ledger.ts refuses with "Insufficient Corporate Store stock.": a   *)
(* department consumption takes no more than the store has.                *)
ConsumptionWithinBalance ==
  \A w \in Workers :
    /\ call[w].pc = "allocated"
    /\ Kind[call[w].target] = "DEPARTMENT_CONSUMPTION"
    => Wanted[call[w].target] <= call[w].balance
=============================================================================
