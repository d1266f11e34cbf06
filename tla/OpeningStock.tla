---------------------------- MODULE OpeningStock ----------------------------
(***************************************************************************)
(* Opening stock batches (opening-stocks.service.ts): a batch is entered   *)
(* or imported, its legacy names are mapped, it is validated, and posting  *)
(* it writes the opening balances to the ledger.                           *)
(*                                                                         *)
(* Only a posting locks the batch; mapping, validation and cancellation    *)
(* check a row they read earlier and then write without a guard, so each   *)
(* of them is split between its reads and its writes.                      *)
(*                                                                         *)
(* Abstractions.  A batch has one line, included in posting and with a     *)
(* positive quantity; item, unit, rate and cutover date are the same for   *)
(* all lines, so the store that a line is mapped to tells the ledger rows  *)
(* apart.  An unmapped line, and one with a blocking error, is mapped to   *)
(* None.  Every caller is an administrator.                                *)
(***************************************************************************)
EXTENDS Naturals, FiniteSets

CONSTANTS Batches, Stores, Names, Workers, None,
          NameOf,   \* NameOf[b]: legacy store name on the line of batch b
          Known     \* Known[n]: the one store of that name, or None

ASSUME ConstantsAssumption ==
  /\ None \notin Batches \cup Stores
  /\ NameOf \in [Batches -> Names]
  /\ Known \in [Names -> Stores \cup {None}]

VARIABLES
  batch,    \* batch[b]: status of the batch and store of its line
  named,    \* named[n]: persisted mapping of legacy name n
  ledger,   \* OPENING_STOCK rows of the stock ledger
  call      \* call[w]: the call worker w is serving

vars == <<batch, named, ledger, call>>

Statuses == {"DRAFT", "VALIDATED", "FAILED", "POSTED", "CANCELLED"}

NoBatch == [status |-> "ABSENT", store |-> None]

Idle == [pc |-> "idle", batch |-> None, store |-> None]

(* resolveMappedId without an override.                                    *)
Resolve(n) == IF named[n] # None THEN named[n] ELSE Known[n]

RowsLocked_Never(b) == FALSE /\ b \in Batches

(* A posting holds the rows of batch and line until it commits.            *)
RowsLocked(b) == \E w \in Workers : call[w].pc = "posting" /\ call[w].batch = b

Goto(w, pc, b, s) ==
  call' = [call EXCEPT ![w] = [pc |-> pc, batch |-> b, store |-> s]]

Finish(w) == call' = [call EXCEPT ![w] = Idle]

-----------------------------------------------------------------------------
Init ==
  /\ batch = [b \in Batches |-> NoBatch]
  /\ named = [n \in Names |-> None]
  /\ ledger = {}
  /\ call = [w \in Workers |-> Idle]

(* createManualOpeningStockBatch takes the store and its name, an import   *)
(* (previewLegacyOpeningStockImport) resolves the name in the file.        *)
Create(b) ==
  /\ batch[b] = NoBatch
  /\ \E s \in {Resolve(NameOf[b]), Known[NameOf[b]]} :
       batch' = [batch EXCEPT ![b] = [status |-> "DRAFT", store |-> s]]
  /\ UNCHANGED <<named, ledger, call>>

(* updateOpeningStockMappings: the status is read before the transaction.  *)
MapRead(w, b, s) ==
  /\ call[w] = Idle
  /\ batch[b].status \notin {"ABSENT", "POSTED"}
  /\ Goto(w, "mapping", b, s)
  /\ UNCHANGED <<batch, named, ledger>>

MapCommit(w) ==
  LET c == call[w] IN
  /\ c.pc = "mapping"
  /\ ~RowsLocked(c.batch)
  /\ batch' = [batch EXCEPT ![c.batch].store = c.store]
  /\ named' = [named EXCEPT ![NameOf[c.batch]] = c.store]
  /\ Finish(w)
  /\ UNCHANGED ledger

(* validateOpeningStockBatch begins with rematchOpeningStockBatchLines,    *)
(* which skips posted and cancelled batches; the validation does not.      *)
ValidateRead(w, b) ==
  LET s == Resolve(NameOf[b]) IN
  /\ call[w] = Idle
  /\ batch[b].status # "ABSENT"
  /\ IF batch[b].status \in {"POSTED", "CANCELLED"} \/ batch[b].store = s
     THEN Goto(w, "rematched", b, None)
     ELSE Goto(w, "rematching", b, s)
  /\ UNCHANGED <<batch, named, ledger>>

RematchCommit(w) ==
  LET c == call[w] IN
  /\ c.pc = "rematching"
  /\ ~RowsLocked(c.batch)
  /\ batch' = [batch EXCEPT ![c.batch].store = c.store]
  /\ Goto(w, "rematched", c.batch, None)
  /\ UNCHANGED <<named, ledger>>

(* buildPreview: the lines are read again, and decide the verdict.         *)
Preview(w) ==
  LET c == call[w] IN
  /\ c.pc = "rematched"
  /\ Goto(w, IF batch[c.batch].store # None THEN "valid" ELSE "invalid", c.batch, None)
  /\ UNCHANGED <<batch, named, ledger>>

ValidateCommit_Verdict(w) ==
  LET c == call[w] IN
  /\ c.pc \in {"valid", "invalid"}
  /\ ~RowsLocked(c.batch)
  /\ batch' = [batch EXCEPT ![c.batch].status = c.pc]
  /\ Finish(w)
  /\ UNCHANGED <<named, ledger>>

ValidateCommit(w) ==
  LET c == call[w] IN
  /\ c.pc \in {"valid", "invalid"}
  /\ ~RowsLocked(c.batch)
  /\ batch' = [batch EXCEPT ![c.batch].status =
                 IF c.pc = "valid" THEN "VALIDATED" ELSE "FAILED"]
  /\ Finish(w)
  /\ UNCHANGED <<named, ledger>>

(* The duplicate check looks for committed rows of any batch.              *)
OpeningExists(b, s) == \E row \in ledger : row[2] = s

(* postOpeningStockBatch up to its checks: the rows are locked, and every  *)
(* status but POSTED and CANCELLED may be posted.                          *)
PostLock(w, b) ==
  /\ call[w] = Idle
  /\ ~RowsLocked(b)
  /\ batch[b].status \notin {"ABSENT", "POSTED", "CANCELLED"}
  /\ batch[b].store # None
  /\ ~OpeningExists(b, batch[b].store)
  /\ Goto(w, "posting", b, batch[b].store)
  /\ UNCHANGED <<batch, named, ledger>>

(* The unique source key is the line and the store.                        *)
PostCommit(w) ==
  LET c == call[w] IN
  /\ c.pc = "posting"
  /\ <<c.batch, c.store>> \notin ledger
  /\ ledger' = ledger \cup {<<c.batch, c.store>>}
  /\ batch' = [batch EXCEPT ![c.batch].status = "POSTED"]
  /\ Finish(w)
  /\ UNCHANGED named

(* cancelOpeningStockBatch                                                 *)
CancelRead(w, b) ==
  /\ call[w] = Idle
  /\ batch[b].status \notin {"ABSENT", "POSTED"}
  /\ Goto(w, "cancelling", b, None)
  /\ UNCHANGED <<batch, named, ledger>>

CancelCommit(w) ==
  LET c == call[w] IN
  /\ c.pc = "cancelling"
  /\ ~RowsLocked(c.batch)
  /\ batch' = [batch EXCEPT ![c.batch].status = "CANCELLED"]
  /\ Finish(w)
  /\ UNCHANGED <<named, ledger>>

(* A call that fails or crashes; what it committed before stays.           *)
Abort(w) ==
  /\ call[w] # Idle
  /\ Finish(w)
  /\ UNCHANGED <<batch, named, ledger>>

Next ==
  \/ \E b \in Batches : Create(b)
  \/ \E w \in Workers :
       \/ \E b \in Batches :
            \/ \E s \in Stores : MapRead(w, b, s)
            \/ ValidateRead(w, b) \/ PostLock(w, b) \/ CancelRead(w, b)
       \/ MapCommit(w) \/ RematchCommit(w) \/ Preview(w) \/ ValidateCommit(w)
       \/ PostCommit(w) \/ CancelCommit(w) \/ Abort(w)

Spec == Init /\ [][Next]_vars

-----------------------------------------------------------------------------
(* Every variable has its type.                                            *)
TypeOK ==
  /\ batch \in [Batches -> [status : Statuses \cup {"ABSENT"}, store : Stores \cup {None}]]
  /\ named \in [Names -> Stores \cup {None}]
  /\ ledger \subseteq Batches \X Stores
  /\ call \in [Workers ->
       [pc : {"idle", "mapping", "rematching", "rematched", "valid", "invalid",
              "posting", "cancelling"},
        batch : Batches \cup {None}, store : Stores \cup {None}]]

(* What a posting writes is what the batch shows when it commits: neither  *)
(* a mapping nor a rematch nor a cancellation slips in between the checks  *)
(* and the commit.                                                         *)
PostsWhatItShows ==
  [][\A row \in ledger' \ ledger :
       /\ batch[row[1]].store = row[2]
       /\ batch[row[1]].status \notin {"POSTED", "CANCELLED"}]_vars

(* "Opening stock already exists for one or more store/item/unit/rate      *)
(* combinations at this cutover date." (opening-stocks.service.ts): there  *)
(* is at most one opening balance for them.                                *)
NoDuplicateOpening == \A row, other \in ledger : row[2] = other[2] => row = other

(* "This will create inventory balances and cannot be edited or posted     *)
(* again." (opening-stock-list-page.tsx): a batch is in the ledger once.   *)
PostedOnce == \A row, other \in ledger : row[1] = other[1] => row = other
=============================================================================
