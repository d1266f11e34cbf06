------------------------- MODULE OpeningStock_proofs -------------------------
(***************************************************************************)
(* Proofs about OpeningStock, for any number of batches, stores, names and *)
(* concurrent calls.                                                       *)
(***************************************************************************)
EXTENDS OpeningStock, TLAPS

Calls == [pc : {"idle", "mapping", "rematching", "rematched", "valid", "invalid",
                "posting", "cancelling"},
          batch : Batches \cup {None}, store : Stores \cup {None}]

(* A call under way is for some batch, and a mapping or a posting names a  *)
(* store.                                                                  *)
CallComplete(c) ==
  /\ c.pc # "idle" => c.batch \in Batches
  /\ c.pc \in {"mapping", "posting"} => c.store \in Stores

(* A posting still sees the batch as it locked it.                         *)
PostingIsCurrent ==
  \A w \in Workers :
    call[w].pc = "posting" =>
      /\ batch[call[w].batch].store = call[w].store
      /\ batch[call[w].batch].status \notin {"POSTED", "CANCELLED"}

(* A batch is posted by one call at a time.                                *)
PostingIsAlone ==
  \A v, w \in Workers :
    call[v].pc = "posting" /\ call[w].pc = "posting" /\ call[v].batch = call[w].batch
      => v = w

(* The inductive invariant: what was checked under the row locks stays     *)
(* true until the commit because every other write waits for them.         *)
Inv ==
  /\ TypeOK
  /\ \A w \in Workers : CallComplete(call[w])
  /\ PostingIsCurrent
  /\ PostingIsAlone

(* The first state satisfies the invariant.                                *)
LEMMA InitInv == Init => Inv
BY ConstantsAssumption
   DEF Init, Inv, TypeOK, NoBatch, Idle, CallComplete, PostingIsCurrent, PostingIsAlone

(* A name is resolved to a store or to none.                               *)
LEMMA ResolveTyped ==
  ASSUME Inv, NEW n \in Names PROVE Resolve(n) \in Stores \cup {None}
BY ConstantsAssumption DEF Inv, TypeOK, Resolve

(* A call that moves on, other than to a posting, and writes nothing.      *)
LEMMA GotoInv ==
  ASSUME Inv, NEW w \in Workers, NEW c \in Calls, CallComplete(c), c.pc # "posting",
         call' = [call EXCEPT ![w] = c], UNCHANGED <<batch, named, ledger>>
  PROVE  Inv'
BY DEF Inv, TypeOK, Calls, PostingIsCurrent, PostingIsAlone

(* A call that moves on and writes the row of a batch that is not locked.  *)
LEMMA WriteInv ==
  ASSUME Inv, NEW w \in Workers, NEW c \in Calls, CallComplete(c), c.pc # "posting",
         call' = [call EXCEPT ![w] = c],
         NEW b \in Batches, ~RowsLocked(b),
         NEW row \in [status : Statuses \cup {"ABSENT"}, store : Stores \cup {None}],
         batch' = [batch EXCEPT ![b] = row],
         named' \in [Names -> Stores \cup {None}], ledger' = ledger
  PROVE  Inv'
<1>1. TypeOK' /\ \A v \in Workers : CallComplete(call'[v])
  BY DEF Inv, TypeOK, Calls
<1>2. PostingIsAlone'
  BY DEF Inv, TypeOK, PostingIsAlone
<1>3. ASSUME NEW v \in Workers, call'[v].pc = "posting"
      PROVE  /\ batch'[call'[v].batch].store = call'[v].store
             /\ batch'[call'[v].batch].status \notin {"POSTED", "CANCELLED"}
  <2>1. v # w /\ call'[v] = call[v]
    BY <1>3 DEF Inv, TypeOK
  <2>2. call[v].batch \in Batches /\ call[v].batch # b
    BY <1>3, <2>1 DEF RowsLocked, Inv, CallComplete
  <2>3. batch'[call[v].batch] = batch[call[v].batch]
    BY <2>2 DEF Inv, TypeOK
  <2> QED BY <1>3, <2>1, <2>3 DEF Inv, PostingIsCurrent
<1> QED BY <1>1, <1>2, <1>3 DEF Inv, PostingIsCurrent

(* postOpeningStockBatch checks under the lock.                            *)
LEMMA PostLockInv ==
  ASSUME Inv, NEW w \in Workers, NEW b \in Batches, PostLock(w, b)
  PROVE  Inv'
<1> DEFINE c == [pc |-> "posting", batch |-> b, store |-> batch[b].store]
<1>1. batch[b].store \in Stores
  BY DEF PostLock, Inv, TypeOK
<1>2. c \in Calls /\ CallComplete(c) /\ c.pc = "posting" /\ c.batch = b
      /\ c.store = batch[b].store
  BY <1>1 DEF Calls, CallComplete
<1>3. call' = [call EXCEPT ![w] = c] /\ UNCHANGED <<batch, named, ledger>>
  BY DEF PostLock, Goto
<1>4. batch[b].status \notin {"POSTED", "CANCELLED"} /\ ~RowsLocked(b)
  BY DEF PostLock
<1> HIDE DEF c
<1>5. TypeOK' /\ \A v \in Workers : CallComplete(call'[v])
  BY <1>2, <1>3 DEF Inv, TypeOK, Calls
<1>6. PostingIsCurrent'
  BY <1>2, <1>3, <1>4 DEF Inv, TypeOK, PostingIsCurrent
<1>7. PostingIsAlone'
  BY <1>2, <1>3, <1>4 DEF Inv, TypeOK, PostingIsAlone, RowsLocked
<1> QED BY <1>5, <1>6, <1>7 DEF Inv

(* Its commit writes what it checked.                                      *)
LEMMA PostCommitInv ==
  ASSUME Inv, NEW w \in Workers, PostCommit(w)
  PROVE  Inv'
<1> DEFINE b == call[w].batch
<1>1. call[w].pc = "posting" /\ b \in Batches /\ call[w].store \in Stores
  BY DEF PostCommit, Inv, CallComplete
<1>2. /\ call' = [call EXCEPT ![w] = Idle]
      /\ batch' = [batch EXCEPT ![b].status = "POSTED"]
      /\ ledger' = ledger \cup {<<b, call[w].store>>} /\ named' = named
  BY DEF PostCommit, Finish
<1>3. Idle \in Calls /\ CallComplete(Idle) /\ Idle.pc # "posting"
  BY DEF Idle, Calls, CallComplete
<1>4. TypeOK' /\ \A v \in Workers : CallComplete(call'[v])
  BY <1>1, <1>2, <1>3 DEF Inv, TypeOK, Calls, Statuses
<1>5. PostingIsAlone'
  BY <1>2, <1>3 DEF Inv, TypeOK, PostingIsAlone
<1>6. ASSUME NEW v \in Workers, call'[v].pc = "posting"
      PROVE  /\ batch'[call'[v].batch].store = call'[v].store
             /\ batch'[call'[v].batch].status \notin {"POSTED", "CANCELLED"}
  <2>1. v # w /\ call'[v] = call[v]
    BY <1>2, <1>3, <1>6 DEF Inv, TypeOK
  <2>2. call[v].batch \in Batches /\ call[v].batch # b
    BY <1>1, <1>6, <2>1 DEF Inv, CallComplete, PostingIsAlone
  <2>3. batch'[call[v].batch] = batch[call[v].batch]
    BY <1>2, <2>2 DEF Inv, TypeOK
  <2> QED BY <1>6, <2>1, <2>3 DEF Inv, PostingIsCurrent
<1> QED BY <1>4, <1>5, <1>6 DEF Inv, PostingIsCurrent

(* Every step keeps the invariant.                                         *)
LEMMA NextInv == Inv /\ [Next]_vars => Inv'
<1> SUFFICES ASSUME Inv, [Next]_vars PROVE Inv'
  OBVIOUS
<1> DEFINE Rows == [status : Statuses \cup {"ABSENT"}, store : Stores \cup {None}]
<1>0. Idle \in Calls /\ CallComplete(Idle) /\ Idle.pc # "posting"
  BY DEF Idle, Calls, CallComplete
<1>a. ASSUME NEW w \in Workers
      PROVE  call[w] \in Calls /\ CallComplete(call[w])
  BY DEF Inv, TypeOK, Calls
<1>b. ASSUME NEW b \in Batches
      PROVE  batch[b] \in Rows /\ NameOf[b] \in Names
  BY ConstantsAssumption DEF Inv, TypeOK
<1>1. ASSUME NEW b \in Batches, Create(b) PROVE Inv'
  <2>1. PICK s \in Stores \cup {None} :
          batch' = [batch EXCEPT ![b] = [status |-> "DRAFT", store |-> s]]
    BY <1>1, <1>b, ResolveTyped, ConstantsAssumption DEF Create
  <2>2. /\ batch' \in [Batches -> Rows] /\ batch[b] = NoBatch
        /\ UNCHANGED <<named, ledger, call>>
    BY <1>1, <2>1 DEF Create, Inv, TypeOK, Statuses
  <2>3. TypeOK' /\ PostingIsAlone' /\ \A v \in Workers : CallComplete(call'[v])
    BY <2>2 DEF Inv, TypeOK, PostingIsAlone
  <2>4. ASSUME NEW v \in Workers, call[v].pc = "posting"
        PROVE  /\ batch'[call[v].batch].store = call[v].store
               /\ batch'[call[v].batch].status \notin {"POSTED", "CANCELLED"}
    <3>1. call[v].store \in Stores /\ call[v].batch \in Batches
          /\ batch[call[v].batch].store = call[v].store
          /\ batch[call[v].batch].status \notin {"POSTED", "CANCELLED"}
      BY <2>4 DEF Inv, CallComplete, PostingIsCurrent
    <3>2. call[v].batch # b
      BY <2>2, <3>1, ConstantsAssumption DEF NoBatch
    <3> QED BY <2>1, <3>1, <3>2 DEF Inv, TypeOK
  <2> QED BY <2>2, <2>3, <2>4 DEF Inv, PostingIsCurrent
<1>2. ASSUME NEW w \in Workers, NEW b \in Batches, NEW s \in Stores, MapRead(w, b, s)
      PROVE  Inv'
  <2> DEFINE c == [pc |-> "mapping", batch |-> b, store |-> s]
  <2>1. c \in Calls /\ CallComplete(c) /\ c.pc # "posting"
    BY DEF Calls, CallComplete
  <2> QED BY <1>2, <2>1, GotoInv DEF MapRead, Goto
<1>3. ASSUME NEW w \in Workers, NEW b \in Batches, ValidateRead(w, b)
      PROVE  Inv'
  <2>1. Resolve(NameOf[b]) \in Stores \cup {None}
    BY <1>b, ResolveTyped
  <2>2. PICK pc \in {"rematched", "rematching"}, s \in Stores \cup {None} :
          call' = [call EXCEPT ![w] = [pc |-> pc, batch |-> b, store |-> s]]
    BY <1>3, <2>1 DEF ValidateRead, Goto
  <2> DEFINE c == [pc |-> pc, batch |-> b, store |-> s]
  <2>3. c \in Calls /\ CallComplete(c) /\ c.pc # "posting"
    BY DEF Calls, CallComplete
  <2> QED BY <1>3, <2>2, <2>3, GotoInv DEF ValidateRead
<1>4. ASSUME NEW w \in Workers, NEW b \in Batches, CancelRead(w, b)
      PROVE  Inv'
  <2> DEFINE c == [pc |-> "cancelling", batch |-> b, store |-> None]
  <2>1. c \in Calls /\ CallComplete(c) /\ c.pc # "posting"
    BY DEF Calls, CallComplete
  <2> QED BY <1>4, <2>1, GotoInv DEF CancelRead, Goto
<1>5. ASSUME NEW w \in Workers, MapCommit(w) PROVE Inv'
  <2> DEFINE b == call[w].batch
             row == [batch[b] EXCEPT !.store = call[w].store]
  <2>1. b \in Batches /\ call[w].store \in Stores
    BY <1>5, <1>a DEF MapCommit, CallComplete
  <2>2. row \in Rows /\ batch' = [batch EXCEPT ![b] = row]
    BY <1>5, <1>b, <2>1 DEF MapCommit, Inv, TypeOK
  <2>3. named' \in [Names -> Stores \cup {None}]
    BY <1>5, <2>1 DEF MapCommit, Inv, TypeOK
  <2> HIDE DEF row
  <2> QED BY <1>0, <1>5, <2>1, <2>2, <2>3, WriteInv DEF MapCommit, Finish
<1>6. ASSUME NEW w \in Workers, RematchCommit(w) PROVE Inv'
  <2> DEFINE b == call[w].batch
             row == [batch[b] EXCEPT !.store = call[w].store]
             c == [pc |-> "rematched", batch |-> b, store |-> None]
  <2>1. b \in Batches /\ call[w].store \in Stores \cup {None}
    BY <1>6, <1>a DEF RematchCommit, CallComplete, Calls
  <2>2. row \in Rows /\ batch' = [batch EXCEPT ![b] = row]
    BY <1>6, <1>b, <2>1 DEF RematchCommit, Inv, TypeOK
  <2>3. c \in Calls /\ CallComplete(c) /\ c.pc # "posting"
    BY <2>1 DEF Calls, CallComplete
  <2>4. named' \in [Names -> Stores \cup {None}] /\ ledger' = ledger
    BY <1>6 DEF RematchCommit, Inv, TypeOK
  <2>5. call' = [call EXCEPT ![w] = c] /\ ~RowsLocked(b)
    BY <1>6 DEF RematchCommit, Goto
  <2> HIDE DEF row, c
  <2> QED BY <2>1, <2>2, <2>3, <2>4, <2>5, WriteInv
<1>7. ASSUME NEW w \in Workers, Preview(w) PROVE Inv'
  <2>1. call[w].batch \in Batches
    BY <1>7, <1>a DEF Preview, CallComplete
  <2>2. PICK pc \in {"valid", "invalid"} :
          call' = [call EXCEPT ![w] = [pc |-> pc, batch |-> call[w].batch, store |-> None]]
    BY <1>7 DEF Preview, Goto
  <2> DEFINE c == [pc |-> pc, batch |-> call[w].batch, store |-> None]
  <2>3. c \in Calls /\ CallComplete(c) /\ c.pc # "posting"
    BY <2>1 DEF Calls, CallComplete
  <2> QED BY <1>7, <2>2, <2>3, GotoInv DEF Preview
<1>8. ASSUME NEW w \in Workers, ValidateCommit(w) \/ CancelCommit(w) PROVE Inv'
  <2> DEFINE b == call[w].batch
  <2>1. b \in Batches /\ ~RowsLocked(b)
    BY <1>8, <1>a DEF ValidateCommit, CancelCommit, CallComplete
  <2>2. PICK status \in Statuses : batch' = [batch EXCEPT ![b].status = status]
    BY <1>8 DEF ValidateCommit, CancelCommit, Statuses
  <2> DEFINE row == [batch[b] EXCEPT !.status = status]
  <2>3. row \in Rows /\ batch' = [batch EXCEPT ![b] = row]
    BY <1>b, <2>1, <2>2 DEF Inv, TypeOK
  <2>4. named' \in [Names -> Stores \cup {None}] /\ ledger' = ledger
        /\ call' = [call EXCEPT ![w] = Idle]
    BY <1>8 DEF ValidateCommit, CancelCommit, Finish, Inv, TypeOK
  <2> HIDE DEF row
  <2> QED BY <1>0, <2>1, <2>3, <2>4, WriteInv
<1>9. ASSUME NEW w \in Workers, Abort(w) PROVE Inv'
  BY <1>0, <1>9, GotoInv DEF Abort, Finish
<1>10. CASE UNCHANGED vars
  BY <1>10 DEF vars, Inv, TypeOK, PostingIsCurrent, PostingIsAlone
<1> QED BY <1>1, <1>2, <1>3, <1>4, <1>5, <1>6, <1>7, <1>8, <1>9, <1>10,
           PostLockInv, PostCommitInv DEF Next

(* The invariant holds in every state.                                     *)
LEMMA InvHolds == Spec => []Inv
BY InitInv, NextInv, PTL DEF Spec

(* Every variable keeps its type.                                          *)
THEOREM TypeCorrect == Spec => []TypeOK
<1>1. Inv => TypeOK
  BY DEF Inv
<1> QED BY <1>1, InvHolds, PTL

(* The rows that a posting adds to the ledger are those its batch shows    *)
(* when it commits, whatever mappings, validations and cancellations       *)
(* overlap with it.                                                        *)
THEOREM PostingWritesItsBatch == Spec => PostsWhatItShows
<1> DEFINE Shows == \A row \in ledger' \ ledger :
                      /\ batch[row[1]].store = row[2]
                      /\ batch[row[1]].status \notin {"POSTED", "CANCELLED"}
<1>1. Inv /\ [Next]_vars => [Shows]_vars
  <2> SUFFICES ASSUME Inv, Next PROVE Shows
    OBVIOUS
  <2>1. ASSUME NEW w \in Workers, PostCommit(w) PROVE Shows
    BY <2>1 DEF PostCommit, Inv, PostingIsCurrent
  <2> QED BY <2>1 DEF Next, Create, MapRead, ValidateRead, PostLock, CancelRead,
          MapCommit, RematchCommit, Preview, ValidateCommit, CancelCommit, Abort
<1> QED BY <1>1, InvHolds, PTL DEF Spec, PostsWhatItShows
=============================================================================
