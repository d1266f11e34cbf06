------------------------------- MODULE Supply -------------------------------
(* What a supplying store promises its requests, whatever calls are under  *)
(* way (the abstract specification that ItemIssue implements): goods come  *)
(* in at some rate, and leave in one step, either for a request, which     *)
(* then has received them, or for a department.  Never does more leave     *)
(* than came in, nor does a request get more than it asks for.  Goods that *)
(* a purchase takes back still came in, so the promise is not that a       *)
(* balance is never negative: the code does not keep that one.             *)
EXTENDS Integers, Functions

CONSTANTS Requests, Items, Rates,
          Requested    \* Requested[r][k]: quantity of item k on request r

VARIABLES issued,      \* issued[r][k]: what request r has received of k
          came,        \* came[k][c]: what ever came in of k at rate c
          left         \* left[k][c]: what ever left of it

Init ==
  /\ issued = [r \in Requests |-> [k \in Items |-> 0]]
  /\ came = [k \in Items |-> [c \in Rates |-> 0]]
  /\ left = came

(* Goods leave the store, and they had come in.                            *)
Leave ==
  /\ \A k \in Items, c \in Rates : left[k][c] <= left'[k][c] /\ left'[k][c] <= came[k][c]
  /\ UNCHANGED came

(* What leaves of item k in this step, at all rates.                       *)
Leaving(k) == FoldFunction(LAMBDA a, b : a + b, 0, [c \in Rates |-> left'[k][c] - left[k][c]])

(* Request r receives what leaves the store.                               *)
Deliver(r) ==
  /\ Leave
  /\ \A k \in Items : /\ issued'[r][k] = issued[r][k] + Leaving(k)
                      /\ issued'[r][k] <= Requested[r][k]
  /\ \A s \in Requests \ {r} : issued'[s] = issued[s]

(* A department takes goods from the store.                                *)
Consume == Leave /\ UNCHANGED issued

(* A purchase or an opening stock batch.                                   *)
Receive ==
  /\ \A k \in Items, c \in Rates : came[k][c] <= came'[k][c]
  /\ UNCHANGED <<issued, left>>

Next == (\E r \in Requests : Deliver(r)) \/ Consume \/ Receive

Spec == Init /\ [][Next]_<<issued, came, left>>
=============================================================================
