---------------------------- MODULE ItemRequest ----------------------------
(***************************************************************************)
(* The approval workflow of one item request (item-requests.service.ts):   *)
(* a store maker drafts it, the store's checker recommends it, the maker   *)
(* of the supplying store forwards it and its checker approves.            *)
(*                                                                         *)
(* A call is split where another call can come in between.  An edit is     *)
(* validated on a row read without a lock and committed by a guarded       *)
(* UPDATE; a workflow action locks the row, but reads the store            *)
(* assignments on another connection, so they can change until its commit. *)
(*                                                                         *)
(* Abstractions.  The lines, remarks and "requested by" of a request are   *)
(* one value, its content.  Whether stores, people and items are active    *)
(* and eligible is not modelled: a failed check of that kind is an Abort,  *)
(* possible at every point.  The statuses after APPROVED belong to         *)
(* ItemIssue, which starts there.                                          *)
(***************************************************************************)
EXTENDS Integers, Sequences

CONSTANTS Users,
          Stores,
          Contents,
          Workers,      \* concurrent calls of the backend
          None,
          HeadUsers,    \* administrators and the Corporate Checker (head access)
          Admins,       \* the administrators among them
          Corporate,    \* the store that branch makers request from
          Supplying,    \* stores that may supply (allow_transfer or corporate)
          Assignments,  \* store_users: functions from stores to [maker, checker]
          MaxVersion    \* bound: a request at this version is not changed

ASSUME ConstantsAssumption ==
  /\ None \notin Users \cup Stores \cup Contents
  /\ Admins \subseteq HeadUsers /\ HeadUsers \subseteq Users
  /\ Corporate \in Supplying /\ Supplying \subseteq Stores
  /\ Assignments \subseteq
       {a \in [Stores -> [maker : Users \cup {None}, checker : Users \cup {None}]] :
          \A s \in Stores : a[s].maker # None =>
            /\ a[s].maker # a[s].checker
            /\ \A t \in Stores : a[s].maker = a[t].maker => s = t}
  /\ MaxVersion \in Nat

VARIABLES
  request,    \* the item_requests row, or Absent
  audit,      \* its item_request_actions rows, oldest first
  assigned,   \* assigned[s]: active maker and checker of store s, or None
  call        \* call[w]: the call worker w is serving

vars == <<request, audit, assigned, call>>

Editable == {"DRAFT", "RETURNED_TO_BRANCH_MAKER"}
InReview == {"PENDING_BRANCH_CHECKER", "PENDING_CORPORATE_MAKER",
             "PENDING_CORPORATE_CHECKER", "RETURNED_TO_CORPORATE_MAKER"}
Statuses == Editable \cup InReview \cup {"APPROVED", "REJECTED", "CANCELLED"}
Actions  == {"SUBMIT", "RESUBMIT", "CANCEL", "RECOMMEND", "FORWARD",
             "RETURN", "APPROVE", "REJECT"}

Transition(from, action, to, actor) ==
  [from |-> from, action |-> action, to |-> to, actor |-> actor]

OtherTransitions == {
  Transition("DRAFT", "CANCEL", "CANCELLED", "BRANCH_MAKER"),
  Transition("RETURNED_TO_BRANCH_MAKER", "RESUBMIT", "PENDING_BRANCH_CHECKER", "BRANCH_MAKER"),
  Transition("RETURNED_TO_BRANCH_MAKER", "CANCEL", "CANCELLED", "BRANCH_MAKER"),
  Transition("PENDING_BRANCH_CHECKER", "RECOMMEND", "PENDING_CORPORATE_MAKER", "BRANCH_CHECKER"),
  Transition("PENDING_BRANCH_CHECKER", "RETURN", "RETURNED_TO_BRANCH_MAKER", "BRANCH_CHECKER"),
  Transition("PENDING_CORPORATE_MAKER", "FORWARD", "PENDING_CORPORATE_CHECKER", "CORPORATE_MAKER"),
  Transition("PENDING_CORPORATE_MAKER", "RETURN", "RETURNED_TO_BRANCH_MAKER", "CORPORATE_MAKER"),
  Transition("PENDING_CORPORATE_CHECKER", "APPROVE", "APPROVED", "CORPORATE_CHECKER"),
  Transition("PENDING_CORPORATE_CHECKER", "RETURN", "RETURNED_TO_CORPORATE_MAKER", "CORPORATE_CHECKER"),
  Transition("PENDING_CORPORATE_CHECKER", "REJECT", "REJECTED", "CORPORATE_CHECKER"),
  Transition("RETURNED_TO_CORPORATE_MAKER", "FORWARD", "PENDING_CORPORATE_CHECKER", "CORPORATE_MAKER"),
  Transition("RETURNED_TO_CORPORATE_MAKER", "RETURN", "RETURNED_TO_BRANCH_MAKER", "CORPORATE_MAKER") }

WorkflowTransitions_LabelStatus ==
  OtherTransitions \cup {Transition("DRAFT", "SUBMIT", "SUBMITTED", "BRANCH_MAKER")}

WorkflowTransitions ==
  OtherTransitions \cup {Transition("DRAFT", "SUBMIT", "PENDING_BRANCH_CHECKER", "BRANCH_MAKER")}

Absent == [status |-> "ABSENT", version |-> 0, creator |-> None, source |-> None,
           dest |-> None, content |-> None, branchChecker |-> None,
           corporateMaker |-> None, corporateChecker |-> None]

Idle == [op |-> "NONE", user |-> None, source |-> None, dest |-> None,
         content |-> None, expected |-> 0, seen |-> 0,
         step |-> Transition("ABSENT", "NONE", "ABSENT", "NONE")]

-----------------------------------------------------------------------------
(* Checks shared by the handlers.                                          *)

Reset(w) == call' = [call EXCEPT ![w] = Idle]

HeadAccess(u) == u \in HeadUsers

(* Store s has both people: nobody may submit to a store that has not.     *)
Staffed(s) == assigned[s].maker # None /\ assigned[s].checker # None

(* The one store u is maker of, with a checker (getActiveMakerAssignment). *)
MakerOf(u, s) == assigned[s].maker = u /\ Staffed(s)

(* resolveCreateStorePair: which store pair user u may put on a request.   *)
MayRequest(u, source, dest) ==
  /\ source # dest
  /\ dest \in Supplying
  /\ HeadAccess(u) \/
       /\ MakerOf(u, source)
       /\ source # Corporate /\ dest = Corporate

ActorMatches_AnyUser(u, kind) == kind = "BRANCH_MAKER" => u = request.creator

(* The assignee stored on the request, not the current one, must act.      *)
ActorMatches(u, kind) ==
  u = CASE kind = "BRANCH_MAKER"      -> request.creator
        [] kind = "BRANCH_CHECKER"    -> request.branchChecker
        [] kind = "CORPORATE_MAKER"   -> request.corporateMaker
        [] kind = "CORPORATE_CHECKER" -> request.corporateChecker

(* The row lock of a workflow action, held until its transaction ends.     *)
RowFree == \A w \in Workers : call[w].op # "ACTION"

WithReviewers_SubmitOnly(row, action) ==
  IF action = "SUBMIT"
  THEN [row EXCEPT !.branchChecker = assigned[row.source].checker]
  ELSE IF action = "RECOMMEND"
  THEN [row EXCEPT !.corporateMaker = assigned[row.dest].maker,
                   !.corporateChecker = assigned[row.dest].checker]
  ELSE row

(* Assignees are written when the request is submitted and recommended.    *)
WithReviewers(row, action) ==
  IF action \in {"SUBMIT", "RESUBMIT"}
  THEN [row EXCEPT !.branchChecker = assigned[row.source].checker]
  ELSE IF action = "RECOMMEND"
  THEN [row EXCEPT !.corporateMaker = assigned[row.dest].maker,
                   !.corporateChecker = assigned[row.dest].checker]
  ELSE row

-----------------------------------------------------------------------------
Init ==
  /\ request = Absent
  /\ audit = <<>>
  /\ assigned \in Assignments
  /\ call = [w \in Workers |-> Idle]

(* createItemRequest; an insert of a new row conflicts with nothing.       *)
Create(u, source, dest, content) ==
  /\ request = Absent
  /\ MayRequest(u, source, dest)
  /\ request' = [Absent EXCEPT !.status = "DRAFT", !.version = 1, !.creator = u,
                   !.source = source, !.dest = dest, !.content = content]
  /\ UNCHANGED <<audit, assigned, call>>

(* updateItemRequest up to its transaction: the row is read without lock.  *)
(* Only head access may change the stores.                                 *)
UpdateRead(w, u, source, dest, content, expected) ==
  /\ call[w] = Idle
  /\ request.status \in Editable /\ request.creator = u
  /\ request.version < MaxVersion
  /\ HeadAccess(u) \/ (source = request.source /\ dest = request.dest)
  /\ MayRequest(u, source, dest)
  /\ call' = [call EXCEPT ![w] =
       [Idle EXCEPT !.op = "UPDATE", !.user = u, !.source = source, !.dest = dest,
                    !.content = content, !.expected = expected, !.seen = request.version]]
  /\ UNCHANGED <<request, audit, assigned>>

StillEditable_NoVersion(c) ==
  request.status \in Editable /\ request.creator = c.user

StillEditable_Unguarded(c) == request # Absent /\ request.creator = c.user

(* The WHERE clause of the guarded UPDATE.                                 *)
StillEditable(c) ==
  /\ request.version = c.expected
  /\ request.status \in Editable
  /\ request.creator = c.user

UpdateCommit(w) ==
  /\ call[w].op = "UPDATE"
  /\ RowFree
  /\ StillEditable(call[w])
  /\ request' = [request EXCEPT !.version = call[w].seen + 1, !.source = call[w].source,
                   !.dest = call[w].dest, !.content = call[w].content]
  /\ Reset(w)
  /\ UNCHANGED <<audit, assigned>>

(* performItemRequestAction up to its checks on the locked row.  The       *)
(* client's version is the row's, or the call is refused.                  *)
ActionLock(w, u, step) ==
  /\ call[w] = Idle
  /\ RowFree
  /\ step.from = request.status
  /\ request.version < MaxVersion
  /\ u \in Admins => step.actor = "BRANCH_MAKER"
  /\ ActorMatches(u, step.actor)
  /\ step.action \in {"SUBMIT", "RESUBMIT"} =>
       HeadAccess(u) \/ MakerOf(u, request.source)
  /\ call' = [call EXCEPT ![w] = [Idle EXCEPT !.op = "ACTION", !.user = u, !.step = step,
                                              !.expected = request.version]]
  /\ UNCHANGED <<request, audit, assigned>>

(* The WHERE clause of its guarded UPDATE.                                 *)
SameRequest(c) == request.version = c.expected /\ request.status = c.step.from

(* The audit row.                                                          *)
Recorded(c) == Append(audit, [action |-> c.step.action, from |-> c.step.from,
                              to |-> c.step.to, actor |-> c.user])

(* The reads of the reviewers, the guarded UPDATE and the audit row.       *)
ActionCommit(w) ==
  LET step == call[w].step IN
  /\ call[w].op = "ACTION"
  /\ SameRequest(call[w])
  /\ step.action \in {"SUBMIT", "RESUBMIT"} =>
       Staffed(request.source) /\ request.dest \in Supplying
  /\ step.action = "RECOMMEND" => Staffed(request.dest) /\ request.dest \in Supplying
  /\ request' = [WithReviewers(request, step.action) EXCEPT
                   !.status = step.to, !.version = call[w].expected + 1]
  /\ audit' = Recorded(call[w])
  /\ Reset(w)
  /\ UNCHANGED assigned

(* deleteItemRequest: the version is read without a lock, and again by the *)
(* guarded DELETE, which waits for the row lock.  Only head access may.    *)
DeleteRead(w, expected) ==
  /\ call[w] = Idle
  /\ request # Absent /\ request.version = expected
  /\ call' = [call EXCEPT ![w] = [Idle EXCEPT !.op = "DELETE", !.expected = expected]]
  /\ UNCHANGED <<request, audit, assigned>>

(* The other calls under way match no row any more: they end here, so that *)
(* a later Create, which is another row, does not meet them.               *)
DeleteCommit(w) ==
  /\ call[w].op = "DELETE"
  /\ RowFree
  /\ request.version = call[w].expected
  /\ request' = Absent
  /\ audit' = <<>>
  /\ call' = [v \in Workers |-> Idle]
  /\ UNCHANGED assigned

Abort_KeepsAudit(w) ==
  /\ call[w] # Idle
  /\ audit' = IF call[w].op = "ACTION" THEN Recorded(call[w]) ELSE audit
  /\ Reset(w)
  /\ UNCHANGED <<request, assigned>>

(* An error, a guarded statement that matches no row, or a crash: nothing  *)
(* of the call is kept.                                                    *)
Abort(w) ==
  /\ call[w] # Idle
  /\ Reset(w)
  /\ UNCHANGED <<request, audit, assigned>>

(* Store User Setup and employee transfers change the assignments.         *)
Assign(a) ==
  /\ assigned' = a
  /\ UNCHANGED <<request, audit, call>>

Next ==
  \/ \E u \in Users, s, t \in Stores, x \in Contents : Create(u, s, t, x)
  \/ \E w \in Workers :
       \/ \E u \in Users, s, t \in Stores, x \in Contents :
            \E expected \in 1 .. request.version : UpdateRead(w, u, s, t, x, expected)
       \/ UpdateCommit(w)
       \/ \E u \in Users, step \in WorkflowTransitions : ActionLock(w, u, step)
       \/ ActionCommit(w)
       \/ DeleteRead(w, request.version)
       \/ DeleteCommit(w)
       \/ Abort(w)
  \/ \E a \in Assignments \ {assigned} : Assign(a)

Spec == Init /\ [][Next]_vars

-----------------------------------------------------------------------------
(* Every variable has its type.                                            *)
Steps == [from : Statuses \cup {"ABSENT"}, action : Actions \cup {"NONE"},
          to : Statuses \cup {"ABSENT"},
          actor : {"BRANCH_MAKER", "BRANCH_CHECKER", "CORPORATE_MAKER",
                   "CORPORATE_CHECKER", "NONE"}]

TypeOK ==
  /\ request \in [status : Statuses \cup {"ABSENT"}, version : Nat,
                  creator : Users \cup {None}, source : Stores \cup {None},
                  dest : Stores \cup {None}, content : Contents \cup {None},
                  branchChecker : Users \cup {None}, corporateMaker : Users \cup {None},
                  corporateChecker : Users \cup {None}]
  /\ audit \in Seq([action : Actions, from : Statuses, to : Statuses, actor : Users])
  /\ assigned \in Assignments
  /\ call \in [Workers ->
       [op : {"NONE", "UPDATE", "ACTION", "DELETE"}, user : Users \cup {None},
        source : Stores \cup {None}, dest : Stores \cup {None},
        content : Contents \cup {None}, expected : Nat, seen : Nat, step : Steps]]

(* The audit trail tells the whole story: it starts at the draft, each row *)
(* continues where the one before ended, and the last one ends in the      *)
(* status of the request, whatever calls ran at the same time.             *)
AuditTrailIsComplete ==
  request # Absent =>
    /\ \A n \in 1 .. Len(audit) :
         audit[n].from = IF n = 1 THEN "DRAFT" ELSE audit[n - 1].to
    /\ request.status = IF audit = <<>> THEN "DRAFT" ELSE audit[Len(audit)].to

(* The rows since the request was last submitted.                          *)
Review ==
  LET submissions == {n \in DOMAIN audit : audit[n].action \in {"SUBMIT", "RESUBMIT"}}
  IN  {audit[n] : n \in {m \in DOMAIN audit : \A k \in submissions : m > k}}

(* An approved request was recommended by the checker it was submitted to, *)
(* forwarded by the corporate maker and approved by the corporate checker  *)
(* chosen at that recommendation, all since its last submission.           *)
ApprovedWasReviewed ==
  request.status = "APPROVED" =>
    /\ \E row \in Review : row.action = "RECOMMEND" /\ row.actor = request.branchChecker
    /\ \E row \in Review : row.action = "FORWARD" /\ row.actor = request.corporateMaker
    /\ audit[Len(audit)].action = "APPROVE"
    /\ audit[Len(audit)].actor = request.corporateChecker

(* While a request is with its reviewers, the branch checker on it is one  *)
(* the requesting store has had, also when the store was changed on a      *)
(* returned request and the request was submitted again.                   *)
CheckerBelongsToStore ==
  request.status \in InReview =>
    request.branchChecker \in {a[request.source].checker : a \in Assignments}

(* What is reviewed does not change under the reviewers: stores and        *)
(* content change only in the hands of the maker.                          *)
ContentFrozenInReview ==
  [][request.status \notin Editable /\ request' # Absent /\ request # Absent =>
       /\ request'.content = request.content
       /\ request'.source = request.source /\ request'.dest = request.dest]_vars

(* A version names one content: of two calls that saw the same version, at *)
(* most one changes the request.                                           *)
VersionNamesContent ==
  [][request'.version = request.version => request' = request]_vars
=============================================================================
