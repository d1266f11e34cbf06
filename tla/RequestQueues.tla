--------------------------- MODULE RequestQueues ---------------------------
(***************************************************************************)
(* Who finds an item request, where, and who is told of it: visibility and *)
(* queues of item-requests.service.ts, the pages of each workflow role     *)
(* (item-request-workflow.ts), the buttons of each page (queues.ts of the  *)
(* frontend) and the recipients of notifications.                          *)
(*                                                                         *)
(* All of this is computed from the row, its audit trail and the present   *)
(* assignments, so the module adds no state to ItemRequest.  It matters    *)
(* because the pieces disagree on what "my request" is: reviewers are the  *)
(* people stored on the row, while roles and pages follow the assignments. *)
(*                                                                         *)
(* Pages of requests that are being issued, and the remaining quantity     *)
(* and open issue of an approved one, belong to ItemIssue; filters that a  *)
(* user types in are left out.                                             *)
(***************************************************************************)
EXTENDS ItemRequest

(* resolveItemRequestWorkflowRoles: the roles u has in the workflow now.   *)
Roles(u) ==
  IF u \in Admins THEN {"ADMIN"}
  ELSE LET made == {s \in Stores : assigned[s].maker = u}
           supervised == {s \in Stores : assigned[s].checker = u}
       IN  {"CORPORATE_MAKER" : s \in made \cap {Corporate}}
           \cup {"BRANCH_MAKER" : s \in {t \in made \ {Corporate} : Staffed(t)}}
           \cup {"CORPORATE_CHECKER" : s \in supervised \cap {Corporate}}
           \cup {"BRANCH_CHECKER" : s \in supervised \ {Corporate}}

(* The stores u works for; administrators work for none (actorStoreIds).   *)
OwnStores(u) == {s \in Stores : u \notin Admins /\ u \in {assigned[s].maker, assigned[s].checker}}

OnTheRow(u) == u \in {request.creator, request.branchChecker, request.corporateMaker,
                      request.corporateChecker}

Visible_OwnStores(u) == HeadAccess(u) \/ request.source \in OwnStores(u)

(* buildVisibilityCondition: whose lists and screens may show the request. *)
Visible(u) == HeadAccess(u) \/ OnTheRow(u) \/ request.source \in OwnStores(u)

(* The statuses each queue shows; the list of all requests shows any.      *)
QueueStatuses(q) ==
  CASE q = "drafts"                  -> {"DRAFT"}
    [] q = "recommend"               -> {"PENDING_BRANCH_CHECKER"}
    [] q = "review"                  -> {"PENDING_CORPORATE_MAKER"}
    [] q \in {"forwarded", "approve"} -> {"PENDING_CORPORATE_CHECKER"}
    [] q \in {"ready-to-issue", "approved"} -> {"APPROVED"}
    [] q = "returned"                -> {"RETURNED_TO_BRANCH_MAKER", "RETURNED_TO_CORPORATE_MAKER"}
    [] q = "rejected"                -> {"REJECTED"}
    [] OTHER                         -> Statuses

WasForwarded == \E n \in DOMAIN audit : audit[n].action = "FORWARD"

(* buildQueueActorCondition: of a queue, u sees what is his to deal with.  *)
InQueueOf(u, q) ==
  IF HeadAccess(u) THEN q = "approve" => WasForwarded
  ELSE CASE q = "drafts"    -> u = request.creator
         [] q = "recommend" -> u = request.branchChecker
         [] q \in {"review", "forwarded", "ready-to-issue"} -> u = request.corporateMaker
         [] q = "approve"   -> u = request.corporateChecker /\ WasForwarded
         [] q = "approved"  -> u = request.corporateChecker
         [] q = "returned"  ->
              IF request.status = "RETURNED_TO_CORPORATE_MAKER"
              THEN u \in {request.corporateChecker, request.corporateMaker}
              ELSE u \in {request.creator, request.branchChecker}
         [] OTHER           -> TRUE

(* buildListFilters: queue q of user u has the request.  A request of a    *)
(* store that lacks its maker or checker is in no list at all.             *)
Listed(u, q) ==
  /\ Visible(u)
  /\ Staffed(request.source)
  /\ request.status \in QueueStatuses(q)
  /\ InQueueOf(u, q)

RoleQueues(role) ==
  {"request-list", "returned", "rejected"} \cup
  CASE role = "ADMIN"             -> {"recommend", "review", "approve", "approved"}
    [] role = "BRANCH_MAKER"      -> {"drafts"}
    [] role = "BRANCH_CHECKER"    -> {"recommend"}
    [] role = "CORPORATE_MAKER"   -> {"review", "forwarded", "ready-to-issue"}
    [] role = "CORPORATE_CHECKER" -> {"approve", "approved"}

(* getItemRequestNavQueues: the pages u is shown.                          *)
NavQueues(u) == {"request-list"} \cup UNION {RoleQueues(role) : role \in Roles(u)}

(* The buttons a page may have; the list of all requests has none.         *)
QueueActions(q) ==
  CASE q = "drafts"    -> {"SUBMIT", "CANCEL"}
    [] q = "recommend" -> {"RECOMMEND", "RETURN"}
    [] q = "review"    -> {"FORWARD", "RETURN"}
    [] q = "approve"   -> {"APPROVE", "REJECT", "RETURN"}
    [] q = "returned"  -> {"FORWARD", "RETURN", "RESUBMIT", "CANCEL"}
    [] OTHER           -> {}

(* computeAllowedActions: the steps the server would take from u now.      *)
Allowed(u) ==
  {step \in WorkflowTransitions :
     /\ step.from = request.status
     /\ u \in Admins => step.actor = "BRANCH_MAKER"
     /\ ActorMatches(u, step.actor)}

(* actorMayCreateItemIssue, for the store the request was made to.         *)
MayIssue(u) == u \notin Admins /\ assigned[request.dest].maker = u

PendingAssignee_MakerOnReturn(row) ==
  CASE row.status \in {"DRAFT", "RETURNED_TO_BRANCH_MAKER", "RETURNED_TO_CORPORATE_MAKER"} ->
         {row.creator}
    [] row.status = "PENDING_BRANCH_CHECKER" -> {row.branchChecker}
    [] row.status = "PENDING_CORPORATE_MAKER" -> {row.corporateMaker}
    [] row.status = "PENDING_CORPORATE_CHECKER" -> {row.corporateChecker}
    [] OTHER -> {}

(* itemRequestPendingAssignee: whom a request waits for, if for anyone.    *)
PendingAssignee(row) ==
  CASE row.status \in {"DRAFT", "RETURNED_TO_BRANCH_MAKER"} -> {row.creator}
    [] row.status = "PENDING_BRANCH_CHECKER" -> {row.branchChecker}
    [] row.status \in {"PENDING_CORPORATE_MAKER", "RETURNED_TO_CORPORATE_MAKER"} ->
         {row.corporateMaker}
    [] row.status = "PENDING_CORPORATE_CHECKER" -> {row.corporateChecker}
    [] OTHER -> {}

(* Who gets a notification of an action that left the request as row.      *)
Recipients(row, action, actor) ==
  LET others == CASE row.status = "APPROVED" -> {row.corporateMaker}
                  [] row.status = "REJECTED" -> {row.creator, row.branchChecker,
                                                 row.corporateMaker, row.corporateChecker}
                  [] OTHER -> {}
  IN  IF action = "CANCEL" THEN {}
      ELSE (PendingAssignee(row) \cup others) \ {None, actor}

-----------------------------------------------------------------------------
(* Nobody is needed who is not shown what to do.  Whoever the server would *)
(* let act on the request can open it; and unless its store lacks a maker  *)
(* or a checker, he finds it in the list of all requests and, for each     *)
(* action, on a page of his that has the button.  Only a draft whose maker *)
(* has lost the role since, or never had it, and a request under review by *)
(* someone who has been replaced, have the list alone.  An approved        *)
(* request is on the page for issues of the maker stored on it, as long as *)
(* he is still the one who may create the issue.                           *)
WaitingRequestIsOffered ==
  \A u \in Users :
    /\ Allowed(u) # {} => Visible(u)
    /\ Allowed(u) # {} /\ Staffed(request.source) => Listed(u, "request-list")
    /\ \A step \in Allowed(u) :
         /\ Staffed(request.source)
         /\ \/ step.actor \in Roles(u)
            \/ Roles(u) # {} /\ request.status \in QueueStatuses("returned")
         => \E q \in NavQueues(u) : Listed(u, q) /\ step.action \in QueueActions(q)
    /\ /\ request.status = "APPROVED" /\ Staffed(request.source)
       /\ MayIssue(u) /\ u = request.corporateMaker /\ "CORPORATE_MAKER" \in Roles(u)
       => "ready-to-issue" \in NavQueues(u) /\ Listed(u, "ready-to-issue")

(* Whoever can act on a request after an action of somebody else is told   *)
(* of that action, whoever was on the row before: a request submitted      *)
(* again, or recommended again after a return, reaches the people chosen   *)
(* this time.                                                              *)
TheNextActorIsTold ==
  [][Len(audit') > Len(audit) =>
       LET last == audit'[Len(audit')] IN
       \A u \in Users \ {last.actor} :
         Allowed(u)' # {} => u \in Recipients(request', last.action, last.actor)]_vars
=============================================================================
