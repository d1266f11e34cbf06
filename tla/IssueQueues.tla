---------------------------- MODULE IssueQueues ----------------------------
(***************************************************************************)
(* Where the maker and the checker of the supplying store find what an     *)
(* approved request still needs: the pages of requests to issue            *)
(* (item-requests.service.ts), the pages of item issues                    *)
(* (item-issues.service.ts, item-issue-workflow.ts), and the button each   *)
(* of them shows (queues.ts of the frontend).  The lists ask totals and    *)
(* statuses, the server asks lines and open issues; the module adds no     *)
(* state to ItemIssue.                                                     *)
(*                                                                         *)
(* Who is on a request, and whether the store is the corporate one, never  *)
(* changes here, so it is a parameter (at).  Requests of a store without   *)
(* maker or checker are in no list (RequestQueues) and are left out, and   *)
(* so are the pages of what is done.                                       *)
(***************************************************************************)
EXTENDS ItemIssue

(* corporate: whether this is the head office's store; owner: the          *)
(* corporate maker stored on the requests; others: who sees them besides.  *)
Settings == [corporate : BOOLEAN, owner : Users, others : SUBSET Users]

(* Head access: the checker of the head office sees every request.         *)
HasHeadAccess(at, u) == at.corporate /\ u = checker

(* The pages with buttons for issues.  The one for a first issue belongs   *)
(* to the role CORPORATE_MAKER; partial-pending goes to anyone who makes   *)
(* or checks for a supplying store.                                        *)
RequestPages(at, u) ==
  {q \in {"ready-to-issue", "partial-pending"} :
     IF q = "ready-to-issue" THEN at.corporate /\ u = maker ELSE u \in {maker, checker}}

(* The pages of unfinished issues, for the roles of the head office only.  *)
IssuePages(at, u) ==
  {q \in {"pending-verification", "returned"} :
     at.corporate /\ (u = checker \/ (u = maker /\ q = "returned"))}

(* remainingPostedQuantityCondition: totals over all lines.                *)
RemainingPosted(r) == Total(Requested[r]) > Total(issued[r])

Blocked_AnyOpen(r) == \E i \in Issues : issue[i].request = r /\ issue[i].status \in Open

(* noBlockingOpenIssueCondition: a draft does not take its request off the *)
(* pages.                                                                  *)
Blocked(r) ==
  \E i \in Issues : issue[i].request = r /\ issue[i].status \in Open \ {"DRAFT"}

RequestListed(at, u, q, r) ==
  /\ HasHeadAccess(at, u) \/ u \in {at.owner} \cup at.others
  /\ \/ q = "ready-to-issue" /\ request[r] = "APPROVED" /\ (HasHeadAccess(at, u) \/ u = at.owner)
     \/ q = "partial-pending" /\ request[r] = "PARTIALLY_ISSUED"
  /\ ~Blocked(r)
  /\ RemainingPosted(r)

(* canCreateIssue of a request in a list.                                  *)
CanCreateIssue(u, r) ==
  /\ AllowsIssue(request[r])
  /\ u = maker
  /\ ~HasOpenIssue(r)
  /\ RemainingPosted(r)

(* resolveItemRequestIssueAction: the button of a request on those pages.  *)
IssueAction(u, r) ==
  LET open(status) == \E i \in Issues : issue[i].request = r /\ issue[i].status = status IN
  CASE open("DRAFT")                -> "CONTINUE_DRAFT"
    [] open("PENDING_VERIFICATION") -> "VIEW_SUBMITTED"
    [] open("RETURNED")             -> "CORRECT_AND_RESUBMIT"
    [] CanCreateIssue(u, r)         -> IF request[r] = "PARTIALLY_ISSUED"
                                       THEN "CREATE_REMAINING" ELSE "CREATE"
    [] OTHER                        -> "NONE"

(* The request is on a page of u, with one of these buttons.               *)
HasButton(at, u, r, actions) ==
  /\ IssueAction(u, r) \in actions
  /\ \E q \in RequestPages(at, u) : RequestListed(at, u, q, r)

(* issueListWhere: the issues of a page; both people of the store see all. *)
IssueListed(u, q, i) ==
  /\ u \in {maker, checker}
  /\ issue[i].status = IF q = "returned" THEN "RETURNED" ELSE "PENDING_VERIFICATION"

(* toIssueListItem: what the row of an issue lets u do.                    *)
CanEdit(u, i) == issue[i].status \in Editable /\ u = maker
CanVerify(u, i) == issue[i].status = "PENDING_VERIFICATION" /\ MayVerify(u, i)

IssueOffered(at, i) ==
  \E u \in Users : \E q \in IssuePages(at, u) :
    IssueListed(u, q, i) /\ (CanEdit(u, i) \/ CanVerify(u, i))

-----------------------------------------------------------------------------
(* No request is forgotten half way: until it is complete, its next step   *)
(* is a button on a page of the maker, or an issue on a page of whoever    *)
(* may deal with it.  That holds at the head office, while the maker       *)
(* stored on the request is its maker, and the checker is not left with an *)
(* issue that he made himself.  Nor is a new issue offered in vain, though *)
(* the list adds up what the server compares line by line.                 *)
IssueWorkIsOffered ==
  \A r \in Requests :
    /\ request[r] # "ISSUED" =>
         \A at \in [corporate : {TRUE}, owner : {maker}, others : SUBSET Users] :
           \/ \E i \in Issues : issue[i].request = r /\ IssueOffered(at, i)
           \/ HasButton(at, maker, r, {"CREATE", "CREATE_REMAINING", "CONTINUE_DRAFT"})
           \/ \E i \in Issues : issue[i].request = r /\ issue[i].creator = checker
                                  /\ issue[i].status = "PENDING_VERIFICATION"
    /\ \A u \in Users :
         (\E at \in Settings : HasButton(at, u, r, {"CREATE", "CREATE_REMAINING"}))
           => u = maker /\ Eligible(r)
=============================================================================
