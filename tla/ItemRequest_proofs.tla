------------------------- MODULE ItemRequest_proofs -------------------------
(***************************************************************************)
(* Proofs about ItemRequest, for any number of users, stores, contents and *)
(* concurrent calls, and any assignments the stores may have; and, at the  *)
(* end, about RequestQueues: who must act finds the request and is told of *)
(* it, for any users, stores and assignments, and any calls at once.       *)
(***************************************************************************)
EXTENDS RequestQueues, TLAPS

Rows == [status : Statuses \cup {"ABSENT"}, version : Nat,
         creator : Users \cup {None}, source : Stores \cup {None},
         dest : Stores \cup {None}, content : Contents \cup {None},
         branchChecker : Users \cup {None}, corporateMaker : Users \cup {None},
         corporateChecker : Users \cup {None}]

AuditRows == [action : Actions, from : Statuses, to : Statuses, actor : Users]

Calls == [op : {"NONE", "UPDATE", "ACTION", "DELETE"}, user : Users \cup {None},
          source : Stores \cup {None}, dest : Stores \cup {None},
          content : Contents \cup {None}, expected : Nat, seen : Nat, step : Steps]

(* A row that exists has a status of the workflow, two stores, and a       *)
(* version above that of the absent row.                                   *)
RowComplete ==
  request # Absent =>
    /\ request.status \in Statuses
    /\ request.version > 0
    /\ request.source \in Stores /\ request.dest \in Stores

(* An editor's screen is never newer than the row its update read.         *)
UpdatesInOrder ==
  \A w \in Workers : call[w].op = "UPDATE" =>
    /\ call[w].expected <= call[w].seen
    /\ call[w].source \in Stores /\ call[w].dest \in Stores

(* An action that holds the row lock still finds the row as it checked it. *)
Holds(w) == call[w].op = "ACTION"

LockedRow ==
  \A w \in Workers : Holds(w) =>
    /\ call[w].step \in WorkflowTransitions
    /\ call[w].step.from = request.status
    /\ call[w].expected = request.version
    /\ call[w].user \in Users /\ ActorMatches(call[w].user, call[w].step.actor)

OneHolder == \A v, w \in Workers : Holds(v) /\ Holds(w) => v = w

Core == TypeOK /\ RowComplete /\ UpdatesInOrder /\ LockedRow /\ OneHolder

(* TypeOK with its sets by name.                                           *)
LEMMA TypeOKRows ==
  TypeOK <=> /\ request \in Rows
             /\ audit \in Seq(AuditRows)
             /\ assigned \in Assignments
             /\ call \in [Workers -> Calls]
BY DEF TypeOK, Rows, AuditRows, Calls

(* What the table of transitions is made of.                               *)
LEMMA TransitionFacts ==
  ASSUME NEW t \in WorkflowTransitions
  PROVE  /\ t \in Steps
         /\ t.from \in Statuses /\ t.to \in Statuses /\ t.action \in Actions
         /\ t.actor \in {"BRANCH_MAKER", "BRANCH_CHECKER", "CORPORATE_MAKER",
                         "CORPORATE_CHECKER"}
BY DEF WorkflowTransitions, OtherTransitions, Transition, Steps, Statuses, Editable, InReview,
   Actions

(* The empty values have the types of the others.                          *)
LEMMA ConstantsTyped ==
  /\ Absent \in Rows
  /\ Idle \in Calls /\ Idle.op = "NONE"
BY DEF Absent, Rows, Idle, Calls, Steps, Transition

(* An edited row is a row.                                                 *)
LEMMA EditTyped ==
  ASSUME NEW r \in Rows, NEW v \in Nat, NEW s \in Stores, NEW d \in Stores,
         NEW x \in Contents \cup {None}
  PROVE  [r EXCEPT !.version = v, !.source = s, !.dest = d, !.content = x] \in Rows
BY DEF Rows

(* So is a row with another status.                                        *)
LEMMA ActionTyped ==
  ASSUME NEW r \in Rows, NEW v \in Nat, NEW to \in Statuses
  PROVE  [r EXCEPT !.status = to, !.version = v] \in Rows
BY DEF Rows

(* What a step does to the row and its audit trail.                        *)
Created ==
  /\ request = Absent
  /\ \E u \in Users, s, t \in Stores, x \in Contents :
       request' = [Absent EXCEPT !.status = "DRAFT", !.version = 1, !.creator = u,
                     !.source = s, !.dest = t, !.content = x]
  /\ UNCHANGED audit

Edited ==
  /\ request.status \in Editable
  /\ \E w \in Workers :
       /\ request.version = call[w].expected /\ call[w].op = "UPDATE"
       /\ request' = [request EXCEPT !.version = call[w].seen + 1, !.source = call[w].source,
                        !.dest = call[w].dest, !.content = call[w].content]
  /\ UNCHANGED audit

Acted(w) ==
  LET t == call[w].step IN
  /\ Holds(w)
  /\ request' = [WithReviewers(request, t.action) EXCEPT
                   !.status = t.to, !.version = call[w].expected + 1]
  /\ audit' = Append(audit, [action |-> t.action, from |-> t.from, to |-> t.to,
                             actor |-> call[w].user])

Deleted == request' = Absent /\ audit' = <<>>

(* A step creates, edits, acts on or deletes the request, or leaves it.    *)
LEMMA StepEffect ==
  ASSUME [Next]_vars
  PROVE  \/ UNCHANGED <<request, audit>>
         \/ Created \/ Edited \/ (\E w \in Workers : Acted(w)) \/ Deleted
<1>1. ASSUME NEW u \in Users, NEW s \in Stores, NEW t \in Stores, NEW x \in Contents,
             Create(u, s, t, x)
      PROVE  Created
  BY <1>1 DEF Create, Created
<1>2. ASSUME NEW w \in Workers, UpdateCommit(w) PROVE Edited
  BY <1>2 DEF UpdateCommit, StillEditable, Edited
<1>3. ASSUME NEW w \in Workers, ActionCommit(w) PROVE Acted(w)
  BY <1>3 DEF ActionCommit, Recorded, Acted, Holds
<1>4. ASSUME NEW w \in Workers, DeleteCommit(w) PROVE Deleted
  BY <1>4 DEF DeleteCommit, Deleted
<1>5. ASSUME NEW w \in Workers,
             \/ \E u \in Users, s, t \in Stores, x \in Contents :
                  \E expected \in 1 .. request.version : UpdateRead(w, u, s, t, x, expected)
             \/ \E u \in Users, step \in WorkflowTransitions : ActionLock(w, u, step)
             \/ DeleteRead(w, request.version)
             \/ Abort(w)
      PROVE  UNCHANGED <<request, audit>>
  BY <1>5 DEF UpdateRead, ActionLock, DeleteRead, Abort
<1>6. CASE (\E a \in Assignments \ {assigned} : Assign(a)) \/ UNCHANGED vars
  BY <1>6 DEF Assign, vars
<1> QED BY <1>1, <1>2, <1>3, <1>4, <1>5, <1>6 DEF Next

(* The row stays well formed, and a new version is never an old one.       *)
LEMMA RowStep ==
  ASSUME Core, [Next]_vars
  PROVE  /\ request' \in Rows /\ audit' \in Seq(AuditRows)
         /\ RowComplete'
         /\ request'.version = request.version => request' = request
<1>t. request \in Rows /\ audit \in Seq(AuditRows) /\ assigned \in Assignments
  BY TypeOKRows DEF Core
<1>w. \A w \in Workers : call[w] \in Calls
  BY TypeOKRows DEF Core
<1>r. RowComplete /\ LockedRow
  BY DEF Core
<1>1. CASE UNCHANGED <<request, audit>>
  BY <1>1, <1>t, <1>r DEF RowComplete
<1>2. CASE Created
  <2>1. PICK u \in Users, s \in Stores, t \in Stores, x \in Contents :
          request' = [Absent EXCEPT !.status = "DRAFT", !.version = 1, !.creator = u,
                        !.source = s, !.dest = t, !.content = x]
    BY <1>2 DEF Created
  <2>2. /\ request' \in Rows /\ request'.status = "DRAFT" /\ request'.version = 1
        /\ request'.source = s /\ request'.dest = t
    BY <2>1 DEF Absent, Rows, Statuses, Editable
  <2>3. request.version = 0
    BY <1>2 DEF Created, Absent
  <2> QED BY <1>2, <1>t, <2>2, <2>3 DEF Created, RowComplete, Statuses, Editable
<1>3. CASE Edited
  <2>1. PICK w \in Workers :
          /\ request.version = call[w].expected /\ call[w].op = "UPDATE"
          /\ request' = [request EXCEPT !.version = call[w].seen + 1,
                           !.source = call[w].source, !.dest = call[w].dest,
                           !.content = call[w].content]
    BY <1>3 DEF Edited
  <2>2. /\ call[w].expected <= call[w].seen
        /\ call[w].expected \in Nat /\ call[w].seen \in Nat
        /\ call[w].source \in Stores /\ call[w].dest \in Stores
        /\ call[w].content \in Contents \cup {None}
    BY <2>1, <1>w DEF Core, UpdatesInOrder, Calls
  <2>3. /\ request'.version = call[w].seen + 1 /\ request'.status = request.status
        /\ request'.source = call[w].source /\ request'.dest = call[w].dest
    BY <1>t, <2>1 DEF Rows
  <2>5. request' \in Rows
    <3> DEFINE v == call[w].seen + 1
    <3>1. v \in Nat
      BY <2>2
    <3> HIDE DEF v
    <3>2. [request EXCEPT !.version = v, !.source = call[w].source,
             !.dest = call[w].dest, !.content = call[w].content] \in Rows
      BY <1>t, <2>2, <3>1, EditTyped, Zenon
    <3> QED BY <2>1, <3>2 DEF v
  <2>4. request.status \in Statuses
    BY <1>3 DEF Edited, Statuses
  <2> QED BY <1>3, <1>t, <2>1, <2>2, <2>3, <2>4, <2>5 DEF Edited, RowComplete
<1>4. ASSUME NEW w \in Workers, Acted(w)
      PROVE  /\ request' \in Rows /\ audit' \in Seq(AuditRows)
             /\ RowComplete'
             /\ request'.version # request.version
  <2> DEFINE t == call[w].step
             row == WithReviewers(request, t.action)
  <2>1. /\ t \in WorkflowTransitions /\ t.from = request.status
        /\ call[w].expected = request.version /\ call[w].user \in Users
    BY <1>4 DEF Acted, Core, LockedRow
  <2>2. /\ t.from \in Statuses /\ t.to \in Statuses /\ t.action \in Actions
    BY <2>1, TransitionFacts
  <2>3. request # Absent /\ request.source \in Stores /\ request.dest \in Stores
        /\ request.version \in Nat
    BY <1>t, <1>r, <2>1, <2>2 DEF Absent, RowComplete, Statuses, Editable, InReview, Rows
  <2>4. /\ assigned[request.source].checker \in Users \cup {None}
        /\ assigned[request.dest].maker \in Users \cup {None}
        /\ assigned[request.dest].checker \in Users \cup {None}
    BY <1>t, <2>3, ConstantsAssumption
  <2>5. row \in Rows /\ row.source = request.source /\ row.dest = request.dest
    BY <1>t, <2>4 DEF WithReviewers, Rows
  <2>6. request' = [row EXCEPT !.status = t.to, !.version = request.version + 1]
    BY <1>4, <2>1 DEF Acted
  <2>7. /\ request'.status = t.to
        /\ request'.version = request.version + 1
        /\ request'.source = request.source /\ request'.dest = request.dest
    BY <2>5, <2>6 DEF Rows
  <2>9. request' \in Rows
    <3> DEFINE v == request.version + 1
    <3>1. v \in Nat
      BY <2>3
    <3> HIDE DEF v, row
    <3>2. [row EXCEPT !.status = t.to, !.version = v] \in Rows
      BY <2>2, <2>5, <3>1, ActionTyped, Zenon
    <3> QED BY <2>6, <3>2 DEF v
  <2>8. audit' \in Seq(AuditRows)
    BY <1>4, <1>t, <2>1, <2>2 DEF Acted, AuditRows
  <2> QED BY <2>2, <2>3, <2>7, <2>8, <2>9 DEF RowComplete
<1>5. CASE Deleted
  <2>1. request.version = 0 => request = Absent
    BY <1>r DEF RowComplete
  <2>2. request' = Absent /\ request'.version = 0 /\ audit' = <<>>
    BY <1>5 DEF Deleted, Absent
  <2> QED BY <2>1, <2>2, ConstantsTyped DEF RowComplete
<1> QED BY <1>1, <1>2, <1>3, <1>4, <1>5, StepEffect

(* The calls that a step leaves under way.  A call that ends, or begins as *)
(* an update or a deletion, holds no lock.                                 *)
LEMMA CallStep ==
  ASSUME Core, [Next]_vars
  PROVE  /\ call' \in [Workers -> Calls] /\ assigned' \in Assignments
         /\ UpdatesInOrder'
         /\ LockedRow' /\ OneHolder'
<1>t. request \in Rows /\ assigned \in Assignments /\ call \in [Workers -> Calls]
  BY TypeOKRows DEF Core
<1>r. UpdatesInOrder /\ LockedRow /\ OneHolder
  BY DEF Core
<1>0. CASE UNCHANGED <<request, call>> /\ assigned' \in Assignments
  BY <1>0, <1>t, <1>r DEF UpdatesInOrder, LockedRow, OneHolder, Holds, ActorMatches
<1>1. ASSUME NEW w \in Workers, Reset(w), assigned' \in Assignments,
             request' = request \/ \A v \in Workers : Holds(v) => v = w
      PROVE  /\ call' \in [Workers -> Calls]
             /\ UpdatesInOrder' /\ LockedRow' /\ OneHolder'
  <2>1. \A v \in Workers : call'[v] = IF v = w THEN Idle ELSE call[v]
    BY <1>1, <1>t DEF Reset
  <2>2. \A v \in Workers : Holds(v)' => v # w /\ Holds(v) /\ call'[v] = call[v] /\ request' = request
    BY <1>1, <2>1, ConstantsTyped DEF Holds
  <2>3. call' \in [Workers -> Calls]
    BY <1>1, <1>t, ConstantsTyped DEF Reset
  <2>4. UpdatesInOrder' /\ OneHolder'
    BY <1>r, <2>1, <2>2, ConstantsTyped DEF UpdatesInOrder, OneHolder
  <2>5. LockedRow'
    BY <1>r, <2>2 DEF LockedRow, ActorMatches
  <2> QED BY <2>3, <2>4, <2>5
<1>2. ASSUME NEW w \in Workers, NEW c \in Calls, call' = [call EXCEPT ![w] = c],
             UNCHANGED <<request, assigned>>, c.op \in {"UPDATE", "DELETE"},
             c.op = "UPDATE" => /\ c.expected <= c.seen
                                /\ c.source \in Stores /\ c.dest \in Stores
      PROVE  /\ call' \in [Workers -> Calls]
             /\ UpdatesInOrder' /\ LockedRow' /\ OneHolder'
  <2>1. \A v \in Workers : call'[v] = IF v = w THEN c ELSE call[v]
    BY <1>2, <1>t
  <2>2. \A v \in Workers : Holds(v)' => v # w /\ Holds(v) /\ call'[v] = call[v]
    BY <1>2, <2>1 DEF Holds
  <2>3. call' \in [Workers -> Calls]
    BY <1>2, <1>t
  <2>4. UpdatesInOrder' /\ OneHolder'
    BY <1>2, <1>r, <2>1, <2>2 DEF UpdatesInOrder, OneHolder
  <2>5. LockedRow'
    BY <1>2, <1>r, <2>2 DEF LockedRow, ActorMatches
  <2> QED BY <2>3, <2>4, <2>5
<1>3. ASSUME NEW u \in Users, NEW s \in Stores, NEW t \in Stores, NEW x \in Contents,
             Create(u, s, t, x)
      PROVE  LockedRow'
  <2>1. request.status = "ABSENT"
    BY <1>3 DEF Create, Absent
  <2>2. \A v \in Workers : ~Holds(v)
    BY <1>r, <2>1, TransitionFacts DEF LockedRow, Statuses, Editable, InReview
  <2> QED BY <1>3, <2>2 DEF Create, LockedRow, Holds
<1>4. ASSUME NEW w \in Workers, NEW u \in Users, NEW s \in Stores, NEW t \in Stores,
             NEW x \in Contents, NEW expected \in 1 .. request.version,
             UpdateRead(w, u, s, t, x, expected)
      PROVE  /\ call' \in [Workers -> Calls]
             /\ UpdatesInOrder' /\ LockedRow' /\ OneHolder'
  <2> DEFINE c == [Idle EXCEPT !.op = "UPDATE", !.user = u, !.source = s, !.dest = t,
                       !.content = x, !.expected = expected, !.seen = request.version]
  <2>1. request.version \in Nat /\ expected \in Nat /\ expected <= request.version
    <3>1. request.version \in Nat
      BY <1>t DEF Rows
    <3> QED BY <3>1
  <2>2. /\ c \in Calls /\ c.op = "UPDATE" /\ c.expected <= c.seen
        /\ c.source = s /\ c.dest = t
    BY <2>1, ConstantsTyped DEF Idle, Calls
  <2> QED BY <1>2, <1>4, <2>2 DEF UpdateRead
<1>5. ASSUME NEW w \in Workers, NEW u \in Users, NEW step \in WorkflowTransitions,
             ActionLock(w, u, step)
      PROVE  /\ call' \in [Workers -> Calls]
             /\ UpdatesInOrder' /\ LockedRow' /\ OneHolder'
  <2> DEFINE c == [Idle EXCEPT !.op = "ACTION", !.user = u, !.step = step,
                               !.expected = request.version]
  <2>1. request.version \in Nat /\ step \in Steps
    BY <1>t, TransitionFacts DEF Rows
  <2>2. /\ c \in Calls /\ c.op = "ACTION" /\ c.step = step /\ c.user = u
        /\ c.expected = request.version
    BY <2>1, ConstantsTyped DEF Idle, Calls
  <2>3. call' = [call EXCEPT ![w] = c] /\ UNCHANGED <<request, assigned>>
    BY <1>5 DEF ActionLock
  <2>4. /\ step.from = request.status /\ ActorMatches(u, step.actor)
        /\ \A v \in Workers : ~Holds(v)
    BY <1>5 DEF ActionLock, RowFree, Holds
  <2>5. call'[w] = c /\ \A v \in Workers : v # w => call'[v] = call[v]
    BY <1>t, <2>3
  <2>6. \A v \in Workers : Holds(v)' => v = w
    BY <2>4, <2>5 DEF Holds
  <2>7. LockedRow'
    <3>1. ActorMatches(u, step.actor)'
      BY <2>3, <2>4 DEF ActorMatches
    <3>2. ActorMatches(call[w].user, call[w].step.actor)'
      BY <2>2, <2>5, <3>1 DEF ActorMatches
    <3> QED BY <2>2, <2>3, <2>4, <2>5, <2>6, <3>2 DEF LockedRow
  <2>8. UpdatesInOrder' /\ OneHolder'
    BY <1>r, <2>2, <2>5, <2>6 DEF UpdatesInOrder, OneHolder
  <2> QED BY <1>t, <2>2, <2>3, <2>7, <2>8
<1>6. ASSUME NEW w \in Workers, DeleteRead(w, request.version)
      PROVE  /\ call' \in [Workers -> Calls]
             /\ UpdatesInOrder' /\ LockedRow' /\ OneHolder'
  <2> DEFINE c == [Idle EXCEPT !.op = "DELETE", !.expected = request.version]
  <2>1. c \in Calls /\ c.op = "DELETE"
    BY <1>t, ConstantsTyped DEF Idle, Calls, Rows
  <2> QED BY <1>2, <1>6, <2>1 DEF DeleteRead
<1>7. ASSUME NEW w \in Workers, DeleteCommit(w)
      PROVE  /\ call' \in [Workers -> Calls]
             /\ UpdatesInOrder' /\ LockedRow' /\ OneHolder'
  <2>1. \A v \in Workers : call'[v] = Idle
    BY <1>7 DEF DeleteCommit
  <2>2. call' \in [Workers -> Calls]
    BY <1>7, ConstantsTyped DEF DeleteCommit
  <2> QED BY <2>1, <2>2, ConstantsTyped DEF UpdatesInOrder, LockedRow, OneHolder, Holds
<1>8. ASSUME NEW w \in Workers, UpdateCommit(w)
      PROVE  Reset(w) /\ \A v \in Workers : Holds(v) => v = w
  BY <1>8 DEF UpdateCommit, RowFree, Holds
<1>9. ASSUME NEW w \in Workers, ActionCommit(w)
      PROVE  Reset(w) /\ \A v \in Workers : Holds(v) => v = w
  BY <1>9, <1>r DEF ActionCommit, Recorded, OneHolder, Holds
<1>10. ASSUME NEW w \in Workers, Abort(w)
       PROVE  Reset(w) /\ request' = request
  BY <1>10 DEF Abort
<1>11. CASE \E u \in Users, s, t \in Stores, x \in Contents : Create(u, s, t, x)
  BY <1>3, <1>11, <1>t, <1>r DEF Create, UpdatesInOrder, OneHolder, Holds
<1>12. CASE (\E a \in Assignments \ {assigned} : Assign(a)) \/ UNCHANGED vars
  BY <1>0, <1>12, <1>t DEF Assign, vars
<1>13. assigned' \in Assignments
  BY <1>t DEF Next, Create, UpdateRead, UpdateCommit, ActionLock, ActionCommit, DeleteRead,
     DeleteCommit, Abort, Assign, vars
<1> QED BY <1>1, <1>4, <1>5, <1>6, <1>7, <1>8, <1>9, <1>10, <1>11, <1>12, <1>13 DEF Next

(* Core holds in every state.                                              *)
LEMMA CoreHolds == Spec => []Core
<1>1. Init => Core
  BY ConstantsTyped, TypeOKRows DEF Init, Core, RowComplete, UpdatesInOrder, LockedRow,
     OneHolder, Holds
<1>2. Core /\ [Next]_vars => Core'
  <2> SUFFICES ASSUME Core, [Next]_vars PROVE Core'
    OBVIOUS
  <2>1. TypeOK'
    BY RowStep, CallStep DEF TypeOK, Rows, AuditRows, Calls
  <2> QED BY <2>1, RowStep, CallStep DEF Core
<1> QED BY <1>1, <1>2, PTL DEF Spec

(* Type correctness of the approval workflow.                              *)
THEOREM TypeCorrect == Spec => []TypeOK
<1>1. Core => TypeOK
  BY DEF Core
<1> QED BY <1>1, CoreHolds, PTL

(* A version of a request names one content.                               *)
THEOREM VersionsNameContents == Spec => VersionNamesContent
<1>1. Core /\ [Next]_vars => [request'.version = request.version => request' = request]_vars
  BY RowStep
<1> QED BY <1>1, CoreHolds, PTL DEF Spec, VersionNamesContent

-----------------------------------------------------------------------------
(* An action moves the row along one transition.  Only a submission        *)
(* replaces the branch checker, only a recommendation the corporate        *)
(* reviewers.                                                              *)
LEMMA ActedRow ==
  ASSUME Core, NEW w \in Workers, Acted(w)
  PROVE  LET t == call[w].step IN
         /\ t \in WorkflowTransitions
         /\ request # Absent /\ request.status = t.from /\ request'.status = t.to
         /\ request'.source = request.source /\ request'.dest = request.dest
         /\ request'.content = request.content
         /\ request'.branchChecker = IF t.action \in {"SUBMIT", "RESUBMIT"}
                                     THEN assigned[request.source].checker
                                     ELSE request.branchChecker
         /\ t.action # "RECOMMEND" =>
              /\ request'.corporateMaker = request.corporateMaker
              /\ request'.corporateChecker = request.corporateChecker
         /\ call[w].user \in Users /\ ActorMatches(call[w].user, t.actor)
<1> DEFINE t == call[w].step
<1>1. /\ t \in WorkflowTransitions /\ t.from = request.status
      /\ call[w].user \in Users /\ ActorMatches(call[w].user, t.actor)
  BY DEF Acted, Core, LockedRow
<1>2. t.from \in Statuses
  BY <1>1, TransitionFacts
<1>3. request # Absent
  BY <1>1, <1>2 DEF Absent, Statuses, Editable, InReview
<1>4. request \in Rows
  BY TypeOKRows DEF Core
<1> DEFINE row == WithReviewers(request, t.action)
           v == call[w].expected + 1
<1>5. request' = [row EXCEPT !.status = t.to, !.version = v]
  BY DEF Acted
<1>6. /\ DOMAIN row = DOMAIN request
      /\ row.source = request.source /\ row.dest = request.dest /\ row.content = request.content
      /\ row.branchChecker = IF t.action \in {"SUBMIT", "RESUBMIT"}
                             THEN assigned[request.source].checker ELSE request.branchChecker
      /\ t.action # "RECOMMEND" => /\ row.corporateMaker = request.corporateMaker
                                   /\ row.corporateChecker = request.corporateChecker
  BY <1>4 DEF WithReviewers, Rows
<1>7. DOMAIN request = {"status", "version", "creator", "source", "dest", "content",
                        "branchChecker", "corporateMaker", "corporateChecker"}
  BY <1>4 DEF Rows
<1> HIDE DEF row, v
<1>8. /\ request'.status = t.to
      /\ request'.source = row.source /\ request'.dest = row.dest
      /\ request'.content = row.content /\ request'.branchChecker = row.branchChecker
      /\ request'.corporateMaker = row.corporateMaker
      /\ request'.corporateChecker = row.corporateChecker
  BY <1>5, <1>6, <1>7
<1> QED BY <1>1, <1>3, <1>6, <1>8

(* An edit leaves the status, which is one that allows edits.              *)
LEMMA EditedRow ==
  ASSUME Core, Edited
  PROVE  request'.status = request.status /\ request.status \in Editable /\ request # Absent
<1>1. request \in Rows
  BY TypeOKRows DEF Core
<1>2. PICK w \in Workers : request' =
        [request EXCEPT !.version = call[w].seen + 1, !.source = call[w].source,
                        !.dest = call[w].dest, !.content = call[w].content]
  BY DEF Edited
<1>3. request'.status = request.status
  BY <1>1, <1>2 DEF Rows
<1> QED BY <1>3 DEF Edited, Editable, Absent

(* What is reviewed does not change under the reviewers.                   *)
THEOREM ReviewedIsFrozen == Spec => ContentFrozenInReview
<1>1. Core /\ [Next]_vars =>
        [request.status \notin Editable /\ request' # Absent /\ request # Absent =>
           /\ request'.content = request.content
           /\ request'.source = request.source /\ request'.dest = request.dest]_vars
  <2> SUFFICES ASSUME Core, [Next]_vars, request.status \notin Editable,
                      request' # Absent, request # Absent
               PROVE  /\ request'.content = request.content
                      /\ request'.source = request.source /\ request'.dest = request.dest
    OBVIOUS
  <2> QED BY StepEffect, ActedRow DEF Created, Edited, Deleted
<1> QED BY <1>1, CoreHolds, PTL DEF Spec, ContentFrozenInReview

(* The branch checker of a request under review is one its store has had.  *)
THEOREM CheckerIsOfTheStore == Spec => []CheckerBelongsToStore
<1>1. Init => CheckerBelongsToStore
  BY DEF Init, CheckerBelongsToStore, Absent, InReview
<1>2. Core /\ CheckerBelongsToStore /\ [Next]_vars => CheckerBelongsToStore'
  <2> SUFFICES ASSUME Core, CheckerBelongsToStore, [Next]_vars PROVE CheckerBelongsToStore'
    OBVIOUS
  <2>1. CASE UNCHANGED <<request, audit>>
    BY <2>1 DEF CheckerBelongsToStore
  <2>2. CASE Created
    BY <2>2 DEF Created, Absent, CheckerBelongsToStore, InReview
  <2>3. CASE Edited
    BY <2>3, EditedRow DEF CheckerBelongsToStore, InReview, Editable
  <2>4. ASSUME NEW w \in Workers, Acted(w) PROVE CheckerBelongsToStore'
    <3> DEFINE t == call[w].step
    <3>1. /\ t \in WorkflowTransitions /\ t.from = request.status /\ t.to = request'.status
          /\ request'.source = request.source
          /\ request'.branchChecker = IF t.action \in {"SUBMIT", "RESUBMIT"}
                                      THEN assigned[request.source].checker
                                      ELSE request.branchChecker
      BY <2>4, ActedRow
    <3>2. t.to \in InReview /\ t.action \notin {"SUBMIT", "RESUBMIT"} => t.from \in InReview
      BY <3>1 DEF WorkflowTransitions, OtherTransitions, Transition, InReview
    <3>3. assigned \in Assignments
      BY DEF Core, TypeOK
    <3> QED BY <3>1, <3>2, <3>3 DEF CheckerBelongsToStore
  <2>5. CASE Deleted
    BY <2>5 DEF Deleted, Absent, CheckerBelongsToStore, InReview
  <2> QED BY <2>1, <2>2, <2>3, <2>4, <2>5, StepEffect
<1> QED BY <1>1, <1>2, CoreHolds, PTL DEF Spec

-----------------------------------------------------------------------------
(* How an action extends the audit trail.                                  *)
LEMMA ActedTrail ==
  ASSUME Core, NEW w \in Workers, Acted(w)
  PROVE  LET n == Len(audit) IN
         /\ audit \in Seq(AuditRows) /\ n \in Nat /\ Len(audit') = n + 1
         /\ \A m \in 1 .. n : audit'[m] = audit[m]
         /\ audit'[n + 1].action = call[w].step.action
         /\ audit'[n + 1].from = call[w].step.from
         /\ audit'[n + 1].to = call[w].step.to
         /\ audit'[n + 1].actor = call[w].user
<1>1. audit \in Seq(AuditRows)
  BY TypeOKRows DEF Core
<1> DEFINE row == [action |-> call[w].step.action, from |-> call[w].step.from,
                   to |-> call[w].step.to, actor |-> call[w].user]
<1>2. audit' = Append(audit, row)
  BY DEF Acted
<1> HIDE DEF row
<1>3. /\ Len(audit) \in Nat /\ Len(audit') = Len(audit) + 1
      /\ \A m \in 1 .. Len(audit) : audit'[m] = audit[m]
      /\ audit'[Len(audit) + 1] = row
  BY <1>1, <1>2
<1> QED BY <1>1, <1>3 DEF row

(* A row that does not exist has no trail.                                 *)
Trail == AuditTrailIsComplete /\ (request = Absent => audit = <<>>)

(* Every step keeps the trail complete.                                    *)
LEMMA TrailStep == Core /\ Trail /\ [Next]_vars => Trail'
<1> SUFFICES ASSUME Core, Trail, [Next]_vars PROVE Trail'
  OBVIOUS
<1>1. CASE UNCHANGED <<request, audit>>
  BY <1>1 DEF Trail, AuditTrailIsComplete
<1>2. CASE Created
  <2>1. request'.status = "DRAFT" /\ audit' = <<>>
    BY <1>2 DEF Created, Absent, Trail
  <2> QED BY <2>1 DEF Trail, AuditTrailIsComplete
<1>3. CASE Edited
  <2>1. audit' = audit /\ request'.status \in Editable
    BY <1>3, EditedRow DEF Edited
  <2>2. request' # Absent
    BY <2>1 DEF Editable, Absent
  <2> QED BY <1>3, <2>1, <2>2, EditedRow DEF Trail, AuditTrailIsComplete
<1>4. ASSUME NEW w \in Workers, Acted(w) PROVE Trail'
  <2> DEFINE t == call[w].step
             n == Len(audit)
  <2>1. /\ audit \in Seq(AuditRows) /\ Len(audit') = n + 1
        /\ \A m \in 1 .. n : audit'[m] = audit[m]
        /\ audit'[n + 1].from = t.from /\ audit'[n + 1].to = t.to
    BY <1>4, ActedTrail
  <2>2. /\ t \in WorkflowTransitions /\ request # Absent
        /\ request.status = t.from /\ request'.status = t.to
    BY <1>4, ActedRow
  <2>3. audit'[n + 1].from = request.status /\ audit'[n + 1].to = request'.status
    BY <2>1, <2>2
  <2>4. n \in Nat /\ (audit = <<>> <=> n = 0) /\ audit' # <<>>
    BY <2>1
  <2>5. /\ \A m \in 1 .. n : audit[m].from = IF m = 1 THEN "DRAFT" ELSE audit[m - 1].to
        /\ request.status = IF n = 0 THEN "DRAFT" ELSE audit[n].to
    BY <2>2, <2>4 DEF Trail, AuditTrailIsComplete
  <2>6. ASSUME NEW m \in 1 .. n + 1
        PROVE  audit'[m].from = IF m = 1 THEN "DRAFT" ELSE audit'[m - 1].to
    <3>1. CASE m = n + 1
      BY <2>1, <2>3, <2>4, <2>5, <3>1
    <3>2. CASE m # n + 1
      <4>1. m \in 1 .. n /\ (m # 1 => m - 1 \in 1 .. n)
        BY <2>4, <3>2
      <4> QED BY <2>1, <2>5, <4>1
    <3> QED BY <3>1, <3>2
  <2>7. request' # Absent
    BY <2>2, TransitionFacts DEF Absent, Statuses, Editable, InReview
  <2> QED BY <2>1, <2>3, <2>4, <2>6, <2>7 DEF Trail, AuditTrailIsComplete
<1>5. CASE Deleted
  BY <1>5 DEF Deleted, Trail, AuditTrailIsComplete
<1> QED BY <1>1, <1>2, <1>3, <1>4, <1>5, StepEffect

(* The trail starts at the draft, continues row by row, and ends in the    *)
(* status of the request.                                                  *)
THEOREM TrailIsComplete == Spec => []AuditTrailIsComplete
<1>1. Init => Trail
  BY DEF Init, Trail, AuditTrailIsComplete
<1>2. Trail => AuditTrailIsComplete
  BY DEF Trail
<1> QED BY <1>1, <1>2, TrailStep, CoreHolds, PTL DEF Spec

-----------------------------------------------------------------------------
(* The inductive form of ApprovedWasReviewed: what each status after the   *)
(* recommendation says of the trail since the last submission.             *)
Submission(row) == row.action \in {"SUBMIT", "RESUBMIT"}

Done(trail, action, user) ==
  \E m \in 1 .. Len(trail) :
    /\ trail[m].action = action /\ trail[m].actor = user
    /\ \A k \in 1 .. Len(trail) : Submission(trail[k]) => k < m

Forwarded   == {"PENDING_CORPORATE_CHECKER", "RETURNED_TO_CORPORATE_MAKER", "APPROVED"}
Recommended == Forwarded \cup {"PENDING_CORPORATE_MAKER"}

Reviewed ==
  /\ request.status \in Recommended => Done(audit, "RECOMMEND", request.branchChecker)
  /\ request.status \in Forwarded => Done(audit, "FORWARD", request.corporateMaker)
  /\ request.status = "APPROVED" =>
       /\ audit[Len(audit)].action = "APPROVE"
       /\ audit[Len(audit)].actor = request.corporateChecker

(* An action that is no submission keeps what was done, and is done.       *)
LEMMA ActedDone ==
  ASSUME Core, NEW w \in Workers, Acted(w),
         call[w].step.action \notin {"SUBMIT", "RESUBMIT"}
  PROVE  /\ \A a, u : Done(audit, a, u) => Done(audit', a, u)
         /\ Done(audit', call[w].step.action, call[w].user)
<1> DEFINE n == Len(audit)
           t == call[w].step
<1>1. /\ n \in Nat /\ Len(audit') = n + 1
      /\ \A m \in 1 .. n : audit'[m] = audit[m]
      /\ audit'[n + 1].action = t.action /\ audit'[n + 1].actor = call[w].user
  BY ActedTrail
<1>2. \A k \in 1 .. n + 1 : Submission(audit'[k]) => k \in 1 .. n /\ Submission(audit[k])
  BY <1>1 DEF Submission
<1>3. ASSUME NEW a, NEW u, Done(audit, a, u) PROVE Done(audit', a, u)
  BY <1>1, <1>2, <1>3 DEF Done
<1>4. Done(audit', t.action, call[w].user)
  BY <1>1, <1>2 DEF Done
<1> QED BY <1>3, <1>4

(* Every step keeps what the reviews so far have established.              *)
LEMMA ReviewedStep == Core /\ Reviewed /\ [Next]_vars => Reviewed'
<1> SUFFICES ASSUME Core, Reviewed, [Next]_vars PROVE Reviewed'
  OBVIOUS
<1>1. CASE UNCHANGED <<request, audit>>
  BY <1>1 DEF Reviewed
<1>2. CASE Created \/ Deleted
  <2>1. Created => request'.status = "DRAFT"
    BY DEF Created, Absent
  <2>2. Deleted => request'.status = "ABSENT"
    BY DEF Deleted, Absent
  <2> QED BY <1>2, <2>1, <2>2 DEF Reviewed, Recommended, Forwarded
<1>3. CASE Edited
  <2>1. request'.status \in Editable
    BY <1>3, EditedRow
  <2> QED BY <2>1 DEF Reviewed, Recommended, Forwarded, Editable
<1>4. ASSUME NEW w \in Workers, Acted(w) PROVE Reviewed'
  <2> DEFINE t == call[w].step
             u == call[w].user
  <2>1. /\ t \in WorkflowTransitions /\ request.status = t.from /\ request'.status = t.to
        /\ ActorMatches(u, t.actor)
        /\ t.action \notin {"SUBMIT", "RESUBMIT"} =>
             request'.branchChecker = request.branchChecker
        /\ t.action # "RECOMMEND" =>
             /\ request'.corporateMaker = request.corporateMaker
             /\ request'.corporateChecker = request.corporateChecker
    BY <1>4, ActedRow
  <2>2. t.to \in Recommended =>
          /\ t.action \notin {"SUBMIT", "RESUBMIT"}
          /\ t.from \in Recommended \/ (t.action = "RECOMMEND" /\ t.actor = "BRANCH_CHECKER")
    BY <2>1 DEF WorkflowTransitions, OtherTransitions, Transition, Recommended, Forwarded
  <2>3. t.to \in Forwarded =>
          /\ t.action # "RECOMMEND"
          /\ t.from \in Forwarded \/ (t.action = "FORWARD" /\ t.actor = "CORPORATE_MAKER")
    BY <2>1 DEF WorkflowTransitions, OtherTransitions, Transition, Forwarded
  <2>4. t.to = "APPROVED" => t.action = "APPROVE" /\ t.actor = "CORPORATE_CHECKER"
    BY <2>1 DEF WorkflowTransitions, OtherTransitions, Transition
  <2>5. request'.status \in Recommended => Done(audit', "RECOMMEND", request'.branchChecker)
    <3>1. CASE t.from \in Recommended
      BY <1>4, <2>1, <2>2, <3>1, ActedDone DEF Reviewed
    <3>2. CASE t.action = "RECOMMEND" /\ t.actor = "BRANCH_CHECKER"
      <4>1. u = request.branchChecker
        BY <2>1, <3>2 DEF ActorMatches
      <4> QED BY <1>4, <2>1, <3>2, <4>1, ActedDone
    <3> QED BY <2>1, <2>2, <3>1, <3>2
  <2>6. request'.status \in Forwarded => Done(audit', "FORWARD", request'.corporateMaker)
    <3>1. CASE t.from \in Forwarded /\ t.to \in Forwarded
      <4>1. t.action \notin {"SUBMIT", "RESUBMIT", "RECOMMEND"}
        BY <2>2, <2>3, <3>1 DEF Recommended
      <4> QED BY <1>4, <2>1, <3>1, <4>1, ActedDone DEF Reviewed
    <3>2. CASE t.action = "FORWARD" /\ t.actor = "CORPORATE_MAKER"
      <4>1. u = request.corporateMaker
        BY <2>1, <3>2 DEF ActorMatches
      <4> QED BY <1>4, <2>1, <3>2, <4>1, ActedDone
    <3> QED BY <2>1, <2>3, <3>1, <3>2
  <2>7. request'.status = "APPROVED" =>
          /\ audit'[Len(audit')].action = "APPROVE"
          /\ audit'[Len(audit')].actor = request'.corporateChecker
    <3> SUFFICES ASSUME t.to = "APPROVED"
                 PROVE  /\ audit'[Len(audit')].action = "APPROVE"
                        /\ audit'[Len(audit')].actor = request'.corporateChecker
      BY <2>1
    <3>1. /\ audit'[Len(audit')].action = t.action
          /\ audit'[Len(audit')].actor = u
      BY <1>4, ActedTrail
    <3>2. u = request.corporateChecker
      BY <2>1, <2>4 DEF ActorMatches
    <3> QED BY <2>1, <2>4, <3>1, <3>2
  <2> QED BY <2>5, <2>6, <2>7 DEF Reviewed
<1> QED BY <1>1, <1>2, <1>3, <1>4, StepEffect

(* An approved request was recommended, forwarded and approved by the      *)
(* people named on it, all since it was last submitted.                    *)
THEOREM ApprovalWasReviewed == Spec => []ApprovedWasReviewed
<1>1. Init => Reviewed
  BY DEF Init, Reviewed, Absent, Recommended, Forwarded
<1>2. Core /\ Reviewed => ApprovedWasReviewed
  <2> SUFFICES ASSUME Core, Reviewed, request.status = "APPROVED" PROVE ApprovedWasReviewed
    BY DEF ApprovedWasReviewed
  <2>1. audit \in Seq(AuditRows) /\ DOMAIN audit = 1 .. Len(audit)
    BY TypeOKRows DEF Core
  <2>2. ASSUME NEW a, NEW u, Done(audit, a, u)
        PROVE  \E row \in Review : row.action = a /\ row.actor = u
    <3>1. PICK m \in DOMAIN audit :
            /\ audit[m].action = a /\ audit[m].actor = u
            /\ \A k \in DOMAIN audit : Submission(audit[k]) => m > k
      BY <2>1, <2>2 DEF Done
    <3>2. audit[m] \in Review
      BY <3>1 DEF Review, Submission
    <3> QED BY <3>1, <3>2
  <2>3. Done(audit, "RECOMMEND", request.branchChecker) /\ Done(audit, "FORWARD", request.corporateMaker)
    BY DEF Reviewed, Recommended, Forwarded
  <2> QED BY <2>2, <2>3 DEF Reviewed, ApprovedWasReviewed
<1> QED BY <1>1, <1>2, ReviewedStep, CoreHolds, PTL DEF Spec

-----------------------------------------------------------------------------
(* Who finds the request, may act on it and is told of it.                 *)

(* A request waits for exactly the people whom the server lets act on it.  *)
LEMMA AllowedArePending ==
  ASSUME NEW row, NEW u, NEW step \in WorkflowTransitions, step.from = row.status,
         u = CASE step.actor = "BRANCH_MAKER"      -> row.creator
               [] step.actor = "BRANCH_CHECKER"    -> row.branchChecker
               [] step.actor = "CORPORATE_MAKER"   -> row.corporateMaker
               [] step.actor = "CORPORATE_CHECKER" -> row.corporateChecker
  PROVE  u \in PendingAssignee(row)
BY DEF PendingAssignee, WorkflowTransitions, OtherTransitions, Transition

(* Nothing can be done with a cancelled request.                           *)
LEMMA NothingAfterCancel ==
  ASSUME NEW t \in WorkflowTransitions, t.action = "CANCEL", NEW step \in WorkflowTransitions
  PROVE  step.from # t.to
BY DEF WorkflowTransitions, OtherTransitions, Transition

(* Only an action lengthens the trail.                                     *)
LEMMA OnlyActionsAreRecorded ==
  ASSUME Core, [Next]_vars, Len(audit') > Len(audit)
  PROVE  \E w \in Workers : Acted(w)
<1>1. audit \in Seq(AuditRows)
  BY TypeOKRows DEF Core
<1>2. Len(audit) \in Nat
  BY <1>1
<1>3. ~ UNCHANGED audit
  BY <1>2
<1>4. ~ Deleted
  BY <1>2 DEF Deleted
<1> QED BY <1>3, <1>4, StepEffect DEF Created, Edited

(* Whoever can act on a request after an action of somebody else is told   *)
(* of that action.                                                         *)
THEOREM NextActorIsTold == Spec => TheNextActorIsTold
<1>1. Core /\ [Next]_vars =>
        [Len(audit') > Len(audit) =>
           LET last == audit'[Len(audit')] IN
           \A u \in Users \ {last.actor} :
             Allowed(u)' # {} => u \in Recipients(request', last.action, last.actor)]_vars
  <2> SUFFICES ASSUME Core, [Next]_vars, Len(audit') > Len(audit),
                      NEW u \in Users, Allowed(u)' # {},
                      audit'[Len(audit')].actor # u
               PROVE  u \in Recipients(request', audit'[Len(audit')].action,
                                       audit'[Len(audit')].actor)
    OBVIOUS
  <2>1. PICK w \in Workers : Acted(w)
    BY OnlyActionsAreRecorded
  <2> DEFINE t == call[w].step
  <2>2. t \in WorkflowTransitions /\ request'.status = t.to
    BY <2>1, ActedRow
  <2>3. audit'[Len(audit')].action = t.action
    BY <2>1, ActedTrail
  <2>4. PICK step \in WorkflowTransitions :
          /\ step.from = request'.status
          /\ u = CASE step.actor = "BRANCH_MAKER"      -> request'.creator
                   [] step.actor = "BRANCH_CHECKER"    -> request'.branchChecker
                   [] step.actor = "CORPORATE_MAKER"   -> request'.corporateMaker
                   [] step.actor = "CORPORATE_CHECKER" -> request'.corporateChecker
    BY DEF Allowed, ActorMatches
  <2>5. u \in PendingAssignee(request')
    BY <2>4, AllowedArePending
  <2>6. t.action # "CANCEL"
    BY <2>2, <2>4, NothingAfterCancel
  <2>7. u # None
    BY ConstantsAssumption
  <2> QED BY <2>3, <2>5, <2>6, <2>7 DEF Recipients
<1> QED BY <1>1, CoreHolds, PTL DEF Spec, TheNextActorIsTold

-----------------------------------------------------------------------------
(* The page with the buttons for a step.                                   *)
PageOf(step) ==
  CASE step.from = "DRAFT"                     -> "drafts"
    [] step.from = "PENDING_BRANCH_CHECKER"    -> "recommend"
    [] step.from = "PENDING_CORPORATE_MAKER"   -> "review"
    [] step.from = "PENDING_CORPORATE_CHECKER" -> "approve"
    [] OTHER                                   -> "returned"

(* The tables of the workflow, the queues, the pages and the buttons fit.  *)
LEMMA PageHasTheButton ==
  ASSUME NEW step \in WorkflowTransitions
  PROVE  /\ step.from \in QueueStatuses(PageOf(step))
         /\ step.action \in QueueActions(PageOf(step))
         /\ PageOf(step) \in RoleQueues(step.actor)
         /\ step.from \in QueueStatuses("returned") => PageOf(step) = "returned"
BY DEF PageOf, QueueStatuses, QueueActions, RoleQueues, WorkflowTransitions, OtherTransitions,
   Transition

(* A request waits for approval only after it was forwarded.               *)
LEMMA PendingApprovalWasForwarded ==
  ASSUME Core, Reviewed, request.status = "PENDING_CORPORATE_CHECKER"
  PROVE  WasForwarded
<1>1. audit \in Seq(AuditRows) /\ DOMAIN audit = 1 .. Len(audit)
  BY TypeOKRows DEF Core
<1>2. Done(audit, "FORWARD", request.corporateMaker)
  BY DEF Reviewed, Forwarded
<1> QED BY <1>1, <1>2 DEF Done, WasForwarded

(* Who may take a step sees the request in the queue of the step's page.   *)
LEMMA InTheQueueOfThePage ==
  ASSUME Core, Reviewed, NEW u \in Users, NEW step \in Allowed(u)
  PROVE  OnTheRow(u) /\ InQueueOf(u, PageOf(step))
<1>1. step \in WorkflowTransitions /\ step.from = request.status /\ ActorMatches(u, step.actor)
  BY DEF Allowed
<1>2. step.from = "PENDING_CORPORATE_CHECKER" => WasForwarded
  BY <1>1, PendingApprovalWasForwarded
<1>3. OnTheRow(u)
  BY <1>1 DEF OnTheRow, ActorMatches, WorkflowTransitions, OtherTransitions, Transition
<1>4. \/ step.from \in {"DRAFT", "RETURNED_TO_BRANCH_MAKER"} /\ u = request.creator
      \/ step.from = "PENDING_BRANCH_CHECKER" /\ u = request.branchChecker
      \/ /\ step.from \in {"PENDING_CORPORATE_MAKER", "RETURNED_TO_CORPORATE_MAKER"}
         /\ u = request.corporateMaker
      \/ step.from = "PENDING_CORPORATE_CHECKER" /\ u = request.corporateChecker
  BY <1>1 DEF ActorMatches, WorkflowTransitions, OtherTransitions, Transition
<1>5. InQueueOf(u, PageOf(step))
  BY <1>1, <1>2, <1>4 DEF InQueueOf, PageOf
<1> QED BY <1>3, <1>5

(* A role has its pages, and everybody the page of returned requests.      *)
LEMMA PagesOfRoles ==
  ASSUME NEW u, NEW role \in Roles(u)
  PROVE  RoleQueues(role) \subseteq NavQueues(u) /\ "returned" \in NavQueues(u)
<1>1. "returned" \in RoleQueues(role)
  BY DEF RoleQueues
<1>2. RoleQueues(role) \subseteq NavQueues(u)
  BY DEF NavQueues
<1> QED BY <1>1, <1>2

(* Nobody is needed who is not shown what to do.                           *)
THEOREM WaitingIsOffered == Spec => []WaitingRequestIsOffered
<1>1. Init => Reviewed
  BY DEF Init, Reviewed, Absent, Recommended, Forwarded
<1>2. Core /\ Reviewed => WaitingRequestIsOffered
  <2> SUFFICES ASSUME Core, Reviewed, NEW u \in Users
               PROVE  /\ Allowed(u) # {} => Visible(u)
                      /\ Allowed(u) # {} /\ Staffed(request.source) => Listed(u, "request-list")
                      /\ \A step \in Allowed(u) :
                           /\ Staffed(request.source)
                           /\ \/ step.actor \in Roles(u)
                              \/ Roles(u) # {} /\ request.status \in QueueStatuses("returned")
                           => \E q \in NavQueues(u) : Listed(u, q) /\ step.action \in QueueActions(q)
                      /\ /\ request.status = "APPROVED" /\ Staffed(request.source)
                         /\ MayIssue(u) /\ u = request.corporateMaker
                         /\ "CORPORATE_MAKER" \in Roles(u)
                         => "ready-to-issue" \in NavQueues(u) /\ Listed(u, "ready-to-issue")
    BY DEF WaitingRequestIsOffered
  <2>1. Allowed(u) # {} => Visible(u)
    BY InTheQueueOfThePage DEF Visible
  <2>2. ASSUME NEW step \in Allowed(u), Staffed(request.source)
        PROVE  Listed(u, "request-list")
    <3>1. request.status \in Statuses
      BY TransitionFacts DEF Allowed
    <3> QED BY <2>1, <2>2, <3>1 DEF Listed, QueueStatuses, InQueueOf
  <2>3. ASSUME NEW step \in Allowed(u), Staffed(request.source),
               \/ step.actor \in Roles(u)
               \/ Roles(u) # {} /\ request.status \in QueueStatuses("returned")
        PROVE  \E q \in NavQueues(u) : Listed(u, q) /\ step.action \in QueueActions(q)
    <3>1. step \in WorkflowTransitions /\ step.from = request.status
      BY DEF Allowed
    <3>2. PageOf(step) \in NavQueues(u)
      BY <2>3, <3>1, PageHasTheButton, PagesOfRoles
    <3>3. Listed(u, PageOf(step))
      BY <2>1, <2>3, <3>1, PageHasTheButton, InTheQueueOfThePage DEF Listed
    <3> QED BY <3>1, <3>2, <3>3, PageHasTheButton
  <2>4. ASSUME request.status = "APPROVED", Staffed(request.source),
               u = request.corporateMaker, "CORPORATE_MAKER" \in Roles(u)
        PROVE  "ready-to-issue" \in NavQueues(u) /\ Listed(u, "ready-to-issue")
    <3>1. "ready-to-issue" \in NavQueues(u)
      BY <2>4, PagesOfRoles DEF RoleQueues
    <3>2. Visible(u) /\ InQueueOf(u, "ready-to-issue")
      BY <2>4 DEF Visible, OnTheRow, InQueueOf
    <3> QED BY <2>4, <3>1, <3>2 DEF Listed, QueueStatuses
  <2> QED BY <2>1, <2>2, <2>3, <2>4
<1> QED BY <1>1, <1>2, ReviewedStep, CoreHolds, PTL DEF Spec
=============================================================================
