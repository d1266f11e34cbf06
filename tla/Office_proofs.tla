---------------------------- MODULE Office_proofs ----------------------------
(***************************************************************************)
(* Proofs about the administration of the office, one component after the  *)
(* other (Accounts, StoreTree, ListPage, EntryForm and the two imports,    *)
(* each through its instance in Office; Assignments_proofs has the proofs  *)
(* about Assignments), and at the end about the office itself: its areas   *)
(* share no variable, so what an area keeps by itself is kept by all.      *)
(***************************************************************************)
EXTENDS Office, SumTheorems, TLAPS

-----------------------------------------------------------------------------
(* The accounts.                                                           *)

(* What Accounts counts is what FiniteSetTheorems counts.                  *)
LEMMA Counting ==
  ASSUME NEW S
  PROVE  Acc!IsFiniteSet(S) <=> IsFiniteSet(S)
BY DEF Acc!IsFiniteSet, IsFiniteSet

(* The same of how many there are.                                         *)
LEMMA Counted ==
  ASSUME NEW S
  PROVE Acc!Cardinality(S) = Cardinality(S)
BY DEF Acc!Cardinality, Cardinality, Acc!IsFiniteSet, IsFiniteSet

(* The first state of Accounts is typed.                                   *)
LEMMA TypedAtFirst == Acc!Init => Acc!TypeOK
<1> SUFFICES ASSUME Acc!Init PROVE Acc!TypeOK
  OBVIOUS
<1>1. account \in [active : BOOLEAN, employed : BOOLEAN, barred : BOOLEAN,
                   failed : Nat, locked : BOOLEAN]
  <2>1. PICK act \in {TRUE}, emp \in {TRUE}, bar \in {FALSE}, n \in {0}, lock \in {FALSE} :
          account = [active |-> act, employed |-> emp, barred |-> bar,
                     failed |-> n, locked |-> lock]
    BY DEF Acc!Init
  <2>. QED
    BY <2>1
<1>. QED
  BY <1>1 DEF Acc!Init, Acc!TypeOK

(* Nothing but its own steps changes what a sign-in has read, apart from   *)
(* the marks that Overtaken leaves.                                        *)
LEMMA OvertakenTyped ==
  ASSUME login \in [Logins -> Acc!Login \cup {None}]
  PROVE  Acc!Overtaken \in [Logins -> Acc!Login \cup {None}]
BY DEF Acc!Overtaken, Acc!Login

(* Sessions that are revoked or outdated are sessions.                     *)
LEMMA SessionsTyped ==
  ASSUME session \in [Sessions -> Acc!Live \cup {Ended, None}]
  PROVE  /\ Acc!Outdated \in [Sessions -> Acc!Live \cup {Ended, None}]
         /\ Acc!Revoked({}) \in [Sessions -> Acc!Live \cup {Ended, None}]
BY DEF Acc!Outdated, Acc!Revoked, Acc!Live, Acc!IsLive

Account == [active : BOOLEAN, employed : BOOLEAN, barred : BOOLEAN,
            failed : Nat, locked : BOOLEAN]

(* recordFailedLogin leaves an account.                                    *)
LEMMA FailureTyped ==
  ASSUME account \in Account
  PROVE  Acc!RecordFailedLogin \in Account
<1> DEFINE late == account.locked \/ account.failed + 1 >= MaxFailedAttempts
<1>1. account.failed + 1 \in Nat
  BY DEF Account
<1>2. late \in BOOLEAN
  OBVIOUS
<1>3. Acc!RecordFailedLogin = [account EXCEPT !.failed = account.failed + 1, !.locked = late]
  BY DEF Acc!RecordFailedLogin
<1> HIDE DEF late
<1>. QED
  BY <1>1, <1>2, <1>3 DEF Account

(* Every step of Accounts keeps the types.                                 *)
LEMMA TypesKept ==
  ASSUME Acc!AccountsAssumption, Acc!TypeOK, [Acc!Next]_Acc!vars
  PROVE  Acc!TypeOK'
<1> USE DEF Acc!TypeOK
<1>1. ASSUME NEW l \in Logins, NEW right \in BOOLEAN, Acc!LoginRead(l, right)
      PROVE  Acc!TypeOK'
  BY <1>1 DEF Acc!LoginRead, Acc!Login
<1>2. ASSUME NEW l \in Logins, Acc!LoginRejected(l) PROVE Acc!TypeOK'
  BY <1>2 DEF Acc!LoginRejected
<1>3. ASSUME NEW l \in Logins, Acc!LoginFailed(l) PROVE Acc!TypeOK'
  BY <1>3, FailureTyped DEF Acc!LoginFailed, Account
<1>4. ASSUME NEW l \in Logins, Acc!LoginAccepted(l) PROVE Acc!TypeOK'
  BY <1>4 DEF Acc!LoginAccepted, Acc!Login
<1>5. ASSUME NEW l \in Logins, Acc!LoginRoles(l) PROVE Acc!TypeOK'
  BY <1>5 DEF Acc!LoginRoles, Acc!Login
<1>6. ASSUME NEW l \in Logins, Acc!ResetLoginFailures(l) PROVE Acc!TypeOK'
  BY <1>6 DEF Acc!ResetLoginFailures, Acc!Login
<1>7. ASSUME NEW l \in Logins, NEW s \in Sessions, Acc!LoginInsert(l, s) PROVE Acc!TypeOK'
  <2>1. login[l] \in Acc!Login
    BY <1>7 DEF Acc!LoginInsert
  <2>. QED
    BY <1>7, <2>1 DEF Acc!LoginInsert, Acc!Login, Acc!Live
<1>8. CASE Acc!LockoutEnds
  BY <1>8 DEF Acc!LockoutEnds, Acc!Login
<1>9. ASSUME NEW s \in Sessions, Acc!Logout(s) \/ Acc!CleanupExpiredSessions(s) \/ Acc!ChangeRead(s)
      PROVE  Acc!TypeOK'
  BY <1>9 DEF Acc!Logout, Acc!CleanupExpiredSessions, Acc!ChangeRead
<1>10. CASE Acc!ChangeCommit
  BY <1>10, OvertakenTyped DEF Acc!ChangeCommit, Acc!Revoked, Acc!IsLive
<1>11. ASSUME NEW a \in Admins, Acc!ResetPassword(a) PROVE Acc!TypeOK'
  BY <1>11, OvertakenTyped, SessionsTyped DEF Acc!ResetPassword
<1>12. ASSUME NEW a \in Admins, Acc!Deactivate(a) PROVE Acc!TypeOK'
  BY <1>12, OvertakenTyped, SessionsTyped DEF Acc!Deactivate
<1>13. ASSUME NEW a \in Admins, Acc!RevokeAllSessions(a) PROVE Acc!TypeOK'
  BY <1>13, SessionsTyped DEF Acc!RevokeAllSessions
<1>14. ASSUME NEW a \in Admins, Acc!ActivateRead(a) \/ Acc!Activate(a) PROVE Acc!TypeOK'
  BY <1>14 DEF Acc!ActivateRead, Acc!Activate
<1>15. CASE Acc!EmployeeStatus \/ Acc!RolesChange
  BY <1>15 DEF Acc!EmployeeStatus, Acc!RolesChange
<1>16. CASE Acc!ServerStops
  BY <1>16 DEF Acc!ServerStops, Acc!Live, Acc!IsLive
<1>17. CASE UNCHANGED Acc!vars
  BY <1>17 DEF Acc!vars
<1>. QED
  BY <1>1, <1>2, <1>3, <1>4, <1>5, <1>6, <1>7, <1>8, <1>9, <1>10, <1>11, <1>12,
     <1>13, <1>14, <1>15, <1>16, <1>17 DEF Acc!Next

(* Every variable keeps its type, whatever overlaps.                       *)
THEOREM AccountsTyped ==
  ASSUME Acc!AccountsAssumption
  PROVE  Acc!Spec => []Acc!TypeOK
BY TypedAtFirst, TypesKept, PTL DEF Acc!Spec

-----------------------------------------------------------------------------
(* Sessions.                                                               *)

(* There are no sessions at first.                                         *)
LEMMA SessionsAtFirst == Acc!Init => Acc!SessionsEndWithTheirCredentials
BY DEF Acc!Init, Acc!SessionsEndWithTheirCredentials, Acc!IsLive

(* A step that withdraws credentials marks the sessions that have them.    *)
LEMMA SessionsKept ==
  ASSUME Acc!AccountsAssumption, Acc!TypeOK, Acc!SessionsEndWithTheirCredentials, [Acc!Next]_Acc!vars
  PROVE  Acc!SessionsEndWithTheirCredentials'
<1> USE DEF Acc!SessionsEndWithTheirCredentials, Acc!IsLive
<1>1. ASSUME UNCHANGED <<session, admin>> PROVE Acc!SessionsEndWithTheirCredentials'
  BY <1>1
<1>2. ASSUME NEW l \in Logins, NEW s \in Sessions, Acc!LoginInsert(l, s)
      PROVE  Acc!SessionsEndWithTheirCredentials'
  BY <1>2 DEF Acc!LoginInsert, Acc!TypeOK
<1>3. ASSUME NEW s \in Sessions, Acc!Logout(s) \/ Acc!CleanupExpiredSessions(s)
      PROVE  Acc!SessionsEndWithTheirCredentials'
  BY <1>3 DEF Acc!Logout, Acc!CleanupExpiredSessions, Acc!TypeOK
<1>4. CASE Acc!ChangeCommit
  BY <1>4 DEF Acc!ChangeCommit, Acc!Revoked
<1>5. ASSUME NEW a \in Admins, Acc!ResetPassword(a) \/ Acc!Deactivate(a)
      PROVE  Acc!SessionsEndWithTheirCredentials'
  BY <1>5 DEF Acc!ResetPassword, Acc!Deactivate, Acc!TypeOK
<1>6. ASSUME NEW a \in Admins, Acc!RevokeAllSessions(a)
      PROVE  Acc!SessionsEndWithTheirCredentials'
  BY <1>6 DEF Acc!RevokeAllSessions, Acc!Revoked
<1>7. ASSUME NEW a \in Admins, Acc!ActivateRead(a) \/ Acc!Activate(a)
      PROVE  Acc!SessionsEndWithTheirCredentials'
  BY <1>7 DEF Acc!ActivateRead, Acc!Activate, Acc!TypeOK, Acc!AccountsAssumption
<1>8. CASE Acc!ServerStops
  BY <1>8 DEF Acc!ServerStops, Acc!TypeOK, Acc!Live
<1>. QED
  BY <1>1, <1>2, <1>3, <1>4, <1>5, <1>6, <1>7, <1>8
     DEF Acc!Next, Acc!vars, Acc!LoginRead, Acc!LoginRejected, Acc!LoginFailed, Acc!LoginAccepted, Acc!LoginRoles,
         Acc!ResetLoginFailures, Acc!LockoutEnds, Acc!ChangeRead, Acc!EmployeeStatus, Acc!RolesChange

(* A session that was opened before a reset, a change of the password or a *)
(* deactivation is revoked, or about to be, unless it is one of the two    *)
(* kinds that the code lets escape.                                        *)
THEOREM SessionsEnd ==
  ASSUME Acc!AccountsAssumption
  PROVE  Acc!Spec => []Acc!SessionsEndWithTheirCredentials
BY SessionsAtFirst, AccountsTyped, SessionsKept, PTL DEF Acc!Spec

-----------------------------------------------------------------------------
(* The lockout.                                                            *)

(* Sign-ins that have read the row while it was not locked and that can    *)
(* still count as a failure.                                               *)
Unjudged == {l \in Logins : login[l] # None /\ login[l].step = "verify" /\ ~login[l].locked}

(* While the account is not locked, the counter has seen every guess (a    *)
(* counter at the limit is left over from a lock that has ended).          *)
CounterSeesGuesses ==
  ~account.locked =>
    /\ account.failed < MaxFailedAttempts => guesses <= account.failed
    /\ account.failed >= MaxFailedAttempts => guesses = 0

(* Once it is locked, the guesses still to come are among the sign-ins     *)
(* under way.                                                              *)
LockLeavesUnjudged ==
  account.locked =>
    guesses + Cardinality(Unjudged) <= MaxFailedAttempts + Cardinality(Logins) - 1

Lockout == Acc!TypeOK /\ CounterSeesGuesses /\ LockLeavesUnjudged

(* Fewer sign-ins are not more.                                            *)
LEMMA CountedWithin ==
  ASSUME Acc!AccountsAssumption, NEW T \in SUBSET Logins, NEW S \in SUBSET T
  PROVE  /\ Cardinality(S) \in Nat /\ Cardinality(T) \in Nat
         /\ Cardinality(S) <= Cardinality(T)
BY FS_Subset, FS_CardinalityType , Counting DEF Acc!AccountsAssumption

(* Without one of them they are one less.                                  *)
LEMMA CountedLess ==
  ASSUME Acc!AccountsAssumption, NEW T \in SUBSET Logins, NEW l \in T, NEW S \in SUBSET (T \ {l})
  PROVE  /\ Cardinality(S) \in Nat /\ Cardinality(T) \in Nat
         /\ Cardinality(S) <= Cardinality(T) - 1
<1>1. IsFiniteSet(T)
  BY FS_Subset , Counting DEF Acc!AccountsAssumption
<1>2. Cardinality(T \ {l}) = Cardinality(T) - 1
  BY <1>1, FS_RemoveElement
<1>. QED
  BY <1>1, <1>2, CountedWithin, FS_CardinalityType

(* Lockout bounds the guesses.                                             *)
LEMMA LockoutBounds ==
  ASSUME Acc!AccountsAssumption, Lockout
  PROVE  Acc!LockBoundsGuesses
<1>1. Cardinality(Unjudged) \in Nat /\ Cardinality(Logins) \in Nat
  BY CountedWithin DEF Unjudged
<1>2. account.failed \in Nat /\ guesses \in Nat /\ MaxFailedAttempts \in Nat \ {0}
  BY DEF Lockout, Acc!TypeOK, Acc!AccountsAssumption
<1>3. CASE account.locked
  BY <1>1, <1>2, <1>3, Counted DEF Lockout, LockLeavesUnjudged, Acc!LockBoundsGuesses
<1>. QED
  BY <1>1, <1>2, <1>3, Counted DEF Lockout, CounterSeesGuesses, Acc!LockBoundsGuesses

(* A failure is counted, or leaves one sign-in less that can be.           *)
LEMMA FailureKeepsLockout ==
  ASSUME Acc!AccountsAssumption, Lockout, Acc!TypeOK', NEW l \in Logins, Acc!LoginFailed(l)
  PROVE  Lockout'
<1>1. /\ l \in Unjudged /\ Unjudged \subseteq Logins
      /\ Unjudged' \subseteq Unjudged \ {l}
  BY DEF Acc!LoginFailed, Unjudged, Lockout, Acc!TypeOK
<1>2. /\ Cardinality(Unjudged') \in Nat /\ Cardinality(Unjudged) \in Nat
      /\ Cardinality(Unjudged') <= Cardinality(Unjudged) - 1
      /\ Cardinality(Unjudged) <= Cardinality(Logins) /\ Cardinality(Logins) \in Nat
  BY <1>1, CountedLess, CountedWithin
<1>3. /\ account.failed \in Nat /\ guesses \in Nat /\ MaxFailedAttempts \in Nat \ {0}
      /\ guesses' = guesses + 1
  BY DEF Lockout, Acc!TypeOK, Acc!LoginFailed, Acc!AccountsAssumption
<1>4. /\ account'.failed = account.failed + 1
      /\ account'.locked <=> account.locked \/ account.failed + 1 >= MaxFailedAttempts
  BY DEF Acc!LoginFailed, Acc!RecordFailedLogin, Lockout, Acc!TypeOK
<1>5. CounterSeesGuesses'
  BY <1>3, <1>4 DEF Lockout, CounterSeesGuesses
<1>6. LockLeavesUnjudged'
  <2>1. CASE account.locked
    BY <1>2, <1>3, <2>1 DEF Lockout, LockLeavesUnjudged
  <2>2. CASE ~account.locked
    BY <1>2, <1>3, <1>4, <2>2 DEF Lockout, CounterSeesGuesses, LockLeavesUnjudged
  <2>. QED
    BY <2>1, <2>2
<1>. QED
  BY <1>5, <1>6 DEF Lockout

(* Steps that leave the counter alone and bring no new guess into play     *)
(* under a lock.                                                           *)
LEMMA OtherStepsKeepLockout ==
  ASSUME Acc!AccountsAssumption, Lockout, Acc!TypeOK', UNCHANGED guesses,
         account'.failed = account.failed, account'.locked = account.locked,
         account.locked => Unjudged' \subseteq Unjudged
  PROVE  Lockout'
<1>1. CounterSeesGuesses'
  BY DEF Lockout, CounterSeesGuesses
<1>2. ASSUME account.locked PROVE LockLeavesUnjudged'
  <2>1. /\ Cardinality(Unjudged') \in Nat /\ Cardinality(Unjudged) \in Nat
        /\ Cardinality(Unjudged') <= Cardinality(Unjudged)
        /\ Cardinality(Logins) \in Nat
    BY <1>2, CountedWithin DEF Unjudged
  <2>. QED
    BY <1>2, <2>1 DEF Lockout, LockLeavesUnjudged, Acc!TypeOK, Acc!AccountsAssumption
<1>. QED
  BY <1>1, <1>2 DEF Lockout, LockLeavesUnjudged

(* Steps that unlock the account.                                          *)
LEMMA UnlockKeepsLockout ==
  ASSUME Acc!TypeOK', guesses' = 0, ~account'.locked
  PROVE  Lockout'
BY DEF Lockout, CounterSeesGuesses, LockLeavesUnjudged, Acc!TypeOK

(* Every step of Accounts keeps Lockout.                                   *)
LEMMA LockoutKept ==
  ASSUME Acc!AccountsAssumption, Lockout, [Acc!Next]_Acc!vars
  PROVE  Lockout'
<1>0. Acc!TypeOK'
  BY TypesKept DEF Lockout
<1>1. ASSUME NEW l \in Logins, NEW right \in BOOLEAN, Acc!LoginRead(l, right)
      PROVE  Lockout'
  <2>1. account.locked => Unjudged' \subseteq Unjudged
    BY <1>1 DEF Acc!LoginRead, Unjudged, Lockout, Acc!TypeOK
  <2>. QED
    BY <1>0, <1>1, <2>1, OtherStepsKeepLockout DEF Acc!LoginRead
<1>2. ASSUME NEW l \in Logins, \/ Acc!LoginRejected(l) \/ Acc!LoginAccepted(l) \/ Acc!LoginRoles(l)
                              \/ \E s \in Sessions : Acc!LoginInsert(l, s)
      PROVE  Lockout'
  <2>1. Unjudged' \subseteq Unjudged
    BY <1>2 DEF Acc!LoginRejected, Acc!LoginAccepted, Acc!LoginRoles, Acc!LoginInsert, Unjudged,
                Lockout, Acc!TypeOK, Acc!Login
  <2>. QED
    BY <1>0, <1>2, <2>1, OtherStepsKeepLockout
       DEF Acc!LoginRejected, Acc!LoginAccepted, Acc!LoginRoles, Acc!LoginInsert
<1>3. ASSUME NEW l \in Logins, Acc!LoginFailed(l) PROVE Lockout'
  BY <1>0, <1>3, FailureKeepsLockout
<1>4. ASSUME \/ \E l \in Logins : Acc!ResetLoginFailures(l)
             \/ Acc!LockoutEnds \/ Acc!ChangeCommit
             \/ \E a \in Admins : Acc!ResetPassword(a)
      PROVE  Lockout'
  BY <1>0, <1>4, UnlockKeepsLockout
     DEF Acc!ResetLoginFailures, Acc!LockoutEnds, Acc!ChangeCommit, Acc!ResetPassword, Lockout, Acc!TypeOK
<1>5. ASSUME \E s \in Sessions : Acc!Logout(s) \/ Acc!CleanupExpiredSessions(s) \/ Acc!ChangeRead(s)
      PROVE  Lockout'
  BY <1>0, <1>5, OtherStepsKeepLockout
     DEF Acc!Logout, Acc!CleanupExpiredSessions, Acc!ChangeRead, Unjudged
<1>6. ASSUME NEW a \in Admins, Acc!Deactivate(a) PROVE Lockout'
  <2>1. Unjudged' \subseteq Unjudged
    BY <1>6 DEF Acc!Deactivate, Acc!Overtaken, Unjudged, Lockout, Acc!TypeOK, Acc!Login
  <2>. QED
    BY <1>0, <1>6, <2>1, OtherStepsKeepLockout DEF Acc!Deactivate, Lockout, Acc!TypeOK
<1>7. ASSUME \/ \E a \in Admins : Acc!RevokeAllSessions(a) \/ Acc!ActivateRead(a) \/ Acc!Activate(a)
             \/ Acc!EmployeeStatus \/ Acc!RolesChange
      PROVE  Lockout'
  <2>1. /\ Unjudged' = Unjudged /\ UNCHANGED guesses
        /\ account'.failed = account.failed /\ account'.locked = account.locked
    BY <1>7 DEF Acc!RevokeAllSessions, Acc!ActivateRead, Acc!Activate, Acc!EmployeeStatus, Acc!RolesChange,
                Unjudged, Lockout, Acc!TypeOK
  <2>. QED
    BY <1>0, <2>1, OtherStepsKeepLockout
<1>8. CASE Acc!ServerStops
  <2>1. Unjudged' \subseteq Unjudged
    BY <1>8 DEF Acc!ServerStops, Unjudged
  <2>. QED
    BY <1>0, <1>8, <2>1, OtherStepsKeepLockout DEF Acc!ServerStops
<1>9. CASE UNCHANGED Acc!vars
  BY <1>0, <1>9, OtherStepsKeepLockout DEF Acc!vars, Unjudged
<1>. QED
  BY <1>1, <1>2, <1>3, <1>4, <1>5, <1>6, <1>7, <1>8, <1>9 DEF Acc!Next

(* No guess was made at first.                                             *)
LEMMA LockoutAtFirst ==
  ASSUME Acc!AccountsAssumption, Acc!Init
  PROVE  Lockout
<1>1. /\ Acc!TypeOK /\ guesses = 0
      /\ account.failed = 0 /\ account.locked = FALSE
  BY TypedAtFirst DEF Acc!Init
<1>2. CounterSeesGuesses
  BY <1>1 DEF CounterSeesGuesses, Acc!AccountsAssumption
<1>3. LockLeavesUnjudged
  BY <1>1 DEF LockLeavesUnjudged
<1>. QED
  BY <1>1, <1>2, <1>3 DEF Lockout

(* Between two moments at which the account is unlocked the server judges  *)
(* at most the allowed attempts, and one more for each other sign-in.      *)
THEOREM LockoutHolds ==
  ASSUME Acc!AccountsAssumption
  PROVE  Acc!Spec => []Acc!LockBoundsGuesses
<1>1. Lockout => Acc!LockBoundsGuesses
  BY LockoutBounds
<1>. QED
  BY <1>1, LockoutAtFirst, LockoutKept, PTL DEF Acc!Spec

-----------------------------------------------------------------------------
(* The stores.                                                             *)

(* What is counted in the stores is what FiniteSetTheorems counts.         *)
LEMMA CountingStores ==
  /\ Tree!IsFiniteSet(Stores) <=> IsFiniteSet(Stores)
  /\ Tree!Cardinality(Stores) = Cardinality(Stores)
BY DEF Tree!IsFiniteSet, IsFiniteSet, Tree!Cardinality, Cardinality

(* The stores, and those they stand under.                                 *)
Higher(T) == T \cup ({Tree!Under(t) : t \in T} \ {None})

(* The first n steps of the walk from s.                                   *)
Walk(s, p, n) == p = [k \in 0..n |-> IF k = 0 THEN {s} ELSE Higher(p[k - 1])]

(* There is a walk of any length.                                          *)
LEMMA WalkExists ==
  ASSUME NEW s, NEW n \in Nat
  PROVE  \E p : Walk(s, p, n)
<1> DEFINE Good == {m \in 0..n : \E p : Walk(s, p, m)}
<1>1. 0 \in Good
  <2> DEFINE p == [k \in 0..0 |-> {s}]
  <2>1. Walk(s, p, 0)
    BY DEF Walk
  <2> QED BY <2>1
<1>2. ASSUME NEW k \in 0..(n - 1), k \in Good PROVE k + 1 \in Good
  <2>1. PICK p : Walk(s, p, k)
    BY <1>2
  <2> DEFINE q == [j \in 0..(k + 1) |-> IF j <= k THEN p[j] ELSE Higher(p[k])]
  <2>2. ASSUME NEW j \in 0..(k + 1)
        PROVE  q[j] = IF j = 0 THEN {s} ELSE Higher(q[j - 1])
    <3>1. CASE j = 0
      BY <2>1, <3>1 DEF Walk
    <3>2. CASE j = k + 1
      BY <3>2
    <3>3. CASE j \in 1..k
      <4>1. j \in 0..k /\ j - 1 \in 0..k /\ j # 0
        BY <3>3
      <4>2. p[j] = Higher(p[j - 1])
        BY <2>1, <4>1 DEF Walk
      <4> QED BY <4>1, <4>2
    <3> QED BY <3>1, <3>2, <3>3
  <2>3. Walk(s, q, k + 1)
    BY <2>2 DEF Walk
  <2> QED BY <2>3
<1> HIDE DEF Good
<1>3. \A k \in 0..n : k \in Good
  BY <1>1, <1>2, UpTo
<1> QED BY <1>3 DEF Good

(* Above is where the walk of as many steps as there are stores ends.      *)
LEMMA AboveIsWalked ==
  ASSUME NEW s, IsFiniteSet(Stores)
  PROVE  \E p : Walk(s, p, Cardinality(Stores)) /\ Tree!Above(s) = p[Cardinality(Stores)]
<1> DEFINE n == Cardinality(Stores)
<1>1. n \in Nat
  BY FS_CardinalityType
<1>2. PICK p : Walk(s, p, n)
  BY <1>1, WalkExists
<1> DEFINE w == CHOOSE path : path = [k \in 0..n |->
                    IF k = 0 THEN {s}
                    ELSE path[k - 1] \cup ({Tree!Under(t) : t \in path[k - 1]} \ {None})]
<1>3. Walk(s, w, n)
  BY <1>2 DEF Walk, Higher
<1>4. Tree!Above(s) = w[n]
  BY CountingStores DEF Tree!Above
<1> QED BY <1>3, <1>4

Onto(T) == \A t \in T : Tree!Under(t) # None => Tree!Under(t) \in T

(* The walk comes to every store above its start, and to no other: it has  *)
(* as many steps as there are stores, and a step that finds no new store   *)
(* is the last.                                                            *)
Least ==
  \A s \in Stores :
    /\ s \in Tree!Above(s) /\ Tree!Above(s) \subseteq Stores
    /\ Onto(Tree!Above(s))
    /\ \A C : s \in C /\ Onto(C) => Tree!Above(s) \subseteq C

(* Above is the least set that a store and all above it lie in.            *)
LEMMA AboveIsLeast == Tree!TypeOK => Least
<1> SUFFICES ASSUME Tree!TypeOK, NEW s \in Stores
             PROVE  /\ s \in Tree!Above(s) /\ Tree!Above(s) \subseteq Stores
                    /\ Onto(Tree!Above(s))
                    /\ \A C : s \in C /\ Onto(C) => Tree!Above(s) \subseteq C
  BY DEF Least
<1> DEFINE n == Cardinality(Stores)
<1>1. IsFiniteSet(Stores) /\ n \in Nat
  BY OfficeAssumption, CountingStores, FS_CardinalityType DEF Tree!StoreTreeAssumption
<1>2. \A t \in Stores : Tree!Under(t) \in Stores \cup {None}
  BY DEF Tree!TypeOK, Tree!Under, Tree!Row
<1>3. PICK p : Walk(s, p, n) /\ Tree!Above(s) = p[n]
  BY <1>1, AboveIsWalked
<1> HIDE DEF n
<1>4. /\ p[0] = {s}
      /\ \A k \in 0..(n - 1) : k + 1 \in 0..n /\ p[k + 1] = Higher(p[k])
  <2>1. p[0] = {s}
    BY <1>1, <1>3 DEF Walk
  <2>2. ASSUME NEW k \in 0..(n - 1) PROVE k + 1 \in 0..n /\ p[k + 1] = Higher(p[k])
    <3>1. k + 1 \in 0..n /\ k + 1 # 0 /\ (k + 1) - 1 = k
      BY <1>1
    <3>2. p[k + 1] = Higher(p[(k + 1) - 1])
      BY <1>3, <3>1 DEF Walk
    <3> QED BY <3>1, <3>2
  <2> QED BY <2>1, <2>2
<1>5. ASSUME NEW C, s \in C, Onto(C) PROVE p[n] \subseteq C
  <2> DEFINE Good == {k \in 0..n : p[k] \subseteq C}
  <2>1. 0 \in Good
    BY <1>1, <1>4, <1>5
  <2>2. \A k \in 0..(n - 1) : k \in Good => k + 1 \in Good
    BY <1>4, <1>5 DEF Onto, Higher
  <2> HIDE DEF Good
  <2>3. n \in Good
    BY <1>1, <2>1, <2>2, UpTo
  <2> QED BY <2>3 DEF Good
<1>6. p[n] \subseteq Stores
  BY <1>2, <1>5 DEF Onto
<1>7. s \in p[n]
  <2> DEFINE Good == {k \in 0..n : s \in p[k]}
  <2>1. 0 \in Good
    BY <1>1, <1>4
  <2>2. \A k \in 0..(n - 1) : k \in Good => k + 1 \in Good
    BY <1>4 DEF Higher
  <2> HIDE DEF Good
  <2>3. n \in Good
    BY <1>1, <2>1, <2>2, UpTo
  <2> QED BY <2>3 DEF Good
<1>8. Onto(p[n])
  <2> DEFINE Good == {k \in 0..n : /\ p[k] \subseteq Stores /\ p[k] # {}
                                   /\ Onto(p[k]) \/ Cardinality(p[k]) > k}
  <2>1. 0 \in Good
    <3>1. p[0] = {s} /\ Cardinality(p[0]) = 1
      BY <1>4, FS_Singleton
    <3> QED BY <3>1, <1>1
  <2>2. ASSUME NEW k \in 0..(n - 1), k \in Good PROVE k + 1 \in Good
    <3>1. /\ p[k] \subseteq Stores /\ p[k] # {}
          /\ Onto(p[k]) \/ Cardinality(p[k]) > k
          /\ p[k + 1] = Higher(p[k]) /\ k + 1 \in 0..n
      BY <1>4, <2>2
    <3>2. p[k + 1] \subseteq Stores /\ p[k] \subseteq p[k + 1] /\ p[k + 1] # {}
      BY <1>2, <3>1 DEF Higher
    <3>3. CASE Onto(p[k])
      <4>1. p[k + 1] = p[k]
        BY <3>1, <3>3 DEF Higher, Onto
      <4> QED BY <3>1, <3>2, <3>3, <4>1
    <3>4. CASE ~Onto(p[k]) /\ Cardinality(p[k]) > k
      <4>1. p[k + 1] # p[k]
        BY <3>1, <3>4 DEF Higher, Onto
      <4>2. IsFiniteSet(p[k + 1]) /\ IsFiniteSet(p[k])
        BY <1>1, <3>1, <3>2, FS_Subset
      <4>3. Cardinality(p[k]) \in Nat /\ Cardinality(p[k + 1]) \in Nat
        BY <4>2, FS_CardinalityType
      <4>4. /\ Cardinality(p[k]) <= Cardinality(p[k + 1])
            /\ Cardinality(p[k]) # Cardinality(p[k + 1])
        <5> DEFINE S == p[k + 1]
                   T == p[k]
        <5>1. IsFiniteSet(S) /\ T \in SUBSET S /\ S # T
          BY <3>2, <4>1, <4>2
        <5> HIDE DEF S, T
        <5>2. Cardinality(T) <= Cardinality(S) /\ Cardinality(T) # Cardinality(S)
          BY <5>1, FS_Subset
        <5> QED BY <5>2 DEF S, T
      <4>5. Cardinality(p[k + 1]) > k + 1
        BY <3>4, <4>3, <4>4
      <4> QED BY <3>1, <3>2, <4>5
    <3> QED BY <3>1, <3>3, <3>4
  <2> HIDE DEF Good
  <2>3. n \in Good
    BY <1>1, <2>1, <2>2, UpTo
  <2>4. Onto(p[n]) \/ Cardinality(p[n]) > n
    BY <2>3 DEF Good
  <2>5. Cardinality(p[n]) <= n /\ Cardinality(p[n]) \in Nat
    BY <1>1, <1>6, FS_Subset, FS_CardinalityType DEF n
  <2> QED BY <1>1, <2>4, <2>5
<1> QED BY <1>3, <1>5, <1>6, <1>7, <1>8

(* A store in a circle, by the walk from the one above it.                 *)
Round(s) == Tree!Under(s) # None /\ s \in Tree!Above(Tree!Under(s))

(* Above a store is what is above the one it stands under; and all that is *)
(* above a store in a circle is in the circle.                             *)
Circles ==
  \A s \in Stores :
    /\ Tree!InCycle(s) <=> Round(s)
    /\ Tree!Above(s) \subseteq
         {s} \cup (IF Tree!Under(s) = None THEN {} ELSE Tree!Above(Tree!Under(s)))
    /\ Round(s) => \A t \in Tree!Above(s) : Round(t)

(* So much for the circles that the tree may have.                         *)
LEMMA CirclesAre == Tree!TypeOK => Circles
<1> SUFFICES ASSUME Tree!TypeOK PROVE Circles
  OBVIOUS
<1>1. \A t \in Stores : Tree!Under(t) \in Stores \cup {None}
  BY DEF Tree!TypeOK, Tree!Under, Tree!Row
<1>2. Least
  BY AboveIsLeast
<1>3. ASSUME NEW s \in Stores PROVE Tree!InCycle(s) <=> Round(s)
  <2>1. CASE Tree!Under(s) = None
    <3>1. {Tree!Above(t) : t \in {Tree!Under(s)} \ {None}} = {}
      BY <2>1
    <3> QED BY <2>1, <3>1 DEF Tree!InCycle, Round
  <2>2. CASE Tree!Under(s) # None
    <3>1. {Tree!Above(t) : t \in {Tree!Under(s)} \ {None}} = {Tree!Above(Tree!Under(s))}
      BY <2>2
    <3>2. UNION {Tree!Above(Tree!Under(s))} = Tree!Above(Tree!Under(s))
      OBVIOUS
    <3> QED BY <2>2, <3>1, <3>2 DEF Tree!InCycle, Round
  <2> QED BY <2>1, <2>2
<1>4. ASSUME NEW s \in Stores
      PROVE  Tree!Above(s) \subseteq
               {s} \cup (IF Tree!Under(s) = None THEN {} ELSE Tree!Above(Tree!Under(s)))
  <2> DEFINE C == {s} \cup (IF Tree!Under(s) = None THEN {} ELSE Tree!Above(Tree!Under(s)))
  <2>1. Onto(C)
    <3>1. CASE Tree!Under(s) = None
      BY <3>1 DEF Onto
    <3>2. CASE Tree!Under(s) # None
      <4>1. /\ Onto(Tree!Above(Tree!Under(s)))
            /\ Tree!Under(s) \in Tree!Above(Tree!Under(s))
        BY <1>1, <1>2, <3>2 DEF Least
      <4> QED BY <3>2, <4>1 DEF Onto
    <3> QED BY <3>1, <3>2
  <2>2. s \in C
    OBVIOUS
  <2> HIDE DEF C
  <2>3. Tree!Above(s) \subseteq C
    BY <1>2, <2>1, <2>2 DEF Least
  <2> QED BY <2>3 DEF C
<1>5. ASSUME NEW s \in Stores, Round(s) PROVE \A t \in Tree!Above(s) : s \in Tree!Above(t)
  <2> DEFINE C == {t \in Tree!Above(s) : s \in Tree!Above(t)}
  <2>1. s \in C
    BY <1>2 DEF Least
  <2>2. ASSUME NEW t \in C, Tree!Under(t) # None PROVE Tree!Under(t) \in C
    <3>1. /\ t \in Stores /\ Tree!Under(t) \in Tree!Above(s)
          /\ s \in Tree!Above(t)
      BY <1>2, <2>2 DEF Least, Onto
    <3>2. s = t \/ s \in Tree!Above(Tree!Under(t))
      BY <1>4, <2>2, <3>1
    <3>3. s \in Tree!Above(Tree!Under(t))
      BY <1>5, <3>2 DEF Round
    <3> QED BY <3>1, <3>3
  <2>3. Onto(C)
    BY <2>2 DEF Onto
  <2> HIDE DEF C
  <2>4. Tree!Above(s) \subseteq C
    BY <1>2, <2>1, <2>3 DEF Least
  <2> QED BY <2>4 DEF C
<1>6. ASSUME NEW s \in Stores, Round(s), NEW t \in Tree!Above(s) PROVE Round(t)
  <2>1. /\ t \in Stores /\ s \in Tree!Above(t) /\ Tree!Above(s) \subseteq Stores
        /\ s \in Tree!Above(Tree!Under(s)) /\ Tree!Under(s) \in Stores
    BY <1>1, <1>2, <1>5, <1>6 DEF Least, Round
  <2>2. CASE s = t
    BY <1>6, <2>2
  <2>3. CASE s # t
    <3>1. Tree!Under(t) # None /\ s \in Tree!Above(Tree!Under(t))
      BY <1>4, <2>1, <2>3
    <3>2. Onto(Tree!Above(Tree!Under(t)))
      BY <1>1, <1>2, <2>1, <3>1 DEF Least
    <3>3. Tree!Above(s) \subseteq Tree!Above(Tree!Under(t))
      BY <1>2, <3>1, <3>2 DEF Least
    <3>4. t \in Tree!Above(s)
      BY <1>6
    <3> QED BY <3>1, <3>3, <3>4 DEF Round
  <2> QED BY <2>2, <2>3
<1> QED BY <1>3, <1>4, <1>6 DEF Circles

(* A step that changes nothing above a store, or nothing that will be      *)
(* above it, leaves the walk as it is.                                     *)
LEMMA SameWalk ==
  ASSUME Least, Least', NEW s \in Stores,
         \/ \A t \in Tree!Above(s) : Tree!Under(t)' = Tree!Under(t)
         \/ \A t \in Tree!Above(s)' : Tree!Under(t)' = Tree!Under(t)
  PROVE  Tree!Above(s)' = Tree!Above(s)
<1>1. PICK A : A = Tree!Above(s)
  OBVIOUS
<1>2. PICK B : B = Tree!Above(s)'
  OBVIOUS
<1>3. /\ s \in A /\ \A t \in A : Tree!Under(t) # None => Tree!Under(t) \in A
      /\ s \in B /\ \A t \in B : Tree!Under(t)' # None => Tree!Under(t)' \in B
  BY <1>1, <1>2 DEF Least, Onto
<1>4. ASSUME NEW C, s \in C, \A t \in C : Tree!Under(t) # None => Tree!Under(t) \in C
      PROVE  A \subseteq C
  BY <1>1, <1>4 DEF Least, Onto
<1>5. ASSUME NEW C, s \in C, \A t \in C : Tree!Under(t)' # None => Tree!Under(t)' \in C
      PROVE  B \subseteq C
  BY <1>2, <1>5 DEF Least, Onto
<1>6. CASE \A t \in A : Tree!Under(t)' = Tree!Under(t)
  <2>1. B \subseteq A
    BY <1>3, <1>5, <1>6
  <2>2. A \subseteq B
    BY <1>3, <1>4, <1>6, <2>1
  <2> QED BY <1>1, <1>2, <2>1, <2>2
<1>7. CASE \A t \in B : Tree!Under(t)' = Tree!Under(t)
  <2>1. A \subseteq B
    BY <1>3, <1>4, <1>7
  <2>2. B \subseteq A
    BY <1>3, <1>5, <1>7, <2>1
  <2> QED BY <1>1, <1>2, <2>1, <2>2
<1> QED BY <1>1, <1>2, <1>6, <1>7

(* None is neither a store nor a row.                                      *)
LEMMA NoneIsNoStore == None \notin Stores /\ None \notin Tree!Row
BY OfficeAssumption DEF Tree!StoreTreeAssumption

(* A store stands under a store there is.                                  *)
ParentsExist == \A s, t \in Stores : Tree!Under(s) = t => tree[t] # None

(* What a walk under way has found out, as long as no other save is        *)
(* written: it has been at the chosen store and at every store above one   *)
(* it has been at, and at none that is to be saved.                        *)
Walking(w) ==
  /\ w.under \in w.visited \cup {w.at}
  /\ w.store \notin w.visited \cup {w.at}
  /\ \A t \in w.visited : Tree!Under(t) # None => Tree!Under(t) \in w.visited \cup {w.at}

(* What is true of a checked save until it is written.                     *)
Sound(w) ==
  /\ w.under # None => tree[w.under] # None
  /\ ~w.create => tree[w.store] # None
  /\ ~w.crossed /\ w.under # None =>
       IF w.at = None THEN w.store \notin Tree!Above(w.under) ELSE Walking(w)

SavesChecked == \A r \in Saves : \A w \in {save[r]} \ {None} : Sound(w)

(* The shape of a save.                                                    *)
SaveRow == [store : Stores, branch : Seats, under : Stores \cup {None}, create : BOOLEAN,
            crossed : BOOLEAN, at : Stores \cup {None}, visited : SUBSET Stores]

TreeInv == Tree!TypeOK /\ ParentsExist /\ SavesChecked /\ Tree!CirclesOnlyFromCrossedSaves

(* There are no stores at first.                                           *)
LEMMA TreeInvAtFirst == Tree!Init => TreeInv
<1> SUFFICES ASSUME Tree!Init PROVE TreeInv
  OBVIOUS
<1>1. Tree!TypeOK /\ ParentsExist /\ SavesChecked
  BY NoneIsNoStore DEF Tree!Init, Tree!TypeOK, ParentsExist, SavesChecked, Tree!Under
<1>2. Circles
  BY <1>1, CirclesAre
<1>3. \A s \in Stores : ~Round(s)
  BY DEF Tree!Init, Tree!Under, Round
<1> QED BY <1>1, <1>2, <1>3 DEF TreeInv, Circles, Tree!CirclesOnlyFromCrossedSaves

(* A step that leaves every store under the one it was under leaves the    *)
(* circles as they are.                                                    *)
LEMMA NothingMoves ==
  ASSUME TreeInv, Tree!TypeOK', crossed' = crossed,
         \A s \in Stores : Tree!Under(s)' = Tree!Under(s)
  PROVE  /\ \A s \in Stores : Tree!Above(s)' = Tree!Above(s)
         /\ Tree!CirclesOnlyFromCrossedSaves'
<1>1. Least /\ Least' /\ Circles /\ Circles'
  BY AboveIsLeast, CirclesAre, PTL DEF TreeInv
<1>2. ASSUME NEW s \in Stores PROVE Tree!Above(s)' = Tree!Above(s)
  <2>1. \A t \in Tree!Above(s) : Tree!Under(t)' = Tree!Under(t)
    BY <1>1 DEF Least
  <2> QED BY <1>1, <2>1, SameWalk
<1>3. \A s \in Stores : Tree!Under(s) \in Stores \cup {None}
  BY DEF TreeInv, Tree!TypeOK, Tree!Under, Tree!Row
<1>4. ASSUME NEW s \in Stores, Tree!InCycle(s)' PROVE \E t \in Tree!Above(s)' : t \in crossed'
  <2>1. Tree!InCycle(s)
    BY <1>1, <1>2, <1>3, <1>4 DEF Circles, Round
  <2> QED BY <1>2, <2>1 DEF TreeInv, Tree!CirclesOnlyFromCrossedSaves
<1> QED BY <1>2, <1>4 DEF Tree!CirclesOnlyFromCrossedSaves

LEMMA SavesAreRows ==
  ASSUME TreeInv, NEW r \in Saves, save[r] # None
  PROVE  save[r] \in SaveRow /\ Sound(save[r])
BY DEF TreeInv, Tree!TypeOK, SavesChecked, SaveRow

(* A save stays sound while no store moves.                                *)
LEMMA SoundKept ==
  ASSUME \A s \in Stores : /\ tree[s] # None => tree'[s] # None
                           /\ Tree!Under(s)' = Tree!Under(s)
                           /\ Tree!Above(s)' = Tree!Above(s),
         NEW w \in SaveRow, Sound(w)
  PROVE  Sound(w)'
<1>1. /\ w.store \in Stores /\ w.visited \subseteq Stores
      /\ w.under = None \/ w.under \in Stores
  BY DEF SaveRow
<1>2. Walking(w) => Walking(w)'
  BY <1>1 DEF Walking
<1> QED BY <1>1, <1>2 DEF Sound

(* A save that is checked changes no store, and what                       *)
(* assertUnderStoreForSave found out is true of it.  A store still to be   *)
(* created is above no other.                                              *)
LEMMA CheckedKept ==
  ASSUME TreeInv, NEW r \in Saves, NEW s \in Stores, NEW b \in Seats,
         NEW u \in Stores \cup {None},
         Tree!CreateStore(r, s, b, u) \/ Tree!UpdateStore(r, s, b, u)
  PROVE  TreeInv'
<1> DEFINE new(c) == [store |-> s, branch |-> b, under |-> u, create |-> c, crossed |-> FALSE,
                      at |-> IF c THEN None ELSE u, visited |-> {}]
<1>1. PICK c \in BOOLEAN :
        /\ save' = [save EXCEPT ![r] = new(c)]
        /\ ~c => tree[s] # None
        /\ c => tree[s] = None
        /\ UNCHANGED <<tree, branch, crossed>>
        /\ u # None => u # s /\ tree[u] # None
  <2>1. CASE Tree!CreateStore(r, s, b, u)
    <3>1. /\ save' = [save EXCEPT ![r] = new(TRUE)] /\ tree[s] = None
          /\ UNCHANGED <<tree, branch, crossed>>
          /\ u # None => u # s /\ tree[u] # None
      BY <2>1 DEF Tree!CreateStore, Tree!UnderStoreForSave
    <3> HIDE DEF new
    <3> QED BY <3>1
  <2>2. CASE Tree!UpdateStore(r, s, b, u)
    <3>1. /\ save' = [save EXCEPT ![r] = new(FALSE)] /\ tree[s] # None
          /\ UNCHANGED <<tree, branch, crossed>>
          /\ u # None => u # s /\ tree[u] # None
      BY <2>2 DEF Tree!UpdateStore, Tree!UnderStoreForSave
    <3> HIDE DEF new
    <3> QED BY <3>1
  <2> QED BY <2>1, <2>2
<1>1a. PICK n : n = new(c)
  OBVIOUS
<1>1b. /\ n \in SaveRow
       /\ n.store = s /\ n.under = u /\ n.create = c /\ n.visited = {}
       /\ n.at = IF c THEN None ELSE u
       /\ save' = [save EXCEPT ![r] = n]
  BY <1>1, <1>1a DEF SaveRow
<1> HIDE DEF new
<1>2. Tree!TypeOK' /\ ParentsExist'
  BY <1>1, <1>1b DEF TreeInv, Tree!TypeOK, ParentsExist, Tree!Under, SaveRow
<1>3. \A t \in Stores : Tree!Under(t)' = Tree!Under(t)
  BY <1>1 DEF Tree!Under
<1>4. (\A t \in Stores : Tree!Above(t)' = Tree!Above(t)) /\ Tree!CirclesOnlyFromCrossedSaves'
  BY <1>1, <1>2, <1>3, NothingMoves
<1>5. Sound(n)
  <2>1. CASE u = None
    BY <1>1, <1>1b, <2>1 DEF Sound
  <2>2. CASE u # None /\ ~c
    BY <1>1, <1>1b, <2>2 DEF Sound, Walking
  <2>3. CASE u # None /\ c
    <3> DEFINE C == {t \in Stores : tree[t] # None}
    <3>1. Onto(C) /\ u \in C /\ s \notin C
      <4>1. u \in C /\ s \notin C
        BY <1>1, <2>3
      <4>2. ASSUME NEW t \in C, Tree!Under(t) # None PROVE Tree!Under(t) \in C
        BY <4>2 DEF TreeInv, Tree!TypeOK, ParentsExist, Tree!Under, Tree!Row
      <4> QED BY <4>1, <4>2 DEF Onto
    <3> HIDE DEF C
    <3>2. Tree!Above(u) \subseteq C
      BY <2>3, <3>1, AboveIsLeast DEF Least, TreeInv
    <3> QED BY <1>1, <1>1b, <2>3, <3>1, <3>2 DEF Sound
  <2> QED BY <2>1, <2>2, <2>3
<1>6. SavesChecked'
  <2> SUFFICES ASSUME NEW q \in Saves, NEW z, z = save'[q], z # None PROVE Sound(z)'
    BY DEF SavesChecked
  <2>1. z \in SaveRow /\ Sound(z)
    <3>1. CASE q = r
      BY <1>1b, <1>5, <3>1 DEF TreeInv, Tree!TypeOK
    <3>2. CASE q # r
      <4>1. z = save[q]
        BY <1>1b, <3>2 DEF TreeInv, Tree!TypeOK
      <4> QED BY <4>1, SavesAreRows
    <3> QED BY <3>1, <3>2
  <2> QED BY <1>1, <1>3, <1>4, <2>1, SoundKept
<1> QED BY <1>2, <1>4, <1>6 DEF TreeInv

(* Switching a store moves none.                                           *)
LEMMA SwitchKept ==
  ASSUME TreeInv, NEW s \in Stores, Tree!UpdateStoreStatus(s)
  PROVE  TreeInv'
<1>1. /\ tree[s] # None /\ tree' = [tree EXCEPT ![s].active = ~@]
      /\ UNCHANGED <<branch, save, crossed>>
  BY DEF Tree!UpdateStoreStatus
<1>2. Tree!TypeOK'
  BY <1>1 DEF TreeInv, Tree!TypeOK, Tree!Row
<1>3. \A t \in Stores : /\ tree'[t] = None <=> tree[t] = None
                        /\ Tree!Under(t)' = Tree!Under(t)
  <2> SUFFICES ASSUME NEW t \in Stores
               PROVE  /\ tree'[t] = None <=> tree[t] = None
                      /\ Tree!Under(t)' = Tree!Under(t)
    OBVIOUS
  <2>1. CASE t = s
    <3>1. /\ tree[s] \in Tree!Row /\ tree'[s] \in Tree!Row
          /\ tree'[s].under = tree[s].under
      BY <1>1 DEF TreeInv, Tree!TypeOK, Tree!Row
    <3> QED BY <2>1, <3>1, NoneIsNoStore DEF Tree!Under
  <2>2. CASE t # s
    BY <1>1, <2>2 DEF TreeInv, Tree!TypeOK, Tree!Under
  <2> QED BY <2>1, <2>2
<1>4. (\A t \in Stores : Tree!Above(t)' = Tree!Above(t)) /\ Tree!CirclesOnlyFromCrossedSaves'
  BY <1>1, <1>2, <1>3, NothingMoves
<1>5. ParentsExist'
  BY <1>3 DEF TreeInv, ParentsExist
<1>6. SavesChecked'
  <2> SUFFICES ASSUME NEW q \in Saves, NEW z, z = save'[q], z # None PROVE Sound(z)'
    BY DEF SavesChecked
  <2>1. z \in SaveRow /\ Sound(z)
    BY <1>1, SavesAreRows
  <2> QED BY <1>3, <1>4, <2>1, SoundKept
<1> QED BY <1>2, <1>4, <1>5, <1>6 DEF TreeInv

(* A save that no other one crossed makes no circle: what is above its     *)
(* new parent is the same before and after, and the store is not in it.    *)
LEMMA SaveKept ==
  ASSUME TreeInv, NEW r \in Saves, Tree!SaveStore(r)
  PROVE  TreeInv'
<1>0. PICK w : w = save[r]
  OBVIOUS
<1>1. /\ w \in SaveRow
      /\ tree' = [tree EXCEPT ![w.store] =
           [branch |-> w.branch, under |-> w.under,
            active |-> IF w.create THEN TRUE ELSE @.active]]
      /\ crossed' = IF w.crossed THEN crossed \cup {w.store} ELSE crossed
      /\ save' = [q \in Saves |->
           IF q = r \/ save[q] = None THEN None ELSE [save[q] EXCEPT !.crossed = TRUE]]
      /\ UNCHANGED branch
      /\ w.under # None => tree[w.under] # None
      /\ ~w.create => tree[w.store] # None
      /\ ~w.crossed /\ w.under # None => w.store \notin Tree!Above(w.under)
  <2>1. w # None /\ w.at = None
    BY <1>0 DEF Tree!SaveStore
  <2>2. w \in SaveRow /\ Sound(w)
    BY <1>0, <2>1, SavesAreRows
  <2> QED BY <1>0, <2>1, <2>2 DEF Tree!SaveStore, Sound
<1>2a. [branch |-> w.branch, under |-> w.under,
        active |-> IF w.create THEN TRUE ELSE tree[w.store].active]
         \in Tree!Row
  <2>1. tree \in [Stores -> Tree!Row \cup {None}]
    BY DEF TreeInv, Tree!TypeOK
  <2> QED BY <1>1, <2>1 DEF Tree!Row, SaveRow
<1>2. Tree!TypeOK'
  <2>1. tree \in [Stores -> Tree!Row \cup {None}]
    BY DEF TreeInv, Tree!TypeOK
  <2>2. [branch |-> w.branch, under |-> w.under,
          active |-> IF w.create THEN TRUE ELSE tree[w.store].active]
           \in Tree!Row
    BY <1>2a
  <2>3. tree' \in [Stores -> Tree!Row \cup {None}]
    BY <1>1, <2>1, <2>2 DEF SaveRow
  <2>4. save' \in [Saves -> SaveRow \cup {None}]
    BY <1>1 DEF TreeInv, Tree!TypeOK, SaveRow
  <2>5. crossed' \subseteq Stores
    BY <1>1 DEF TreeInv, Tree!TypeOK, SaveRow
  <2> QED BY <1>1, <2>3, <2>4, <2>5 DEF TreeInv, Tree!TypeOK, SaveRow
<1>3. /\ Tree!Under(w.store)' = w.under
      /\ \A t \in Stores \ {w.store} : Tree!Under(t)' = Tree!Under(t)
      /\ \A t \in Stores : tree[t] # None => tree'[t] # None
      /\ tree'[w.store] # None
  <2>1. tree'[w.store] # None /\ tree'[w.store].under = w.under
    <3>1. tree'[w.store].under = w.under
      BY <1>1 DEF TreeInv, Tree!TypeOK, SaveRow
    <3>2. tree'[w.store] \in Tree!Row
      BY <1>1, <1>2a DEF TreeInv, Tree!TypeOK, SaveRow
    <3> QED BY <3>1, <3>2, NoneIsNoStore
  <2>2. \A t \in Stores \ {w.store} : tree'[t] = tree[t]
    <3>1. tree \in [Stores -> Tree!Row \cup {None}]
      BY DEF TreeInv, Tree!TypeOK
    <3> QED BY <1>1, <3>1
  <2>3. w.store \in Stores
    BY <1>1 DEF SaveRow
  <2>4. Tree!Under(w.store)' = w.under
    BY <2>1 DEF Tree!Under
  <2>5. \A t \in Stores \ {w.store} : Tree!Under(t)' = Tree!Under(t)
    BY <2>2 DEF Tree!Under
  <2>6. \A t \in Stores : tree[t] # None => tree'[t] # None
    BY <2>1, <2>2, <2>3
  <2> QED BY <2>1, <2>4, <2>5, <2>6
<1>4. ParentsExist'
  BY <1>1, <1>3, NoneIsNoStore DEF TreeInv, ParentsExist, SaveRow
<1>5. SavesChecked'
  <2> SUFFICES ASSUME NEW q \in Saves, NEW z, z = save'[q], z # None
               PROVE  /\ z.under # None => tree'[z.under] # None
                      /\ ~z.create => tree'[z.store] # None
                      /\ z.crossed
    BY DEF SavesChecked, Sound
  <2>1. save[q] # None /\ z = [save[q] EXCEPT !.crossed = TRUE]
    BY <1>1
  <2>2. save[q] \in SaveRow /\ Sound(save[q])
    BY <2>1, SavesAreRows
  <2>3. /\ z.under = save[q].under /\ z.create = save[q].create
        /\ z.store = save[q].store /\ z.crossed
    BY <2>1, <2>2 DEF SaveRow
  <2> QED BY <1>3, <2>2, <2>3 DEF SaveRow, Sound
<1>6. Least /\ Least' /\ Circles /\ Circles'
  BY <1>2, AboveIsLeast, CirclesAre, PTL DEF TreeInv
<1>7. \A s \in Stores : Tree!Under(s) \in Stores \cup {None} /\ Tree!Under(s)' \in Stores \cup {None}
  BY <1>2 DEF TreeInv, Tree!TypeOK, Tree!Under, Tree!Row
<1>8. ASSUME NEW s \in Stores, w.store \notin Tree!Above(s)'
      PROVE  Tree!Above(s)' = Tree!Above(s)
  <2>1. \A t \in Tree!Above(s)' : Tree!Under(t)' = Tree!Under(t)
    BY <1>3, <1>6, <1>8 DEF Least
  <2> QED BY <1>6, <2>1, SameWalk
<1>9. ASSUME NEW s \in Stores, Tree!InCycle(s)'
      PROVE  \E t \in Tree!Above(s)' : t \in crossed'
  <2>1. Round(s)'
    BY <1>6, <1>9 DEF Circles
  <2>2. CASE w.store \notin Tree!Above(s)'
    <3>1. Tree!Above(s)' = Tree!Above(s) /\ s # w.store
      BY <1>6, <1>8, <2>2 DEF Least
    <3>2. PICK v : v = Tree!Under(s)
      OBVIOUS
    <3>3. v = Tree!Under(s)' /\ v \in Stores /\ v \in Tree!Above(s)' /\ s \in Tree!Above(v)'
      BY <1>3, <1>6, <1>7, <2>1, <3>1, <3>2 DEF Round, Least, Onto
    <3>4. Tree!Above(v)' \subseteq Tree!Above(s)'
      BY <1>6, <3>3 DEF Least
    <3>5. Tree!Above(v)' = Tree!Above(v)
      BY <1>8, <2>2, <3>3, <3>4
    <3>6. Round(s)
      BY <2>1, <3>2, <3>3, <3>5 DEF Round
    <3>7. \E t \in Tree!Above(s) : t \in crossed
      BY <1>6, <3>6 DEF Circles, TreeInv, Tree!CirclesOnlyFromCrossedSaves
    <3> QED BY <1>1, <3>1, <3>7
  <2>3. CASE w.store \in Tree!Above(s)' /\ w.crossed
    BY <1>1, <2>3
  <2>4. CASE w.store \in Tree!Above(s)' /\ ~w.crossed
    <3>1. PICK u : u = w.under
      OBVIOUS
    <3>3. Round(w.store)'
      BY <1>6, <2>1, <2>4 DEF Circles
    <3>4. u = Tree!Under(w.store)' /\ u # None /\ u \in Stores /\ w.store \in Tree!Above(u)'
      BY <1>1, <1>3, <3>1, <3>3 DEF Round, SaveRow
    <3>5. \A t \in Tree!Above(u) : t # w.store /\ t \in Stores
      BY <1>1, <1>6, <2>4, <3>1, <3>4 DEF Least
    <3>6. \A t \in Tree!Above(u) : Tree!Under(t)' = Tree!Under(t)
      BY <1>3, <3>5
    <3>7. Tree!Above(u)' = Tree!Above(u)
      BY <1>6, <3>4, <3>6, SameWalk
    <3> QED BY <3>4, <3>5, <3>7
  <2> QED BY <2>2, <2>3, <2>4
<1> QED BY <1>2, <1>4, <1>5, <1>9 DEF TreeInv, Tree!CirclesOnlyFromCrossedSaves

(* A walk that is over has been at every store above the chosen one.       *)
LEMMA WalkKept ==
  ASSUME TreeInv, NEW r \in Saves, Tree!WalkUp(r)
  PROVE  TreeInv'
<1>0. PICK w : w = save[r]
  OBVIOUS
<1>1. /\ w # None /\ w.at # None
      /\ save' = [save EXCEPT ![r] = IF Tree!Under(w.at) = w.store THEN None ELSE Tree!Walked(w)]
      /\ UNCHANGED <<tree, branch, crossed>>
  BY <1>0 DEF Tree!WalkUp
<1>2. w \in SaveRow /\ Sound(w)
  BY <1>0, <1>1, SavesAreRows
<1>3. PICK up : up = Tree!Under(w.at)
  OBVIOUS
<1>4. up \in Stores \cup {None} /\ w.at \in Stores
  BY <1>1, <1>2, <1>3 DEF TreeInv, Tree!TypeOK, Tree!Under, Tree!Row, SaveRow
<1>5. PICK n : n = Tree!Walked(w)
  OBVIOUS
<1>6. /\ n \in SaveRow
      /\ n.store = w.store /\ n.under = w.under /\ n.create = w.create
      /\ n.crossed = w.crossed
      /\ IF up \in w.visited \cup {w.at, None} THEN n.at = None
         ELSE n.at = up /\ n.visited = w.visited \cup {w.at}
  <2>1. CASE up \in w.visited \cup {w.at, None}
    <3>1. n = [w EXCEPT !.at = None, !.visited = {}]
      BY <1>3, <1>5, <2>1 DEF Tree!Walked, Tree!WalkOver
    <3> QED BY <1>2, <2>1, <3>1 DEF SaveRow
  <2>2. CASE up \notin w.visited \cup {w.at, None}
    <3>1. n = [w EXCEPT !.at = up, !.visited = @ \cup {w.at}]
      BY <1>3, <1>5, <2>2 DEF Tree!Walked
    <3> QED BY <1>2, <1>4, <2>2, <3>1 DEF SaveRow
  <2> QED BY <2>1, <2>2
<1>7. Tree!TypeOK' /\ \A t \in Stores : tree'[t] = tree[t] /\ Tree!Under(t)' = Tree!Under(t)
  BY <1>1, <1>5, <1>6 DEF TreeInv, Tree!TypeOK, SaveRow, Tree!Under
<1>8. (\A t \in Stores : Tree!Above(t)' = Tree!Above(t)) /\ Tree!CirclesOnlyFromCrossedSaves'
  BY <1>1, <1>7, NothingMoves
<1>9. up # w.store => Sound(n)
  <2> SUFFICES ASSUME up # w.store, ~w.crossed, w.under # None
               PROVE  IF n.at = None THEN w.store \notin Tree!Above(w.under) ELSE Walking(n)
    BY <1>2, <1>6 DEF Sound
  <2>1. Walking(w)
    BY <1>1, <1>2 DEF Sound
  <2>2. CASE up \in w.visited \cup {w.at, None}
    <3> DEFINE C == w.visited \cup {w.at}
    <3>1. w.under \in C /\ w.store \notin C /\ Onto(C)
      BY <1>3, <2>1, <2>2 DEF Walking, Onto
    <3> HIDE DEF C
    <3>2. w.under \in Stores
      BY <1>2 DEF SaveRow
    <3>3. Tree!Above(w.under) \subseteq C
      BY <3>1, <3>2, AboveIsLeast DEF Least, TreeInv
    <3> QED BY <1>6, <2>2, <3>1, <3>3
  <2>3. CASE up \notin w.visited \cup {w.at, None}
    BY <1>3, <1>6, <2>1, <2>3 DEF Walking
  <2> QED BY <2>2, <2>3
<1>10. SavesChecked'
  <2> SUFFICES ASSUME NEW q \in Saves, NEW z, z = save'[q], z # None PROVE Sound(z)'
    BY DEF SavesChecked
  <2>1. z \in SaveRow /\ Sound(z)
    <3>1. CASE q = r
      BY <1>1, <1>3, <1>5, <1>6, <1>9, <3>1 DEF TreeInv, Tree!TypeOK
    <3>2. CASE q # r
      <4>1. z = save[q]
        BY <1>1, <3>2 DEF TreeInv, Tree!TypeOK
      <4> QED BY <4>1, SavesAreRows
    <3> QED BY <3>1, <3>2
  <2> QED BY <1>7, <1>8, <2>1, SoundKept
<1>11. ParentsExist'
  BY <1>1, <1>7 DEF TreeInv, ParentsExist
<1> QED BY <1>7, <1>8, <1>10, <1>11 DEF TreeInv

(* Every step of StoreTree keeps the invariant.                            *)
LEMMA TreeInvKept == TreeInv /\ [Tree!Next]_Tree!vars => TreeInv'
<1> SUFFICES ASSUME TreeInv, [Tree!Next]_Tree!vars PROVE TreeInv'
  OBVIOUS
<1>1. ASSUME NEW r \in Saves, NEW s \in Stores, NEW b \in Seats,
             NEW u \in Stores \cup {None},
             Tree!CreateStore(r, s, b, u) \/ Tree!UpdateStore(r, s, b, u)
      PROVE  TreeInv'
  BY <1>1, CheckedKept
<1>2. ASSUME NEW r \in Saves, Tree!SaveStore(r) PROVE TreeInv'
  BY <1>2, SaveKept
<1>3. ASSUME NEW s \in Stores, Tree!UpdateStoreStatus(s) PROVE TreeInv'
  BY <1>3, SwitchKept
<1>3a. ASSUME NEW r \in Saves, Tree!WalkUp(r) PROVE TreeInv'
  BY <1>3a, WalkKept
<1>4. ASSUME UNCHANGED <<tree, crossed>>, Tree!TypeOK',
             \A r \in Saves : save'[r] = save[r] \/ save'[r] = None
      PROVE  TreeInv'
  <2>1. \A t \in Stores : Tree!Under(t)' = Tree!Under(t)
    BY <1>4 DEF Tree!Under
  <2>2. (\A t \in Stores : Tree!Above(t)' = Tree!Above(t)) /\ Tree!CirclesOnlyFromCrossedSaves'
    BY <1>4, <2>1, NothingMoves
  <2>3. ParentsExist'
    BY <1>4 DEF TreeInv, ParentsExist, Tree!Under
  <2>4. SavesChecked'
    <3> SUFFICES ASSUME NEW r \in Saves, NEW z, z = save'[r], z # None PROVE Sound(z)'
      BY DEF SavesChecked
    <3>1. z \in SaveRow /\ Sound(z)
      BY <1>4, SavesAreRows
    <3> QED BY <1>4, <2>1, <2>2, <3>1, SoundKept
  <2> QED BY <1>4, <2>2, <2>3, <2>4 DEF TreeInv
<1>5. ASSUME NEW r \in Saves, Tree!SaveRefused(r) PROVE TreeInv'
  <2>1. /\ UNCHANGED <<tree, crossed>> /\ Tree!TypeOK'
        /\ \A q \in Saves : save'[q] = save[q] \/ save'[q] = None
    BY <1>5 DEF Tree!SaveRefused, TreeInv, Tree!TypeOK
  <2> QED BY <1>4, <2>1
<1>6. ASSUME NEW b \in Seats, Tree!UpdateBranchStatus(b) PROVE TreeInv'
  <2>1. /\ UNCHANGED <<tree, crossed>> /\ Tree!TypeOK'
        /\ \A q \in Saves : save'[q] = save[q] \/ save'[q] = None
    BY <1>6 DEF Tree!UpdateBranchStatus, TreeInv, Tree!TypeOK
  <2> QED BY <1>4, <2>1
<1>7. CASE UNCHANGED Tree!vars
  <2>1. /\ UNCHANGED <<tree, crossed>> /\ Tree!TypeOK'
        /\ \A q \in Saves : save'[q] = save[q] \/ save'[q] = None
    BY <1>7 DEF Tree!vars, TreeInv, Tree!TypeOK
  <2> QED BY <1>4, <2>1
<1> QED BY <1>1, <1>2, <1>3, <1>3a, <1>5, <1>6, <1>7 DEF Tree!Next

(* There is a circle of stores only where a store in it was saved while    *)
(* another save was under way.                                             *)
THEOREM TreeStaysATree == Tree!Spec => [](Tree!TypeOK /\ Tree!CirclesOnlyFromCrossedSaves)
<1>1. TreeInv => Tree!TypeOK /\ Tree!CirclesOnlyFromCrossedSaves
  BY DEF TreeInv
<1> QED BY <1>1, TreeInvAtFirst, TreeInvKept, PTL DEF Tree!Spec

-----------------------------------------------------------------------------
(* The set-up page.                                                        *)

(* No two calls have one number, and none is above the counter.            *)
CallsNumbered ==
  /\ \A c \in calls : c.id <= latest
  /\ \A c, d \in calls : c.id = d.id => c = d

(* The page is told of a save after the server has made it.               *)
SavesInOrder == own <= saved

(* An answer to the search, with the saves the page was told of.           *)
Right(c) == (c.search = search \/ former) /\ c.seen >= own

(* The last call, or the list if that call is over, answers the search and *)
(* contains the saves.                                                     *)
LastIsRight ==
  /\ \A c \in calls : c.id = latest =>
       /\ c.search = search \/ former
       /\ c.seen # None => Right(c)
  /\ (\A c \in calls : c.id # latest) /\ shown # None => Right(shown)

PageInv == Page!TypeOK /\ CallsNumbered /\ SavesInOrder /\ LastIsRight

(* The first call is numbered, and is for the search of the page.          *)
LEMMA PageInvAtFirst == Page!Init => PageInv
<1> SUFFICES ASSUME Page!Init PROVE PageInv
  OBVIOUS
<1>1. PICK s \in Searches : /\ typed = s /\ search = s /\ shown = None /\ saving = None
                            /\ inputs = 0 /\ latest = 1 /\ saved = 0 /\ own = 0
                            /\ former = FALSE
                            /\ calls = {[id |-> 1, search |-> s, seen |-> None]}
  BY DEF Page!Init
<1>2. Page!TypeOK
  <2>1. [id |-> 1, search |-> s, seen |-> None] \in Page!Call
    BY DEF Page!Call
  <2> QED BY <1>1, <2>1 DEF Page!TypeOK
<1> QED BY <1>1, <1>2 DEF PageInv, CallsNumbered, SavesInOrder, LastIsRight, Right

(* A new call is the last one, whatever calls are still under way.         *)
LEMMA LoadKeepsOrder ==
  ASSUME Page!TypeOK, CallsNumbered, NEW s \in Searches, Page!Load(s)
  PROVE  /\ latest' = latest + 1 /\ latest' \in Nat
         /\ calls' \subseteq Page!Call
         /\ CallsNumbered'
         /\ \A c \in calls' : c.id = latest' => c.search = s /\ c.seen = None
         /\ \E c \in calls' : c.id = latest'
<1> DEFINE new == [id |-> latest + 1, search |-> s, seen |-> None]
<1>1. /\ latest \in Nat /\ latest' = latest + 1 /\ calls' = calls \cup {new}
      /\ new \in Page!Call /\ \A c \in calls : c.id \in Nat
      /\ new.id = latest + 1 /\ new.search = s /\ new.seen = None
  BY DEF Page!Load, Page!TypeOK, Page!Call
<1> HIDE DEF new
<1> QED BY <1>1 DEF CallsNumbered, Page!TypeOK

(* Every step of ListPage keeps the invariant.                             *)
LEMMA PageInvKept == PageInv /\ [Page!Next]_Page!vars => PageInv'
<1> SUFFICES ASSUME PageInv, [Page!Next]_Page!vars PROVE PageInv'
  OBVIOUS
<1> USE DEF PageInv
<1>0. None \notin Searches
  BY OfficeAssumption DEF Page!ListPageAssumption
<1>1. ASSUME NEW s \in Searches, Page!Type(s) PROVE PageInv'
  BY <1>1 DEF Page!Type, Page!TypeOK, CallsNumbered, SavesInOrder, LastIsRight, Right
<1>2. CASE Page!ApplySearch
  <2>1. Page!Load(typed) /\ typed \in Searches
    BY <1>2 DEF Page!ApplySearch, Page!TypeOK
  <2>2. Page!TypeOK' /\ SavesInOrder'
    BY <1>2, <2>1, LoadKeepsOrder DEF Page!ApplySearch, Page!TypeOK, SavesInOrder
  <2>3. LastIsRight'
    BY <1>2, <2>1, LoadKeepsOrder DEF Page!ApplySearch, LastIsRight, Right
  <2> QED BY <2>1, <2>2, <2>3, LoadKeepsOrder
<1>3. ASSUME NEW c \in calls, Page!ServerReads(c) PROVE PageInv'
  <2> DEFINE read == [c EXCEPT !.seen = saved]
  <2>1. /\ read \in Page!Call /\ read.id = c.id /\ read.search = c.search
        /\ read.seen = saved
    BY DEF Page!TypeOK, Page!Call
  <2>2. /\ calls' = (calls \ {c}) \cup {read} /\ saved >= own
        /\ UNCHANGED <<typed, inputs, search, latest, shown, saving, saved, own, former>>
    BY <1>3 DEF Page!ServerReads, SavesInOrder
  <2> HIDE DEF read
  <2>3. Page!TypeOK' /\ SavesInOrder'
    BY <2>1, <2>2 DEF Page!TypeOK, SavesInOrder
  <2>4. CallsNumbered'
    BY <2>1, <2>2 DEF CallsNumbered
  <2>5. LastIsRight'
    BY <2>1, <2>2 DEF LastIsRight, Right
  <2> QED BY <2>3, <2>4, <2>5
<1>4. ASSUME NEW c \in calls, Page!Answered(c) \/ Page!CallFails(c) PROVE PageInv'
  <2>1. /\ calls' = calls \ {c} /\ c \in Page!Call
        /\ UNCHANGED <<typed, inputs, search, latest, saving, saved, own, former>>
        /\ IF c.id = latest THEN shown' = None \/ (c.seen # None /\ shown' = [search |-> c.search, seen |-> c.seen])
                            ELSE shown' = shown
    BY <1>4 DEF Page!Answered, Page!CallFails, Page!IsLatest, Page!TypeOK
  <2>2. Page!TypeOK' /\ SavesInOrder' /\ CallsNumbered'
    BY <2>1 DEF Page!TypeOK, SavesInOrder, CallsNumbered, Page!Call
  <2>3. LastIsRight'
    BY <2>1 DEF LastIsRight, Right, CallsNumbered
  <2> QED BY <2>2, <2>3
<1>5. CASE Page!ToggleStatus
  BY <1>5 DEF Page!ToggleStatus, Page!TypeOK, CallsNumbered, SavesInOrder, LastIsRight, Right
<1>6. CASE Page!ServerSaves \/ Page!SaveFails
  <2>1. /\ saving' \in [search : Searches, made : BOOLEAN] \cup {None}
        /\ saved' \in Nat /\ own <= saved'
        /\ UNCHANGED <<typed, inputs, search, latest, calls, shown, own, former>>
    <3>1. CASE Page!ServerSaves
      <4>1. saving \in [search : Searches, made : BOOLEAN]
        BY <3>1 DEF Page!ServerSaves, Page!TypeOK
      <4>2. saving' \in [search : Searches, made : BOOLEAN]
        BY <3>1, <4>1 DEF Page!ServerSaves
      <4> QED BY <3>1, <4>2 DEF Page!ServerSaves, Page!TypeOK, SavesInOrder
    <3>2. CASE Page!SaveFails
      BY <3>2 DEF Page!SaveFails, Page!TypeOK, SavesInOrder
    <3> QED BY <1>6, <3>1, <3>2
  <2> QED BY <2>1 DEF Page!TypeOK, CallsNumbered, SavesInOrder, LastIsRight, Right
<1>7. CASE Page!ReloadAfterSave
  <2>1. Page!Load(saving.search) /\ saving.search \in Searches
    BY <1>7 DEF Page!ReloadAfterSave, Page!TypeOK
  <2>2. Page!TypeOK' /\ SavesInOrder'
    BY <1>7, <2>1, LoadKeepsOrder DEF Page!ReloadAfterSave, Page!TypeOK, SavesInOrder
  <2>3. LastIsRight'
    BY <1>7, <2>1, LoadKeepsOrder DEF Page!ReloadAfterSave, LastIsRight, Right
  <2> QED BY <2>1, <2>2, <2>3, LoadKeepsOrder
<1>8. CASE UNCHANGED Page!vars
  BY <1>8 DEF Page!vars, Page!TypeOK, CallsNumbered, SavesInOrder, LastIsRight, Right
<1> QED BY <1>1, <1>2, <1>3, <1>4, <1>5, <1>6, <1>7, <1>8 DEF Page!Next

(* With nothing under way the last call is over, and the list is its       *)
(* answer.                                                                 *)
LEMMA SettledIsRight ==
  PageInv => Page!SettledListAnswersTheSearch /\ Page!SettledListShowsOwnSaves
BY DEF PageInv, LastIsRight, Right, Page!SettledListAnswersTheSearch,
       Page!SettledListShowsOwnSaves, Page!Settled, Page!TypeOK

(* A list that has settled answers the search and shows what the page has  *)
(* saved, whatever calls overlapped and whichever failed (useListPage):    *)
(* the last call is the one the page listens to.                           *)
THEOREM ListSettlesRight ==
  Page!Spec => [](Page!SettledListAnswersTheSearch /\ Page!SettledListShowsOwnSaves)
BY PageInvAtFirst, PageInvKept, SettledIsRight, PTL DEF Page!Spec

-----------------------------------------------------------------------------
(* Forms.                                                                  *)

(* A document that is there has a content.                                 *)
RowsFilled ==
  \A d \in Documents : row[d].status # "ABSENT" => row[d].content \in Contents

(* A page for editing holds the stored content, or an older version.       *)
PageIsKnown ==
  page.mode = "edit" =>
    /\ page.doc \in Documents
    /\ page.version <= row[page.doc].version
    /\ ~overtaken /\ page.version = row[page.doc].version
         => row[page.doc].content = page.basis

(* A save under way is one of this page.                                   *)
SavingFromPage ==
  /\ sent.step \in {"saving", "saved"} => sent.content \in Contents
  /\ sent.step = "saving" =>
       /\ page.mode # "left"
       /\ page.mode = "edit" => sent.doc = page.doc /\ sent.expected = page.version

(* What a save has written stays until the document is written again, and  *)
(* that gives it a higher version.                                         *)
SavedIsThere ==
  sent.step = "saved" =>
    /\ sent.doc \in Documents
    /\ sent.wrote <= row[sent.doc].version
    /\ sent.wrote = row[sent.doc].version => row[sent.doc].content = sent.content
    /\ page.mode = "edit" => sent.doc = page.doc /\ page.version < sent.wrote

SubmittingIsThere ==
  sent.step = "submitting" =>
    /\ sent.doc \in Documents
    /\ sent.expected <= row[sent.doc].version
    /\ ~overtaken /\ sent.expected = row[sent.doc].version
         => row[sent.doc].content = sent.content

CreatedStay == \A d \in created : row[d].status # "ABSENT"

(* A page that has created a document is on its way to hand it in, or has  *)
(* shown an error since, or is left.                                       *)
ErrorsAreShown ==
  page.mode = "create" /\ created # {} /\ sent.step \in {"none", "saving"} => failed

(* The inductive invariant.                                                *)
FormInv ==
  /\ Form!TypeOK
  /\ RowsFilled /\ PageIsKnown /\ SavingFromPage
  /\ SavedIsThere /\ SubmittingIsThere
  /\ CreatedStay /\ ErrorsAreShown

USE DEF Form!Editable, Form!Kinds, Form!NoRow, Form!NewPage, Form!Left, Form!Silent

(* The types of TypeOK, by name.                                           *)
FormRow == [status : Form!Editable \cup {"ABSENT", "PENDING"}, version : Nat,
        content : Contents \cup {None}]
FormPage == [mode : {"create", "edit", "left"}, doc : Documents \cup {None},
         version : Nat, basis : Contents \cup {None}]
FormCall == [step : {"none", "saving", "saved", "submitting", "submitted"},
         submit : BOOLEAN, doc : Documents \cup {None}, expected : Nat,
         wrote : Nat, content : Contents \cup {None}]

(* No call is a call.                                                      *)
LEMMA SilentTyped == Form!Silent \in FormCall
<1>1. PICK b \in {FALSE} : Form!Silent = [step |-> "none", submit |-> b, doc |-> None,
                                     expected |-> 0, wrote |-> 0, content |-> None]
  OBVIOUS
<1>. QED
  BY <1>1 DEF FormCall

(* An updated row is a row.                                                *)
LEMMA UpdatedTyped ==
  ASSUME NEW r \in FormRow, NEW v \in Nat, NEW c \in Contents
  PROVE  [r EXCEPT !.version = v, !.content = c] \in FormRow
BY DEF FormRow

(* A page that keeps the answer is a page.                                 *)
LEMMA KeptTyped ==
  ASSUME NEW p \in FormPage, NEW v \in Nat, NEW c \in Contents
  PROVE  LET kept == [p EXCEPT !.version = v, !.basis = c] IN
         /\ kept \in FormPage
         /\ kept.mode = p.mode /\ kept.doc = p.doc
         /\ kept.version = v /\ kept.basis = c
BY DEF FormPage

(* The second call is a call.                                              *)
LEMMA GoingTyped ==
  ASSUME NEW s \in FormCall, NEW v \in Nat
  PROVE  LET going == [s EXCEPT !.step = "submitting", !.expected = v] IN
         /\ going \in FormCall
         /\ going.step = "submitting" /\ going.expected = v
         /\ going.doc = s.doc /\ going.content = s.content
BY DEF FormCall

(* So is the first one when it has written.                                *)
LEMMA WroteTyped ==
  ASSUME NEW s \in FormCall, NEW v \in Nat
  PROVE  [s EXCEPT !.step = "saved", !.wrote = v] \in FormCall
BY DEF FormCall

(* A form that was just opened satisfies the invariant.                    *)
LEMMA FormInvAtFirst == Form!Init => FormInv
<1> SUFFICES ASSUME Form!Init PROVE FormInv
  OBVIOUS
<1> USE DEF Form!Init
<1>1. Form!TypeOK
  <2>1. row \in [Documents -> [status : Form!Editable \cup {"ABSENT", "PENDING"},
                               version : Nat, content : Contents \cup {None}]]
    OBVIOUS
  <2>2. page \in [mode : {"create", "edit", "left"}, doc : Documents \cup {None},
                  version : Nat, basis : Contents \cup {None}]
    OBVIOUS
  <2>3. sent \in FormCall
    BY SilentTyped
  <2>. QED
    BY <2>1, <2>2, <2>3 DEF Form!TypeOK, FormCall
<1>. QED
  BY <1>1 DEF FormInv, RowsFilled, PageIsKnown, SavingFromPage, SavedIsThere,
              SubmittingIsThere, CreatedStay, ErrorsAreShown

(* Every step of EntryForm keeps the invariant.                            *)
LEMMA FormInvKept == FormInv /\ [Form!Next]_Form!vars => FormInv'
<1> SUFFICES ASSUME FormInv, [Form!Next]_Form!vars PROVE FormInv'
  OBVIOUS
<1> USE DEF FormInv, Form!TypeOK, RowsFilled, PageIsKnown, SavingFromPage, SavedIsThere,
            SubmittingIsThere, CreatedStay, ErrorsAreShown
<1>1. ASSUME NEW d \in Documents, Form!Open(d) PROVE FormInv'
  <2>1. row[d].content \in Contents
    BY <1>1 DEF Form!Open
  <2>2. Form!TypeOK'
    BY <1>1, <2>1 DEF Form!Open
  <2>3. (PageIsKnown /\ SavingFromPage /\ SavedIsThere /\ SubmittingIsThere)'
    BY <1>1 DEF Form!Open
  <2>4. (RowsFilled /\ CreatedStay /\ ErrorsAreShown)'
    BY <1>1 DEF Form!Open
  <2>. QED
    BY <2>2, <2>3, <2>4
<1>2. ASSUME NEW d \in Documents, Form!Created(d) PROVE FormInv'
  <2>1. Form!TypeOK'
    BY <1>2 DEF Form!Created
  <2>2. (RowsFilled /\ CreatedStay /\ ErrorsAreShown)'
    BY <1>2 DEF Form!Created
  <2>3. PageIsKnown'
    BY <1>2 DEF Form!Created
  <2>4. (SavingFromPage /\ SavedIsThere /\ SubmittingIsThere)'
    BY <1>2 DEF Form!Created
  <2>. QED
    BY <2>1, <2>2, <2>3, <2>4
<1>3. ASSUME NEW c \in Contents, Form!Type(c) PROVE FormInv'
  BY <1>3 DEF Form!Type
<1>4. ASSUME NEW submit \in BOOLEAN, Form!Save(submit) PROVE FormInv'
  BY <1>4 DEF Form!Save
<1>5. CASE Form!SentToOpenIssue
  BY <1>5 DEF Form!SentToOpenIssue
<1>6. CASE Form!Updated
  <2>1. Form!TypeOK'
    <3>1. sent.doc \in Documents
      BY <1>6 DEF Form!Updated
    <3>2. row[sent.doc].version + 1 \in Nat /\ sent.content \in Contents /\ sent \in FormCall
      BY <1>6, <3>1 DEF Form!Updated, FormCall
    <3>3. sent' \in FormCall
      BY <1>6, <3>2, WroteTyped DEF Form!Updated
    <3>4. row' \in [Documents -> FormRow]
      <4> DEFINE new == [row[sent.doc] EXCEPT !.version = row[sent.doc].version + 1,
                                              !.content = sent.content]
      <4>1. new \in FormRow
        BY <3>1, <3>2, UpdatedTyped DEF FormRow
      <4>2. row' = [row EXCEPT ![sent.doc] = new]
        BY <1>6 DEF Form!Updated
      <4> HIDE DEF new
      <4>. QED
        BY <4>1, <4>2 DEF FormRow
    <3>. QED
      BY <1>6, <3>3, <3>4 DEF Form!Updated, FormRow, FormCall
  <2>2. (RowsFilled /\ CreatedStay /\ ErrorsAreShown)'
    BY <1>6 DEF Form!Updated, Form!Current
  <2>3. PageIsKnown'
    BY <1>6 DEF Form!Updated, Form!Current
  <2>4. (SavingFromPage /\ SavedIsThere /\ SubmittingIsThere)'
    BY <1>6 DEF Form!Updated, Form!Current
  <2>. QED
    BY <2>1, <2>2, <2>3, <2>4
<1>7. CASE Form!Saved
  <2> DEFINE stored == row[sent.doc]
             kept == [page EXCEPT !.version = stored.version, !.basis = sent.content]
             going == [sent EXCEPT !.step = "submitting", !.expected = stored.version]
  <2>1. /\ sent.step = "saved"
        /\ UNCHANGED <<kind, row, entry, created, failed>>
        /\ overtaken' = (stored.version # sent.wrote)
    BY <1>7 DEF Form!Saved
  <2>2. /\ sent.doc \in Documents /\ stored.version \in Nat /\ sent.content \in Contents
        /\ page \in FormPage /\ sent \in FormCall
    BY <2>1 DEF FormPage, FormCall
  <2> HIDE DEF kept, going
  <2>3. /\ kept \in FormPage
        /\ kept.mode = page.mode /\ kept.doc = page.doc
        /\ kept.version = stored.version /\ kept.basis = sent.content
    BY <2>2, KeptTyped DEF kept
  <2>4. /\ going \in FormCall
        /\ going.step = "submitting" /\ going.expected = stored.version
        /\ going.doc = sent.doc /\ going.content = sent.content
    BY <2>2, GoingTyped DEF going
  <2>5. \/ ~sent.submit /\ page' = Form!Left /\ sent' = Form!Silent
        \/ ~sent.submit /\ page.mode = "edit" /\ page' = kept /\ sent' = Form!Silent
        \/ sent.submit /\ page.mode = "edit" /\ page' = kept /\ sent' = going
        \/ sent.submit /\ page' = page /\ sent' = going
    BY <1>7 DEF Form!Saved, Form!Kept, Form!StaysOnPage, kept, going
  <2>6. Form!TypeOK'
    <3>1. page' \in FormPage
      BY <2>2, <2>3, <2>5 DEF FormPage
    <3>2. sent' \in FormCall
      BY <2>4, <2>5, SilentTyped
    <3>. QED
      BY <2>1, <3>1, <3>2 DEF FormPage, FormCall
  <2>7. (RowsFilled /\ CreatedStay /\ ErrorsAreShown)'
    BY <2>1, <2>3, <2>4, <2>5
  <2>8. PageIsKnown'
    <3>1. CASE page' = Form!Left
      BY <3>1
    <3>2. CASE page.mode = "edit" /\ page' = kept
      <4>1. page'.doc = sent.doc /\ page'.version = stored.version /\ page'.basis = sent.content
        BY <2>1, <2>3, <3>2
      <4>2. ~overtaken' => stored.content = sent.content
        BY <2>1
      <4>. QED
        BY <2>1, <2>2, <4>1, <4>2
    <3>3. CASE page' = page
      BY <2>1, <2>2, <3>3
    <3>. QED
      BY <2>5, <3>1, <3>2, <3>3
  <2>9. (SavingFromPage /\ SavedIsThere /\ SubmittingIsThere)'
    <3>1. CASE sent' = Form!Silent
      BY <3>1
    <3>2. CASE sent' = going
      <4>1. ~overtaken' => stored.content = sent.content
        BY <2>1
      <4>. QED
        BY <2>1, <2>2, <2>4, <3>2, <4>1
    <3>. QED
      BY <2>5, <3>1, <3>2
  <2>. QED
    BY <2>6, <2>7, <2>8, <2>9
<1>8. CASE Form!Submitted
  <2>1. Form!TypeOK'
    BY <1>8 DEF Form!Submitted, Form!Current
  <2>2. (RowsFilled /\ CreatedStay /\ ErrorsAreShown)'
    BY <1>8 DEF Form!Submitted, Form!Current
  <2>3. PageIsKnown'
    BY <1>8 DEF Form!Submitted, Form!Current
  <2>4. (SavingFromPage /\ SavedIsThere /\ SubmittingIsThere)'
    BY <1>8 DEF Form!Submitted, Form!Current
  <2>. QED
    BY <2>1, <2>2, <2>3, <2>4
<1>9. CASE Form!Done
  BY <1>9 DEF Form!Done
<1>10. CASE Form!Failed
  BY <1>10 DEF Form!Failed
<1>11. ASSUME NEW d \in Documents, NEW status \in Form!Editable \cup {"PENDING"},
              NEW content \in Contents, Form!OtherWrites(d, status, content)
       PROVE  FormInv'
  BY <1>11 DEF Form!OtherWrites
<1>12. ASSUME NEW d \in Documents, NEW c \in Contents, Form!OtherCreates(d, c) \/ Form!OtherSaves(d, c)
       PROVE  FormInv'
  BY <1>11, <1>12 DEF Form!OtherCreates, Form!OtherSaves
<1>13. ASSUME NEW d \in Documents, Form!OtherSubmits(d) \/ Form!OtherReturns(d) PROVE FormInv'
  BY <1>11, <1>13 DEF Form!OtherSubmits, Form!OtherReturns
<1>14. CASE UNCHANGED Form!vars
  BY <1>14 DEF Form!vars
<1>. QED
  BY <1>1, <1>2, <1>3, <1>4, <1>5, <1>6, <1>7, <1>8, <1>9, <1>10, <1>12, <1>13, <1>14 DEF Form!Next

(* The variables of a form keep their types, for any entries and documents *)
(* (EntryForm's TypeOK).                                                   *)
THEOREM FormTyped == Form!Spec => []Form!TypeOK
<1>1. FormInv => Form!TypeOK
  BY DEF FormInv
<1>. QED
  BY FormInvAtFirst, FormInvKept, <1>1, PTL DEF Form!Spec

(* Every step is one that FormStep allows.                                 *)
LEMMA StepIsOfTheForm == FormInv /\ [Form!Next]_Form!vars => [Form!FormStep]_Form!vars
<1> SUFFICES ASSUME FormInv, Form!Next PROVE Form!FormStep
  BY DEF Form!FormStep, Form!vars
<1>1. Form!OverwritesOnlyWhatItKnows
  <2> SUFFICES ASSUME sent.step = "saving", sent'.step = "saved", page.mode = "edit"
               PROVE  row[page.doc].content = page.basis \/ overtaken
    BY DEF Form!OverwritesOnlyWhatItKnows
  <2>1. sent # Form!Silent /\ sent' # Form!Silent /\ sent' # sent
    OBVIOUS
  <2>2. (\E d \in Documents : Form!Created(d)) \/ Form!Updated
    BY <2>1 DEF Form!Next, Form!Open, Form!Type, Form!Save, Form!SentToOpenIssue, Form!Saved, Form!Submitted, Form!Done, Form!Failed,
           Form!OtherWrites, Form!OtherCreates, Form!OtherSaves, Form!OtherSubmits, Form!OtherReturns
  <2>3. Form!Updated
    BY <2>2 DEF Form!Created
  <2>. QED
    BY <2>3 DEF Form!Updated, Form!Current, FormInv, SavingFromPage, PageIsKnown, Form!TypeOK
<1>2. Form!SubmitsWhatWasConfirmed
  <2> SUFFICES ASSUME sent.step = "submitting", sent'.step = "submitted"
               PROVE  row[sent.doc].content = sent.content \/ overtaken
    BY DEF Form!SubmitsWhatWasConfirmed
  <2>1. sent # Form!Silent /\ sent' # Form!Silent /\ sent' # sent
    OBVIOUS
  <2>2. Form!Submitted
    BY <2>1 DEF Form!Next, Form!Open, Form!Type, Form!Save, Form!Created, Form!SentToOpenIssue, Form!Updated, Form!Saved, Form!Done, Form!Failed,
           Form!OtherWrites, Form!OtherCreates, Form!OtherSaves, Form!OtherSubmits, Form!OtherReturns
  <2>. QED
    BY <2>2 DEF Form!Submitted, Form!Current, FormInv, SubmittingIsThere, Form!TypeOK
<1>3. Form!CreatesAgainOnlyAfterAnError
  <2> SUFFICES ASSUME created' # created, created # {}
               PROVE  kind # "issue" /\ failed
    BY DEF Form!CreatesAgainOnlyAfterAnError
  <2>1. PICK d \in Documents : Form!Created(d)
    BY DEF Form!Next, Form!Open, Form!Type, Form!Save, Form!SentToOpenIssue, Form!Updated, Form!Saved, Form!Submitted, Form!Done,
           Form!Failed, Form!OtherWrites, Form!OtherCreates, Form!OtherSaves, Form!OtherSubmits, Form!OtherReturns
  <2>2. failed
    BY <2>1 DEF Form!Created, FormInv, ErrorsAreShown
  <2>3. PICK e \in Documents : row[e].status # "ABSENT"
    BY DEF FormInv, Form!TypeOK, CreatedStay
  <2>4. kind # "issue"
    BY <2>1, <2>3 DEF Form!Created, Form!IssueIsOpen
  <2>. QED
    BY <2>2, <2>4
<1>. QED
  BY <1>1, <1>2, <1>3 DEF Form!FormStep

(* A page overwrites and hands in what its user saw, unless an answer was  *)
(* overtaken, and creates again only after an error (saveDraft,            *)
(* handleConfirmedSubmit, handleSubmitIssue): every step is one of those   *)
(* FormStep allows.                                                        *)
THEOREM FormKeepsItsWord == Form!Spec => Form!FormDoesWhatItShows
<1> USE FormInvAtFirst, FormInvKept, StepIsOfTheForm
<1>. QED
  BY PTL DEF Form!Spec, Form!FormDoesWhatItShows

-----------------------------------------------------------------------------
(* The imports.                                                            *)

(* The import of stores: as long as nobody changed the stores, the rows    *)
(* that the preview called ready still are, and their parents are where    *)
(* the preview found them.                                                 *)
StillReady ==
  /\ \A i, j \in DOMAIN ready : file[i].branch = file[j].branch => i = j
  /\ \A i \in DOMAIN ready :
       /\ file[i].branch \in open
       /\ \A s \in stores : s.code # file[i].code /\ s.branch # file[i].branch
       /\ ready[i] # None => \E s \in stores : s.code = ready[i] /\ s.active
       /\ file[i].under # None /\ ready[i] = None => SImp!Named(file[i].under, stores) = {}

StoreImportInv ==
  /\ SImp!TypeOK
  /\ outcome = "none" /\ ready # None /\ ~changed => StillReady
  /\ outcome # "none" => ready # None
  /\ SImp!ReadyRowsCanBeImported

(* The empty import satisfies the invariant.                               *)
LEMMA StoreImportAtFirst == SImp!StoreImportAssumption /\ SImp!Init => StoreImportInv
BY DEF SImp!StoreImportAssumption, SImp!Init, StoreImportInv, SImp!TypeOK, SImp!ReadyRowsCanBeImported

(* A parent that the preview found is an active store.                     *)
LEMMA ParentIsActive ==
  ASSUME SImp!TypeOK, SImp!StoreImportAssumption, NEW i \in DOMAIN file, SImp!Candidate(i)
  PROVE  /\ SImp!Parent(i) # None =>
              \E s \in stores : s.code = SImp!Parent(i) /\ s.active
         /\ file[i].under # None /\ SImp!Parent(i) = None =>
              SImp!Named(file[i].under, stores) = {}
<1>1. \A s \in stores : s.code # None
  BY DEF SImp!TypeOK, SImp!Store, SImp!StoreImportAssumption
<1>2. file[i].under = None => SImp!Named(file[i].under, stores) = {}
  BY DEF SImp!Named, SImp!TypeOK, SImp!Store, SImp!StoreImportAssumption
<1>3. CASE SImp!Named(file[i].under, stores) = {}
  BY <1>3 DEF SImp!Parent
<1>4. CASE SImp!Named(file[i].under, stores) # {}
  <2>1. PICK s \in SImp!Named(file[i].under, stores) :
          SImp!Named(file[i].under, stores) = {s} /\ s.active
    BY <1>2, <1>4 DEF SImp!Candidate, SImp!ResolveUnderStore
  <2>2. SImp!Parent(i) = s.code
    BY <2>1, <1>4 DEF SImp!Parent
  <2>3. s \in stores
    BY <2>1 DEF SImp!Named
  <2> QED BY <2>1, <2>2, <2>3, <1>1, <1>4
<1> QED BY <1>3, <1>4

(* What the preview calls ready is.                                        *)
LEMMA PreviewKept ==
  ASSUME StoreImportInv, SImp!StoreImportAssumption, SImp!PreviewStoreImport
  PROVE  StoreImportInv'
<1> DEFINE C == {i \in DOMAIN file : SImp!Candidate(i) /\ \A j \in 1 .. i - 1 :
                    ~(SImp!Candidate(j) /\ file[j].branch = file[i].branch)}
<1>1. ready' = [i \in C |-> SImp!Parent(i)]
  BY DEF SImp!PreviewStoreImport, SImp!Ready
<1>2. /\ stores' = stores /\ open' = open /\ file' = file /\ outcome' = outcome
      /\ ready = None /\ changed' = FALSE
  BY DEF SImp!PreviewStoreImport
<1>3. \A i \in C : i \in DOMAIN file /\ SImp!Candidate(i)
  OBVIOUS
<1>4. \A i, j \in C : file[i].branch = file[j].branch => i = j
  <2> SUFFICES ASSUME NEW i \in C, NEW j \in C, file[i].branch = file[j].branch, i < j
               PROVE  FALSE
    <3>1. DOMAIN file \subseteq Nat
      BY DEF StoreImportInv, SImp!TypeOK
    <3> QED BY <3>1, <1>3
  <2>1. i \in 1 .. j - 1
    BY DEF StoreImportInv, SImp!TypeOK
  <2> QED BY <2>1
<1> HIDE DEF C
<1>5. StillReady'
  <2>1. DOMAIN ready' = C
    BY <1>1
  <2>2. ASSUME NEW i \in C
        PROVE  /\ file[i].branch \in open
               /\ \A s \in stores : s.code # file[i].code /\ s.branch # file[i].branch
    BY <1>3 DEF SImp!Candidate
  <2>3. ASSUME NEW i \in C
        PROVE  /\ ready'[i] # None => \E s \in stores : s.code = ready'[i] /\ s.active
               /\ file[i].under # None /\ ready'[i] = None =>
                    SImp!Named(file[i].under, stores) = {}
    BY <1>1, <1>3, ParentIsActive DEF StoreImportInv
  <2> QED BY <2>1, <2>2, <2>3, <1>2, <1>4 DEF StillReady, SImp!Named
<1>6. SImp!TypeOK'
  BY <1>1, <1>2, <1>3 DEF StoreImportInv, SImp!TypeOK
<1> QED BY <1>2, <1>5, <1>6 DEF StoreImportInv, SImp!ReadyRowsCanBeImported

(* Rows that are still ready are imported, unless one of them stands under *)
(* a row that it does not find.                                            *)
LEMMA ReadyIsImportable ==
  ASSUME SImp!TypeOK, ready # None, StillReady, ~SImp!Importable
  PROVE  \E i \in DOMAIN ready :
           file[i].under # None /\ ready[i] = None /\ ~SImp!ParentComesFirst(i)
<1>1. SImp!Inserted = DOMAIN ready
  BY DEF SImp!Inserted, StillReady
<1>2. PICK i \in DOMAIN ready :
        ~SImp!ParentFound(i, stores \cup {SImp!StoreOf(j) :
                                j \in {k \in SImp!Inserted : SImp!Before(k, i)}})
  BY <1>1 DEF SImp!Importable, StillReady
<1> DEFINE E == {j \in DOMAIN ready : SImp!Before(j, i)}
           N == stores \cup {SImp!StoreOf(j) : j \in E}
<1>3. file[i].under # None /\ ready[i] = None
      /\ ~ \E s \in SImp!Named(file[i].under, N) :
             SImp!Named(file[i].under, N) = {s} /\ s.active
  BY <1>1, <1>2 DEF SImp!ParentFound
<1>4. ASSUME SImp!ParentComesFirst(i) PROVE FALSE
  <2>1. PICK j \in E : /\ file[j].name = file[i].under /\ file[j].active
                       /\ \A k \in E : file[k].name = file[i].under => k = j
    BY <1>4 DEF SImp!ParentComesFirst
  <2>2. SImp!StoreOf(j) \in SImp!Named(file[i].under, N) /\ SImp!StoreOf(j).active
    BY <2>1 DEF SImp!Named, SImp!StoreOf
  <2>3. \A s \in SImp!Named(file[i].under, N) : s = SImp!StoreOf(j)
    <3> SUFFICES ASSUME NEW s \in N, s.name = file[i].under PROVE s = SImp!StoreOf(j)
      BY DEF SImp!Named
    <3>1. s \notin stores
      BY <1>3 DEF StillReady, SImp!Named
    <3>2. PICK k \in E : s = SImp!StoreOf(k)
      BY <3>1
    <3>3. file[k].name = file[i].under
      BY <3>2 DEF SImp!StoreOf
    <3> QED BY <3>2, <3>3, <2>1
  <2> QED BY <2>2, <2>3, <1>3
<1> QED BY <1>3, <1>4

(* Every step of the import of stores keeps the invariant.                 *)
LEMMA StoreImportKept ==
  SImp!StoreImportAssumption /\ StoreImportInv /\ [SImp!Next]_SImp!vars => StoreImportInv'
<1> SUFFICES ASSUME SImp!StoreImportAssumption, StoreImportInv, [SImp!Next]_SImp!vars
             PROVE  StoreImportInv'
  OBVIOUS
<1>1. CASE UNCHANGED SImp!vars
  BY <1>1 DEF SImp!vars, StoreImportInv, SImp!TypeOK, StillReady, SImp!Named,
              SImp!ReadyRowsCanBeImported, SImp!ParentComesFirst, SImp!Before
<1>2. CASE SImp!PreviewStoreImport
  BY <1>2, PreviewKept
<1>3. ASSUME NEW s \in stores, SImp!SwitchStore(s) PROVE StoreImportInv'
  <2>1. [s EXCEPT !.active = ~@] \in SImp!Store
    BY DEF StoreImportInv, SImp!TypeOK, SImp!Store
  <2> QED BY <1>3, <2>1 DEF SImp!SwitchStore, StoreImportInv, SImp!TypeOK, SImp!ReadyRowsCanBeImported
<1>4. ASSUME NEW b \in Branches, SImp!SwitchBranch(b) PROVE StoreImportInv'
  BY <1>4 DEF SImp!SwitchBranch, StoreImportInv, SImp!TypeOK, SImp!ReadyRowsCanBeImported
<1>5. CASE SImp!ConfirmStoreImport
  <2>1. /\ open' = open /\ file' = file /\ ready' = ready /\ changed' = changed
        /\ ready # None /\ outcome = "none"
        /\ outcome' = IF SImp!Importable THEN "imported" ELSE "failed"
        /\ stores' = IF SImp!Importable THEN stores \cup {SImp!StoreOf(i) : i \in SImp!Inserted}
                     ELSE stores
    BY <1>5 DEF SImp!ConfirmStoreImport
  <2>2. SImp!TypeOK'
    <3>1. ASSUME SImp!Importable, NEW i \in SImp!Inserted PROVE SImp!StoreOf(i) \in SImp!Store
      <4>1. i \in DOMAIN ready /\ file[i] \in SImp!Row /\ file[i].branch \in Branches
        BY <2>1, <3>1 DEF SImp!Importable, SImp!Inserted, StoreImportInv, SImp!TypeOK
      <4> QED BY <4>1 DEF SImp!StoreOf, SImp!Row, SImp!Store
    <3>2. stores' \subseteq SImp!Store
      BY <2>1, <3>1 DEF StoreImportInv, SImp!TypeOK
    <3> QED BY <2>1, <3>2 DEF StoreImportInv, SImp!TypeOK
  <2>3. SImp!ReadyRowsCanBeImported'
    BY <2>1, ReadyIsImportable
       DEF StoreImportInv, SImp!ReadyRowsCanBeImported, SImp!ParentComesFirst, SImp!Before
  <2> QED BY <2>1, <2>2, <2>3 DEF StoreImportInv
<1> QED BY <1>1, <1>2, <1>3, <1>4, <1>5 DEF SImp!Next

(* What the preview of a workbook of stores calls ready can be imported,   *)
(* whatever the workbook and the stores, if nobody changes them meanwhile  *)
(* and no row stands under one that comes after it (previewStoreImport,    *)
(* confirmStoreImport).                                                    *)
THEOREM StorePreviewsHold ==
  SImp!StoreImportAssumption => (SImp!Spec => []SImp!ReadyRowsCanBeImported)
<1> SUFFICES ASSUME SImp!StoreImportAssumption
             PROVE  SImp!Spec => []SImp!ReadyRowsCanBeImported
  OBVIOUS
<1>1. SImp!Init => StoreImportInv
  BY StoreImportAtFirst
<1>2. StoreImportInv /\ [SImp!Next]_SImp!vars => StoreImportInv'
  BY StoreImportKept
<1>3. StoreImportInv => SImp!ReadyRowsCanBeImported
  BY DEF StoreImportInv
<1> QED BY <1>1, <1>2, <1>3, PTL DEF SImp!Spec

-----------------------------------------------------------------------------
(* The import of items: as long as nobody changed items or references, the *)
(* rows listed can be inserted, each by itself, and a confirmation is      *)
(* going to insert them all.                                               *)
Untaken == \A i \in listed : book[i].ref \in usable /\ ~IImp!Taken(book[i], items)

ItemImportInv ==
  /\ IImp!TypeOK
  /\ listed # None => \A i, j \in listed : book[i].code = book[j].code => i = j
  /\ confirm # None => listed # None /\ confirm \subseteq listed /\ answer = None
  /\ answer # None => listed # None
  /\ listed # None /\ ~touched /\ answer = None =>
       Untaken /\ confirm \in {None, listed}
  /\ IImp!ReadyItemsCanBeImported

(* The empty import satisfies the invariant.                               *)
LEMMA ItemImportAtFirst == IImp!ItemImportAssumption /\ IImp!Init => ItemImportInv
BY DEF IImp!ItemImportAssumption, IImp!Init, ItemImportInv, IImp!TypeOK, IImp!ReadyItemsCanBeImported

(* As many rows as are inserted are as many as are listed, if they are the *)
(* same.                                                                   *)
LEMMA NothingSkipped ==
  ASSUME IImp!TypeOK, listed # None
  PROVE  /\ IImp!Cardinality(listed) \in Nat
         /\ IImp!Cardinality(listed) - IImp!Cardinality(listed) = 0
<1>1. IImp!Cardinality(listed) = Cardinality(listed)
  BY DEF IImp!Cardinality, Cardinality, IImp!IsFiniteSet, IsFiniteSet
<1>2. listed \subseteq 1 .. Len(book) /\ Len(book) \in Nat
  BY DEF IImp!TypeOK
<1>3. IsFiniteSet(listed)
  <2>1. IsFiniteSet(1 .. Len(book))
    BY <1>2, FS_Interval
  <2> QED BY <1>2, <2>1, FS_Subset
<1>4. Cardinality(listed) \in Nat
  BY <1>3, FS_CardinalityType
<1> QED BY <1>1, <1>4

(* A preview lists rows that can be inserted.                              *)
LEMMA ItemPreviewKept ==
  ASSUME ItemImportInv, IImp!PreviewItemImport
  PROVE  ItemImportInv'
<1>1. /\ items' = items /\ usable' = usable /\ book' = book /\ confirm' = confirm
      /\ form' = form /\ answer' = answer /\ touched' = FALSE
      /\ listed = None /\ listed' = IImp!Ready
  BY DEF IImp!PreviewItemImport
<1>2. \A i \in IImp!Ready :
        /\ i \in DOMAIN book /\ book[i].ref \in usable /\ ~IImp!Taken(book[i], items)
        /\ \A j \in IImp!Ready : book[i].code = book[j].code => i = j
  BY DEF IImp!Ready, IImp!UniqueCode
<1>3. IImp!TypeOK'
  BY <1>1, <1>2 DEF ItemImportInv, IImp!TypeOK
<1>4. Untaken'
  BY <1>1, <1>2 DEF Untaken, IImp!Taken
<1> QED BY <1>1, <1>2, <1>3, <1>4 DEF ItemImportInv, IImp!ReadyItemsCanBeImported

(* The confirmation drops nothing if nothing was touched.                  *)
LEMMA ConfirmReadKept ==
  ASSUME ItemImportInv, IImp!ConfirmRead
  PROVE  ItemImportInv'
<1>1. /\ items' = items /\ usable' = usable /\ book' = book /\ listed' = listed
      /\ form' = form /\ touched' = touched
      /\ listed # None /\ confirm = None /\ answer = None
  BY DEF IImp!ConfirmRead
<1>2. \/ confirm' = IImp!New(listed) /\ answer' = None
      \/ /\ ~ \A i \in listed : book[i].ref \in usable
         /\ answer' = IImp!Failed /\ confirm' = None
  BY <1>1 DEF IImp!ConfirmRead
<1>3. IImp!New(listed) \subseteq listed
  BY DEF IImp!New
<1>4. ~touched => IImp!New(listed) = listed /\ Untaken
  BY <1>1 DEF ItemImportInv, Untaken, IImp!New
<1>5. IImp!TypeOK' /\ (Untaken => Untaken')
  BY <1>1 DEF ItemImportInv, IImp!TypeOK, Untaken, IImp!Taken
<1>6. answer' # None => touched
  BY <1>1, <1>2, <1>4 DEF Untaken
<1>7. IImp!ReadyItemsCanBeImported'
  BY <1>1, <1>6 DEF IImp!ReadyItemsCanBeImported
<1> QED BY <1>1, <1>2, <1>3, <1>4, <1>5, <1>6, <1>7 DEF ItemImportInv

(* The insert takes all that is listed, or fails on a name it has twice.   *)
LEMMA ConfirmInsertKept ==
  ASSUME ItemImportInv, IImp!ItemImportAssumption, IImp!ConfirmInsert
  PROVE  ItemImportInv'
<1>1. /\ usable' = usable /\ book' = book /\ listed' = listed
      /\ form' = form /\ touched' = touched /\ confirm' = None
      /\ listed # None /\ confirm # None /\ answer = None /\ confirm \subseteq listed
  BY DEF IImp!ConfirmInsert, ItemImportInv
<1>2. CASE IImp!Insertable(confirm)
  <2>1. /\ items' = items \cup {book[i] : i \in confirm}
        /\ answer' = [ok |-> TRUE, imported |-> IImp!Cardinality(confirm),
                      skipped |-> IImp!Cardinality(listed) - IImp!Cardinality(confirm)]
    BY <1>2 DEF IImp!ConfirmInsert
  <2>2. IImp!TypeOK'
    <3>1. \A i \in confirm : i \in DOMAIN book /\ book[i] \in IImp!Row
      BY <1>1 DEF ItemImportInv, IImp!TypeOK
    <3>2. items' \subseteq IImp!Row
      BY <2>1, <3>1 DEF ItemImportInv, IImp!TypeOK
    <3>3. ASSUME NEW x \in items', NEW y \in items', x # y
          PROVE  x.code # y.code /\ x.name # y.name
      <4>1. CASE x \in items /\ y \in items
        BY <4>1, <3>3 DEF ItemImportInv, IImp!TypeOK
      <4>2. ASSUME NEW z \in items, NEW i \in confirm
            PROVE  book[i].code # z.code /\ book[i].name # z.name
        BY <1>2 DEF IImp!Insertable, IImp!Taken
      <4>3. ASSUME NEW i \in confirm, NEW j \in confirm, i # j
            PROVE  book[i].code # book[j].code /\ book[i].name # book[j].name
        BY <1>2, <4>3 DEF IImp!Insertable
      <4>4. CASE x \notin items /\ y \in items
        <5>1. PICK i \in confirm : x = book[i]
          BY <2>1, <4>4
        <5> QED BY <5>1, <4>2, <4>4
      <4>5. CASE x \in items /\ y \notin items
        <5>1. PICK i \in confirm : y = book[i]
          BY <2>1, <4>5
        <5> QED BY <5>1, <4>2, <4>5
      <4>6. CASE x \notin items /\ y \notin items
        <5>1. PICK i \in confirm : x = book[i]
          BY <2>1, <4>6
        <5>2. PICK j \in confirm : y = book[j]
          BY <2>1, <4>6
        <5> QED BY <5>1, <5>2, <4>3, <3>3
      <4> QED BY <4>1, <4>4, <4>5, <4>6
    <3> QED BY <1>1, <3>2, <3>3 DEF ItemImportInv, IImp!TypeOK
  <2>3. ~touched => answer' = [ok |-> TRUE, imported |-> IImp!Cardinality(listed), skipped |-> 0]
    BY <1>1, <2>1, NothingSkipped DEF ItemImportInv
  <2>4. IImp!ReadyItemsCanBeImported'
    BY <1>1, <2>3 DEF IImp!ReadyItemsCanBeImported, IImp!Cardinality, IImp!IsFiniteSet
  <2>5. ~touched => answer' # None
    <3> SUFFICES ASSUME ~touched PROVE answer' # None
      OBVIOUS
    <3>1. PICK n \in Nat : answer' = [ok |-> TRUE, imported |-> n, skipped |-> 0]
      BY <1>1, <2>3, NothingSkipped DEF ItemImportInv
    <3>2. answer' \in [ok : BOOLEAN, imported : Nat, skipped : Nat]
      BY <3>1
    <3> QED BY <3>2 DEF IImp!ItemImportAssumption
  <2> QED BY <1>1, <2>2, <2>4, <2>5 DEF ItemImportInv
<1>3. CASE ~IImp!Insertable(confirm)
  <2>1. items' = items /\ answer' = IImp!Failed
    BY <1>3 DEF IImp!ConfirmInsert
  <2>2. IImp!TypeOK'
    BY <1>1, <2>1 DEF ItemImportInv, IImp!TypeOK
  <2>3. ~touched => \E i, j \in listed : i # j /\ book[i].name = book[j].name
    BY <1>1, <1>3 DEF ItemImportInv, IImp!Insertable, Untaken
  <2>4. IImp!ReadyItemsCanBeImported'
    BY <1>1, <2>1, <2>3 DEF IImp!ReadyItemsCanBeImported, IImp!Failed
  <2>5. answer' # None
    <3>1. IImp!Failed \in [ok : BOOLEAN, imported : Nat, skipped : Nat]
      BY DEF IImp!Failed
    <3> QED BY <2>1, <3>1 DEF IImp!ItemImportAssumption
  <2> QED BY <1>1, <2>2, <2>4, <2>5 DEF ItemImportInv
<1> QED BY <1>2, <1>3

(* Every step of the import of items keeps the invariant.                  *)
LEMMA ItemImportKept ==
  IImp!ItemImportAssumption /\ ItemImportInv /\ [IImp!Next]_IImp!vars => ItemImportInv'
<1> SUFFICES ASSUME IImp!ItemImportAssumption, ItemImportInv, [IImp!Next]_IImp!vars
             PROVE  ItemImportInv'
  OBVIOUS
<1>1. CASE UNCHANGED IImp!vars
  BY <1>1 DEF IImp!vars, ItemImportInv, IImp!TypeOK, Untaken, IImp!Taken,
              IImp!ReadyItemsCanBeImported
<1>2. CASE IImp!PreviewItemImport
  BY <1>2, ItemPreviewKept
<1>3. CASE IImp!ConfirmRead
  BY <1>3, ConfirmReadKept
<1>4. CASE IImp!ConfirmInsert
  BY <1>4, ConfirmInsertKept
<1>5. ASSUME NEW x \in IImp!Row, IImp!CreateItem(x) PROVE ItemImportInv'
  BY <1>5 DEF IImp!CreateItem, ItemImportInv, IImp!TypeOK, Untaken, IImp!Taken,
              IImp!ReadyItemsCanBeImported
<1>6. CASE IImp!SaveItem
  <2>1. CASE IImp!Taken(form, items)
    BY <1>6, <2>1 DEF IImp!SaveItem, ItemImportInv, IImp!TypeOK, Untaken, IImp!Taken,
              IImp!ReadyItemsCanBeImported
  <2>2. CASE ~IImp!Taken(form, items)
    <3>1. /\ items' = items \cup {form} /\ touched' = TRUE /\ form' = None /\ form \in IImp!Row
          /\ usable' = usable /\ book' = book /\ listed' = listed /\ confirm' = confirm
          /\ answer' = answer
      BY <1>6, <2>2 DEF IImp!SaveItem, ItemImportInv, IImp!TypeOK
    <3>2. IImp!TypeOK'
      BY <3>1, <2>2 DEF ItemImportInv, IImp!TypeOK, IImp!Taken
    <3> QED BY <3>1, <3>2 DEF ItemImportInv, IImp!ReadyItemsCanBeImported
  <2> QED BY <2>1, <2>2
<1>7. ASSUME NEW r \in Refs, IImp!SwitchRef(r) PROVE ItemImportInv'
  BY <1>7 DEF IImp!SwitchRef, ItemImportInv, IImp!TypeOK, IImp!ReadyItemsCanBeImported
<1> QED BY <1>1, <1>2, <1>3, <1>4, <1>5, <1>6, <1>7 DEF IImp!Next

(* What the preview of a workbook of items calls ready is imported, every  *)
(* row, if nobody saves an item or switches a unit meanwhile, or else the  *)
(* workbook gives two of the rows one name (previewItemImport,             *)
(* confirmItemImport).                                                     *)
THEOREM ItemPreviewsHold ==
  IImp!ItemImportAssumption => (IImp!Spec => []IImp!ReadyItemsCanBeImported)
<1> SUFFICES ASSUME IImp!ItemImportAssumption
             PROVE  IImp!Spec => []IImp!ReadyItemsCanBeImported
  OBVIOUS
<1>1. IImp!Init => ItemImportInv
  BY ItemImportAtFirst
<1>2. ItemImportInv /\ [IImp!Next]_IImp!vars => ItemImportInv'
  BY ItemImportKept
<1>3. ItemImportInv => IImp!ReadyItemsCanBeImported
  BY DEF ItemImportInv
<1> QED BY <1>1, <1>2, <1>3, PTL DEF IImp!Spec

-----------------------------------------------------------------------------
(* The assignments.  Assignments_proofs is about Assignments with the same *)
(* constants as the two instances of it in Office.                         *)

OverlapProofs == INSTANCE Assignments_proofs WITH
                   Stores <- Shops, Branches <- Sites, Requests <- Overlapping,
                   Role <- FewRoles, Switchable <- {}, MaxTransfers <- FewTransfers

SequelProofs == INSTANCE Assignments_proofs WITH
                  Stores <- Shops, Branches <- Sites, Requests <- {Single},
                  Role <- Roles, MaxTransfers <- MoreTransfers

(* Requests that overlap take the steps the proofs are about.              *)
LEMMA OverlapSteps ==
  [Overlap!Next]_Overlap!vars => [OverlapProofs!Next]_OverlapProofs!vars
BY DEF Overlap!Managing, OverlapProofs!Managing, Overlap!Active,
         OverlapProofs!Active, Overlap!HeldBy, OverlapProofs!HeldBy,
         Overlap!Assignable, OverlapProofs!Assignable, Overlap!MakerAvailable,
         OverlapProofs!MakerAvailable, Overlap!RowsAllowed,
         OverlapProofs!RowsAllowed, Overlap!Patched, OverlapProofs!Patched,
         Overlap!Detach, OverlapProofs!Detach, Overlap!RemoveFrom,
         OverlapProofs!RemoveFrom, Overlap!Stays, OverlapProofs!Stays,
         Overlap!TakeSlot, OverlapProofs!TakeSlot, Overlap!SlotFree,
         OverlapProofs!SlotFree, Overlap!ActiveStores,
         OverlapProofs!ActiveStores, Overlap!Writes, OverlapProofs!Writes,
         Overlap!Submit, OverlapProofs!Submit, Overlap!Locked,
         OverlapProofs!Locked, Overlap!CreateStoreUser,
         OverlapProofs!CreateStoreUser, Overlap!UpdateStoreUser,
         OverlapProofs!UpdateStoreUser, Overlap!ActivateStoreUser,
         OverlapProofs!ActivateStoreUser, Overlap!DeactivateStoreUser,
         OverlapProofs!DeactivateStoreUser, Overlap!Missing,
         OverlapProofs!Missing, Overlap!DeleteStoreUser,
         OverlapProofs!DeleteStoreUser, Overlap!Sync, OverlapProofs!Sync,
         Overlap!SyncAllowed, OverlapProofs!SyncAllowed, Overlap!SetRole,
         OverlapProofs!SetRole, Overlap!TransferRead,
         OverlapProofs!TransferRead, Overlap!WithSupervisor,
         OverlapProofs!WithSupervisor, Overlap!TransferLocked,
         OverlapProofs!TransferLocked, Overlap!RowsAfter,
         OverlapProofs!RowsAfter, Overlap!UsersAfter,
         OverlapProofs!UsersAfter, Overlap!Accepted, OverlapProofs!Accepted,
         Overlap!NamedIn, OverlapProofs!NamedIn, Overlap!Touches,
         OverlapProofs!Touches, Overlap!Overtaken, OverlapProofs!Overtaken,
         Overlap!Commit, OverlapProofs!Commit, Overlap!Refused,
         OverlapProofs!Refused, Overlap!UserStatus, OverlapProofs!UserStatus,
         Overlap!StoreStatus, OverlapProofs!StoreStatus, Overlap!MoveStore,
         OverlapProofs!MoveStore, Overlap!Next, OverlapProofs!Next,
         Overlap!vars, OverlapProofs!vars

(* They start and are judged the same way.                                 *)
LEMMA OverlapStates ==
  /\ Overlap!AssignmentsAssumption => OverlapProofs!AssignmentsAssumption
  /\ Overlap!InitWith(Staff, Places) => OverlapProofs!InitWith(Staff, Places)
  /\ OverlapProofs!TypeOK => Overlap!TypeOK
  /\ OverlapProofs!SlotsFitTheirPeople => Overlap!SlotsFitTheirPeople
  /\ OverlapProofs!TransfersAreAJourney => Overlap!TransfersAreAJourney
BY DEF Overlap!AssignmentsAssumption, OverlapProofs!AssignmentsAssumption,
         Overlap!InitWith, OverlapProofs!InitWith, Overlap!TypeOK,
         OverlapProofs!TypeOK, Overlap!RowsAllowed, OverlapProofs!RowsAllowed,
         Overlap!SlotsFitTheirPeople, OverlapProofs!SlotsFitTheirPeople,
         Overlap!Fits, OverlapProofs!Fits, Overlap!Active,
         OverlapProofs!Active, Overlap!TransfersAreAJourney,
         OverlapProofs!TransfersAreAJourney

(* The first state of the office satisfies the invariant of its people.    *)
LEMMA OverlapAtFirst ==
  Overlap!InitWith(Staff, Places) => OverlapProofs!AssignmentsInv
<1> SUFFICES ASSUME Overlap!InitWith(Staff, Places) PROVE OverlapProofs!AssignmentsInv
  OBVIOUS
<1>1. Staff \in [Users -> [branch : Sites, role : FewRoles, active : BOOLEAN]]
  BY OfficeAssumption
<1>2. Places \in [Shops -> Sites]
  BY OfficeAssumption
<1>3. OverlapProofs!InitWith(Staff, Places)
  BY OverlapStates
<1> QED BY <1>1, <1>2, <1>3, OverlapProofs!AssignmentsAtFirst

(* Every step keeps it.                                                    *)
LEMMA OverlapKept ==
  OverlapProofs!AssignmentsInv /\ [Overlap!Next]_Overlap!vars => OverlapProofs!AssignmentsInv'
<1>1. OverlapProofs!AssignmentsAssumption
  BY OfficeAssumption, OverlapStates
<1> QED BY <1>1, OverlapSteps, OverlapProofs!AssignmentsKept

(* Requests that come one at a time take the steps the proofs are about.   *)
LEMMA SequelSteps ==
  [Sequel!Next]_Sequel!vars => [SequelProofs!Next]_SequelProofs!vars
BY DEF Sequel!Managing, SequelProofs!Managing, Sequel!Active,
         SequelProofs!Active, Sequel!HeldBy, SequelProofs!HeldBy,
         Sequel!Assignable, SequelProofs!Assignable, Sequel!MakerAvailable,
         SequelProofs!MakerAvailable, Sequel!RowsAllowed,
         SequelProofs!RowsAllowed, Sequel!Patched, SequelProofs!Patched,
         Sequel!Detach, SequelProofs!Detach, Sequel!RemoveFrom,
         SequelProofs!RemoveFrom, Sequel!Stays, SequelProofs!Stays,
         Sequel!TakeSlot, SequelProofs!TakeSlot, Sequel!SlotFree,
         SequelProofs!SlotFree, Sequel!ActiveStores,
         SequelProofs!ActiveStores, Sequel!Writes, SequelProofs!Writes,
         Sequel!Submit, SequelProofs!Submit, Sequel!Locked,
         SequelProofs!Locked, Sequel!CreateStoreUser,
         SequelProofs!CreateStoreUser, Sequel!UpdateStoreUser,
         SequelProofs!UpdateStoreUser, Sequel!ActivateStoreUser,
         SequelProofs!ActivateStoreUser, Sequel!DeactivateStoreUser,
         SequelProofs!DeactivateStoreUser, Sequel!Missing,
         SequelProofs!Missing, Sequel!DeleteStoreUser,
         SequelProofs!DeleteStoreUser, Sequel!Sync, SequelProofs!Sync,
         Sequel!SyncAllowed, SequelProofs!SyncAllowed, Sequel!SetRole,
         SequelProofs!SetRole, Sequel!TransferRead, SequelProofs!TransferRead,
         Sequel!WithSupervisor, SequelProofs!WithSupervisor,
         Sequel!TransferLocked, SequelProofs!TransferLocked, Sequel!RowsAfter,
         SequelProofs!RowsAfter, Sequel!UsersAfter, SequelProofs!UsersAfter,
         Sequel!Accepted, SequelProofs!Accepted, Sequel!NamedIn,
         SequelProofs!NamedIn, Sequel!Touches, SequelProofs!Touches,
         Sequel!Overtaken, SequelProofs!Overtaken, Sequel!Commit,
         SequelProofs!Commit, Sequel!Refused, SequelProofs!Refused,
         Sequel!UserStatus, SequelProofs!UserStatus, Sequel!StoreStatus,
         SequelProofs!StoreStatus, Sequel!MoveStore, SequelProofs!MoveStore,
         Sequel!Next, SequelProofs!Next, Sequel!vars, SequelProofs!vars

(* They start and are judged the same way.                                 *)
LEMMA SequelStates ==
  /\ Sequel!AssignmentsAssumption => SequelProofs!AssignmentsAssumption
  /\ Sequel!InitWith(Staff, Places) => SequelProofs!InitWith(Staff, Places)
  /\ SequelProofs!TypeOK => Sequel!TypeOK
  /\ SequelProofs!SlotsFitTheirPeople => Sequel!SlotsFitTheirPeople
  /\ SequelProofs!TransfersAreAJourney => Sequel!TransfersAreAJourney
BY DEF Sequel!AssignmentsAssumption, SequelProofs!AssignmentsAssumption,
         Sequel!InitWith, SequelProofs!InitWith, Sequel!TypeOK,
         SequelProofs!TypeOK, Sequel!RowsAllowed, SequelProofs!RowsAllowed,
         Sequel!SlotsFitTheirPeople, SequelProofs!SlotsFitTheirPeople,
         Sequel!Fits, SequelProofs!Fits, Sequel!Active, SequelProofs!Active,
         Sequel!TransfersAreAJourney, SequelProofs!TransfersAreAJourney

(* The first state of the office satisfies the invariant of its people.    *)
LEMMA SequelAtFirst ==
  Sequel!InitWith(Staff, Places) => SequelProofs!AssignmentsInv
<1> SUFFICES ASSUME Sequel!InitWith(Staff, Places) PROVE SequelProofs!AssignmentsInv
  OBVIOUS
<1>1. Staff \in [Users -> [branch : Sites, role : Roles, active : BOOLEAN]]
  BY OfficeAssumption
<1>2. Places \in [Shops -> Sites]
  BY OfficeAssumption
<1>3. SequelProofs!InitWith(Staff, Places)
  BY SequelStates
<1> QED BY <1>1, <1>2, <1>3, SequelProofs!AssignmentsAtFirst

(* Every step keeps it.                                                    *)
LEMMA SequelKept ==
  SequelProofs!AssignmentsInv /\ [Sequel!Next]_Sequel!vars => SequelProofs!AssignmentsInv'
<1>1. SequelProofs!AssignmentsAssumption
  BY OfficeAssumption, SequelStates
<1> QED BY <1>1, SequelSteps, SequelProofs!AssignmentsKept

-----------------------------------------------------------------------------
(* The office.                                                             *)

(* An area starts as its component does.                                   *)
LEMMA AreasAtFirst ==
  ASSUME Init
  PROVE  /\ area = "accounts" => Acc!Init
         /\ area = "overlap" => Overlap!InitWith(Staff, Places)
         /\ area = "sequel" => Sequel!InitWith(Staff, Places)
         /\ area = "tree" => Tree!Init
         /\ area = "store import" => SImp!Init
         /\ area = "item import" => IImp!Init
         /\ area = "page" => Page!Init
         /\ area = "form" => Form!Init
BY DEF Init, AssignmentsInit

(* A step stays in its area, and is a step of its component or changes     *)
(* nothing of it.                                                          *)
LEMMA AreaSteps ==
  ASSUME [Next]_vars
  PROVE  /\ area' = area
         /\ area = "accounts" => [Acc!Next]_Acc!vars
         /\ area = "overlap" => [Overlap!Next]_Overlap!vars
         /\ area = "sequel" => [Sequel!Next]_Sequel!vars
         /\ area = "tree" => [Tree!Next]_Tree!vars
         /\ area = "store import" => [SImp!Next]_SImp!vars
         /\ area = "item import" => [IImp!Next]_IImp!vars
         /\ area = "page" => [Page!Next]_Page!vars
         /\ area = "form" => [Form!Next]_Form!vars
<1>1. CASE UNCHANGED vars
  BY <1>1 DEF vars, accountVars, assignmentVars, treeVars, storeImportVars, itemImportVars,
              pageVars, formVars, Acc!vars, Overlap!vars, Sequel!vars, Tree!vars,
              SImp!vars, IImp!vars, Page!vars, Form!vars
<1>2. CASE Next
  BY <1>2 DEF Next
<1> QED BY <1>1, <1>2

(* What every area keeps.                                                  *)
OfficeInv ==
  /\ area = "accounts" => Lockout /\ Acc!SessionsEndWithTheirCredentials
  /\ area = "overlap" => OverlapProofs!AssignmentsInv
  /\ area = "sequel" => SequelProofs!AssignmentsInv
  /\ area = "tree" => TreeInv
  /\ area = "store import" => StoreImportInv
  /\ area = "item import" => ItemImportInv
  /\ area = "page" => PageInv
  /\ area = "form" => FormInv

(* The components have what they assume.                                   *)
LEMMA Assumed ==
  Acc!AccountsAssumption /\ SImp!StoreImportAssumption /\ IImp!ItemImportAssumption
BY OfficeAssumption

(* Every area starts with its invariant.                                   *)
LEMMA OfficeInvAtFirst == Init => OfficeInv
<1> SUFFICES ASSUME Init PROVE OfficeInv
  OBVIOUS
<1>1. area = "accounts" => Lockout /\ Acc!SessionsEndWithTheirCredentials
  BY AreasAtFirst, Assumed, LockoutAtFirst, SessionsAtFirst
<1>2. /\ area = "overlap" => OverlapProofs!AssignmentsInv
      /\ area = "sequel" => SequelProofs!AssignmentsInv
  BY AreasAtFirst, OverlapAtFirst, SequelAtFirst
<1>3. area = "store import" => StoreImportInv
  BY AreasAtFirst, Assumed, StoreImportAtFirst
<1>4. area = "item import" => ItemImportInv
  BY AreasAtFirst, Assumed, ItemImportAtFirst
<1>5. /\ area = "tree" => TreeInv
      /\ area = "page" => PageInv
      /\ area = "form" => FormInv
  BY AreasAtFirst, TreeInvAtFirst, PageInvAtFirst, FormInvAtFirst
<1> QED BY <1>1, <1>2, <1>3, <1>4, <1>5 DEF OfficeInv

(* Every step keeps the invariant of its area.                             *)
LEMMA OfficeInvKept == OfficeInv /\ [Next]_vars => OfficeInv'
<1> SUFFICES ASSUME OfficeInv, [Next]_vars PROVE OfficeInv'
  OBVIOUS
<1>1. ASSUME area = "accounts"
      PROVE  Lockout' /\ Acc!SessionsEndWithTheirCredentials'
  <2>1. [Acc!Next]_Acc!vars /\ Lockout /\ Acc!SessionsEndWithTheirCredentials
    BY <1>1, AreaSteps DEF OfficeInv
  <2>2. Lockout'
    BY <2>1, Assumed, LockoutKept
  <2>3. Acc!SessionsEndWithTheirCredentials'
    BY <2>1, Assumed, SessionsKept DEF Lockout
  <2> QED BY <2>2, <2>3
<1>2. ASSUME area = "overlap" PROVE OverlapProofs!AssignmentsInv'
  BY <1>2, AreaSteps, OverlapKept DEF OfficeInv
<1>3. ASSUME area = "sequel" PROVE SequelProofs!AssignmentsInv'
  BY <1>3, AreaSteps, SequelKept DEF OfficeInv
<1>4. ASSUME area = "tree" PROVE TreeInv'
  BY <1>4, AreaSteps, TreeInvKept DEF OfficeInv
<1>5. ASSUME area = "store import" PROVE StoreImportInv'
  BY <1>5, AreaSteps, Assumed, StoreImportKept DEF OfficeInv
<1>6. ASSUME area = "item import" PROVE ItemImportInv'
  BY <1>6, AreaSteps, Assumed, ItemImportKept DEF OfficeInv
<1>7. ASSUME area = "page" PROVE PageInv'
  BY <1>7, AreaSteps, PageInvKept DEF OfficeInv
<1>8. ASSUME area = "form" PROVE FormInv'
  BY <1>8, AreaSteps, FormInvKept DEF OfficeInv
<1>9. area' = area
  BY AreaSteps
<1> QED BY <1>1, <1>2, <1>3, <1>4, <1>5, <1>6, <1>7, <1>8, <1>9 DEF OfficeInv

(* Every component of the office keeps the shape of its state, whatever    *)
(* requests, saves, imports and clicks come.                               *)
THEOREM EverythingTyped == Spec => []TypeOK
<1>1. OfficeInv => TypeOK
  BY OverlapStates, SequelStates
     DEF OfficeInv, TypeOK, Lockout, TreeInv, StoreImportInv, ItemImportInv, PageInv, FormInv,
         OverlapProofs!AssignmentsInv, SequelProofs!AssignmentsInv
<1> QED BY <1>1, OfficeInvAtFirst, OfficeInvKept, PTL DEF Spec

(* The maker and the checker of a store fit it, but for those whom an      *)
(* overtaken save or a moved store touched, and the transfers of an        *)
(* employee are a journey, whether requests overlap or not                 *)
(* (upsertStoreAssignmentSlot, removeUserFromStoreAssignments,             *)
(* transferEmployee).                                                      *)
THEOREM PeopleWhereTheyWork == Spec => []PeopleAreWhereTheyWork
<1>1. OfficeInv => PeopleAreWhereTheyWork
  BY OverlapStates, SequelStates
     DEF OfficeInv, PeopleAreWhereTheyWork,
         OverlapProofs!AssignmentsInv, SequelProofs!AssignmentsInv
<1> QED BY <1>1, OfficeInvAtFirst, OfficeInvKept, PTL DEF Spec

(* What the preview of a workbook calls ready can be imported, as long as  *)
(* nobody changes what the preview looked at (previewStoreImport and       *)
(* previewItemImport, and the confirmations that follow them).             *)
THEOREM PreviewsHold == Spec => []PreviewsKeepTheirWord
<1>1. OfficeInv => PreviewsKeepTheirWord
  BY DEF OfficeInv, PreviewsKeepTheirWord, StoreImportInv, ItemImportInv
<1> QED BY <1>1, OfficeInvAtFirst, OfficeInvKept, PTL DEF Spec

(* Between two moments at which an account is unlocked the server judges   *)
(* no more guesses than the limit allows, and one for every other sign-in  *)
(* under way (recordFailedLogin counts in the database, login reads the    *)
(* lock before it compares).                                               *)
THEOREM LockoutIsNotOutrun == Spec => []LockBoundsGuesses
<1>1. OfficeInv => LockBoundsGuesses
  BY Assumed, LockoutBounds DEF OfficeInv, LockBoundsGuesses
<1> QED BY <1>1, OfficeInvAtFirst, OfficeInvKept, PTL DEF Spec

(* A session outlives the password, the reset or the deactivation it was   *)
(* opened before only in the two ways the code leaves open (changePassword *)
(* and the administrator's calls revoke what they see).                    *)
THEOREM SessionsEndInTheOffice == Spec => []SessionsEndWithTheirCredentials
<1>1. OfficeInv => SessionsEndWithTheirCredentials
  BY DEF OfficeInv, SessionsEndWithTheirCredentials
<1> QED BY <1>1, OfficeInvAtFirst, OfficeInvKept, PTL DEF Spec

(* Saves of stores that follow one another make no circle, however many    *)
(* stores there are and however deep they stand (assertNoUnderStoreCycle). *)
THEOREM NoCircleWithoutACrossedSave == Spec => []CirclesOnlyFromCrossedSaves
<1>1. OfficeInv => CirclesOnlyFromCrossedSaves
  BY DEF OfficeInv, TreeInv, CirclesOnlyFromCrossedSaves
<1> QED BY <1>1, OfficeInvAtFirst, OfficeInvKept, PTL DEF Spec

(* A settled list is the one that was searched for, with the page's own    *)
(* saves (useListPage).                                                    *)
THEOREM ListsSettle == Spec => []SettledListIsRight
<1>1. OfficeInv => SettledListIsRight
  BY SettledIsRight DEF OfficeInv, SettledListIsRight
<1> QED BY <1>1, OfficeInvAtFirst, OfficeInvKept, PTL DEF Spec

(* The forms of requests, issues and opening stock overwrite and hand in   *)
(* what their user saw (saveDraft, handleConfirmedSubmit).                 *)
THEOREM FormsDoWhatTheyShow == Spec => FormDoesWhatItShows
<1>1. OfficeInv /\ [Next]_vars => [area = "form" => Form!FormStep]_vars
  <2> SUFFICES ASSUME OfficeInv, [Next]_vars, area = "form", ~UNCHANGED vars
               PROVE  Form!FormStep
    OBVIOUS
  <2>1. FormInv /\ [Form!Next]_Form!vars
    BY AreaSteps DEF OfficeInv
  <2>2. ~UNCHANGED Form!vars
    BY DEF Next, vars, formVars, Form!vars
  <2> QED BY <2>1, <2>2, StepIsOfTheForm
<1> QED BY <1>1, OfficeInvAtFirst, OfficeInvKept, PTL DEF Spec, FormDoesWhatItShows
=============================================================================
