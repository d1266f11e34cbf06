----------------------------- MODULE Accounts -----------------------------
(***************************************************************************)
(* One application account of the printing-stationery backend: signing in, *)
(* the lockout after failed attempts, its sessions, the change of the      *)
(* initial password, and what the administrators do to the account         *)
(* meanwhile (services/auth.service.ts, application-users.service.ts and   *)
(* the middleware that resolves a session on every call).                  *)
(*                                                                         *)
(* None of these handlers locks the account row: each statement commits on *)
(* its own, so the steps of a sign-in interleave with every other handler  *)
(* between two awaits, and a server that stops leaves them half done.      *)
(***************************************************************************)
EXTENDS Naturals, FiniteSets

CONSTANTS
  Logins,        \* sign-in requests that may be under way at once
  Admins,        \* administrators that act on the account at once
  Sessions,      \* rows of auth_sessions
  MaxFailedAttempts,  \* LOGIN_MAX_FAILED_ATTEMPTS
  MaxRecorded,   \* bound on the failures one exploration records
  Ended,         \* a session row that was revoked or has expired
  None

(* What is assumed of the constants.                                      *)
AccountsAssumption ==
  /\ IsFiniteSet(Logins)
  /\ MaxFailedAttempts \in Nat \ {0}
  /\ MaxRecorded \in Nat
  /\ None \notin Sessions \cup {"revoke", "activate"}

VARIABLES
  account,   \* the row of application_users: active, its employee (employed),
             \* whether its roles keep it out (barred), failed, locked
  session,   \* Sessions -> a row of auth_sessions, or None
  login,     \* Logins -> what the request has read so far, or None
  change,    \* the change of the initial password under way, or None
  admin,     \* Admins -> the statement still to come, or None
  guesses    \* failures judged since the account was last unlocked

vars == <<account, session, login, change, admin, guesses>>

(* A session row is live, or it has been revoked or has expired, which is  *)
(* the same to every reader.  A live one remembers whether the credentials *)
(* it was opened with have been withdrawn since (old), and whether it      *)
(* could escape their revocation (spared); the code stores neither.        *)
Live == [old : BOOLEAN, spared : BOOLEAN]

Login == [step : {"verify", "roles", "reset", "insert"},
          right : BOOLEAN, locked : BOOLEAN, active : BOOLEAN,
          spared : BOOLEAN]

-----------------------------------------------------------------------------

(* An account without a role, or an ADMIN who is not the Corporate         *)
(* Checker, cannot sign in; the roles matter here for nothing else.        *)
SignInBlocked == account.barred

IsLive(s) == session[s] \notin {None, Ended}

(* What resolveSession asks of the cookie on every authenticated call.     *)
Resolves(s) ==
  /\ IsLive(s)
  /\ account.active /\ account.employed
  /\ ~SignInBlocked

(* The sessions after every live one that is not to be kept is revoked.    *)
Revoked(kept) ==
  [s \in Sessions |-> IF IsLive(s) /\ s \notin kept THEN Ended ELSE session[s]]

(* The sessions, and the sign-ins under way, after the credentials they    *)
(* were given for are withdrawn.                                           *)
Outdated ==
  [s \in Sessions |->
     IF IsLive(s) THEN [session[s] EXCEPT !.old = TRUE] ELSE session[s]]

Overtaken ==
  [l \in Logins |->
     IF login[l] = None THEN None ELSE [login[l] EXCEPT !.spared = TRUE]]

-----------------------------------------------------------------------------

(* createApplicationUser: a fresh account with a temporary password.       *)
Init ==
  /\ account \in [active : {TRUE}, employed : {TRUE},
                  barred : {FALSE},
                  failed : {0}, locked : {FALSE}]
  /\ session = [s \in Sessions |-> None]
  /\ login = [l \in Logins |-> None]
  /\ change = None
  /\ admin = [a \in Admins |-> None]
  /\ guesses = 0

(* login: read the account, then spend a while on verifying the password,  *)
(* which may turn out right or not.                                        *)
LoginRead(l, right) ==
  /\ login[l] = None
  /\ login' = [login EXCEPT ![l] =
                 [step |-> "verify", right |-> right, locked |-> account.locked,
                  active |-> account.active /\ account.employed,
                  spared |-> FALSE]]
  /\ UNCHANGED <<account, session, change, admin, guesses>>

(* Locking on the count before this failure would come one guess late.     *)
RecordFailedLogin_Late ==
  [account EXCEPT !.failed = @ + 1,
                  !.locked = @ \/ account.failed >= MaxFailedAttempts]

(* recordFailedLogin counts in the UPDATE itself, and locks at the limit.  *)
RecordFailedLogin ==
  [account EXCEPT !.failed = @ + 1,
                  !.locked = @ \/ account.failed + 1 >= MaxFailedAttempts]

(* login: the verdict on the row as it was read.                           *)
LoginRejected(l) ==
  /\ login[l] # None /\ login[l].step = "verify"
  /\ login[l].locked \/ (login[l].right /\ ~login[l].active)
  /\ login' = [login EXCEPT ![l] = None]
  /\ UNCHANGED <<account, session, change, admin, guesses>>

LoginFailed(l) ==
  /\ login[l] # None /\ login[l].step = "verify"
  /\ ~login[l].locked /\ ~login[l].right
  /\ account.failed < MaxRecorded
  /\ account' = RecordFailedLogin
  /\ guesses' = guesses + 1
  /\ login' = [login EXCEPT ![l] = None]
  /\ UNCHANGED <<session, change, admin>>

LoginAccepted(l) ==
  /\ login[l] # None /\ login[l].step = "verify"
  /\ ~login[l].locked /\ login[l].right /\ login[l].active
  /\ login' = [login EXCEPT ![l].step = "roles"]
  /\ UNCHANGED <<account, session, change, admin, guesses>>

(* login: the roles are read after the verdict.                            *)
LoginRoles(l) ==
  /\ login[l] # None /\ login[l].step = "roles"
  /\ login' = [login EXCEPT ![l] =
                 IF SignInBlocked THEN None ELSE [@ EXCEPT !.step = "reset"]]
  /\ UNCHANGED <<account, session, change, admin, guesses>>

(* resetLoginFailures, whatever the account has become by then.            *)
ResetLoginFailures(l) ==
  /\ login[l] # None /\ login[l].step = "reset"
  /\ account' = [account EXCEPT !.failed = 0, !.locked = FALSE]
  /\ guesses' = 0
  /\ login' = [login EXCEPT ![l].step = "insert"]
  /\ UNCHANGED <<session, change, admin>>

(* login: the session row, inserted without looking at the account again.  *)
LoginInsert(l, s) ==
  /\ login[l] # None /\ login[l].step = "insert"
  /\ session[s] = None
  /\ session' = [session EXCEPT ![s] =
                   [old |-> login[l].spared, spared |-> login[l].spared]]
  /\ login' = [login EXCEPT ![l] = None]
  /\ UNCHANGED <<account, change, admin, guesses>>

(* The 15 minutes of the lockout end, also for the requests that had read  *)
(* it and compare it with the clock later; the counter stays.              *)
LockoutEnds ==
  /\ account.locked
  /\ account' = [account EXCEPT !.locked = FALSE]
  /\ login' = [l \in Logins |->
                 IF login[l] = None THEN None ELSE [login[l] EXCEPT !.locked = FALSE]]
  /\ guesses' = 0
  /\ UNCHANGED <<session, change, admin>>

(* logout revokes the row of the cookie; after SESSION_DURATION_HOURS it   *)
(* expires.                                                                *)
Logout(s) ==
  /\ IsLive(s)
  /\ session' = [session EXCEPT ![s] = Ended]
  /\ UNCHANGED <<account, login, change, admin, guesses>>

(* cleanupExpiredSessions: what expired, and what was revoked 30 days ago. *)
CleanupExpiredSessions(s) ==
  /\ session[s] = Ended
  /\ session' = [session EXCEPT ![s] = None]
  /\ UNCHANGED <<account, login, change, admin, guesses>>

-----------------------------------------------------------------------------

(* changeInitialPassword: a signed-in user proves the current password...  *)
ChangeRead(s) ==
  /\ change = None
  /\ Resolves(s)
  /\ change' = s
  /\ UNCHANGED <<account, session, login, admin, guesses>>

(* ... and a transaction sets the new one and revokes every other session. *)
ChangeCommit ==
  /\ change # None
  /\ account' = [account EXCEPT !.failed = 0, !.locked = FALSE]
  /\ session' = Revoked({change})
  /\ login' = Overtaken
  /\ guesses' = 0
  /\ change' = None
  /\ UNCHANGED admin

-----------------------------------------------------------------------------

(* Revoking before the UPDATE would leave what signed in between.          *)
ResetPassword_RevokeFirst(a) ==
  \/ /\ admin[a] = None
     /\ session' = Revoked({})
     /\ admin' = [admin EXCEPT ![a] = "activate"]
     /\ UNCHANGED <<account, login, change, guesses>>
  \/ /\ admin[a] = "activate"
     /\ account' = [account EXCEPT !.failed = 0, !.locked = FALSE]
     /\ session' = Outdated
     /\ login' = Overtaken
     /\ guesses' = 0
     /\ admin' = [admin EXCEPT ![a] = None]
     /\ UNCHANGED change

(* resetApplicationUserPassword: one UPDATE, then revokeAllSessions.       *)
ResetPassword(a) ==
  /\ admin[a] = None
  /\ account' = [account EXCEPT !.failed = 0, !.locked = FALSE]
  /\ session' = Outdated
  /\ login' = Overtaken
  /\ guesses' = 0
  /\ admin' = [admin EXCEPT ![a] = "revoke"]
  /\ UNCHANGED change

(* updateApplicationUserStatus to inactive, likewise in two statements.    *)
Deactivate(a) ==
  /\ admin[a] = None
  /\ account' = [account EXCEPT !.active = FALSE]
  /\ session' = Outdated
  /\ login' = Overtaken
  /\ admin' = [admin EXCEPT ![a] = "revoke"]
  /\ UNCHANGED <<change, guesses>>

RevokeAllSessions(a) ==
  /\ admin[a] = "revoke"
  /\ session' = Revoked({})
  /\ admin' = [admin EXCEPT ![a] = None]
  /\ UNCHANGED <<account, login, change, guesses>>

(* updateApplicationUserStatus to active: the employee is looked at first. *)
ActivateRead(a) ==
  /\ admin[a] = None
  /\ account.employed
  /\ admin' = [admin EXCEPT ![a] = "activate"]
  /\ UNCHANGED <<account, session, login, change, guesses>>

Activate(a) ==
  /\ admin[a] = "activate"
  /\ account' = [account EXCEPT !.active = TRUE]
  /\ admin' = [admin EXCEPT ![a] = None]
  /\ UNCHANGED <<session, login, change, guesses>>

(* updateEmployeeStatus; and whatever changes the roles or the Corporate   *)
(* Checker, who may enter although he is an ADMIN: updateApplicationUser,  *)
(* and the handlers that assign the checker of a store.                    *)
EmployeeStatus ==
  /\ account' = [account EXCEPT !.employed = ~@]
  /\ UNCHANGED <<session, login, change, admin, guesses>>

RolesChange ==
  /\ account' = [account EXCEPT !.barred = ~@]
  /\ UNCHANGED <<session, login, change, admin, guesses>>

(* The server stops: what its requests had still to do is not done.        *)
ServerStops ==
  /\ \E a \in Admins : admin[a] # None
  /\ session' = [s \in Sessions |->
                   IF IsLive(s) /\ session[s].old /\ \E a \in Admins : admin[a] = "revoke"
                   THEN [session[s] EXCEPT !.spared = TRUE]
                   ELSE session[s]]
  /\ login' = [l \in Logins |-> None]
  /\ change' = None
  /\ admin' = [a \in Admins |-> None]
  /\ UNCHANGED <<account, guesses>>

-----------------------------------------------------------------------------

Next ==
  \/ \E l \in Logins :
       \/ \E right \in BOOLEAN : LoginRead(l, right)
       \/ LoginRejected(l)
       \/ LoginFailed(l)
       \/ LoginAccepted(l)
       \/ LoginRoles(l)
       \/ ResetLoginFailures(l)
       \/ \E s \in Sessions : LoginInsert(l, s)
  \/ LockoutEnds
  \/ \E s \in Sessions :
       \/ Logout(s)
       \/ CleanupExpiredSessions(s)
       \/ ChangeRead(s)
  \/ ChangeCommit
  \/ \E a \in Admins :
       \/ ResetPassword(a)
       \/ Deactivate(a)
       \/ RevokeAllSessions(a)
       \/ ActivateRead(a)
       \/ Activate(a)
  \/ EmployeeStatus
  \/ RolesChange
  \/ ServerStops

Spec == Init /\ [][Next]_vars

-----------------------------------------------------------------------------

(* Every variable keeps its shape: in particular a session row is live or  *)
(* ended and a request is at one of its awaits.                            *)
TypeOK ==
  /\ account \in [active : BOOLEAN, employed : BOOLEAN,
                  barred : BOOLEAN,
                  failed : Nat, locked : BOOLEAN]
  /\ session \in [Sessions -> Live \cup {Ended, None}]
  /\ login \in [Logins -> Login \cup {None}]
  /\ change \in Sessions \cup {None}
  /\ admin \in [Admins -> {"revoke", "activate", None}]
  /\ guesses \in Nat

(* However many sign-ins overlap, the lockout leaves few guesses: between  *)
(* two moments at which the account is unlocked, at most the allowed       *)
(* attempts are judged, and one more for each other request that had read  *)
(* the row before the lock was set.  (recordFailedLogin counts in SQL and  *)
(* does not write back a number that login read.)                          *)
LockBoundsGuesses ==
  guesses <= MaxFailedAttempts + Cardinality(Logins) - 1

(* A session opened before a password reset, a password change or a        *)
(* deactivation does not outlive it, except in the two ways the code       *)
(* leaves open: its sign-in had read the account before the change and     *)
(* inserted its row after it, or the server stopped between the UPDATE and *)
(* the revocation.  (resetApplicationUserPassword, updateApplicationUser-  *)
(* Status, changeInitialPassword.)                                         *)
SessionsEndWithTheirCredentials ==
  \A s \in Sessions :
    IsLive(s) /\ session[s].old =>
      session[s].spared \/ \E a \in Admins : admin[a] = "revoke"

=============================================================================
