------------------------------- MODULE Sessions -------------------------------
(***************************************************************************)
(* The browser sessions of one account: login (local, LDAP or OIDC) with   *)
(* its TOTP code, session creation, renewal, revocation, password change   *)
(* and reset, TOTP enrolment. A request reads the account first and writes *)
(* in a later statement; other requests run in between, in any order.      *)
(*                                                                         *)
(* Abstraction: cookies and hashes are gone, a password is its version, a  *)
(* TOTP code is the secret and the time step it was computed for, the      *)
(* clock counts TOTP steps. A wrong password or code changes nothing here  *)
(* (LoginThrottle counts it).                                              *)
(***************************************************************************)
EXTENDS Naturals, FiniteSets

CONSTANTS
    Request,     \* HTTP requests that may be in progress at once
    Session,     \* session ids
    TTL,         \* Config.SessionTTL
    Life,        \* renewal limit: seven days after creation
    MaxClock,    \* bound: clock
    MaxSecret,   \* bound: TOTP secrets generated
    MaxChanges   \* bound: password changes, account changes and mass revocations

ASSUME SessionsAssumption ==
    /\ Life \in Nat /\ TTL \in 1..Life
    /\ {MaxClock, MaxSecret, MaxChanges} \subseteq Nat /\ MaxClock > 0
    /\ Request \cap Session = {}

VARIABLES
    account,   \* the users row
    sessions,  \* the sessions table
    pending,   \* the secret mfa-pending-<user>; 0: none
    secrets,   \* number of secrets generated so far
    requests,  \* requests in progress
    now,
    changes,   \* number of password and administrative changes so far
    reached,   \* history: sessions a revocation of the account's sessions covered
    late,      \* history: logins that such a revocation overtook, and their sessions
    spent,     \* history: codes of logins and of the enrolment, since it was stored
    replayed   \* history: a login accepted a code that was spent

sessionsVars == <<account, sessions, pending, secrets, requests, now, changes, reached, late, spent, replayed>>

Step == 0..MaxClock + 1
Code == (1..MaxSecret) \X Step
Idle == [at |-> "idle"]
NoSession == [st |-> "none", mfa |-> FALSE, created |-> 0, expires |-> 0]

Account == [enabled : BOOLEAN, password : 0..MaxChanges + 1, force : BOOLEAN,
            mfa_secret : 0..MaxSecret, mfa_last : Step]

\* Between reading the account and writing; password, mfa: what was read.
InProgress ==
    [at : {"totp", "create"}, code : Code \cup {<<>>}]
        \cup [at : {"handler"}, session : Session, password : 0..MaxChanges + 1, mfa : BOOLEAN]
        \cup [at : {"verify"}, session : Session, code : Code]

SessionsTypeOK ==
    /\ account \in Account
    /\ sessions \in [Session -> [st : {"none", "open", "revoked"}, mfa : BOOLEAN,
                                 created : Nat, expires : Nat]]
    /\ pending \in 0..MaxSecret
    /\ secrets \in 0..MaxSecret
    /\ requests \in [Request -> InProgress \cup {Idle}]
    /\ now \in 1..MaxClock
    /\ changes \in 0..MaxChanges
    /\ reached \subseteq Session
    /\ late \subseteq Request \cup Session
    /\ spent \subseteq Code
    /\ replayed \in BOOLEAN

SessionsInit ==
    /\ account = [enabled |-> TRUE, password |-> 1, force |-> FALSE, mfa_secret |-> 0, mfa_last |-> 0]
    /\ sessions = [s \in Session |-> NoSession]
    /\ pending = 0 /\ secrets = 0
    /\ requests = [r \in Request |-> Idle]
    /\ now = 1 /\ changes = 0
    /\ reached = {} /\ late = {} /\ spent = {} /\ replayed = FALSE

Goes(r, state) == requests' = [requests EXCEPT ![r] = state]
Done(r) == Goes(r, Idle)
history == <<reached, late, spent, replayed>>

\* revoked_at IS NULL AND expires_at > now().
Usable(s) == sessions[s].st = "open" /\ sessions[s].expires > now

\* A revoked row; its other columns are not read again.
Closed == [NoSession EXCEPT !.st = "revoked"]

\* UPDATE sessions SET revoked_at=now() WHERE user_id=$1 [AND id<>$2].
Revoked(table, keep) ==
    [s \in Session |-> IF s \in keep \/ table[s].st = "none" THEN table[s] ELSE Closed]

\* The history of a mass revocation.
Cover(keep) ==
    /\ reached' = reached \cup ({s \in Session : sessions[s].st # "none"} \ keep)
    /\ late' = late \cup {r \in Request : requests[r].at \in {"totp", "create"}}

Revoke(keep) == sessions' = Revoked(sessions, keep) /\ Cover(keep)

-----------------------------------------------------------------------------
(* Login. *)

ValidCodes_Seconds(secret) == {secret} \X {30 * now}

\* VerifyTOTP: the code of the current step or of a neighbour.
ValidCodes(secret) == {secret} \X {step \in Step : step <= now + 1 /\ step + 1 >= now}

\* Service.Login up to the code: an enabled account, and a valid code when the
\* row has a TOTP secret. The directory checks the password of an LDAP login, so
\* an account without a local one may sign in.
Login(r) ==
    /\ requests[r] = Idle
    /\ account.enabled
    /\ IF account.mfa_secret = 0
       THEN Goes(r, [at |-> "create", code |-> <<>>])
       ELSE \E code \in ValidCodes(account.mfa_secret) :
              /\ code[2] > account.mfa_last
              /\ Goes(r, [at |-> "totp", code |-> code])
    /\ UNCHANGED <<account, sessions, pending, secrets, now, changes, history>>

\* OIDC.Callback: an enabled account without local TOTP.
Callback(r) ==
    /\ requests[r] = Idle
    /\ account.enabled /\ account.mfa_secret = 0
    /\ Goes(r, [at |-> "create", code |-> <<>>])
    /\ UNCHANGED <<account, sessions, pending, secrets, now, changes, history>>

CounterAdvances_Unchecked(code) == TRUE

\* UPDATE users SET mfa_last=$2 WHERE id=$1 AND mfa_last<$2, one row affected.
CounterAdvances(code) == account.mfa_last < code[2]

LoginTOTP(r) ==
    /\ requests[r].at = "totp"
    /\ LET code == requests[r].code IN
         IF CounterAdvances(code)
         THEN /\ account' = [account EXCEPT !.mfa_last = code[2]]
              /\ Goes(r, [requests[r] EXCEPT !.at = "create"])
              /\ replayed' = (replayed \/ code \in spent)
              /\ spent' = spent \cup {code}
              /\ UNCHANGED late
         ELSE Done(r) /\ late' = late \ {r} /\ UNCHANGED <<account, spent, replayed>>
    /\ UNCHANGED <<sessions, pending, secrets, now, changes, reached>>

\* CreateSession, in one transaction with last_login and the audit record.
CreateSession(r, s) ==
    /\ requests[r].at = "create"
    /\ sessions[s].st = "none"
    /\ sessions' = [sessions EXCEPT ![s] =
            [st |-> "open", mfa |-> requests[r].code # <<>>, created |-> now,
             expires |-> now + TTL]]
    /\ late' = (late \ {r}) \cup (IF r \in late THEN {s} ELSE {})
    /\ Done(r)
    /\ UNCHANGED <<account, pending, secrets, now, changes, reached, spent, replayed>>

-----------------------------------------------------------------------------
(* Requests of a signed-in browser. *)

\* Authenticate: the session, then the account; the handler gets both copies.
Authenticate(r, s) ==
    /\ requests[r] = Idle
    /\ Usable(s) /\ account.enabled
    /\ Goes(r, [at |-> "handler", session |-> s,
                password |-> account.password, mfa |-> account.mfa_secret # 0])
    /\ UNCHANGED <<account, sessions, pending, secrets, now, changes, history>>

Close(r, s) ==
    /\ requests[r].at = "handler"
    /\ sessions[s].st # "none"
    /\ sessions' = [sessions EXCEPT ![s] = Closed]
    /\ Done(r)
    /\ UNCHANGED <<account, pending, secrets, now, changes, history>>

\* logout closes the session it was authenticated with.
Logout(r) == requests[r].at = "handler" /\ Close(r, requests[r].session)

\* revokeSession: any session of the account.
RevokeSession(r, s) == Close(r, s)

\* revokeUserSessions.
RevokeAll(r) ==
    /\ requests[r].at = "handler"
    /\ changes < MaxChanges /\ changes' = changes + 1
    /\ Revoke({})
    /\ Done(r)
    /\ UNCHANGED <<account, pending, secrets, now, spent, replayed>>

RenewedUntil_Unlimited(s) == now + TTL

\* LEAST(now + TTL, created_at + interval '7 days').
RenewedUntil(s) == IF now + TTL < sessions[s].created + Life THEN now + TTL
                   ELSE sessions[s].created + Life

Rotated_Reopened(s) == [sessions EXCEPT ![s].expires = RenewedUntil(s), ![s].st = "open"]

\* UPDATE ... WHERE id=$1 AND revoked_at IS NULL AND expires_at>now().
Rotated(s) == IF Usable(s) THEN [sessions EXCEPT ![s].expires = RenewedUntil(s)] ELSE sessions

\* renew.
Rotate(r) ==
    /\ requests[r].at = "handler"
    /\ sessions' = Rotated(requests[r].session)
    /\ Done(r)
    /\ UNCHANGED <<account, pending, secrets, now, changes, history>>

\* password: the current one is compared with the copy; then one transaction.
Password(r) ==
    /\ requests[r].at = "handler"
    /\ requests[r].password # 0
    /\ changes < MaxChanges /\ changes' = changes + 1
    /\ account' = [account EXCEPT !.password = 2 + changes, !.force = FALSE]
    /\ Revoke({requests[r].session})
    /\ Done(r)
    /\ UNCHANGED <<pending, secrets, now, spent, replayed>>

MfaEnroll(r) ==
    /\ requests[r].at = "handler"
    /\ ~requests[r].mfa
    /\ secrets < MaxSecret
    /\ secrets' = secrets + 1
    /\ pending' = secrets'
    /\ Done(r)
    /\ UNCHANGED <<account, sessions, now, changes, history>>

\* mfaVerify up to its transaction; the last accepted step is not asked for.
MfaVerify(r) ==
    /\ requests[r].at = "handler"
    /\ ~requests[r].mfa
    /\ pending # 0
    /\ \E code \in ValidCodes(pending) :
         Goes(r, [at |-> "verify", session |-> requests[r].session, code |-> code])
    /\ UNCHANGED <<account, sessions, pending, secrets, now, changes, history>>

Confirmed_Unmarked(s) == Revoked(sessions, {s})

\* mfa=true on this session, revoked_at=now() on the others.
Confirmed(s) == Revoked([sessions EXCEPT ![s].mfa = TRUE], {s})

\* The transaction of mfaVerify and the deletion of the pending secret. The
\* secret is stored WHERE mfa_secret='', and the rows affected are not looked at.
MfaCommit(r) ==
    /\ requests[r].at = "verify"
    /\ LET code == requests[r].code IN
         IF account.mfa_secret = 0
         THEN /\ account' = [account EXCEPT !.mfa_secret = code[1], !.mfa_last = code[2]]
              /\ spent' = {code}
         ELSE UNCHANGED <<account, spent>>
    /\ sessions' = Confirmed(requests[r].session)
    /\ Cover({requests[r].session})
    /\ pending' = 0
    /\ Done(r)
    /\ UNCHANGED <<secrets, now, changes, replayed>>

\* The client goes away, or a statement fails: nothing more is written.
Abandon(r) ==
    /\ requests[r] # Idle
    /\ Done(r)
    /\ late' = late \ {r}
    /\ UNCHANGED <<account, sessions, pending, secrets, now, changes, reached, spent, replayed>>

-----------------------------------------------------------------------------
(* Administrators, each handler one transaction; and the clock. *)

Administer(row) ==
    /\ changes < MaxChanges
    /\ changes' = changes + 1
    /\ account' = row
    /\ Revoke({})
    /\ UNCHANGED <<pending, secrets, requests, now, spent, replayed>>

UpdateUser(enabled, force) == Administer([account EXCEPT !.enabled = enabled, !.force = force])

\* deleteUser clears the secret and leaves mfa_last.
DeleteUser == Administer([account EXCEPT !.enabled = FALSE, !.password = 0, !.mfa_secret = 0])

\* A new password version; one the account never had.
ResetPassword == Administer([account EXCEPT !.password = 2 + changes, !.force = TRUE])

Tick ==
    /\ now < MaxClock
    /\ now' = now + 1
    /\ UNCHANGED <<account, sessions, pending, secrets, requests, changes, history>>

SignIn == \E r \in Request :
    Login(r) \/ Callback(r) \/ LoginTOTP(r) \/ \E s \in Session : CreateSession(r, s)

Browse == \E r \in Request :
    \/ \E s \in Session : Authenticate(r, s) \/ RevokeSession(r, s)
    \/ Logout(r) \/ RevokeAll(r) \/ Rotate(r) \/ Password(r)
    \/ MfaEnroll(r) \/ MfaVerify(r) \/ MfaCommit(r) \/ Abandon(r)

SessionsNext ==
    \/ SignIn \/ Browse
    \/ \E enabled, force \in BOOLEAN : UpdateUser(enabled, force)
    \/ DeleteUser \/ ResetPassword \/ Tick

SessionsSpec == SessionsInit /\ [][SessionsNext]_sessionsVars

-----------------------------------------------------------------------------
(* Properties. *)

\* A TOTP code opens one session at most: no login accepts a code that the
\* enrolment, or another login since then, accepted before, however
\* the reads and the counter updates of concurrent logins interleave.
LoginCodeFresh == ~replayed

\* A revocation (password change or reset, account change, TOTP enrolment,
\* revokeUserSessions) is final for every session that existed then, except the
\* one it spares, even if a renewal of that session was in progress.
RevocationReaches == \A s \in Session :
    sessions[s].st = "open" => s \notin reached

\* Once TOTP is active every open session has proved a code, unless its login
\* had read the account before the enrolment and inserted the session after it.
SecondFactor == account.mfa_secret # 0 =>
    \A s \in Session : sessions[s].st = "open" /\ ~sessions[s].mfa => s \in late

\* Renewals, repeated and concurrent, carry no session past the limit counted
\* from its creation.
LifetimeBounded ==
    \A s \in Session : Usable(s) => now < sessions[s].created + Life

\* All that a session promises, together: codes are used once, revocation is
\* final, the second factor is proved, the lifetime is bounded.
SessionsSafe == SessionsTypeOK /\ LoginCodeFresh /\ RevocationReaches /\ SecondFactor /\ LifetimeBounded
=============================================================================
