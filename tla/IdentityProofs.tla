---------------------------- MODULE IdentityProofs ----------------------------
(***************************************************************************)
(* Proofs about the three parts of identity: Sessions, Accounts and        *)
(* LoginThrottle.                                                          *)
(***************************************************************************)
EXTENDS Sessions, Accounts, LoginThrottle, FiniteSetTheorems, WellFoundedInduction, TLAPS

(***************************************************************************)
(* SessionsSafe for any number of requests and sessions and any lifetimes. *)
(* Its parts are about what was done once (a code accepted, a session      *)
(* revoked); the invariant says where the rows carry the memory of it:     *)
(* mfa_last is not behind any spent code, a session a revocation reached   *)
(* is revoked (and so its row exists), the expiry of an open session is    *)
(* within its limit, and a login without a code that is still in progress  *)
(* while TOTP is active was overtaken by the enrolment.                    *)
(***************************************************************************)

\* No code that was accepted is ahead of the counter.
SpentBehind == \A code \in spent : code[2] <= account.mfa_last

\* A session that a revocation reached is a revoked row.
ReachedClosed == \A s \in reached : sessions[s].st = "revoked"

\* An open session expires within the limit counted from its creation.
ExpiryBounded == \A s \in Session :
    sessions[s].st = "open" => sessions[s].expires <= sessions[s].created + Life

\* A login proves a code, or read an account without TOTP.
LoginsProve == \A r \in Request :
    /\ requests[r].at = "totp" => requests[r].code # <<>>
    /\ requests[r].at = "create" /\ requests[r].code = <<>> /\ account.mfa_secret # 0 => r \in late

\* The inductive invariant.
SessionsInv ==
    /\ SessionsTypeOK /\ LoginCodeFresh /\ SecondFactor
    /\ SpentBehind /\ ReachedClosed /\ ExpiryBounded /\ LoginsProve

SessionRow == [st : {"none", "open", "revoked"}, mfa : BOOLEAN, created : Nat, expires : Nat]

-----------------------------------------------------------------------------
\* The fields of a request, by where it stands.
LEMMA LoginRequestShape ==
    ASSUME SessionsTypeOK, NEW r \in Request
    PROVE  /\ requests[r].at \in {"totp", "create"} =>
                requests[r] \in [at : {"totp", "create"}, code : Code \cup {<<>>}]
           /\ requests[r].at = "handler" =>
                /\ requests[r].session \in Session
                /\ requests[r].password \in 0..MaxChanges + 1
                /\ requests[r].mfa \in BOOLEAN
           /\ requests[r].at = "verify" => requests[r].session \in Session /\ requests[r].code \in Code
  BY DEF SessionsTypeOK, InProgress, Idle

\* A step of one request leaves the others where they were.
LEMMA Moves ==
    ASSUME SessionsTypeOK, NEW r \in Request, NEW q \in InProgress \cup {Idle}, Goes(r, q)
    PROVE  /\ requests' \in [Request -> InProgress \cup {Idle}]
           /\ requests'[r] = q
           /\ \A x \in Request : x # r => requests'[x] = requests[x]
  BY DEF SessionsTypeOK, Goes

\* A TOTP code is not the empty one.
LEMMA CodeShape ==
    ASSUME NEW code \in Code
    PROVE  /\ code # <<>> /\ code[1] \in 1..MaxSecret /\ code[2] \in Step
           /\ code[1] # 0
<1>1. PICK secret \in 1..MaxSecret, step \in Step : code = <<secret, step>>
  BY DEF Code
<1> QED
  BY <1>1

\* The codes a stored secret makes valid.
LEMMA ValidCodesShape ==
    ASSUME NEW secret \in 1..MaxSecret, NEW code \in ValidCodes(secret)
    PROVE  code \in Code
  BY DEF ValidCodes, Code

\* A revocation closes every row but the spared ones, and opens none.
LEMMA RevokedFacts ==
    ASSUME NEW table \in [Session -> SessionRow], NEW keep \in SUBSET Session
    PROVE  /\ Revoked(table, keep) \in [Session -> SessionRow]
           /\ \A s \in Session :
                /\ Revoked(table, keep)[s].st = "none" <=> table[s].st = "none"
                /\ table[s].st = "revoked" => Revoked(table, keep)[s].st = "revoked"
                /\ Revoked(table, keep)[s].st = "open" =>
                     s \in keep /\ Revoked(table, keep)[s] = table[s]
<1>1. Closed \in SessionRow /\ Closed.st = "revoked"
  BY DEF Closed, NoSession, SessionRow
<1>2. \A s \in Session : Revoked(table, keep)[s] =
          IF s \in keep \/ table[s].st = "none" THEN table[s] ELSE Closed
  BY DEF Revoked
<1>3. Revoked(table, keep) \in [Session -> SessionRow]
  BY <1>1 DEF Revoked
<1> QED
  BY <1>1, <1>2, <1>3

-----------------------------------------------------------------------------
\* At the start there is no session and no code.
LEMMA SessionsInitInv == SessionsInit => SessionsInv
<1> SUFFICES ASSUME SessionsInit PROVE SessionsInv
  OBVIOUS
<1>1. \A s \in Session : sessions[s].st = "none"
  BY DEF SessionsInit, NoSession
<1>2. \A r \in Request : requests[r].at = "idle"
  BY DEF SessionsInit, Idle
<1>3. SessionsTypeOK
  <2>1. account \in Account
    BY SessionsAssumption DEF SessionsInit, Account, Step
  <2>2. sessions \in [Session -> [st : {"none", "open", "revoked"}, mfa : BOOLEAN,
                                 created : Nat, expires : Nat]]
    BY DEF SessionsInit, NoSession
  <2>3. pending \in 0..MaxSecret /\ secrets \in 0..MaxSecret /\ now \in 1..MaxClock
        /\ changes \in 0..MaxChanges
    BY SessionsAssumption DEF SessionsInit
  <2>4. requests \in [Request -> InProgress \cup {Idle}] /\ replayed \in BOOLEAN
        /\ reached \subseteq Session /\ late \subseteq Request \cup Session /\ spent \subseteq Code
    BY DEF SessionsInit
  <2> QED
    BY <2>1, <2>2, <2>3, <2>4 DEF SessionsTypeOK
<1>4. LoginCodeFresh /\ SpentBehind /\ ReachedClosed
  BY DEF SessionsInit, LoginCodeFresh, SpentBehind, ReachedClosed
<1>5. SecondFactor /\ ExpiryBounded /\ LoginsProve
  BY <1>1, <1>2 DEF SecondFactor, ExpiryBounded, LoginsProve
<1> QED
  BY <1>3, <1>4, <1>5 DEF SessionsInv

\* A request moves on and neither the account nor a session is written.
LEMMA LoginRequestMoves ==
    ASSUME SessionsInv, NEW r \in Request, NEW q \in InProgress \cup {Idle}, Goes(r, q),
           UNCHANGED <<account, sessions, now, changes, reached, spent, replayed>>,
           pending' \in 0..MaxSecret, secrets' \in 0..MaxSecret,
           late' = late \/ (late' = late \ {r} /\ q = Idle),
           q.at = "totp" => q.code # <<>>,
           q.at = "create" /\ q.code = <<>> => account.mfa_secret = 0
    PROVE  SessionsInv'
<1>1. /\ requests' \in [Request -> InProgress \cup {Idle}]
      /\ requests'[r] = q
      /\ \A x \in Request : x # r => requests'[x] = requests[x]
  BY Moves DEF SessionsInv
<1>2. late' \subseteq Request \cup Session /\ (\A x \in late : x # r => x \in late')
      /\ r \notin Session
  BY SessionsAssumption DEF SessionsInv, SessionsTypeOK
<1>3. SessionsTypeOK'
  BY <1>1, <1>2 DEF SessionsInv, SessionsTypeOK
<1>4. LoginCodeFresh' /\ SpentBehind' /\ ReachedClosed' /\ ExpiryBounded'
  BY DEF SessionsInv, LoginCodeFresh, SpentBehind, ReachedClosed, ExpiryBounded
<1>5. SecondFactor'
  BY <1>2 DEF SessionsInv, SecondFactor
<1>6. LoginsProve'
  BY <1>1, <1>2 DEF SessionsInv, LoginsProve
<1> QED
  BY <1>3, <1>4, <1>5, <1>6 DEF SessionsInv

\* A request ends that writes sessions and opens none.
LEMMA TableWritten ==
    ASSUME SessionsInv, NEW r \in Request, Done(r), sessions' \in [Session -> SessionRow],
           \A s \in Session :
             /\ sessions[s].st = "revoked" => sessions'[s].st = "revoked"
             /\ sessions'[s].st = "open" =>
                  /\ sessions[s].st = "open" /\ sessions'[s].mfa = sessions[s].mfa
                  /\ sessions'[s].expires <= sessions'[s].created + Life,
           UNCHANGED <<account, pending, secrets, now, changes, reached, late, spent, replayed>>
    PROVE  SessionsInv'
<1>1. /\ requests' \in [Request -> InProgress \cup {Idle}]
      /\ requests'[r].at = "idle"
      /\ \A x \in Request : x # r => requests'[x] = requests[x]
  BY Moves DEF Done, SessionsInv, Idle
<1>2. SessionsTypeOK'
  BY <1>1 DEF SessionsInv, SessionsTypeOK, SessionRow
<1>3. LoginCodeFresh' /\ SpentBehind' /\ ReachedClosed' /\ ExpiryBounded'
  BY DEF SessionsInv, SessionsTypeOK, LoginCodeFresh, SpentBehind, ReachedClosed, ExpiryBounded
<1>4. SecondFactor' /\ LoginsProve'
  BY <1>1 DEF SessionsInv, SecondFactor, LoginsProve
<1> QED
  BY <1>2, <1>3, <1>4 DEF SessionsInv

\* A revocation of the account's sessions, with what else its transaction writes.
LEMMA MassRevocation ==
    ASSUME SessionsInv, NEW keep \in SUBSET Session, NEW table \in [Session -> SessionRow],
           sessions' = Revoked(table, keep), Cover(keep),
           \A s \in Session : /\ table[s].st = sessions[s].st
                              /\ table[s].created = sessions[s].created
                              /\ table[s].expires = sessions[s].expires
                              /\ table[s].mfa \/ table[s].mfa = sessions[s].mfa,
           account' \in Account, spent' \subseteq Code, SpentBehind', replayed' = replayed,
           account'.mfa_secret # 0 => account.mfa_secret # 0 \/ \A s \in keep : table[s].mfa,
           requests' \in [Request -> InProgress \cup {Idle}],
           \A x \in Request : requests'[x] \in {requests[x], Idle},
           pending' \in 0..MaxSecret, secrets' \in 0..MaxSecret, now' = now, changes' \in 0..MaxChanges
    PROVE  SessionsInv'
<1>1. /\ sessions' \in [Session -> SessionRow]
      /\ \A s \in Session : /\ sessions'[s].st = "none" <=> sessions[s].st = "none"
                            /\ sessions[s].st = "revoked" => sessions'[s].st = "revoked"
                            /\ sessions'[s].st = "open" => s \in keep /\ sessions'[s] = table[s]
  BY RevokedFacts
<1>2. \A s \in Session : sessions'[s].st \in {"none", "open", "revoked"}
  BY <1>1 DEF SessionRow
<1>3. \A x \in Request : requests'[x].at # "idle" => requests'[x] = requests[x]
  BY DEF Idle
<1>4. reached' \subseteq Session /\ late' \subseteq Request \cup Session /\ late \subseteq late'
      /\ \A x \in Request : requests[x].at \in {"totp", "create"} => x \in late'
  BY DEF Cover, SessionsInv, SessionsTypeOK
<1>5. SessionsTypeOK'
  BY <1>1, <1>4 DEF SessionsInv, SessionsTypeOK, SessionRow
<1>6. LoginCodeFresh'
  BY DEF SessionsInv, LoginCodeFresh
<1>7. ReachedClosed'
  <2> SUFFICES ASSUME NEW s \in reached' PROVE sessions'[s].st = "revoked"
    BY DEF ReachedClosed
  <2>1. s \in Session
    BY <1>4
  <2>2. CASE s \in reached
    BY <1>1, <2>1, <2>2 DEF SessionsInv, ReachedClosed
  <2>3. CASE s \notin reached
    <3>1. sessions[s].st # "none" /\ s \notin keep
      BY <2>3 DEF Cover
    <3> QED
      BY <1>1, <1>2, <2>1, <3>1
  <2> QED
    BY <2>2, <2>3
<1>8. ExpiryBounded'
  BY <1>1 DEF SessionsInv, ExpiryBounded
<1>9. SecondFactor'
  BY <1>1, <1>4 DEF SessionsInv, SecondFactor
<1>10. LoginsProve'
  BY <1>3, <1>4 DEF SessionsInv, LoginsProve
<1> QED
  BY <1>5, <1>6, <1>7, <1>8, <1>9, <1>10 DEF SessionsInv

\* The plain revocation, of the sessions as they are.
LEMMA PlainRevocation ==
    ASSUME SessionsInv, NEW keep \in SUBSET Session, Revoke(keep),
           account' \in Account, account'.mfa_last = account.mfa_last,
           account'.mfa_secret \in {0, account.mfa_secret},
           UNCHANGED <<spent, replayed>>,
           requests' \in [Request -> InProgress \cup {Idle}],
           \A x \in Request : requests'[x] \in {requests[x], Idle},
           pending' \in 0..MaxSecret, secrets' \in 0..MaxSecret, now' = now, changes' \in 0..MaxChanges
    PROVE  SessionsInv'
<1>1. sessions \in [Session -> SessionRow] /\ spent' \subseteq Code /\ SpentBehind'
  BY DEF SessionsInv, SessionsTypeOK, SessionRow, SpentBehind
<1>2. sessions' = Revoked(sessions, keep) /\ Cover(keep)
  BY DEF Revoke
<1> QED
  BY <1>1, <1>2, MassRevocation

-----------------------------------------------------------------------------
(* Login. *)

\* A login or a callback has read the account.
LEMMA LoginInv ==
    ASSUME SessionsInv, NEW r \in Request, Login(r) \/ Callback(r)
    PROVE  SessionsInv'
<1>1. UNCHANGED <<account, sessions, pending, secrets, now, changes, reached, late, spent, replayed>>
  BY DEF Login, Callback, history
<1>2. pending' \in 0..MaxSecret /\ secrets' \in 0..MaxSecret
  BY <1>1 DEF SessionsInv, SessionsTypeOK
<1>3. CASE account.mfa_secret = 0
  <2> DEFINE q == [at |-> "create", code |-> <<>>]
  <2>1. Goes(r, q)
    BY <1>3 DEF Login, Callback
  <2>2. q \in InProgress /\ q.at = "create"
    BY DEF InProgress
  <2> HIDE DEF q
  <2> QED
    BY <1>1, <1>2, <1>3, <2>1, <2>2, LoginRequestMoves
<1>4. CASE account.mfa_secret # 0
  <2>1. PICK code \in ValidCodes(account.mfa_secret) : Goes(r, [at |-> "totp", code |-> code])
    BY <1>4 DEF Login, Callback
  <2> DEFINE q == [at |-> "totp", code |-> code]
  <2>2. account.mfa_secret \in 1..MaxSecret
    BY <1>4, SessionsAssumption DEF SessionsInv, SessionsTypeOK, Account
  <2>3. code \in Code /\ code # <<>>
    BY <2>2, ValidCodesShape, CodeShape
  <2>4. q \in InProgress /\ q.at = "totp" /\ q.code # <<>> /\ Goes(r, q)
    BY <2>1, <2>3 DEF InProgress
  <2> HIDE DEF q
  <2> QED
    BY <1>1, <1>2, <2>4, LoginRequestMoves
<1> QED
  BY <1>3, <1>4

\* The counter moves past every spent code, or the login is refused.
LEMMA LoginTOTPInv ==
    ASSUME SessionsInv, NEW r \in Request, LoginTOTP(r)
    PROVE  SessionsInv'
<1> DEFINE code == requests[r].code
<1>1. requests[r] \in [at : {"totp", "create"}, code : Code \cup {<<>>}] /\ code \in Code
      /\ code # <<>> /\ code[1] \in 1..MaxSecret /\ code[2] \in Step
  <2>1. requests[r] \in [at : {"totp", "create"}, code : Code \cup {<<>>}]
    BY LoginRequestShape DEF LoginTOTP, SessionsInv
  <2>2. code \in Code
    BY <2>1 DEF LoginTOTP, SessionsInv, LoginsProve
  <2> QED
    BY <2>1, <2>2, CodeShape
<1>2. UNCHANGED <<sessions, pending, secrets, now, changes, reached>>
  BY DEF LoginTOTP
<1>3. CASE CounterAdvances(code)
  <2> DEFINE q == [requests[r] EXCEPT !.at = "create"]
  <2>1. /\ account' = [account EXCEPT !.mfa_last = code[2]] /\ Goes(r, q)
        /\ replayed' = (replayed \/ code \in spent)
        /\ spent' = spent \cup {code} /\ late' = late
    BY <1>3 DEF LoginTOTP
  <2>2. q \in InProgress /\ q.at = "create" /\ q.code # <<>>
    BY <1>1 DEF InProgress
  <2> HIDE DEF q
  <2>3. /\ requests' \in [Request -> InProgress \cup {Idle}]
        /\ requests'[r] = q
        /\ \A x \in Request : x # r => requests'[x] = requests[x]
    BY <2>1, <2>2, Moves DEF SessionsInv
  <2>4. account' \in Account /\ account'.mfa_last = code[2] /\ account'.mfa_secret = account.mfa_secret
    BY <1>1, <2>1 DEF Account, SessionsInv, SessionsTypeOK
  <2>5. code \notin spent
    <3>1. account.mfa_last < code[2] /\ account.mfa_last \in Nat /\ code[2] \in Nat
      BY <1>1, <1>3 DEF CounterAdvances, SessionsInv, SessionsTypeOK, Account, Step
    <3>2. code \in spent => code[2] <= account.mfa_last
      BY DEF SessionsInv, SpentBehind
    <3> QED
      BY <3>1, <3>2
  <2>6. replayed' = FALSE
    BY <2>1, <2>5 DEF SessionsInv, LoginCodeFresh
  <2>7. spent' \subseteq Code
    BY <1>1, <2>1 DEF SessionsInv, SessionsTypeOK
  <2> HIDE DEF code
  <2>8. SpentBehind'
    <3> SUFFICES ASSUME NEW c \in spent' PROVE c[2] <= account'.mfa_last
      BY DEF SpentBehind
    <3>1. account.mfa_last < code[2] /\ account.mfa_last \in Nat /\ code[2] \in Nat
      BY <1>1, <1>3 DEF CounterAdvances, SessionsInv, SessionsTypeOK, Account, Step
    <3>2. CASE c = code
      BY <2>4, <3>1, <3>2
    <3>3. CASE c \in spent
      <4>1. c[2] <= account.mfa_last /\ c[2] \in Nat
        BY <2>7, <3>3, CodeShape DEF SessionsInv, SessionsTypeOK, SpentBehind, Step
      <4> QED
        BY <2>4, <3>1, <4>1
    <3> QED
      BY <2>1, <3>2, <3>3
  <2>9. SessionsTypeOK'
    BY <1>2, <2>1, <2>3, <2>4, <2>6, <2>7 DEF SessionsInv, SessionsTypeOK
  <2>10. LoginCodeFresh' /\ ReachedClosed' /\ ExpiryBounded'
    BY <1>2, <2>6 DEF SessionsInv, LoginCodeFresh, ReachedClosed, ExpiryBounded
  <2>11. SecondFactor'
    BY <1>2, <2>1, <2>4 DEF SessionsInv, SecondFactor
  <2>12. LoginsProve'
    BY <2>1, <2>2, <2>3, <2>4 DEF SessionsInv, LoginsProve
  <2> QED
    BY <2>8, <2>9, <2>10, <2>11, <2>12 DEF SessionsInv
<1>4. CASE ~CounterAdvances(code)
  <2>1. Goes(r, Idle) /\ late' = late \ {r} /\ UNCHANGED <<account, spent, replayed>>
    BY <1>4 DEF LoginTOTP, Done
  <2>2. pending' \in 0..MaxSecret /\ secrets' \in 0..MaxSecret /\ Idle.at = "idle"
    BY <1>2 DEF SessionsInv, SessionsTypeOK, Idle
  <2> QED
    BY <1>2, <2>1, <2>2, LoginRequestMoves
<1> QED
  BY <1>3, <1>4

\* A session is a row that did not exist, so no revocation reached it.
LEMMA CreateSessionInv ==
    ASSUME SessionsInv, NEW r \in Request, NEW s \in Session, CreateSession(r, s)
    PROVE  SessionsInv'
<1> DEFINE row == [st |-> "open", mfa |-> requests[r].code # <<>>, created |-> now,
                   expires |-> now + TTL]
<1>1. /\ requests[r].at = "create" /\ sessions[s].st = "none"
      /\ sessions' = [sessions EXCEPT ![s] = row]
      /\ late' = (late \ {r}) \cup (IF r \in late THEN {s} ELSE {})
      /\ Goes(r, Idle)
      /\ UNCHANGED <<account, pending, secrets, now, changes, reached, spent, replayed>>
  BY DEF CreateSession, Done
<1>2. now \in Nat /\ TTL \in Nat /\ TTL <= Life /\ Life \in Nat
  BY SessionsAssumption DEF SessionsInv, SessionsTypeOK
<1>3. row \in SessionRow /\ row.st = "open" /\ row.mfa = (requests[r].code # <<>>)
      /\ row.expires <= row.created + Life
  BY <1>2 DEF SessionRow
<1> HIDE DEF row
<1>4. sessions \in [Session -> SessionRow]
  BY DEF SessionsInv, SessionsTypeOK, SessionRow
<1>5. /\ sessions' \in [Session -> SessionRow] /\ sessions'[s] = row
      /\ \A x \in Session : x # s => sessions'[x] = sessions[x]
  BY <1>1, <1>3, <1>4
<1>6. /\ requests' \in [Request -> InProgress \cup {Idle}]
      /\ requests'[r].at = "idle"
      /\ \A x \in Request : x # r => requests'[x] = requests[x]
  BY <1>1, Moves DEF SessionsInv, Idle
<1>7. /\ late' \subseteq Request \cup Session /\ \A x \in late : x # r => x \in late'
      /\ (r \in late => s \in late')
      /\ r \notin Session
  BY <1>1, SessionsAssumption DEF SessionsInv, SessionsTypeOK
<1>8. SessionsTypeOK'
  BY <1>1, <1>5, <1>6, <1>7 DEF SessionsInv, SessionsTypeOK, SessionRow
<1>9. LoginCodeFresh' /\ SpentBehind'
  BY <1>1 DEF SessionsInv, LoginCodeFresh, SpentBehind
<1>10. ReachedClosed'
  BY <1>1, <1>5 DEF SessionsInv, SessionsTypeOK, ReachedClosed
<1>11. ExpiryBounded'
  BY <1>3, <1>5 DEF SessionsInv, ExpiryBounded
<1>12. SecondFactor'
  <2> SUFFICES ASSUME account.mfa_secret # 0, NEW x \in Session, sessions'[x].st = "open",
                      ~sessions'[x].mfa
               PROVE  x \in late'
    BY <1>1 DEF SecondFactor
  <2>1. CASE x = s
    <3>1. requests[r].code = <<>>
      BY <1>3, <1>5, <2>1
    <3> QED
      BY <1>1, <1>7, <2>1, <3>1 DEF SessionsInv, LoginsProve
  <2>2. CASE x # s
    BY <1>5, <1>7, <2>2 DEF SessionsInv, SecondFactor
  <2> QED
    BY <2>1, <2>2
<1>13. LoginsProve'
  BY <1>1, <1>6, <1>7 DEF SessionsInv, LoginsProve
<1> QED
  BY <1>8, <1>9, <1>10, <1>11, <1>12, <1>13 DEF SessionsInv

-----------------------------------------------------------------------------
(* Requests of a signed-in browser. *)

\* Authentication gives the handler its copies.
LEMMA AuthenticateInv ==
    ASSUME SessionsInv, NEW r \in Request, NEW s \in Session, Authenticate(r, s)
    PROVE  SessionsInv'
<1> DEFINE q == [at |-> "handler", session |-> s,
                 password |-> account.password, mfa |-> account.mfa_secret # 0]
<1>1. q \in InProgress /\ q.at = "handler"
  BY DEF InProgress, SessionsInv, SessionsTypeOK, Account
<1>2. Goes(r, q) /\ UNCHANGED <<account, sessions, pending, secrets, now, changes, reached, late, spent, replayed>>
  BY DEF Authenticate, history
<1>3. pending' \in 0..MaxSecret /\ secrets' \in 0..MaxSecret
  BY <1>2 DEF SessionsInv, SessionsTypeOK
<1> HIDE DEF q
<1> QED
  BY <1>1, <1>2, <1>3, LoginRequestMoves

\* logout and revokeSession close one row.
LEMMA CloseInv ==
    ASSUME SessionsInv, NEW r \in Request, NEW s \in Session, Close(r, s)
    PROVE  SessionsInv'
<1>1. Closed \in SessionRow /\ Closed.st = "revoked"
  BY DEF Closed, NoSession, SessionRow
<1>2. sessions \in [Session -> SessionRow] /\ sessions' = [sessions EXCEPT ![s] = Closed]
  BY DEF SessionsInv, SessionsTypeOK, SessionRow, Close
<1>3. /\ sessions' \in [Session -> SessionRow] /\ sessions'[s].st = "revoked"
      /\ \A x \in Session : x # s => sessions'[x] = sessions[x]
  BY <1>1, <1>2
<1>4. Done(r) /\ UNCHANGED <<account, pending, secrets, now, changes, reached, late, spent, replayed>>
  BY DEF Close, history
<1> QED
  BY <1>3, <1>4, TableWritten DEF SessionsInv, ExpiryBounded

\* A renewal moves the expiry of a row that is still open, up to the limit.
LEMMA RotateInv ==
    ASSUME SessionsInv, NEW r \in Request, Rotate(r)
    PROVE  SessionsInv'
<1> DEFINE s == requests[r].session
<1>1. s \in Session /\ sessions \in [Session -> SessionRow] /\ now \in Nat /\ TTL \in Nat /\ Life \in Nat
  BY LoginRequestShape, SessionsAssumption DEF Rotate, SessionsInv, SessionsTypeOK, SessionRow
<1>2. Done(r) /\ UNCHANGED <<account, pending, secrets, now, changes, reached, late, spent, replayed>>
      /\ sessions' = Rotated(s)
  BY DEF Rotate, history
<1> HIDE DEF s
<1>3. sessions[s].created \in Nat
  BY <1>1 DEF SessionRow
<1>4. RenewedUntil(s) \in Nat /\ RenewedUntil(s) <= sessions[s].created + Life
  BY <1>1, <1>3 DEF RenewedUntil
<1>5. CASE Usable(s)
  <2> DEFINE row == [sessions[s] EXCEPT !.expires = RenewedUntil(s)]
  <2>1. sessions' = [sessions EXCEPT ![s] = row]
    BY <1>1, <1>2, <1>5 DEF Rotated
  <2>2. row \in SessionRow /\ row.st = sessions[s].st /\ row.mfa = sessions[s].mfa
        /\ row.expires <= row.created + Life
    BY <1>1, <1>4 DEF SessionRow
  <2> HIDE DEF row
  <2>3. /\ sessions' \in [Session -> SessionRow] /\ sessions'[s] = row
        /\ \A x \in Session : x # s => sessions'[x] = sessions[x]
    BY <1>1, <2>1, <2>2
  <2> QED
    BY <1>2, <2>2, <2>3, TableWritten DEF SessionsInv, ExpiryBounded
<1>6. CASE ~Usable(s)
  <2>1. sessions' = sessions
    BY <1>2, <1>6 DEF Rotated
  <2> QED
    BY <1>1, <1>2, <2>1, TableWritten DEF SessionsInv, ExpiryBounded
<1> QED
  BY <1>5, <1>6

\* revokeUserSessions.
LEMMA RevokeAllInv ==
    ASSUME SessionsInv, NEW r \in Request, RevokeAll(r)
    PROVE  SessionsInv'
<1>1. /\ requests' \in [Request -> InProgress \cup {Idle}]
      /\ \A x \in Request : requests'[x] \in {requests[x], Idle}
  BY Moves DEF RevokeAll, Done, SessionsInv
<1>2. changes' \in 0..MaxChanges
  BY SessionsAssumption DEF RevokeAll, SessionsInv, SessionsTypeOK
<1>3. Revoke({}) /\ UNCHANGED <<account, pending, secrets, now, spent, replayed>>
  BY DEF RevokeAll
<1>4. account' \in Account /\ pending' \in 0..MaxSecret /\ secrets' \in 0..MaxSecret
  BY <1>3 DEF SessionsInv, SessionsTypeOK
<1> QED
  BY <1>1, <1>2, <1>3, <1>4, PlainRevocation

\* A password change spares the session that asked for it.
LEMMA PasswordInv ==
    ASSUME SessionsInv, NEW r \in Request, Password(r)
    PROVE  SessionsInv'
<1>1. /\ requests' \in [Request -> InProgress \cup {Idle}]
      /\ \A x \in Request : requests'[x] \in {requests[x], Idle}
  BY Moves DEF Password, Done, SessionsInv
<1>2. changes' \in 0..MaxChanges /\ 2 + changes \in 0..MaxChanges + 1
  BY SessionsAssumption DEF Password, SessionsInv, SessionsTypeOK
<1>3. /\ Revoke({requests[r].session}) /\ {requests[r].session} \in SUBSET Session
      /\ UNCHANGED <<pending, secrets, now, spent, replayed>>
      /\ account' = [account EXCEPT !.password = 2 + changes, !.force = FALSE]
  BY LoginRequestShape DEF Password, SessionsInv
<1>4. account' \in Account /\ account'.mfa_last = account.mfa_last
      /\ account'.mfa_secret = account.mfa_secret
  BY <1>2, <1>3 DEF SessionsInv, SessionsTypeOK, Account
<1>5. pending' \in 0..MaxSecret /\ secrets' \in 0..MaxSecret
  BY <1>3 DEF SessionsInv, SessionsTypeOK
<1> QED
  BY <1>1, <1>2, <1>3, <1>4, <1>5, PlainRevocation

\* A new secret waits for its confirmation.
LEMMA MfaEnrollInv ==
    ASSUME SessionsInv, NEW r \in Request, MfaEnroll(r)
    PROVE  SessionsInv'
<1>1. Goes(r, Idle) /\ UNCHANGED <<account, sessions, now, changes, reached, late, spent, replayed>>
  BY DEF MfaEnroll, Done, history
<1>2. pending' \in 0..MaxSecret /\ secrets' \in 0..MaxSecret
  BY SessionsAssumption DEF MfaEnroll, SessionsInv, SessionsTypeOK
<1>3. Idle.at = "idle"
  BY DEF Idle
<1> QED
  BY <1>1, <1>2, <1>3, LoginRequestMoves

\* mfaVerify has checked a code of the waiting secret.
LEMMA MfaVerifyInv ==
    ASSUME SessionsInv, NEW r \in Request, MfaVerify(r)
    PROVE  SessionsInv'
<1>1. PICK code \in ValidCodes(pending) :
          Goes(r, [at |-> "verify", session |-> requests[r].session, code |-> code])
  BY DEF MfaVerify
<1> DEFINE q == [at |-> "verify", session |-> requests[r].session, code |-> code]
<1>2. pending \in 1..MaxSecret /\ requests[r].session \in Session
  BY LoginRequestShape, SessionsAssumption DEF MfaVerify, SessionsInv, SessionsTypeOK
<1>3. code \in Code
  BY <1>2, ValidCodesShape
<1>4. q \in InProgress /\ q.at = "verify" /\ Goes(r, q)
  BY <1>1, <1>2, <1>3 DEF InProgress
<1>5. UNCHANGED <<account, sessions, pending, secrets, now, changes, reached, late, spent, replayed>>
  BY DEF MfaVerify, history
<1>6. pending' \in 0..MaxSecret /\ secrets' \in 0..MaxSecret
  BY <1>5 DEF SessionsInv, SessionsTypeOK
<1> HIDE DEF q
<1> QED
  BY <1>4, <1>5, <1>6, LoginRequestMoves

\* The enrolment marks its own session, closes the others, and overtakes every
\* login in progress.
LEMMA MfaCommitInv ==
    ASSUME SessionsInv, NEW r \in Request, MfaCommit(r)
    PROVE  SessionsInv'
<1> DEFINE code == requests[r].code
           s == requests[r].session
           table == [sessions EXCEPT ![s].mfa = TRUE]
<1>1. s \in Session /\ code \in Code /\ code[1] \in 1..MaxSecret /\ code[2] \in Step
  BY LoginRequestShape, CodeShape DEF MfaCommit, SessionsInv
<1>2. sessions \in [Session -> SessionRow]
  BY DEF SessionsInv, SessionsTypeOK, SessionRow
<1>3. /\ requests' \in [Request -> InProgress \cup {Idle}]
      /\ \A x \in Request : requests'[x] \in {requests[x], Idle}
  BY Moves DEF MfaCommit, Done, SessionsInv
<1>4. /\ sessions' = Revoked(table, {s}) /\ Cover({s}) /\ pending' = 0
      /\ UNCHANGED <<secrets, now, changes, replayed>>
      /\ \/ account.mfa_secret = 0 /\ spent' = {code}
            /\ account' = [account EXCEPT !.mfa_secret = code[1], !.mfa_last = code[2]]
         \/ account.mfa_secret # 0 /\ UNCHANGED <<account, spent>>
  BY DEF MfaCommit, Confirmed
<1> HIDE DEF code, s
<1>5. /\ table \in [Session -> SessionRow] /\ table[s].mfa
      /\ \A x \in Session : /\ table[x].st = sessions[x].st
                            /\ table[x].created = sessions[x].created
                            /\ table[x].expires = sessions[x].expires
                            /\ table[x].mfa \/ table[x].mfa = sessions[x].mfa
  <2> DEFINE row == [sessions[s] EXCEPT !.mfa = TRUE]
  <2>1. row \in SessionRow /\ row.st = sessions[s].st /\ row.created = sessions[s].created
        /\ row.expires = sessions[s].expires /\ row.mfa
    BY <1>1, <1>2 DEF SessionRow
  <2>2. table = [sessions EXCEPT ![s] = row]
    BY <1>1, <1>2
  <2> HIDE DEF row, table
  <2>3. /\ table \in [Session -> SessionRow] /\ table[s] = row
        /\ \A x \in Session : x # s => table[x] = sessions[x]
    BY <1>1, <1>2, <2>1, <2>2
  <2> QED
    BY <2>1, <2>3
<1> HIDE DEF table
<1>6. account' \in Account /\ spent' \subseteq Code /\ SpentBehind'
  <2>1. CASE account.mfa_secret = 0
    <3>1. account' \in Account /\ account'.mfa_last = code[2] /\ spent' = {code}
      <4> DEFINE secret == code[1]
                 last == code[2]
      <4>1. secret \in 0..MaxSecret /\ last \in Step
        BY <1>1, SessionsAssumption
      <4>2. account \in Account
        BY DEF SessionsInv, SessionsTypeOK
      <4>3. account' = [account EXCEPT !.mfa_secret = secret, !.mfa_last = last] /\ spent' = {code}
        BY <1>4, <2>1
      <4> HIDE DEF secret, last
      <4>4. account' \in Account /\ account'.mfa_last = last
        BY <4>1, <4>2, <4>3 DEF Account
      <4> QED
        BY <4>3, <4>4 DEF last
    <3>2. code[2] <= code[2]
      BY <1>1, SessionsAssumption DEF Step
    <3> QED
      BY <1>1, <3>1, <3>2 DEF SpentBehind
  <2>2. CASE account.mfa_secret # 0
    BY <1>4, <2>2 DEF SessionsInv, SessionsTypeOK, SpentBehind
  <2> QED
    BY <2>1, <2>2
<1>7. pending' \in 0..MaxSecret /\ secrets' \in 0..MaxSecret /\ now' = now /\ changes' \in 0..MaxChanges
      /\ replayed' = replayed
  BY <1>4, SessionsAssumption DEF SessionsInv, SessionsTypeOK
<1>8. {s} \in SUBSET Session /\ \A x \in {s} : table[x].mfa
  BY <1>1, <1>5
<1> QED
  BY <1>3, <1>4, <1>5, <1>6, <1>7, <1>8, MassRevocation

\* A request that breaks off.
LEMMA AbandonInv ==
    ASSUME SessionsInv, NEW r \in Request, Abandon(r)
    PROVE  SessionsInv'
<1>1. Goes(r, Idle) /\ late' = late \ {r} /\ Idle.at = "idle"
      /\ UNCHANGED <<account, sessions, pending, secrets, now, changes, reached, spent, replayed>>
  BY DEF Abandon, Done, Idle
<1>2. pending' \in 0..MaxSecret /\ secrets' \in 0..MaxSecret
  BY <1>1 DEF SessionsInv, SessionsTypeOK
<1> QED
  BY <1>1, <1>2, LoginRequestMoves

-----------------------------------------------------------------------------
(* Administrators and the clock. *)

\* An administrator's transaction keeps the counter, and the secret or drops it.
LEMMA AdministerInv ==
    ASSUME SessionsInv, NEW row \in Account, Administer(row),
           row.mfa_last = account.mfa_last, row.mfa_secret \in {0, account.mfa_secret}
    PROVE  SessionsInv'
<1>1. /\ account' = row /\ Revoke({})
      /\ UNCHANGED <<pending, secrets, requests, now, spent, replayed>>
  BY DEF Administer
<1>2. changes' \in 0..MaxChanges
  BY SessionsAssumption DEF Administer, SessionsInv, SessionsTypeOK
<1>3. /\ pending' \in 0..MaxSecret /\ secrets' \in 0..MaxSecret
      /\ requests' \in [Request -> InProgress \cup {Idle}]
  BY <1>1 DEF SessionsInv, SessionsTypeOK
<1> QED
  BY <1>1, <1>2, <1>3, PlainRevocation

\* updateUser, deleteUser and resetPassword.
LEMMA AdministrationInv ==
    ASSUME SessionsInv,
           (\E enabled, force \in BOOLEAN : UpdateUser(enabled, force)) \/ DeleteUser \/ ResetPassword
    PROVE  SessionsInv'
<1>1. account \in Account /\ account.mfa_secret \in 0..MaxSecret /\ 0 \in 0..MaxSecret
      /\ 0 \in 0..MaxChanges + 1
  BY SessionsAssumption DEF SessionsInv, SessionsTypeOK, Account
<1>2. ASSUME NEW enabled \in BOOLEAN, NEW force \in BOOLEAN, UpdateUser(enabled, force)
      PROVE  SessionsInv'
  <2> DEFINE row == [account EXCEPT !.enabled = enabled, !.force = force]
  <2>1. row \in Account /\ row.mfa_last = account.mfa_last /\ row.mfa_secret = account.mfa_secret
    BY <1>1 DEF Account
  <2>2. Administer(row)
    BY <1>2 DEF UpdateUser
  <2> HIDE DEF row
  <2> QED
    BY <2>1, <2>2, AdministerInv
<1>3. CASE DeleteUser
  <2> DEFINE row == [account EXCEPT !.enabled = FALSE, !.password = 0, !.mfa_secret = 0]
  <2>1. row \in Account /\ row.mfa_last = account.mfa_last /\ row.mfa_secret = 0
    BY <1>1 DEF Account
  <2>2. Administer(row)
    BY <1>3 DEF DeleteUser
  <2> HIDE DEF row
  <2> QED
    BY <2>1, <2>2, AdministerInv
<1>4. CASE ResetPassword
  <2> DEFINE row == [account EXCEPT !.password = 2 + changes, !.force = TRUE]
  <2>1. 2 + changes \in 0..MaxChanges + 1
    BY <1>4, SessionsAssumption DEF ResetPassword, Administer, SessionsInv, SessionsTypeOK
  <2>2. row \in Account /\ row.mfa_last = account.mfa_last /\ row.mfa_secret = account.mfa_secret
    BY <1>1, <2>1 DEF Account
  <2>3. Administer(row)
    BY <1>4 DEF ResetPassword
  <2> HIDE DEF row
  <2> QED
    BY <2>2, <2>3, AdministerInv
<1> QED
  BY <1>2, <1>3, <1>4

\* The clock, or nothing, moves.
LEMMA TickInv ==
    ASSUME SessionsInv, Tick \/ UNCHANGED sessionsVars
    PROVE  SessionsInv'
<1>1. /\ UNCHANGED <<account, sessions, pending, secrets, requests, changes, reached, late, spent, replayed>>
      /\ now' \in 1..MaxClock
  BY SessionsAssumption DEF Tick, history, sessionsVars, SessionsInv, SessionsTypeOK
<1>2. SessionsTypeOK'
  BY <1>1 DEF SessionsInv, SessionsTypeOK
<1>3. LoginCodeFresh' /\ SpentBehind' /\ ReachedClosed' /\ ExpiryBounded'
  BY <1>1 DEF SessionsInv, LoginCodeFresh, SpentBehind, ReachedClosed, ExpiryBounded
<1>4. SecondFactor' /\ LoginsProve'
  BY <1>1 DEF SessionsInv, SecondFactor, LoginsProve
<1> QED
  BY <1>2, <1>3, <1>4 DEF SessionsInv

-----------------------------------------------------------------------------
\* The rows remember what was done once, through every interleaving of logins,
\* renewals, enrolments, password changes and administrators.
THEOREM SessionsInvariant == SessionsSpec => []SessionsInv
<1>1. SessionsInv /\ [SessionsNext]_sessionsVars => SessionsInv'
  <2> SUFFICES ASSUME SessionsInv, [SessionsNext]_sessionsVars PROVE SessionsInv'
    OBVIOUS
  <2>1. CASE SignIn
    BY <2>1, LoginInv, LoginTOTPInv, CreateSessionInv DEF SignIn
  <2>2. CASE Browse
    <3>1. PICK r \in Request :
            \/ \E s \in Session : Authenticate(r, s) \/ RevokeSession(r, s)
            \/ Logout(r) \/ RevokeAll(r) \/ Rotate(r) \/ Password(r)
            \/ MfaEnroll(r) \/ MfaVerify(r) \/ MfaCommit(r) \/ Abandon(r)
      BY <2>2 DEF Browse
    <3>2. ASSUME NEW s \in Session, Authenticate(r, s) \/ RevokeSession(r, s) PROVE SessionsInv'
      BY <3>2, AuthenticateInv, CloseInv DEF RevokeSession
    <3>3. CASE Logout(r)
      <4>1. requests[r].session \in Session
        BY <3>3, LoginRequestShape DEF Logout, SessionsInv
      <4> QED
        BY <3>3, <4>1, CloseInv DEF Logout
    <3>4. CASE RevokeAll(r) \/ Rotate(r) \/ Password(r)
      BY <3>4, RevokeAllInv, RotateInv, PasswordInv
    <3>5. CASE MfaEnroll(r) \/ MfaVerify(r) \/ MfaCommit(r) \/ Abandon(r)
      BY <3>5, MfaEnrollInv, MfaVerifyInv, MfaCommitInv, AbandonInv
    <3> QED
      BY <3>1, <3>2, <3>3, <3>4, <3>5
  <2>3. CASE (\E enabled, force \in BOOLEAN : UpdateUser(enabled, force)) \/ DeleteUser \/ ResetPassword
    BY <2>3, AdministrationInv
  <2>4. CASE Tick \/ UNCHANGED sessionsVars
    BY <2>4, TickInv
  <2> QED
    BY <2>1, <2>2, <2>3, <2>4 DEF SessionsNext
<1> QED
  BY <1>1, SessionsInitInv, PTL DEF SessionsSpec

\* A code opens one session, a revocation is final, an open session has proved
\* its second factor (but for logins the enrolment overtook), and no renewal goes
\* past the limit: for any number of requests in progress at once.
THEOREM SessionsAreSafe == SessionsSpec => []SessionsSafe
<1>1. SessionsInv => SessionsSafe
  <2> SUFFICES ASSUME SessionsInv PROVE SessionsSafe
    OBVIOUS
  <2>1. RevocationReaches
    BY DEF SessionsInv, ReachedClosed, RevocationReaches
  <2>2. LifetimeBounded
    <3> SUFFICES ASSUME NEW s \in Session, Usable(s) PROVE now < sessions[s].created + Life
      BY DEF LifetimeBounded
    <3>1. sessions[s].expires \in Nat /\ sessions[s].created \in Nat /\ now \in Nat /\ Life \in Nat
      BY SessionsAssumption DEF SessionsInv, SessionsTypeOK
    <3> QED
      BY <3>1 DEF Usable, SessionsInv, ExpiryBounded
  <2> QED
    BY <2>1, <2>2 DEF SessionsInv, SessionsSafe
<1> QED
  BY <1>1, SessionsInvariant, PTL

-----------------------------------------------------------------------------
(***************************************************************************)
(* AccountsSafe for any number of accounts, tokens and requests. That the  *)
(* guard keeps an administrator is not inductive: between the count and    *)
(* the update other requests write accounts. AccountsInv adds what the     *)
(* advisory lock is for (one request at a time is past its count) and what *)
(* the count is worth until the commit (another administrator is still     *)
(* there, or one was lost outside the guard).                              *)
(***************************************************************************)

\* A request past its count holds the advisory lock.
CountedHoldsLock == \A r \in AdminRequest : adminRequests[r].at = "counted" => lock = r

\* The count stays true until the commit.
CountHolds == \A r \in AdminRequest :
    adminRequests[r].at = "counted" /\ Guards(r) => Others(adminRequests[r].user) # {} \/ bypassed

\* Rows are never removed: what a deletion read is still there.
DeletedExists == \A r \in AdminRequest :
    adminRequests[r].at = "delete" => Exists(adminRequests[r].user)

\* A token that was there at the deletion is revoked, and stays.
BuriedRevoked == \A t \in buried : tokens[t] # None /\ tokens[t].revoked

\* The inductive invariant.
AccountsInv ==
    /\ AccountsTypeOK /\ GuardKeepsAdmin
    /\ CountedHoldsLock /\ CountHolds /\ DeletedExists /\ BuriedRevoked

-----------------------------------------------------------------------------
\* A row is not None, and neither is a request.
LEMMA Distinct == /\ \A row \in Row : row # None
                  /\ \A row \in TokenRow : row # None
                  /\ \A r \in AdminRequest : r # None
  BY NoneAssumption

\* A step of one request leaves the others where they were.
LEMMA AdminMoves ==
    ASSUME AccountsTypeOK, NEW r \in AdminRequest,
           NEW q \in AdminInProgress \cup {NoAdminRequest}, AdminGoes(r, q)
    PROVE  /\ adminRequests' \in [AdminRequest -> AdminInProgress \cup {NoAdminRequest}]
           /\ adminRequests'[r] = q
           /\ \A s \in AdminRequest : s # r => adminRequests'[s] = adminRequests[s]
  BY DEF AccountsTypeOK, AdminGoes

\* The fields of a request, by where it stands.
LEMMA AdminRequestShape ==
    ASSUME AccountsTypeOK, NEW r \in AdminRequest
    PROVE  /\ adminRequests[r].at \in {"read", "counted"} =>
                adminRequests[r] \in [at : {"read", "counted"}, user : User, seen : Role, row : Row]
           /\ adminRequests[r].at \in {"delete", "token"} =>
                adminRequests[r] \in [at : {"delete", "token"}, user : User]
  BY DEF AccountsTypeOK, AdminInProgress, NoAdminRequest

\* The history bit is a Boolean again.
LEMMA BypassType ==
    ASSUME NEW u, NEW guarded, Bypass(u, guarded)
    PROVE  bypassed' \in BOOLEAN
  BY DEF Bypass

\* A step that writes accounts outside the guard either keeps every
\* administrator but for the one it counts as bypassed, or loses none.
LEMMA WriteOneAccount ==
    ASSUME AccountsTypeOK, NEW u \in User,
           \A v \in User : v # u => users'[v] = users[v]
    PROVE  \A v \in User : v # u => (v \in Admins' <=> v \in Admins)
  BY DEF Admins, Exists

-----------------------------------------------------------------------------
\* At the start the administrator from the command line is there.
LEMMA AccountsInitInv == AccountsInit => AccountsInv
<1> SUFFICES ASSUME AccountsInit PROVE AccountsInv
  OBVIOUS
<1>1. AccountsTypeOK
  <2>1. users \in [User -> Row \cup {None}]
    BY DEF AccountsInit, Row, Role
  <2>2. /\ tokens \in [Token -> TokenRow \cup {None}]
        /\ adminRequests \in [AdminRequest -> AdminInProgress \cup {NoAdminRequest}]
    BY DEF AccountsInit
  <2>3. lock \in AdminRequest \cup {None} /\ begun \in 0..MaxBegun /\ synced \in 0..MaxSync
    BY AccountsAssumption DEF AccountsInit
  <2>4. bypassed \in BOOLEAN /\ buried \subseteq Token
    BY DEF AccountsInit
  <2> QED
    BY <2>1, <2>2, <2>3, <2>4 DEF AccountsTypeOK
<1>2. First \in Admins
  <2>1. [role |-> "ADMIN", enabled |-> TRUE] \in Row
    BY DEF Row, Role
  <2> QED
    BY <2>1, Distinct, AccountsAssumption DEF AccountsInit, Admins, Exists
<1>3. \A r \in AdminRequest : adminRequests[r].at = "idle"
  BY DEF AccountsInit, NoAdminRequest
<1>4. CountedHoldsLock /\ CountHolds /\ DeletedExists
  BY <1>3 DEF CountedHoldsLock, CountHolds, DeletedExists
<1> QED
  BY <1>1, <1>2, <1>4 DEF AccountsInv, GuardKeepsAdmin, BuriedRevoked, AccountsInit

\* What a write of one account, by whatever request, leaves true: the count of
\* the request that holds the lock, and an administrator or the history bit.
LEMMA WriteKeepsCount ==
    ASSUME AccountsInv, NEW u \in User,
           \A v \in User : v # u => users'[v] = users[v],
           u \in Admins /\ u \notin Admins' => bypassed',
           bypassed => bypassed'
    PROVE  /\ GuardKeepsAdmin'
           /\ \A w \in User : Others(w) # {} \/ bypassed => Others(w)' # {} \/ bypassed'
<1>1. \A v \in User : v # u => (v \in Admins' <=> v \in Admins)
  BY WriteOneAccount DEF AccountsInv
<1>2. Admins \subseteq User /\ Admins' \subseteq User
  BY DEF Admins
<1>3. \A v \in Admins : v \in Admins' \/ bypassed'
  BY <1>1, <1>2
<1> QED
  BY <1>2, <1>3 DEF AccountsInv, GuardKeepsAdmin, Others

\* A step that leaves accounts, tokens and histories alone and moves one request.
LEMMA AdminRequestMoves ==
    ASSUME AccountsInv, NEW r \in AdminRequest,
           NEW q \in AdminInProgress \cup {NoAdminRequest}, AdminGoes(r, q),
           UNCHANGED <<users, tokens, synced, bypassed, buried>>,
           begun' \in 0..MaxBegun, lock' \in AdminRequest \cup {None},
           q.at = "counted" => lock' = r,
           \A s \in AdminRequest : s # r /\ adminRequests[s].at = "counted" => lock' = lock,
           q.at = "counted" /\ q.seen = "ADMIN" /\ Demotes(q.row) => Others(q.user) # {},
           q.at = "delete" => Exists(q.user)
    PROVE  AccountsInv'
<1>1. /\ adminRequests' \in [AdminRequest -> AdminInProgress \cup {NoAdminRequest}]
      /\ adminRequests'[r] = q
      /\ \A s \in AdminRequest : s # r => adminRequests'[s] = adminRequests[s]
  BY AdminMoves DEF AccountsInv
<1>2. AccountsTypeOK'
  BY <1>1 DEF AccountsInv, AccountsTypeOK
<1>3. Admins' = Admins /\ \A w : Others(w)' = Others(w)
  BY DEF Admins, Exists, Others
<1>4. GuardKeepsAdmin' /\ BuriedRevoked'
  BY <1>3 DEF AccountsInv, GuardKeepsAdmin, BuriedRevoked
<1>5. CountedHoldsLock'
  BY <1>1 DEF AccountsInv, CountedHoldsLock
<1>6. CountHolds'
  <2> SUFFICES ASSUME NEW s \in AdminRequest, adminRequests'[s].at = "counted", Guards(s)'
               PROVE  Others(adminRequests'[s].user) # {} \/ bypassed
    BY <1>3 DEF CountHolds
  <2>1. CASE s = r
    BY <1>1, <2>1 DEF Guards
  <2>2. CASE s # r
    BY <1>1, <2>2 DEF Guards, AccountsInv, CountHolds
  <2> QED
    BY <2>1, <2>2
<1>7. DeletedExists'
  BY <1>1 DEF AccountsInv, DeletedExists, Exists
<1> QED
  BY <1>2, <1>4, <1>5, <1>6, <1>7 DEF AccountsInv

\* A write of one account that loses no administrator, or counts the loss.
LEMMA AccountWritten ==
    ASSUME AccountsInv, NEW u \in User, users' \in [User -> Row \cup {None}], users'[u] # None,
           \A v \in User : v # u => users'[v] = users[v],
           u \in Admins /\ u \notin Admins' => bypassed',
           bypassed => bypassed', bypassed' \in BOOLEAN,
           adminRequests' \in [AdminRequest -> AdminInProgress \cup {NoAdminRequest}],
           \A s \in AdminRequest : adminRequests'[s] \in {adminRequests[s], NoAdminRequest},
           lock' = lock, begun' \in 0..MaxBegun, synced' \in 0..MaxSync,
           tokens' \in [Token -> TokenRow \cup {None}], buried' \subseteq Token, BuriedRevoked'
    PROVE  AccountsInv'
<1>1. AccountsTypeOK'
  BY DEF AccountsInv, AccountsTypeOK
<1>2. GuardKeepsAdmin' /\ \A w \in User : Others(w) # {} \/ bypassed => Others(w)' # {} \/ bypassed'
  BY WriteKeepsCount
<1>3. \A s \in AdminRequest : adminRequests'[s].at # "idle" => adminRequests'[s] = adminRequests[s]
  BY DEF NoAdminRequest
<1>4. CountedHoldsLock'
  BY <1>3 DEF AccountsInv, CountedHoldsLock
<1>5. CountHolds'
  <2> SUFFICES ASSUME NEW s \in AdminRequest, adminRequests'[s].at = "counted", Guards(s)'
               PROVE  Admins' \ {adminRequests'[s].user} # {} \/ bypassed'
    BY DEF CountHolds, Others
  <2>1. adminRequests'[s] = adminRequests[s]
    BY <1>3
  <2>2. adminRequests[s].user \in User
    BY <2>1, AdminRequestShape DEF AccountsInv
  <2>3. Others(adminRequests[s].user) # {} \/ bypassed
    BY <2>1 DEF AccountsInv, CountHolds, Guards
  <2> QED
    BY <1>2, <2>1, <2>2, <2>3 DEF Others
<1>6. DeletedExists'
  <2> SUFFICES ASSUME NEW s \in AdminRequest, adminRequests'[s].at = "delete"
               PROVE  users'[adminRequests'[s].user] # None
    BY DEF DeletedExists, Exists
  <2>1. adminRequests'[s] = adminRequests[s]
    BY <1>3
  <2>2. adminRequests[s].user \in User /\ users[adminRequests[s].user] # None
    BY <2>1, AdminRequestShape DEF AccountsInv, DeletedExists, Exists
  <2> QED
    BY <2>1, <2>2
<1> QED
  BY <1>1, <1>2, <1>4, <1>5, <1>6 DEF AccountsInv

\* createUser writes a row that was not there.
LEMMA CreateUserInv ==
    ASSUME AccountsInv, NEW r \in AdminRequest, NEW u \in User, NEW row \in Row, CreateUser(r, u, row)
    PROVE  AccountsInv'
<1>1. users' \in [User -> Row \cup {None}] /\ users'[u] = row
      /\ \A v \in User : v # u => users'[v] = users[v]
  BY DEF CreateUser, AccountsInv, AccountsTypeOK
<1>2. u \notin Admins /\ users'[u] # None
  BY <1>1, Distinct DEF CreateUser, Admins
<1>3. begun' \in 0..MaxBegun
  BY AccountsAssumption DEF CreateUser, Begin, AccountsInv, AccountsTypeOK
<1>4. UNCHANGED <<tokens, adminRequests, lock, synced, bypassed, buried>>
  BY DEF CreateUser
<1>5. /\ tokens' \in [Token -> TokenRow \cup {None}] /\ buried' \subseteq Token
      /\ synced' \in 0..MaxSync /\ bypassed' \in BOOLEAN
      /\ adminRequests' \in [AdminRequest -> AdminInProgress \cup {NoAdminRequest}]
  BY <1>4 DEF AccountsInv, AccountsTypeOK
<1>6. BuriedRevoked'
  BY <1>4 DEF AccountsInv, BuriedRevoked
<1> QED
  BY <1>1, <1>2, <1>3, <1>4, <1>5, <1>6, AccountWritten

\* The reads of updateUser, deleteUser and createToken.
LEMMA ReadInv ==
    ASSUME AccountsInv, NEW r \in AdminRequest, NEW u \in User, NEW row \in Row,
           ReadForUpdate(r, u, row) \/ ReadForDelete(r, u) \/ ReadForToken(r, u)
    PROVE  AccountsInv'
<1>1. begun' \in 0..MaxBegun
  BY AccountsAssumption DEF ReadForUpdate, ReadForDelete, ReadForToken, Begin, AccountsInv, AccountsTypeOK
<1>2. UNCHANGED <<users, tokens, lock, synced, bypassed, buried>> /\ lock' \in AdminRequest \cup {None}
  BY DEF ReadForUpdate, ReadForDelete, ReadForToken, AccountsInv, AccountsTypeOK
<1>3. CASE ReadForUpdate(r, u, row)
  <2> DEFINE q == [at |-> "read", user |-> u, seen |-> users[u].role, row |-> row]
  <2>1. users[u].role \in Role
    BY <1>3 DEF ReadForUpdate, Exists, AccountsInv, AccountsTypeOK, Row
  <2>2. q \in AdminInProgress /\ q.at = "read" /\ AdminGoes(r, q)
    BY <1>3, <2>1 DEF AdminInProgress, ReadForUpdate
  <2> HIDE DEF q
  <2> QED
    BY <1>1, <1>2, <2>2, AdminRequestMoves
<1>4. CASE ReadForDelete(r, u)
  <2> DEFINE q == [at |-> "delete", user |-> u]
  <2>1. q \in AdminInProgress /\ q.at = "delete" /\ q.user = u /\ AdminGoes(r, q) /\ Exists(u)
    BY <1>4 DEF AdminInProgress, ReadForDelete
  <2> HIDE DEF q
  <2> QED
    BY <1>1, <1>2, <2>1, AdminRequestMoves
<1>5. CASE ReadForToken(r, u)
  <2> DEFINE q == [at |-> "token", user |-> u]
  <2>1. q \in AdminInProgress /\ q.at = "token" /\ AdminGoes(r, q)
    BY <1>5 DEF AdminInProgress, ReadForToken
  <2> HIDE DEF q
  <2> QED
    BY <1>1, <1>2, <2>1, AdminRequestMoves
<1> QED
  BY <1>3, <1>4, <1>5

\* The lock is granted to one request, and the count is of that moment.
LEMMA LockAndCountInv ==
    ASSUME AccountsInv, NEW r \in AdminRequest, LockAndCount(r)
    PROVE  AccountsInv'
<1>1. adminRequests[r] \in [at : {"read", "counted"}, user : User, seen : Role, row : Row]
  BY AdminRequestShape DEF LockAndCount, AccountsInv
<1>2. \A s \in AdminRequest : adminRequests[s].at # "counted"
  BY Distinct DEF LockAndCount, LockFree, AccountsInv, CountedHoldsLock
<1>3. UNCHANGED <<users, tokens, synced, bypassed, buried>> /\ begun' \in 0..MaxBegun
  BY DEF LockAndCount, AccountsInv, AccountsTypeOK
<1>4. CASE Guards(r) /\ Others(adminRequests[r].user) = {}
  <2>1. AdminGoes(r, NoAdminRequest) /\ UNCHANGED lock /\ NoAdminRequest.at = "idle"
    BY <1>4 DEF LockAndCount, NoAdminRequest
  <2>2. lock' \in AdminRequest \cup {None}
    BY <2>1 DEF AccountsInv, AccountsTypeOK
  <2> QED
    BY <1>2, <1>3, <2>1, <2>2, AdminRequestMoves
<1>5. CASE ~(Guards(r) /\ Others(adminRequests[r].user) = {})
  <2> DEFINE q == [adminRequests[r] EXCEPT !.at = "counted"]
  <2>1. AdminGoes(r, q) /\ lock' = r
    BY <1>5 DEF LockAndCount
  <2>2. q \in AdminInProgress /\ q.at = "counted" /\ q.seen = adminRequests[r].seen
        /\ q.row = adminRequests[r].row /\ q.user = adminRequests[r].user
    BY <1>1 DEF AdminInProgress
  <2> HIDE DEF q
  <2>3. q.seen = "ADMIN" /\ Demotes(q.row) => Others(q.user) # {}
    BY <1>5, <2>2 DEF Guards
  <2>4. lock' \in AdminRequest \cup {None}
    BY <2>1
  <2>5. q.at # "delete"
    BY <2>2
  <2> QED
    BY <1>2, <1>3, <2>1, <2>2, <2>3, <2>4, <2>5, AdminRequestMoves
<1> QED
  BY <1>4, <1>5

\* The update: nobody else is past a count, and a guarded demotion leaves the
\* administrator it counted.
LEMMA CommitUpdateInv ==
    ASSUME AccountsInv, NEW r \in AdminRequest, CommitUpdate(r)
    PROVE  AccountsInv'
<1> DEFINE u == adminRequests[r].user
           row == adminRequests[r].row
<1>1. u \in User /\ row \in Row /\ lock = r
  BY AdminRequestShape DEF CommitUpdate, AccountsInv, CountedHoldsLock
<1>2. users' \in [User -> Row \cup {None}] /\ users'[u] = row
      /\ \A v \in User : v # u => users'[v] = users[v]
  BY <1>1 DEF CommitUpdate, AccountsInv, AccountsTypeOK
<1>3. NoAdminRequest \in AdminInProgress \cup {NoAdminRequest} /\ NoAdminRequest.at = "idle"
  BY DEF NoAdminRequest
<1>4. /\ adminRequests' \in [AdminRequest -> AdminInProgress \cup {NoAdminRequest}]
      /\ adminRequests'[r].at = "idle"
      /\ \A s \in AdminRequest : s # r => adminRequests'[s] = adminRequests[s]
  BY <1>3, AdminMoves DEF CommitUpdate, AccountsInv
<1>5. bypassed' \in BOOLEAN /\ (bypassed => bypassed')
      /\ (~Guards(r) /\ u \in Admins /\ u \notin Admins' => bypassed')
  BY DEF CommitUpdate, Bypass
<1>6. lock' = None /\ UNCHANGED <<tokens, begun, synced, buried>>
  BY DEF CommitUpdate
<1>7. \A s \in AdminRequest : adminRequests'[s].at # "counted"
  BY <1>1, <1>4 DEF AccountsInv, CountedHoldsLock
<1>8. AccountsTypeOK'
  BY <1>2, <1>4, <1>5, <1>6 DEF AccountsInv, AccountsTypeOK
<1>9. GuardKeepsAdmin'
  <2>1. CASE Guards(r)
    <3>1. Others(u) # {} \/ bypassed
      BY <2>1 DEF AccountsInv, CountHolds, CommitUpdate
    <3>2. \A v \in User : v # u => (v \in Admins' <=> v \in Admins)
      BY <1>1, <1>2, WriteOneAccount DEF AccountsInv
    <3>3. Others(u) \subseteq Admins'
      BY <3>2 DEF Others, Admins
    <3> QED
      BY <1>5, <3>1, <3>3 DEF GuardKeepsAdmin
  <2>2. CASE ~Guards(r)
    <3>1. u \in Admins /\ u \notin Admins' => bypassed'
      BY <1>5, <2>2
    <3> QED
      BY <1>1, <1>2, <1>5, <3>1, WriteKeepsCount
  <2> QED
    BY <2>1, <2>2
<1>10. CountedHoldsLock' /\ CountHolds'
  BY <1>7 DEF CountedHoldsLock, CountHolds
<1>11. DeletedExists'
  <2> SUFFICES ASSUME NEW s \in AdminRequest, adminRequests'[s].at = "delete"
               PROVE  users'[adminRequests'[s].user] # None
    BY DEF DeletedExists, Exists
  <2>1. adminRequests'[s] = adminRequests[s]
    BY <1>4
  <2>2. adminRequests[s].user \in User /\ users[adminRequests[s].user] # None
    BY <2>1, AdminRequestShape DEF AccountsInv, DeletedExists, Exists
  <2> QED
    BY <1>1, <1>2, <2>1, <2>2, Distinct
<1>12. BuriedRevoked'
  BY <1>6 DEF AccountsInv, BuriedRevoked
<1> QED
  BY <1>8, <1>9, <1>10, <1>11, <1>12 DEF AccountsInv

\* The deletion revokes every token the account has then.
LEMMA CommitDeleteInv ==
    ASSUME AccountsInv, NEW r \in AdminRequest, CommitDelete(r)
    PROVE  AccountsInv'
<1> DEFINE u == adminRequests[r].user
<1>1. u \in User /\ users[u] # None /\ users[u] \in Row
  <2>1. u \in User
    BY AdminRequestShape DEF CommitDelete, AccountsInv
  <2>2. users[u] # None
    BY DEF CommitDelete, AccountsInv, DeletedExists, Exists
  <2> QED
    BY <2>1, <2>2 DEF AccountsInv, AccountsTypeOK
<1>2. /\ users' = [users EXCEPT ![u].enabled = FALSE] /\ tokens' = WithoutTokensOf(u)
      /\ buried' = buried \cup TokensOf(u) /\ Bypass(u, FALSE)
      /\ AdminGoes(r, NoAdminRequest) /\ UNCHANGED <<lock, begun, synced>>
  BY DEF CommitDelete
<1> HIDE DEF u
<1>3. users' \in [User -> Row \cup {None}] /\ users'[u] \in Row
      /\ \A v \in User : v # u => users'[v] = users[v]
  <2>1. [users[u] EXCEPT !.enabled = FALSE] \in Row
    BY <1>1 DEF Row
  <2> QED
    BY <1>1, <1>2, <2>1 DEF AccountsInv, AccountsTypeOK
<1>4. bypassed' \in BOOLEAN /\ (bypassed => bypassed') /\ (u \in Admins /\ u \notin Admins' => bypassed')
  BY <1>2 DEF Bypass
<1>5. /\ adminRequests' \in [AdminRequest -> AdminInProgress \cup {NoAdminRequest}]
      /\ \A s \in AdminRequest : adminRequests'[s] \in {adminRequests[s], NoAdminRequest}
  BY <1>2, AdminMoves DEF AccountsInv
<1>6. \A t \in Token : /\ tokens'[t] \in TokenRow \cup {None}
                       /\ tokens[t] # None => tokens'[t] # None
                       /\ t \in TokensOf(u) => tokens'[t] # None /\ tokens'[t].revoked
                       /\ t \notin TokensOf(u) => tokens'[t] = tokens[t]
  <2> SUFFICES ASSUME NEW t \in Token
               PROVE  /\ tokens'[t] \in TokenRow \cup {None}
                      /\ tokens[t] # None => tokens'[t] # None
                      /\ t \in TokensOf(u) => tokens'[t] # None /\ tokens'[t].revoked
                      /\ t \notin TokensOf(u) => tokens'[t] = tokens[t]
    OBVIOUS
  <2>1. CASE t \in TokensOf(u)
    <3>1. tokens'[t] = [tokens[t] EXCEPT !.revoked = TRUE] /\ tokens[t] \in TokenRow
      BY <1>2, <2>1 DEF WithoutTokensOf, TokensOf, AccountsInv, AccountsTypeOK
    <3>2. tokens'[t] \in TokenRow /\ tokens'[t].revoked
      BY <3>1 DEF TokenRow
    <3> QED
      BY <2>1, <3>2, Distinct
  <2>2. CASE t \notin TokensOf(u)
    BY <1>2, <2>2 DEF WithoutTokensOf, AccountsInv, AccountsTypeOK
  <2> QED
    BY <2>1, <2>2
<1>7. tokens' \in [Token -> TokenRow \cup {None}]
  BY <1>2, <1>6 DEF WithoutTokensOf
<1>8. buried' \subseteq Token /\ BuriedRevoked'
  <2>1. TokensOf(u) \subseteq Token /\ buried \subseteq Token
    BY DEF TokensOf, AccountsInv, AccountsTypeOK
  <2> QED
    BY <1>2, <1>6, <2>1 DEF AccountsInv, BuriedRevoked
<1>9. lock' = lock /\ begun' \in 0..MaxBegun /\ synced' \in 0..MaxSync /\ users'[u] # None
  BY <1>2, <1>3, Distinct DEF AccountsInv, AccountsTypeOK
<1> QED
  BY <1>1, <1>3, <1>4, <1>5, <1>7, <1>8, <1>9, AccountWritten

\* A directory login writes the role outside the guard, and counts the loss.
LEMMA SyncIdentityInv ==
    ASSUME AccountsInv, NEW u \in User, NEW role \in Role \cup {None}, SyncIdentity(u, role)
    PROVE  AccountsInv'
<1>1. synced' \in 0..MaxSync
  BY AccountsAssumption DEF SyncIdentity, AccountsInv, AccountsTypeOK
<1>2. users'[u] \in Row /\ \A v \in User : v # u => users'[v] = users[v]
  <2>1. CASE users[u] = None
    <3>1. users'[u] = [role |-> SyncedRole("OTHER", role), enabled |-> TRUE]
          /\ \A v \in User : v # u => users'[v] = users[v]
      BY <2>1 DEF SyncIdentity, AccountsInv, AccountsTypeOK
    <3>2. SyncedRole("OTHER", role) \in Role
      BY DEF SyncedRole, Role
    <3> QED
      BY <3>1, <3>2 DEF Row
  <2>2. CASE users[u] # None
    <3>1. users[u] \in Row
      BY <2>2 DEF AccountsInv, AccountsTypeOK
    <3>2. users'[u] = [users[u] EXCEPT !.role = SyncedRole(users[u].role, role)]
          /\ \A v \in User : v # u => users'[v] = users[v]
      BY <2>2, <3>1 DEF SyncIdentity, SyncedRole, AccountsInv, AccountsTypeOK
    <3>3. SyncedRole(users[u].role, role) \in Role
      BY <3>1 DEF SyncedRole, Row
    <3> QED
      BY <3>1, <3>2, <3>3 DEF Row
  <2> QED
    BY <2>1, <2>2
<1>3. users' \in [User -> Row \cup {None}] /\ users'[u] # None
  <2>1. DOMAIN users' = User /\ users' = [v \in User |-> users'[v]]
    BY DEF SyncIdentity, AccountsInv, AccountsTypeOK
  <2> QED
    BY <1>2, <2>1, Distinct DEF AccountsInv, AccountsTypeOK
<1>4. bypassed' \in BOOLEAN /\ (bypassed => bypassed') /\ (u \in Admins /\ u \notin Admins' => bypassed')
  BY DEF SyncIdentity, Bypass
<1>5. UNCHANGED <<tokens, adminRequests, lock, begun, buried>>
  BY DEF SyncIdentity
<1>6. /\ tokens' \in [Token -> TokenRow \cup {None}] /\ buried' \subseteq Token
      /\ begun' \in 0..MaxBegun
      /\ adminRequests' \in [AdminRequest -> AdminInProgress \cup {NoAdminRequest}]
  BY <1>5 DEF AccountsInv, AccountsTypeOK
<1>7. BuriedRevoked'
  BY <1>5 DEF AccountsInv, BuriedRevoked
<1> QED
  BY <1>1, <1>2, <1>3, <1>4, <1>5, <1>6, <1>7, AccountWritten

\* A new token is not one that was there before a deletion.
LEMMA TokenInv ==
    ASSUME AccountsInv, NEW r \in AdminRequest, NEW t \in Token, InsertToken(r, t) \/ RevokeToken(r, t)
    PROVE  AccountsInv'
<1>1. /\ tokens' \in [Token -> TokenRow \cup {None}] /\ BuriedRevoked'
      /\ begun' \in 0..MaxBegun
      /\ UNCHANGED <<users, lock, synced, bypassed, buried>>
      /\ adminRequests' \in [AdminRequest -> AdminInProgress \cup {NoAdminRequest}]
      /\ \A s \in AdminRequest : adminRequests'[s] \in {adminRequests[s], NoAdminRequest}
  <2>1. CASE InsertToken(r, t)
    <3> DEFINE row == [user |-> adminRequests[r].user, revoked |-> FALSE]
    <3>1. row \in TokenRow
      BY <2>1, AdminRequestShape DEF InsertToken, TokenRow, AccountsInv
    <3>2. tokens' = [tokens EXCEPT ![t] = row] /\ tokens[t] = None
      BY <2>1 DEF InsertToken
    <3> HIDE DEF row
    <3>3. tokens' \in [Token -> TokenRow \cup {None}]
      BY <3>1, <3>2 DEF AccountsInv, AccountsTypeOK
    <3>4. UNCHANGED <<users, lock, begun, synced, bypassed, buried>> /\ AdminGoes(r, NoAdminRequest)
      BY <2>1 DEF InsertToken
    <3>5. BuriedRevoked'
      BY <3>2, <3>4 DEF AccountsInv, AccountsTypeOK, BuriedRevoked
    <3>6. /\ adminRequests' \in [AdminRequest -> AdminInProgress \cup {NoAdminRequest}]
          /\ \A s \in AdminRequest : adminRequests'[s] \in {adminRequests[s], NoAdminRequest}
      BY <3>4, AdminMoves DEF AccountsInv
    <3> QED
      BY <3>3, <3>4, <3>5, <3>6 DEF AccountsInv, AccountsTypeOK
  <2>2. CASE RevokeToken(r, t)
    <3> DEFINE row == [tokens[t] EXCEPT !.revoked = TRUE]
    <3>1. tokens[t] \in TokenRow
      BY <2>2 DEF RevokeToken, AccountsInv, AccountsTypeOK
    <3>2. row \in TokenRow /\ row.revoked /\ row # None
      <4>1. row \in TokenRow /\ row.revoked
        BY <3>1 DEF TokenRow
      <4> QED
        BY <4>1, Distinct
    <3>3. tokens' = [tokens EXCEPT ![t] = row]
      BY <2>2 DEF RevokeToken
    <3> HIDE DEF row
    <3>4. tokens' \in [Token -> TokenRow \cup {None}]
      BY <3>2, <3>3 DEF AccountsInv, AccountsTypeOK
    <3>5. UNCHANGED <<users, adminRequests, lock, synced, bypassed, buried>>
      BY <2>2 DEF RevokeToken
    <3>6. BuriedRevoked'
      BY <3>2, <3>3, <3>5 DEF AccountsInv, AccountsTypeOK, BuriedRevoked
    <3>7. begun' \in 0..MaxBegun
      BY <2>2, AccountsAssumption DEF RevokeToken, Begin, AccountsInv, AccountsTypeOK
    <3> QED
      BY <3>4, <3>5, <3>6, <3>7 DEF AccountsInv, AccountsTypeOK
  <2> QED
    BY <2>1, <2>2
<1>2. \A s \in AdminRequest : adminRequests'[s].at # "idle" => adminRequests'[s] = adminRequests[s]
  BY <1>1 DEF NoAdminRequest
<1>3. Admins' = Admins
  BY <1>1 DEF Admins, Exists
<1>4. AccountsTypeOK'
  BY <1>1 DEF AccountsInv, AccountsTypeOK
<1>5. GuardKeepsAdmin' /\ CountedHoldsLock' /\ DeletedExists'
  BY <1>1, <1>2, <1>3 DEF AccountsInv, GuardKeepsAdmin, CountedHoldsLock, DeletedExists, Exists
<1>6. CountHolds'
  BY <1>1, <1>2, <1>3 DEF AccountsInv, CountHolds, Guards, Others
<1> QED
  BY <1>1, <1>4, <1>5, <1>6 DEF AccountsInv

\* A request that breaks off gives back the lock if it has it.
LEMMA AbortInv ==
    ASSUME AccountsInv, NEW r \in AdminRequest, Abort(r)
    PROVE  AccountsInv'
<1>1. AdminGoes(r, NoAdminRequest) /\ NoAdminRequest.at = "idle"
      /\ UNCHANGED <<users, tokens, begun, synced, bypassed, buried>>
  BY DEF Abort, NoAdminRequest
<1>2. begun' \in 0..MaxBegun /\ lock' \in AdminRequest \cup {None}
  BY DEF Abort, AccountsInv, AccountsTypeOK
<1>3. \A s \in AdminRequest : s # r /\ adminRequests[s].at = "counted" => lock' = lock
  BY DEF Abort, AccountsInv, CountedHoldsLock
<1> QED
  BY <1>1, <1>2, <1>3, AdminRequestMoves

\* A step that changes nothing.
LEMMA AccountsStutterInv ==
    ASSUME AccountsInv, UNCHANGED accountsVars
    PROVE  AccountsInv'
<1>1. AccountsTypeOK' /\ Admins' = Admins
  BY DEF AccountsInv, AccountsTypeOK, accountsVars, Admins, Exists
<1>2. GuardKeepsAdmin' /\ CountedHoldsLock' /\ DeletedExists' /\ BuriedRevoked'
  BY <1>1 DEF AccountsInv, GuardKeepsAdmin, CountedHoldsLock, DeletedExists, BuriedRevoked, Exists, accountsVars
<1>3. CountHolds'
  BY <1>1 DEF AccountsInv, CountHolds, Guards, Others, accountsVars
<1> QED
  BY <1>1, <1>2, <1>3 DEF AccountsInv

-----------------------------------------------------------------------------
\* One request at a time is past its count of the other administrators, and the
\* count is good until its commit (updateUser under advisory lock 8915121).
THEOREM AccountsInvariant == AccountsSpec => []AccountsInv
<1>1. AccountsInv /\ [AccountsNext]_accountsVars => AccountsInv'
  <2> SUFFICES ASSUME AccountsInv, [AccountsNext]_accountsVars PROVE AccountsInv'
    OBVIOUS
  <2>1. ASSUME NEW r \in AdminRequest, NEW u \in User, NEW row \in Row,
               CreateUser(r, u, row) \/ ReadForUpdate(r, u, row)
        PROVE  AccountsInv'
    BY <2>1, CreateUserInv, ReadInv
  <2>2. ASSUME NEW r \in AdminRequest, NEW u \in User, ReadForDelete(r, u) \/ ReadForToken(r, u)
        PROVE  AccountsInv'
    <3>1. [role |-> "OTHER", enabled |-> TRUE] \in Row
      BY DEF Row, Role
    <3> QED
      BY <2>2, <3>1, ReadInv
  <2>3. ASSUME NEW r \in AdminRequest, NEW t \in Token, InsertToken(r, t) \/ RevokeToken(r, t)
        PROVE  AccountsInv'
    BY <2>3, TokenInv
  <2>4. ASSUME NEW r \in AdminRequest,
               LockAndCount(r) \/ CommitUpdate(r) \/ CommitDelete(r) \/ Abort(r)
        PROVE  AccountsInv'
    BY <2>4, LockAndCountInv, CommitUpdateInv, CommitDeleteInv, AbortInv
  <2>5. ASSUME NEW u \in User, NEW role \in Role \cup {None}, SyncIdentity(u, role)
        PROVE  AccountsInv'
    BY <2>5, SyncIdentityInv
  <2>6. CASE UNCHANGED accountsVars
    BY <2>6, AccountsStutterInv
  <2> QED
    BY <2>1, <2>2, <2>3, <2>4, <2>5, <2>6 DEF AccountsNext
<1> QED
  BY <1>1, AccountsInitInv, PTL DEF AccountsSpec

\* However many demotions run at once, guarded ones leave an administrator; and
\* a token that was there when its account was deleted is not accepted again.
THEOREM AccountsAreSafe == AccountsSpec => []AccountsSafe
<1>1. AccountsInv => AccountsSafe
  BY DEF AccountsInv, AccountsSafe, DeletedTokensDead, TokenUsable, BuriedRevoked
<1> QED
  BY <1>1, AccountsInvariant, PTL

-----------------------------------------------------------------------------
(***************************************************************************)
(* ThrottleSafe for any number of requests, any limit, window and caps.    *)
(* Counting a window's attempts says nothing of the next step;             *)
(* ThrottleInv says where the earlier ones lie in time: before the open    *)
(* window, and all but one window's worth of them a whole window before    *)
(* it, so two attempts that are two windows' worth apart are a window      *)
(* apart. The lock's length is a recursive function of the failures; what  *)
(* it computes is shown from the first exponent at which it would fail.    *)
(***************************************************************************)

LEMMA Limits == /\ Attempts \in Nat /\ Attempts > 0 /\ Window \in Nat /\ Window > 0
                /\ MaxExp \in Nat /\ MaxExp > 0 /\ MaxFailed \in Nat /\ MaxFailed > 0
                /\ MaxLock \in Nat /\ MaxLock > 0 /\ MaxMoment \in Nat /\ MaxMoment > 0
BY ThrottleAssumption

\* f doubles at each of the first n steps.
Doubles(f, n) == f = [i \in 0..n |-> IF i = 0 THEN 1 ELSE 2 * f[i - 1]]

\* A set of naturals that is not empty has a smallest member.
LEMMA Smallest ==
    ASSUME NEW S, S # {}, \A x \in S : x \in Nat
    PROVE  \E m \in S : \A x \in S : m <= x
<1>1. S \subseteq Nat
  OBVIOUS
<1>2. PICK m \in S : \A x \in S : <<x, m>> \notin OpToRel(<, Nat)
  BY <1>1, NatLessThanWellFounded, WFMin
<1>3. ASSUME NEW x \in S PROVE m <= x
  <2>1. ~(x < m)
    BY <1>2 DEF OpToRel
  <2> QED
    BY <2>1
<1> QED
  BY <1>3

LEMMA DoublesExist ==
    ASSUME NEW n \in Nat
    PROVE  \E f : Doubles(f, n)
<1> DEFINE Bad == {k \in Nat : ~ \E f : Doubles(f, k)}
<1> SUFFICES ASSUME Bad # {} PROVE FALSE
  OBVIOUS
<1>1. PICK k \in Bad : \A x \in Bad : k <= x
  BY Smallest
<1>2. CASE k = 0
  <2> DEFINE f == [i \in 0..0 |-> 1]
  <2>1. Doubles(f, 0)
    BY DEF Doubles
  <2> QED
    BY <1>2, <2>1
<1>3. CASE k > 0
  <2>1. k - 1 \in Nat /\ k - 1 \notin Bad
    BY <1>1, <1>3
  <2>2. PICK f : Doubles(f, k - 1)
    BY <2>1
  <2> DEFINE g == [i \in 0..k |-> IF i = k THEN 2 * f[k - 1] ELSE f[i]]
             h == [i \in 0..k |-> IF i = 0 THEN 1 ELSE 2 * g[i - 1]]
  <2>3. ASSUME NEW i \in 0..k PROVE g[i] = h[i]
    <3>1. CASE i = 0
      BY <1>3, <2>1, <2>2, <3>1 DEF Doubles
    <3>2. CASE i = k
      <4>1. g[i] = 2 * f[k - 1]
        BY <3>2
      <4>2. g[k - 1] = f[k - 1]
        BY <1>3, <2>1
      <4> QED
        BY <1>3, <3>2, <4>1, <4>2
    <3>3. CASE i # 0 /\ i # k
      <4>1. i \in 0..(k - 1) /\ i - 1 \in 0..(k - 1) /\ i - 1 \in 0..k /\ i - 1 # k
        BY <2>1, <3>3
      <4>2. g[i] = f[i] /\ g[i - 1] = f[i - 1]
        BY <3>3, <4>1
      <4>3. f[i] = 2 * f[i - 1]
        BY <2>2, <3>3, <4>1 DEF Doubles
      <4> QED
        BY <3>3, <4>2, <4>3
    <3> QED
      BY <3>1, <3>2, <3>3
  <2>4. g = h
    BY <2>3
  <2>5. Doubles(g, k)
    BY <2>4 DEF Doubles
  <2> QED
    BY <2>5
<1> QED
  BY <1>2, <1>3

LEMMA PowerDoubles == Power[0] = 1 /\ \A i \in 1..MaxExp : Power[i] = 2 * Power[i - 1]
<1>1. Power = CHOOSE f : Doubles(f, MaxExp)
  BY DEF Power, Doubles
<1>2. Doubles(Power, MaxExp)
  BY <1>1, Limits, DoublesExist
<1> QED
  BY <1>2, Limits DEF Doubles

LEMMA PowerIsNatural == \A i \in 0..MaxExp : Power[i] \in Nat
<1> DEFINE Bad == {i \in 0..MaxExp : Power[i] \notin Nat}
<1> SUFFICES ASSUME Bad # {} PROVE FALSE
  OBVIOUS
<1>1. \A x \in Bad : x \in Nat
  OBVIOUS
<1>2. PICK k \in Bad : \A x \in Bad : k <= x
  BY <1>1, Smallest
<1>3. k # 0
  BY PowerDoubles
<1>4. k - 1 \in 0..MaxExp /\ k - 1 \notin Bad /\ k \in 1..MaxExp
  BY <1>2, <1>3, Limits
<1>5. Power[k - 1] \in Nat /\ Power[k] = 2 * Power[k - 1]
  BY <1>4, PowerDoubles
<1> QED
  BY <1>5

LEMMA PowerGrows ==
    ASSUME NEW i \in 0..MaxExp, NEW j \in 0..MaxExp, i <= j
    PROVE  Power[i] <= Power[j]
<1> DEFINE Bad == {k \in i..MaxExp : ~(Power[i] <= Power[k])}
<1> SUFFICES ASSUME Bad # {} PROVE FALSE
  <2>1. j \in i..MaxExp
    BY Limits
  <2> QED
    BY <2>1
<1>1. \A x \in Bad : x \in Nat
  BY Limits
<1>2. PICK k \in Bad : \A x \in Bad : k <= x
  BY <1>1, Smallest
<1>3. k # i
  BY PowerIsNatural
<1>4. k - 1 \in i..MaxExp /\ k - 1 \notin Bad /\ k \in 1..MaxExp /\ k - 1 \in 0..MaxExp
  BY <1>2, <1>3, Limits
<1>5. Power[i] \in Nat /\ Power[k - 1] \in Nat /\ Power[k] = 2 * Power[k - 1]
  BY <1>4, PowerDoubles, PowerIsNatural
<1> QED
  BY <1>4, <1>5

\* The lock of a row with n failures.
LockAt(n) == Least(MaxLock, Power[Least(n, MaxExp)])

LEMMA LockIsBounded ==
    ASSUME NEW n \in Nat
    PROVE  LockAt(n) \in 0..MaxLock
<1>1. Least(n, MaxExp) \in 0..MaxExp
  BY Limits DEF Least
<1>2. Power[Least(n, MaxExp)] \in Nat
  BY <1>1, PowerIsNatural
<1> QED
  BY <1>2, Limits DEF LockAt, Least

LEMMA LockIsMonotonic ==
    ASSUME NEW m \in Nat, NEW n \in Nat, m <= n
    PROVE  LockAt(m) <= LockAt(n)
<1>1. Least(n, MaxExp) \in 0..MaxExp /\ Least(m, MaxExp) \in 0..MaxExp /\ Least(m, MaxExp) <= Least(n, MaxExp)
  BY Limits DEF Least
<1>2. Power[Least(n, MaxExp)] \in Nat /\ Power[Least(m, MaxExp)] \in Nat
        /\ Power[Least(m, MaxExp)] <= Power[Least(n, MaxExp)]
  BY <1>1, PowerIsNatural, PowerGrows
<1> QED
  BY <1>2, Limits DEF LockAt, Least

\* Attempts the open window has let through.
InWindow == Least(count, Attempts)

\* Instants are in order and no later than now or the end of the open window.
InstantsOrdered ==
    /\ \A n \in DOMAIN admitted : admitted[n] <= moment /\ admitted[n] <= reset
    /\ \A n, m \in DOMAIN admitted : n <= m => admitted[n] <= admitted[m]
    /\ reset <= moment + Window

\* All but the last InWindow attempts came before the open window, and all but
\* one window's worth of those a whole window before it.
EarlierWindows ==
    /\ InWindow <= Len(admitted)
    /\ \A n \in DOMAIN admitted : n + InWindow <= Len(admitted) => admitted[n] + Window < reset
    /\ \A n \in DOMAIN admitted :
          n + InWindow + Attempts <= Len(admitted) => admitted[n] + 2 * Window < reset

\* Two attempts that are two windows' worth apart are a window apart in time.
AttemptsSpread ==
    \A n, m \in DOMAIN admitted : n + 2 * Attempts <= m => admitted[n] + Window <= admitted[m]

\* The last lock is no longer than the next.
LockFollows == length <= LockAt(failures) /\ (failures = 0 => length = 0)

ThrottleInv == ThrottleTypeOK /\ InstantsOrdered /\ EarlierWindows /\ AttemptsSpread /\ LockFollows

LEMMA ThrottleInitInv == ThrottleInit => ThrottleInv
<1> SUFFICES ASSUME ThrottleInit PROVE ThrottleInv
  OBVIOUS
<1> USE DEF ThrottleInit
<1>1. ThrottleTypeOK
  BY Limits DEF ThrottleTypeOK, Place
<1>2. InstantsOrdered /\ EarlierWindows /\ AttemptsSpread
  BY Limits DEF InstantsOrdered, EarlierWindows, AttemptsSpread, InWindow, Least
<1>3. LockFollows
  BY LockIsBounded, Limits DEF LockFollows
<1> QED
  BY <1>1, <1>2, <1>3 DEF ThrottleInv

LEMMA InstantTypes ==
    ASSUME ThrottleTypeOK
    PROVE  /\ Len(admitted) \in Nat /\ DOMAIN admitted = 1..Len(admitted)
           /\ \A n \in DOMAIN admitted : admitted[n] \in Nat /\ admitted[n] \in 1..MaxMoment
           /\ count \in 0..Attempts + 1 /\ reset \in Nat /\ moment \in 1..MaxMoment /\ moment \in Nat
BY Limits DEF ThrottleTypeOK

LEMMA LoginMoves ==
    ASSUME ThrottleTypeOK, NEW r \in LoginRequest, NEW place \in Place, LoginGoes(r, place)
    PROVE  loginRequests' \in [LoginRequest -> [at : Place, seen : 0..MaxFailed]]
BY DEF ThrottleTypeOK, LoginGoes

\* Steps that leave the limit's row alone.
LEMMA LimitUntouched ==
    ASSUME ThrottleInv, UNCHANGED <<count, reset, admitted>>, moment' \in Nat, moment <= moment'
    PROVE  InstantsOrdered' /\ EarlierWindows' /\ AttemptsSpread'
<1> USE DEF ThrottleInv
<1>1. InstantsOrdered'
  BY InstantTypes, Limits DEF InstantsOrdered
<1>2. EarlierWindows' /\ AttemptsSpread'
  BY DEF EarlierWindows, AttemptsSpread, InWindow
<1> QED
  BY <1>1, <1>2

LEMMA LockUntouched ==
    ASSUME ThrottleInv, UNCHANGED <<failures, length>>
    PROVE  LockFollows'
BY DEF ThrottleInv, LockFollows, LockAt

LEMMA CheckLockInv ==
    ASSUME ThrottleInv, NEW r \in LoginRequest, CheckLock(r)
    PROVE  ThrottleInv'
<1> USE DEF ThrottleInv
<1>1. ThrottleTypeOK'
  BY DEF ThrottleTypeOK, CheckLock, Place
<1>2. InstantsOrdered' /\ EarlierWindows' /\ AttemptsSpread'
  BY LimitUntouched DEF CheckLock, ThrottleTypeOK
<1>3. LockFollows'
  BY LockUntouched DEF CheckLock
<1> QED
  BY <1>1, <1>2, <1>3

LEMMA RateLimitInv ==
    ASSUME ThrottleInv, NEW r \in LoginRequest, RateLimit(r)
    PROVE  ThrottleInv'
<1> USE DEF ThrottleInv
<1> DEFINE L == Len(admitted)
<1>1. /\ L \in Nat /\ DOMAIN admitted = 1..L
      /\ count \in 0..Attempts + 1 /\ reset \in Nat /\ moment \in 1..MaxMoment /\ moment \in Nat
      /\ \A n \in 1..L : admitted[n] \in Nat
  BY InstantTypes
<1>2. count' = IF WindowOver THEN 1 ELSE Least(count + 1, Attempts + 1)
  BY DEF RateLimit
<1>3. reset' = IF WindowOver THEN moment + Window ELSE reset
  BY DEF RateLimit
<1>4. moment' = moment /\ failures' = failures /\ length' = length /\ blocked' = blocked
  BY DEF RateLimit
<1>5. count' \in 0..Attempts + 1 /\ reset' \in 0..MaxMoment + Window
  BY <1>1, <1>2, <1>3, Limits DEF Least, ThrottleTypeOK
<1>6. LockFollows'
  BY <1>4, LockUntouched
<1>7. CASE count' <= Attempts
  <2>1. LoginGoes(r, "counted") /\ admitted' = Append(admitted, moment)
    BY <1>7 DEF RateLimit
  <2>2. /\ Len(admitted') = L + 1 /\ DOMAIN admitted' = 1..(L + 1)
        /\ admitted'[L + 1] = moment
        /\ \A n \in 1..L : admitted'[n] = admitted[n]
        /\ admitted' \in Seq(1..MaxMoment)
    BY <1>1, <2>1 DEF ThrottleTypeOK
  <2> HIDE DEF L
  <2>2a. \A n \in 1..(L + 1) : n \in 1..L \/ n = L + 1
    BY <1>1
  <2>2b. \A n \in 1..L : admitted[n] <= moment /\ admitted[n] <= reset
    BY <1>1 DEF InstantsOrdered
  <2>3. ThrottleTypeOK'
    <3>1. loginRequests' \in [LoginRequest -> [at : Place, seen : 0..MaxFailed]]
      BY <2>1, LoginMoves DEF Place
    <3> QED
      BY <1>4, <1>5, <2>2, <3>1 DEF ThrottleTypeOK
  <2>4. InWindow' = count' /\ InWindow = IF count <= Attempts THEN count ELSE Attempts
    BY <1>1, <1>5, <1>7, Limits DEF InWindow, Least
  <2>5. CASE WindowOver
    <3>1. reset < moment /\ count' = 1 /\ reset' = moment + Window
      BY <1>2, <1>3, <2>5 DEF WindowOver
    <3>2. InstantsOrdered'
      <4>1. ASSUME NEW n \in 1..(L + 1) PROVE admitted'[n] <= moment /\ admitted'[n] <= reset'
        <5>1. CASE n \in 1..L
          BY <1>1, <2>2, <2>2b, <3>1, <5>1, Limits
        <5>2. CASE n = L + 1
          BY <1>1, <2>2, <3>1, <5>2, Limits
        <5> QED
          BY <2>2a, <5>1, <5>2
      <4>2. ASSUME NEW n \in 1..(L + 1), NEW m \in 1..(L + 1), n <= m
            PROVE  admitted'[n] <= admitted'[m]
        <5>1. CASE m = L + 1
          BY <2>2, <4>1, <5>1
        <5>2. CASE m \in 1..L
          <6>1. n \in 1..L
            BY <1>1, <2>2a, <4>2, <5>2
          <6> QED
            BY <1>1, <2>2, <4>2, <5>2, <6>1 DEF InstantsOrdered
        <5> QED
          BY <2>2a, <5>1, <5>2
      <4>3. reset' <= moment + Window
        BY <1>1, <3>1, Limits DEF InstantsOrdered
      <4> QED
        BY <1>4, <2>2, <4>1, <4>2, <4>3 DEF InstantsOrdered
    <3>3. EarlierWindows'
      <4>1. \A n \in 1..L : admitted[n] + Window < moment + Window
        BY <1>1, <2>2b, <3>1, Limits
      <4>2. ASSUME NEW n \in 1..L, n + Attempts <= L
            PROVE  admitted[n] + 2 * Window < moment + Window
        <5>1. n + InWindow <= L
          BY <1>1, <2>4, <4>2, Limits
        <5>2. admitted[n] + Window < reset
          BY <1>1, <5>1 DEF EarlierWindows, L
        <5> QED
          BY <1>1, <3>1, <5>2, Limits
      <4>3. ASSUME NEW n \in 1..(L + 1), n + 1 <= L + 1
            PROVE  /\ admitted'[n] + Window < reset'
                   /\ n + 1 + Attempts <= L + 1 => admitted'[n] + 2 * Window < reset'
        <5>1. n \in 1..L /\ (n + 1 + Attempts <= L + 1 => n + Attempts <= L)
          BY <1>1, <4>3, Limits
        <5> QED
          BY <2>2, <3>1, <4>1, <4>2, <5>1
      <4>4. ASSUME NEW n \in 1..(L + 1), n + 1 + Attempts <= L + 1
            PROVE  n + 1 <= L + 1
        BY <1>1, <4>4, Limits
      <4>5. InWindow' = 1 /\ 1 <= L + 1
        BY <1>1, <2>4, <3>1
      <4> QED
        BY <2>2, <4>3, <4>4, <4>5 DEF EarlierWindows
    <3>4. AttemptsSpread'
      <4>1. ASSUME NEW n \in 1..L, n + 2 * Attempts <= L + 1 PROVE admitted[n] + Window <= moment
        <5>1. n + InWindow <= L
          BY <1>1, <2>4, <4>1, Limits
        <5> QED
          BY <1>1, <3>1, <5>1, Limits DEF EarlierWindows
      <4>2. ASSUME NEW n \in 1..(L + 1), NEW m \in 1..(L + 1), n + 2 * Attempts <= m
            PROVE  admitted'[n] + Window <= admitted'[m]
        <5>1. n \in 1..L
          BY <1>1, <4>2, Limits
        <5>2. CASE m = L + 1
          BY <2>2, <4>1, <4>2, <5>1, <5>2
        <5>3. CASE m \in 1..L
          BY <1>1, <2>2, <4>2, <5>1, <5>3 DEF AttemptsSpread
        <5> QED
          BY <2>2a, <5>2, <5>3
      <4> QED
        BY <2>2, <4>2 DEF AttemptsSpread
    <3> QED
      BY <1>6, <2>3, <3>2, <3>3, <3>4
  <2>6. CASE ~WindowOver
    <3>1. moment <= reset /\ count' = count + 1 /\ reset' = reset /\ InWindow = count
      BY <1>1, <1>2, <1>3, <1>7, <2>4, <2>6, Limits DEF WindowOver, Least
    <3>2. InstantsOrdered'
      <4>1. ASSUME NEW n \in 1..(L + 1) PROVE admitted'[n] <= moment /\ admitted'[n] <= reset'
        <5>1. CASE n \in 1..L
          BY <1>1, <2>2, <2>2b, <3>1, <5>1, Limits
        <5>2. CASE n = L + 1
          BY <1>1, <2>2, <3>1, <5>2, Limits
        <5> QED
          BY <2>2a, <5>1, <5>2
      <4>2. ASSUME NEW n \in 1..(L + 1), NEW m \in 1..(L + 1), n <= m
            PROVE  admitted'[n] <= admitted'[m]
        <5>1. CASE m = L + 1
          BY <2>2, <4>1, <5>1
        <5>2. CASE m \in 1..L
          <6>1. n \in 1..L
            BY <1>1, <2>2a, <4>2, <5>2
          <6> QED
            BY <1>1, <2>2, <4>2, <5>2, <6>1 DEF InstantsOrdered
        <5> QED
          BY <2>2a, <5>1, <5>2
      <4>3. reset' <= moment + Window
        BY <1>1, <3>1, Limits DEF InstantsOrdered
      <4> QED
        BY <1>4, <2>2, <4>1, <4>2, <4>3 DEF InstantsOrdered
    <3>3. EarlierWindows'
      <4>1. InWindow' = count + 1 /\ InWindow = count /\ count <= L
        BY <2>4, <3>1 DEF EarlierWindows, L
      <4>2. ASSUME NEW n \in 1..(L + 1), n + (count + 1) <= L + 1
            PROVE  n \in 1..L /\ n + count <= L
        BY <1>1, <4>2
      <4>3. ASSUME NEW n \in 1..(L + 1), n + (count + 1) + Attempts <= L + 1
            PROVE  n \in 1..L /\ n + count + Attempts <= L
        BY <1>1, <4>3, Limits
      <4>4. \A n \in 1..L : n + count <= L => admitted[n] + Window < reset
        BY <1>1, <4>1 DEF EarlierWindows, L
      <4>5. \A n \in 1..L : n + count + Attempts <= L => admitted[n] + 2 * Window < reset
        BY <1>1, <4>1 DEF EarlierWindows, L
      <4>6. count + 1 <= L + 1
        BY <1>1, <4>1
      <4> QED
        BY <2>2, <3>1, <4>1, <4>2, <4>3, <4>4, <4>5, <4>6 DEF EarlierWindows
    <3>4. AttemptsSpread'
      <4>1. ASSUME NEW n \in 1..L, n + 2 * Attempts <= L + 1 PROVE admitted[n] + Window <= moment
        <5>1. n + InWindow + Attempts <= L
          BY <1>1, <1>7, <3>1, <4>1, Limits
        <5>2. admitted[n] + 2 * Window < reset
          BY <1>1, <5>1 DEF EarlierWindows
        <5>3. reset <= moment + Window
          BY DEF InstantsOrdered
        <5> QED
          BY <1>1, <5>2, <5>3, Limits
      <4>2. ASSUME NEW n \in 1..(L + 1), NEW m \in 1..(L + 1), n + 2 * Attempts <= m
            PROVE  admitted'[n] + Window <= admitted'[m]
        <5>1. n \in 1..L
          BY <1>1, <4>2, Limits
        <5>2. CASE m = L + 1
          BY <2>2, <4>1, <4>2, <5>1, <5>2
        <5>3. CASE m \in 1..L
          BY <1>1, <2>2, <4>2, <5>1, <5>3 DEF AttemptsSpread
        <5> QED
          BY <2>2a, <5>2, <5>3
      <4> QED
        BY <2>2, <4>2 DEF AttemptsSpread
    <3> QED
      BY <1>6, <2>3, <3>2, <3>3, <3>4
  <2> QED
    BY <2>5, <2>6
<1>8. CASE ~(count' <= Attempts)
  <2>1. LoginGoes(r, "idle") /\ admitted' = admitted
    BY <1>8 DEF RateLimit
  <2>2. ~WindowOver /\ count >= Attempts /\ count' >= Attempts /\ reset' = reset
    BY <1>1, <1>2, <1>3, <1>8, Limits DEF Least
  <2>3. InWindow = Attempts /\ InWindow' = Attempts
    BY <1>1, <1>5, <2>2, Limits DEF InWindow, Least
  <2>4. InstantsOrdered' /\ EarlierWindows' /\ AttemptsSpread'
    BY <1>4, <2>1, <2>2, <2>3 DEF InstantsOrdered, EarlierWindows, AttemptsSpread
  <2>5. loginRequests' \in [LoginRequest -> [at : Place, seen : 0..MaxFailed]]
    BY <2>1, LoginMoves DEF Place
  <2> QED
    BY <1>4, <1>5, <1>6, <2>1, <2>4, <2>5 DEF ThrottleTypeOK
<1> QED
  BY <1>7, <1>8

LEMMA LoginFailsInv ==
    ASSUME ThrottleInv, NEW r \in LoginRequest, LoginFails(r)
    PROVE  ThrottleInv' /\ (failures' # 0 => length' >= length)
<1> USE DEF ThrottleInv
<1>1. /\ length' = IF failures = 0 THEN 0 ELSE LockAt(failures)
      /\ blocked' = moment + length'
      /\ failures' = Least(failures + 1, MaxFailed)
  BY DEF LoginFails, LockLength, LockAt
<1>2. failures \in Nat /\ failures <= MaxFailed
  BY Limits DEF ThrottleTypeOK
<1>3. LockAt(failures) \in 0..MaxLock /\ LockAt(failures') \in 0..MaxLock
  BY <1>1, <1>2, LockIsBounded, Limits DEF Least
<1>4. failures' \in 1..MaxFailed /\ failures <= failures'
  BY <1>1, <1>2, Limits DEF Least
<1>5. LockAt(failures) <= LockAt(failures')
  BY <1>2, <1>4, LockIsMonotonic, Limits
<1>6. LockFollows'
  <2>1. length' <= LockAt(failures')
    BY <1>1, <1>3, <1>5
  <2>2. LockAt(failures)' = LockAt(failures')
    BY DEF LockAt
  <2> QED
    BY <1>4, <2>1, <2>2 DEF LockFollows
<1>7. InstantsOrdered' /\ EarlierWindows' /\ AttemptsSpread'
  BY LimitUntouched DEF LoginFails, ThrottleTypeOK
<1>8. ThrottleTypeOK'
  <2>1. loginRequests' \in [LoginRequest -> [at : Place, seen : 0..MaxFailed]]
    BY LoginMoves DEF LoginFails, Place
  <2>2. length' \in 0..MaxLock
    BY <1>1, <1>3, Limits
  <2>3. blocked' \in 0..MaxMoment + MaxLock
    BY <1>1, <2>2, Limits DEF ThrottleTypeOK
  <2> QED
    BY <1>4, <2>1, <2>2, <2>3, Limits DEF ThrottleTypeOK, LoginFails
<1>9. length' >= length
  BY <1>1, <1>3, Limits DEF LockFollows, ThrottleTypeOK
<1> QED
  BY <1>6, <1>7, <1>8, <1>9

LEMMA OtherInv ==
    ASSUME ThrottleInv, NEW r \in LoginRequest,
           LoginSucceeds(r) \/ ClearFailures(r) \/ AbandonLogin(r)
    PROVE  ThrottleInv'
<1> USE DEF ThrottleInv
<1>1. loginRequests' \in [LoginRequest -> [at : Place, seen : 0..MaxFailed]]
  BY LoginMoves DEF LoginSucceeds, ClearFailures, AbandonLogin, Place
<1>2. InstantsOrdered' /\ EarlierWindows' /\ AttemptsSpread'
  BY LimitUntouched DEF LoginSucceeds, ClearFailures, AbandonLogin, ThrottleTypeOK
<1>3. ThrottleTypeOK'
  <2>1. CASE LoginSucceeds(r) \/ AbandonLogin(r)
    BY <1>1, <2>1 DEF ThrottleTypeOK, LoginSucceeds, AbandonLogin
  <2>2. CASE ClearFailures(r)
    BY <1>1, <2>2, Limits DEF ThrottleTypeOK, ClearFailures
  <2> QED
    BY <2>1, <2>2
<1>4. LockFollows'
  <2>1. CASE ClearFailures(r)
    <3>1. LockAt(0) \in 0..MaxLock
      BY LockIsBounded
    <3>2. failures' = 0 /\ length' = 0
      BY <2>1 DEF ClearFailures
    <3>3. LockAt(failures)' = LockAt(0)
      BY <3>2 DEF LockAt
    <3> QED
      BY <3>1, <3>2, <3>3 DEF LockFollows
  <2>2. CASE LoginSucceeds(r) \/ AbandonLogin(r)
    BY <2>2, LockUntouched DEF LoginSucceeds, AbandonLogin
  <2> QED
    BY <2>1, <2>2
<1> QED
  BY <1>2, <1>3, <1>4

LEMMA MomentInv ==
    ASSUME ThrottleInv, MomentPasses \/ UNCHANGED throttleVars
    PROVE  ThrottleInv'
<1> USE DEF ThrottleInv
<1>1. ThrottleTypeOK'
  BY Limits DEF ThrottleTypeOK, MomentPasses, throttleVars
<1>2. InstantsOrdered' /\ EarlierWindows' /\ AttemptsSpread'
  BY LimitUntouched, Limits DEF MomentPasses, throttleVars, ThrottleTypeOK
<1>3. LockFollows'
  BY LockUntouched DEF MomentPasses, throttleVars
<1> QED
  BY <1>1, <1>2, <1>3

LEMMA ThrottleStep == ThrottleInv /\ [ThrottleNext]_throttleVars => ThrottleInv'
BY CheckLockInv, RateLimitInv, LoginFailsInv, OtherInv, MomentInv DEF ThrottleNext, Handle

\* ThrottleInv is inductive: any number of requests, any limit and window, any
\* caps of the lock.
THEOREM ThrottleInvariant == ThrottleSpec => []ThrottleInv
BY ThrottleInitInv, ThrottleStep, PTL DEF ThrottleSpec

\* The attempts of a period as long as the window are consecutive, and fewer
\* than two windows' worth apart.
LEMMA SpreadAdmits ==
    ASSUME ThrottleInv
    PROVE  WindowAdmits
<1> SUFFICES ASSUME NEW t \in 1..MaxMoment
             PROVE  Cardinality({n \in DOMAIN admitted : t <= admitted[n] /\ admitted[n] < t + Window})
                      <= 2 * Attempts
  BY DEF WindowAdmits
<1> DEFINE S == {n \in DOMAIN admitted : t <= admitted[n] /\ admitted[n] < t + Window}
<1>1. Len(admitted) \in Nat /\ DOMAIN admitted = 1..Len(admitted)
        /\ \A n \in DOMAIN admitted : admitted[n] \in Nat
  BY InstantTypes DEF ThrottleInv
<1>2. CASE S = {}
  BY <1>2, FS_EmptySet, Limits
<1>3. CASE S # {}
  <2>1. \A n \in S : n \in Nat
    BY <1>1
  <2> HIDE DEF S
  <2>2. PICK i \in S : \A n \in S : i <= n
    BY <1>3, <2>1, Smallest
  <2> DEFINE j == i + 2 * Attempts - 1
  <2>3. ASSUME NEW n \in S PROVE n \in i..j
    <3>1. n \in DOMAIN admitted /\ i \in DOMAIN admitted /\ admitted[n] < t + Window /\ t <= admitted[i]
      BY DEF S
    <3>2. ~(i + 2 * Attempts <= n)
      BY <1>1, <3>1, Limits DEF ThrottleInv, AttemptsSpread
    <3> QED
      BY <2>1, <2>2, <3>2, Limits
  <2>4. i \in Int /\ j \in Int /\ i <= j
    BY <2>1, Limits
  <2>5. IsFiniteSet(i..j) /\ Cardinality(i..j) = 2 * Attempts
    BY <2>4, FS_Interval, Limits
  <2>6. Cardinality(S) <= Cardinality(i..j)
    BY <2>3, <2>5, FS_Subset
  <2> QED
    BY <2>5, <2>6 DEF S
<1> QED
  BY <1>2, <1>3

\* Whatever requests interleave: any period as long as the window admits at
\* most two windows' worth of attempts, and the lock never shrinks before a
\* login succeeds.
THEOREM ThrottleIsSafe == ThrottleSpec => ThrottleSafe
<1>1. ThrottleInv => ThrottleTypeOK /\ WindowAdmits
  BY SpreadAdmits DEF ThrottleInv
<1>2. ThrottleInv /\ [ThrottleNext]_throttleVars => [failures' # 0 => length' >= length]_throttleVars
  <2> SUFFICES ASSUME ThrottleInv, [ThrottleNext]_throttleVars, failures' # 0
               PROVE  length' >= length
    OBVIOUS
  <2>1. length \in Nat
    BY Limits DEF ThrottleInv, ThrottleTypeOK
  <2>2. ASSUME NEW r \in LoginRequest, Handle(r) PROVE length' >= length
    <3>1. CASE LoginFails(r)
      BY <3>1, LoginFailsInv
    <3>2. CASE ~LoginFails(r)
      BY <2>1, <2>2, <3>2 DEF Handle, CheckLock, RateLimit, LoginSucceeds, ClearFailures, AbandonLogin
    <3> QED
      BY <3>1, <3>2
  <2>3. CASE MomentPasses \/ UNCHANGED throttleVars
    BY <2>1, <2>3 DEF MomentPasses, throttleVars
  <2> QED
    BY <2>2, <2>3 DEF ThrottleNext
<1> QED
  BY <1>1, <1>2, ThrottleInvariant, PTL DEF ThrottleSpec, ThrottleSafe, LockGrows
=============================================================================
