----------------------------- MODULE LoginThrottle -----------------------------
(***************************************************************************)
(* What holds back password guessing on one login: the progressive lock    *)
(* (login_failures) and the fixed-window limit (DB.RateLimit, also used    *)
(* for TOTP enrolment and for the agent's budgets). The login handler      *)
(* reads the lock, counts the attempt, verifies, and records the outcome,  *)
(* each in its own statement, for many requests at once. Time is in units  *)
(* of the shortest lock.                                                   *)
(***************************************************************************)
EXTENDS Naturals, Sequences, FiniteSets

CONSTANTS
    LoginRequest,   \* login requests in progress at once
    Attempts,       \* attempts per window (10)
    Window,    \* length of the window (15 minutes)
    MaxExp,    \* cap of the exponent of a lock (10)
    MaxFailed, \* cap of the recorded failures (20)
    MaxLock,   \* cap of a lock's length (900 s)
    MaxMoment   \* bound: clock

ASSUME ThrottleAssumption == {Attempts, Window, MaxExp, MaxFailed, MaxLock, MaxMoment} \subseteq Nat \ {0}

VARIABLES
    failures,  \* login_failures.failures; 0: no row
    blocked,   \* login_failures.blocked_until
    count,     \* auth_limits.count; all values above the limit are one
    reset,     \* auth_limits.reset_at
    loginRequests,  \* where each request stands
    moment,
    admitted,  \* history: the instants of the attempts let through
    length     \* history: length of the last lock since the last success

throttleVars == <<failures, blocked, count, reset, loginRequests, moment, admitted, length>>

Place == {"idle", "unblocked", "counted", "verified"}

ThrottleTypeOK ==
    /\ failures \in 0..MaxFailed
    /\ blocked \in 0..MaxMoment + MaxLock
    /\ count \in 0..Attempts + 1
    /\ reset \in 0..MaxMoment + Window
    /\ loginRequests \in [LoginRequest -> [at : Place, seen : 0..MaxFailed]]
    /\ moment \in 1..MaxMoment
    /\ admitted \in Seq(1..MaxMoment)
    /\ length \in 0..MaxLock

ThrottleInit ==
    /\ failures = 0 /\ blocked = 0
    /\ count = 0 /\ reset = 0
    /\ loginRequests = [r \in LoginRequest |-> [at |-> "idle", seen |-> 0]]
    /\ moment = 1
    /\ admitted = <<>>
    /\ length = 0

LoginGoes(r, place) == loginRequests' = [loginRequests EXCEPT ![r].at = place]
Least(a, b) == IF a < b THEN a ELSE b

\* SELECT EXISTS(... blocked_until>now()); a blocked request ends here.
CheckLock(r) ==
    /\ loginRequests[r].at = "idle"
    /\ blocked <= moment
    /\ loginRequests' = [loginRequests EXCEPT ![r] = [at |-> "unblocked", seen |-> failures]]
    /\ UNCHANGED <<failures, blocked, count, reset, moment, admitted, length>>

WindowOver_Always == TRUE

\* auth_limits.reset_at<now(); the first attempt finds no row.
WindowOver == reset < moment

\* RateLimit: one atomic upsert that counts rejected attempts too.
RateLimit(r) ==
    /\ loginRequests[r].at = "unblocked"
    /\ count' = IF WindowOver THEN 1 ELSE Least(count + 1, Attempts + 1)
    /\ reset' = IF WindowOver THEN moment + Window ELSE reset
    /\ IF count' <= Attempts
       THEN LoginGoes(r, "counted") /\ admitted' = Append(admitted, moment)
       ELSE LoginGoes(r, "idle") /\ UNCHANGED admitted
    /\ UNCHANGED <<failures, blocked, moment, length>>

\* power(2, n), for the exponents a lock may have.
Power[n \in 0..MaxExp] == IF n = 0 THEN 1 ELSE 2 * Power[n - 1]

LockLength_Seen(r) == Least(MaxLock, Power[Least(loginRequests[r].seen, MaxExp)])
LockLength_Uncapped(r) == 2 ^ failures

\* LEAST(900, power(2, LEAST(failures, 10))), of the row as it is now; the
\* first failure inserts the row and locks nothing.
LockLength(r) == Least(MaxLock, Power[Least(failures, MaxExp)])

\* Auth.Login refuses: the failure is recorded in one upsert.
LoginFails(r) ==
    /\ loginRequests[r].at = "counted"
    /\ length' = IF failures = 0 THEN 0 ELSE LockLength(r)
    /\ blocked' = moment + length'
    /\ failures' = Least(failures + 1, MaxFailed)
    /\ LoginGoes(r, "idle")
    /\ UNCHANGED <<count, reset, moment, admitted>>

\* Auth.Login accepts; then DELETE FROM login_failures.
LoginSucceeds(r) ==
    /\ loginRequests[r].at = "counted"
    /\ LoginGoes(r, "verified")
    /\ UNCHANGED <<failures, blocked, count, reset, moment, admitted, length>>

ClearFailures(r) ==
    /\ loginRequests[r].at = "verified"
    /\ failures' = 0 /\ blocked' = 0 /\ length' = 0
    /\ LoginGoes(r, "idle")
    /\ UNCHANGED <<count, reset, moment, admitted>>

\* The client goes away or a statement fails.
AbandonLogin(r) ==
    /\ loginRequests[r].at # "idle"
    /\ LoginGoes(r, "idle")
    /\ UNCHANGED <<failures, blocked, count, reset, moment, admitted, length>>

MomentPasses ==
    /\ moment < MaxMoment
    /\ moment' = moment + 1
    /\ UNCHANGED <<failures, blocked, count, reset, loginRequests, admitted, length>>

Handle(r) == CheckLock(r) \/ RateLimit(r) \/ LoginFails(r) \/ LoginSucceeds(r)
                 \/ ClearFailures(r) \/ AbandonLogin(r)

ThrottleNext == (\E r \in LoginRequest : Handle(r)) \/ MomentPasses

ThrottleSpec == ThrottleInit /\ [][ThrottleNext]_throttleVars

-----------------------------------------------------------------------------
(* Properties. *)

\* Whatever the interleaving, any period as long as the window admits at most
\* two windows' worth of attempts: the counter restarts, but never twice in it.
WindowAdmits == \A t \in 1..MaxMoment :
    Cardinality({n \in DOMAIN admitted : t <= admitted[n] /\ admitted[n] < t + Window}) <= 2 * Attempts

\* The lock is progressive: until a login succeeds, a further failure locks for
\* at least as long as the one before, even when the failing requests had all
\* passed the lock's check before the first of them failed.
LockGrows == [][failures' # 0 => length' >= length]_throttleVars

\* What holds back guessing, together: bounded attempts and a lock that grows.
ThrottleSafe == [](ThrottleTypeOK /\ WindowAdmits) /\ LockGrows
=============================================================================
