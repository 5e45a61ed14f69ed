---------------------------- MODULE ConnectionPool ----------------------------
(***************************************************************************)
(* The database pools and the callers that need two connections at once.   *)
(* Engine.Batch, and the tick of every leader, keep one connection for its *)
(* advisory lock while each of their other statements takes one more from  *)
(* the same pool. All other callers hold one and need no second. Every     *)
(* process has a pool; the locks are the database's and common to all.     *)
(***************************************************************************)
EXTENDS Naturals, FiniteSets

CONSTANTS
    Process,       \* processes, each with a pool
    PoolRequest,       \* HTTP requests: batches, or anything with one connection
    Ticker,        \* scheduler, dispatcher, collector and monitor loops
    Home,          \* the process of each request and ticker
    BatchKey,      \* keys of batches
    LeaderLock,    \* the advisory lock of each ticker
    Size,          \* MaxConns, 32 in the code
    MaxStatements, \* bound: further statements of one caller
    Nobody

Caller == PoolRequest \cup Ticker
LockKey == BatchKey \cup {LeaderLock[t] : t \in Ticker}

\* A process runs four leader loops and has 32 connections.
ASSUME PoolAssumption ==
    /\ PoolRequest \cap Ticker = {}
    /\ IsFiniteSet(PoolRequest) /\ IsFiniteSet(Ticker)
    /\ Home \in [Caller -> Process]
    /\ Size \in Nat \ {0} /\ MaxStatements \in Nat \ {0}
    /\ \A p \in Process : Cardinality({t \in Ticker : Home[t] = p}) < Size

VARIABLES
    callers, \* where each caller stands
    holder   \* the caller whose session holds each advisory lock

poolVars == <<callers, holder>>

NoCaller == [at |-> "idle"]

\* "acquire" the first connection; "single" statement or transaction; "lock":
\* wait for, or try, the advisory lock; "second": wait for one more connection;
\* "inside": a statement runs on it. todo: statements left, this one included.
Position == {"acquire", "single", "lock", "second", "inside"}
CallerPosition == [at : Position, key : LockKey \cup {Nobody}, todo : 0..MaxStatements]

At(p, positions) == {c \in Caller : Home[c] = p /\ callers[c].at \in positions}

Used(p) == Cardinality(At(p, {"single", "lock", "second"})) + 2 * Cardinality(At(p, {"inside"}))

\* The types, and that no pool lends more connections than it has (store.Open).
PoolTypeOK ==
    /\ callers \in [Caller -> CallerPosition \cup {NoCaller}]
    /\ holder \in [LockKey -> Caller \cup {Nobody}]
    /\ \A p \in Process : Used(p) <= Size

PoolInit ==
    /\ callers = [c \in Caller |-> NoCaller]
    /\ holder = [k \in LockKey |-> Nobody]

CallerGoes(c, state) == callers' = [callers EXCEPT ![c] = state]

FreeConn_Plus(p) == Used(p) <= Size
FreeConn(p) == Used(p) < Size

----------------------------------------------------------------------------
\* A request arrives that creates a batch, or that only needs one connection.
ArriveRequest(r) ==
    /\ callers[r] = NoCaller
    /\ \E k \in BatchKey \cup {Nobody} : CallerGoes(r, [at |-> "acquire", key |-> k, todo |-> 0])
    /\ UNCHANGED holder

\* The timer of a leader loop fires.
ArriveTicker(t) ==
    /\ callers[t] = NoCaller
    /\ CallerGoes(t, [at |-> "acquire", key |-> LeaderLock[t], todo |-> 0])
    /\ UNCHANGED holder

\* Pool.Acquire, Pool.Begin or a statement on the pool.
Acquire(c) ==
    /\ callers[c].at = "acquire" /\ FreeConn(Home[c])
    /\ CallerGoes(c, [callers[c] EXCEPT !.at = IF callers[c].key = Nobody THEN "single" ELSE "lock"])
    /\ UNCHANGED holder

\* A statement or a transaction on one connection ends.
SingleDone(c) ==
    /\ callers[c].at = "single"
    /\ CallerGoes(c, NoCaller)
    /\ UNCHANGED holder

TakesLock(c) ==
    /\ holder' = [holder EXCEPT ![callers[c].key] = c]
    /\ \E n \in 1..MaxStatements : CallerGoes(c, [callers[c] EXCEPT !.at = "second", !.todo = n])

\* pg_advisory_lock of Batch waits, and keeps its connection meanwhile.
LockBatch(r) ==
    /\ r \in PoolRequest /\ callers[r].at = "lock"
    /\ holder[callers[r].key] = Nobody
    /\ TakesLock(r)

\* pg_try_advisory_lock of a tick does not: another leader ends the tick.
TryLeader(t) ==
    /\ t \in Ticker /\ callers[t].at = "lock"
    /\ IF holder[callers[t].key] = Nobody THEN TakesLock(t)
       ELSE CallerGoes(t, NoCaller) /\ UNCHANGED holder

AcquireSecond(c) ==
    /\ callers[c].at = "second" /\ FreeConn(Home[c])
    /\ CallerGoes(c, [callers[c] EXCEPT !.at = "inside"])
    /\ UNCHANGED holder

\* The deferred calls: the unlock runs on the kept connection, with a context of
\* its own, before that connection is released.
Unlocked_Never(c) == holder
Unlocked(c) == [k \in LockKey |-> IF holder[k] = c THEN Nobody ELSE holder[k]]

Leave(c) == CallerGoes(c, NoCaller) /\ holder' = Unlocked(c)

\* One of the further statements ends: the next one starts, or the call returns
\* because it was the last or because it failed.
StatementDone(c) ==
    /\ callers[c].at = "inside"
    /\ \/ Leave(c)
       \/ /\ callers[c].todo > 1
          /\ CallerGoes(c, [callers[c] EXCEPT !.at = "second", !.todo = @ - 1])
          /\ UNCHANGED holder

\* Where the request's context ends the wait: all of Batch passes it on.
Patient == {"acquire", "lock", "second"}

\* The client, or the proxy in front, closes the connection.
GiveUp(r) ==
    /\ callers[r].at \in Patient
    /\ Leave(r)

CallerStep(c) == Acquire(c) \/ SingleDone(c) \/ LockBatch(c) \/ TryLeader(c) \/ AcquireSecond(c) \/ StatementDone(c)

PoolNext ==
    \/ \E r \in PoolRequest : ArriveRequest(r) \/ GiveUp(r)
    \/ \E t \in Ticker : ArriveTicker(t)
    \/ \E c \in Caller : CallerStep(c)

PoolSpec == PoolInit /\ [][PoolNext]_poolVars

----------------------------------------------------------------------------
Waits(c) ==
    \/ callers[c].at \in {"acquire", "second"} /\ ~FreeConn(Home[c])
    \/ c \in PoolRequest /\ callers[c].at = "lock" /\ holder[callers[c].key] # Nobody

Busy == {c \in Caller : callers[c] # NoCaller}

\* Everyone waits on everyone only when some pool is taken entirely by callers
\* that each keep one connection and ask for more: with fewer than MaxConns
\* batches and ticks in a process, Batch and the leader loops cannot block each
\* other, whatever the locks and the other process do.
StuckOnlyWhenFull ==
    (Busy # {} /\ \A c \in Busy : Waits(c)) =>
        \E p \in Process : Cardinality(At(p, {"lock", "second"})) = Size

\* The pools as a whole: never lent beyond their size, and a standstill only
\* when one is full.
PoolSafe == PoolTypeOK /\ StuckOnlyWhenFull
=============================================================================
