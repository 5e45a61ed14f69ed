----------------------------- MODULE RollingBatch -----------------------------
(***************************************************************************)
(* A rolling batch: Engine.Batch creates one operation per resource under  *)
(* an idempotency key, PGQueue.Claim starts them group by group, and the   *)
(* second UPDATE of PGQueue.Recover cancels what is left once too many     *)
(* have failed.                                                            *)
(*                                                                         *)
(* Several HTTP requests may carry the same key: retries of one request,   *)
(* or another request that reuses the key. A session advisory lock lets    *)
(* one of them in at a time. Each statement of the creation is an action   *)
(* of its own, because Batch runs them outside a transaction: the process  *)
(* may die, or the database refuse a statement, between any two.           *)
(*                                                                         *)
(* Claim is two steps: under READ COMMITTED its subqueries over the other  *)
(* operations of the batch see the snapshot of the start of the statement, *)
(* while the chosen row is re-read under its lock.                         *)
(***************************************************************************)
EXTENDS Integers, FiniteSets

CONSTANTS
    Request,   \* what a request with this key asks: [n, size, threshold, cont]
    Call,      \* HTTP requests carrying the key, each served once
    Claimer,   \* goroutines that claim operations
    Leasable,  \* items whose resource operations outside the batch may lease
    None

ASSUME BatchAssumption ==
    /\ Request \subseteq [n : 1..500, size : 1..20, threshold : 0..500, cont : BOOLEAN]
    /\ Request # {}
    /\ IsFiniteSet(Call) /\ IsFiniteSet(Claimer)
    /\ None \notin Request \cup Call \cup Int

\* Item indexes, batch_index of the code, from 0.
Item == 0..(CHOOSE m \in {q.n : q \in Request} : \A q \in Request : q.n <= m) - 1

VARIABLES
    batch,     \* the batches row, as the request that created it; None: no row
    ready,     \* batches.ready
    state,     \* operations.state of each item; "absent" before its INSERT
    concluded, \* items with an audit event for how they ended
    lock,      \* the call holding the advisory lock
    at,        \* where each call stands in Engine.Batch
    asked,     \* the request of each call
    next,      \* the item each call submits next
    pick,      \* the row each claimer selected and has not locked yet
    outside,   \* the one operation outside the batch on each Leasable resource
    started    \* history: items that were ever running

callVars == <<lock, at, asked, next>>
vars == <<batch, ready, state, concluded, callVars, pick, outside, started>>

Failed == {"failed", "timeout", "rejected"}
Terminal == Failed \cup {"succeeded", "cancelled"}
Outcome == Failed \cup {"succeeded"}
Unstarted == {"queued", "waiting_approval"}

\* unsent    - the request has not arrived;
\* locked    - inside the advisory lock, the batches row not yet inserted;
\* creating  - submitting the items one after the other;
\* undoing   - a Submit failed, the created items not yet cancelled;
\* returned  - answered, or lost with its process.
CallPlace == {"unsent", "locked", "creating", "undoing", "returned"}

TypeOK ==
    /\ batch \in Request \cup {None}
    /\ ready \in BOOLEAN
    /\ state \in [Item -> {"absent", "running"} \cup Unstarted \cup Terminal]
    /\ concluded \in SUBSET Item
    /\ lock \in Call \cup {None}
    /\ at \in [Call -> CallPlace]
    /\ asked \in [Call -> Request \cup {None}]
    /\ next \in [Call -> 0..Cardinality(Item)]
    /\ pick \in [Claimer -> Item \cup {None}]
    /\ outside \in [Leasable -> {"pending", "holding", "done"}]
    /\ started \in SUBSET Item

Init ==
    /\ batch = None
    /\ ready = FALSE
    /\ state = [i \in Item |-> "absent"]
    /\ concluded = {}
    /\ lock = None
    /\ at = [c \in Call |-> "unsent"]
    /\ asked = [c \in Call |-> None]
    /\ next = [c \in Call |-> 0]
    /\ pick = [w \in Claimer |-> None]
    /\ outside = [i \in Leasable |-> "pending"]
    /\ started = {}

\* A resource_leases row stands in the way of item i.
Leased(i) == i \in Leasable /\ outside[i] = "holding"

-----------------------------------------------------------------------------
(* Engine.Batch. *)

\* Bounds and authorization passed for every resource, and the advisory lock
\* is free. A refusal before this point leaves no trace.
Enter(c, q) ==
    /\ at[c] = "unsent"
    /\ lock = None
    /\ lock' = c
    /\ at' = [at EXCEPT ![c] = "locked"]
    /\ asked' = [asked EXCEPT ![c] = q]
    /\ UNCHANGED <<batch, ready, state, concluded, next, pick, outside, started>>

\* The call leaves: its deferred unlock, or the loss of its connection.
Leave(c) ==
    /\ lock' = None
    /\ at' = [at EXCEPT ![c] = "returned"]

SameRequest_KeyOnly(q, r) == TRUE

\* request_hash compares everything the request asks.
SameRequest(q, r) == q = r

\* INSERT ... ON CONFLICT DO NOTHING, then the stored request_hash is compared.
InsertBatch(c) ==
    LET row == IF batch = None THEN asked[c] ELSE batch IN
    /\ at[c] = "locked"
    /\ batch' = row
    /\ IF SameRequest(row, asked[c])
       THEN at' = [at EXCEPT ![c] = "creating"] /\ UNCHANGED lock
       ELSE Leave(c)
    /\ UNCHANGED <<ready, state, concluded, asked, next, pick, outside, started>>

MoreToSubmit_OneTooMany(c) == next[c] <= asked[c].n

\* The loop over the requested ids.
MoreToSubmit(c) == next[c] < asked[c].n

\* Submit of one item. Its own idempotency key, <key>:<resource>, makes the
\* INSERT a no-op for an item an earlier call created, whatever became of it.
SubmitItem(c, initial) ==
    /\ at[c] = "creating"
    /\ MoreToSubmit(c)
    /\ state' = [state EXCEPT ![next[c]] = IF @ = "absent" THEN initial ELSE @]
    /\ next' = [next EXCEPT ![c] = @ + 1]
    /\ UNCHANGED <<batch, ready, concluded, lock, at, asked, pick, outside, started>>

\* Submit returns an error: denied by now, or a failed statement.
SubmitFails(c) ==
    /\ at[c] = "creating"
    /\ MoreToSubmit(c)
    /\ at' = [at EXCEPT ![c] = "undoing"]
    /\ UNCHANGED <<batch, ready, state, concluded, lock, asked, next, pick, outside, started>>

\* 'batch creation failed': every unstarted item of the batch is cancelled,
\* without an audit event.
UndoCreation(c) ==
    /\ at[c] = "undoing"
    /\ state' = [i \in Item |-> IF state[i] \in Unstarted THEN "cancelled" ELSE state[i]]
    /\ Leave(c)
    /\ UNCHANGED <<batch, ready, concluded, asked, next, pick, outside, started>>

\* UPDATE batches SET ready=true, after the last Submit.
MarkReady(c) ==
    /\ at[c] = "creating"
    /\ ~MoreToSubmit(c)
    /\ ready' = TRUE
    /\ Leave(c)
    /\ UNCHANGED <<batch, state, concluded, asked, next, pick, outside, started>>

\* The process dies, the client goes away or a statement fails (the error of
\* the cancelling UPDATE is dropped): the call ends where it stands.
CallLost(c) ==
    /\ at[c] \in {"locked", "creating", "undoing"}
    /\ Leave(c)
    /\ UNCHANGED <<batch, ready, state, concluded, asked, next, pick, outside, started>>

-----------------------------------------------------------------------------
(* People: Engine.Approve and Engine.Cancel on one item. *)

Approve(i) ==
    /\ state[i] = "waiting_approval"
    /\ state' = [state EXCEPT ![i] = "queued"]
    /\ UNCHANGED <<batch, ready, concluded, callVars, pick, outside, started>>

Reject(i) ==
    /\ state[i] = "waiting_approval"
    /\ state' = [state EXCEPT ![i] = "rejected"]
    /\ concluded' = concluded \cup {i}
    /\ UNCHANGED <<batch, ready, callVars, pick, outside, started>>

Cancel(i) ==
    /\ state[i] \in Unstarted \cup {"running"}
    /\ state' = [state EXCEPT ![i] = "cancelled"]
    /\ concluded' = concluded \cup {i}
    /\ UNCHANGED <<batch, ready, callVars, pick, outside, started>>

-----------------------------------------------------------------------------
(* PGQueue.Claim, Finish and Recover on the items of the batch. *)

Group_Rounded(i) == (i + 1) \div batch.size

\* batch_index/b.batch_size of the SQL: integer division.
Group(i) == i \div batch.size

CountsAsFailure_FailedOnly(s) == s = "failed"

\* x.state IN ('failed','timeout','rejected').
CountsAsFailure(s) == s \in {"failed", "timeout", "rejected"}

\* Given the item states s: any failure without continue_on_error, or more
\* failures than failure_threshold.
Stopped(s) ==
    LET failures == {i \in Item : CountsAsFailure(s[i])} IN
    /\ batch # None
    /\ (~batch.cont /\ failures # {}) \/ Cardinality(failures) > batch.threshold

Released_Always == TRUE

\* batches.ready guards the claim of every item.
Released == ready

LetsNextGroupStart_OnSuccess(s) == s \in {"succeeded", "absent"}

\* x.state NOT IN (terminal states) is what holds a later group back.
LetsNextGroupStart(s) == s \in Terminal \cup {"absent"}

\* The WHERE clause of Claim for an item of the batch.
Claimable(i) ==
    /\ state[i] = "queued"
    /\ ~Leased(i)
    /\ Released
    /\ \A x \in Item : Group(x) < Group(i) => LetsNextGroupStart(state[x])
    /\ ~Stopped(state)

\* The SELECT of Claim finds item i in its snapshot.
ClaimSelect(w, i) ==
    /\ pick[w] = None
    /\ batch # None
    /\ Claimable(i)
    /\ pick' = [pick EXCEPT ![w] = i]
    /\ UNCHANGED <<batch, ready, state, concluded, callVars, outside, started>>

\* FOR UPDATE re-reads the row itself and the lease INSERT meets a lease taken
\* meanwhile: the item starts, or the claim finds nothing.
ClaimStart(w) ==
    LET i == pick[w] IN
    /\ i # None
    /\ IF state[i] = "queued" /\ ~Leased(i)
       THEN /\ state' = [state EXCEPT ![i] = "running"]
            /\ started' = started \cup {i}
       ELSE UNCHANGED <<state, started>>
    /\ pick' = [pick EXCEPT ![w] = None]
    /\ UNCHANGED <<batch, ready, concluded, callVars, outside>>

\* The worker finishes item i, the wait for a healthy resource included.
Finish(i, outcome) ==
    /\ state[i] = "running"
    /\ state' = [state EXCEPT ![i] = outcome]
    /\ concluded' = concluded \cup {i}
    /\ UNCHANGED <<batch, ready, callVars, pick, outside, started>>

StoppedItems_All(s) == {i \in Item : Stopped(s) /\ s[i] \in Unstarted \cup {"running"}}
StoppedItems_QueuedOnly(s) == {i \in Item : Stopped(s) /\ s[i] = "queued"}

\* The rows the second UPDATE of Recover cancels.
StoppedItems(s) == {i \in Item : Stopped(s) /\ s[i] \in Unstarted}

\* One Recover transaction: running items with an expired lease become
\* timeouts, audited as orphaned; then, counting those, the unstarted items of
\* a stopped batch are cancelled, with no audit event.
Recover(orphans) ==
    LET timedOut == [i \in Item |-> IF i \in orphans THEN "timeout" ELSE state[i]]
        stopped  == StoppedItems(timedOut) IN
    /\ orphans \subseteq {i \in Item : state[i] = "running"}
    /\ orphans \cup stopped # {}
    /\ state' = [i \in Item |-> IF i \in stopped THEN "cancelled" ELSE timedOut[i]]
    /\ concluded' = concluded \cup orphans
    /\ UNCHANGED <<batch, ready, callVars, pick, outside, started>>

\* The operation outside the batch takes its lease, and its Finish, its Cancel or
\* an administrator gives it back.
OutsideLease(i) ==
    /\ outside[i] = "pending"
    /\ state[i] # "running"
    /\ outside' = [outside EXCEPT ![i] = "holding"]
    /\ UNCHANGED <<batch, ready, state, concluded, callVars, pick, started>>

OutsideRelease(i) ==
    /\ outside[i] = "holding"
    /\ outside' = [outside EXCEPT ![i] = "done"]
    /\ UNCHANGED <<batch, ready, state, concluded, callVars, pick, started>>

-----------------------------------------------------------------------------
CallStep(c) ==
    \/ InsertBatch(c)
    \/ \E initial \in Unstarted : SubmitItem(c, initial)
    \/ SubmitFails(c)
    \/ UndoCreation(c)
    \/ MarkReady(c)
    \/ CallLost(c)

Next ==
    \/ \E c \in Call, q \in Request : Enter(c, q)
    \/ \E c \in Call : CallStep(c)
    \/ \E i \in Item : Approve(i) \/ Reject(i) \/ Cancel(i)
    \/ \E w \in Claimer, i \in Item : ClaimSelect(w, i)
    \/ \E w \in Claimer : ClaimStart(w)
    \/ \E i \in Item, outcome \in Outcome : Finish(i, outcome)
    \/ \E orphans \in SUBSET Item : Recover(orphans)
    \/ \E i \in Leasable : OutsideLease(i) \/ OutsideRelease(i)

Spec == Init /\ [][Next]_vars

(***************************************************************************)
(* A request is served to its end; workers keep polling, claim the oldest  *)
(* row first (ORDER BY created_at, hence strong fairness for each item),   *)
(* finish what they run (every step has a timeout) and call Recover from a *)
(* ticker. Nobody is obliged to approve, and an outside operation may keep *)
(* its lease for ever: after a timeout or as an orphan it waits for the    *)
(* reconciliation of an administrator.                                     *)
(***************************************************************************)
Fairness ==
    /\ \A c \in Call : WF_vars(CallStep(c))
    /\ \A i \in Item : SF_vars(\E w \in Claimer : ClaimSelect(w, i))
    /\ \A w \in Claimer : WF_vars(ClaimStart(w))
    /\ \A i \in Item : WF_vars(\E outcome \in Outcome : Finish(i, outcome))
    /\ WF_vars(Recover({}))

FairSpec == Spec /\ Fairness

-----------------------------------------------------------------------------
(* Properties. *)

\* "O lote so pode executar apos a criacao completa": when an item has ever
\* started, the batch is ready and every requested item has its row, whatever
\* creations failed, died or were retried before.
CreatedWhole ==
    started # {} => /\ ready
                    /\ \A i \in Item : i < batch.n => state[i] # "absent"

\* A key is bound to the first request that used it: a request with other
\* contents adds no item to the batch.
KeyBindsOneRequest ==
    \A i \in Item : state[i] # "absent" => batch # None /\ i < batch.n

\* Groups run one after the other: while an item runs every item of an
\* earlier group has ended, although Claim decides on a snapshot that may be
\* stale by the time the item starts.
GroupOrder ==
    \A i, x \in Item :
        state[i] = "running" /\ x < (i \div batch.size) * batch.size
            => state[x] \in Terminal

\* What a batch may break: the started items that failed never exceed the
\* accepted failures plus the one group that was already under way.
FailureBudget ==
    batch # None =>
        Cardinality({i \in started : state[i] \in Failed})
            <= (IF batch.cont THEN batch.threshold ELSE 0) + batch.size

\* A batch that has failed too often is eventually left with no item that
\* could still be approved or claimed.
StoppedBatchDrains ==
    Stopped(state) ~> \A i \in Item : state[i] \notin Unstarted

\* Groups do not wait on each other for ever: an accepted batch that misses no
\* approval ends, unless a queued item of it waits, again and again or for good,
\* behind the lease of an operation outside the batch. Nothing of its own
\* making, a failed, cancelled or timed out item included, holds it up.
ReadyBatchEnds ==
    (ready /\ \A i \in Item : state[i] # "waiting_approval")
        ~> \/ \A i \in Item : state[i] \in Terminal \cup {"absent"}
           \/ \E i \in Item : state[i] = "queued" /\ Leased(i)

\* "Eventos registram criacao, aprovacao, inicio e conclusao" as far as commands
\* are concerned: an item that ends without an audit event was never started,
\* although the undo of a failed creation and Recover cancel beside the workers.
StartedConcluded == \A i \in started : state[i] \in Terminal => i \in concluded

\* Creation as a whole: all items or none ready, and one request per key.
CreationSafe == TypeOK /\ CreatedWhole /\ KeyBindsOneRequest
=============================================================================
