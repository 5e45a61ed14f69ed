---------------------------- MODULE OperationQueue ----------------------------
(***************************************************************************)
(* The durable operation queue of internal/operations: the operations and  *)
(* resource_leases tables, the API calls that write them (Submit, Approve, *)
(* Cancel, reconcile) and the worker goroutines that claim, re-check, run  *)
(* and finish an operation while a heartbeat renews its lease.             *)
(*                                                                         *)
(* Every SQL transaction of the code is one action: PostgreSQL commits it  *)
(* whole, its UPDATEs carry their guard in the WHERE clause, and the row   *)
(* locks taken by Claim (FOR UPDATE SKIP LOCKED) last until the commit.    *)
(* Between two transactions of one goroutine anything else may happen: a   *)
(* cancel, the passing of time, a recovery by another process, a crash, a  *)
(* lost database reply, a broken remote session.                           *)
(*                                                                         *)
(* Operations here have no batch (batch_id = ''): for them the batch       *)
(* conditions of Claim and the second UPDATE of Recover select nothing.    *)
(***************************************************************************)
EXTENDS Naturals, FiniteSets

CONSTANTS
    Op,         \* ids of the operations that may be submitted
    Resource,   \* managed resources
    User,       \* people who submit, approve and cancel
    Admin,      \* users whose role is ADMIN
    Approver,   \* users allowed operation.approve (ADMIN and APPROVER)
    Worker,     \* worker processes
    Slot,       \* goroutines of one worker process (Concurrency)
    LeaseTTL,   \* the 45 seconds of a lease, in ticks of the model's clock
    None        \* SQL NULL, or an absent row

ASSUME QueueAssumption ==
    /\ LeaseTTL \in Nat \ {0}
    /\ Admin \subseteq Approver
    /\ Approver \subseteq User
    /\ None \notin Op \cup Resource \cup User \cup Worker

VARIABLES
    state,        \* operations.state of each id; "absent" before the INSERT
    resource_id,  \* operations.resource_id
    requester,    \* operations.requester
    approval_by,  \* operations.approval_by
    worker_id,    \* operations.worker_id
    leases,       \* resource_leases: the operation holding each resource
    ttl,          \* ticks until lease_until and expires_at; 0: past, or no lease
    audit,        \* audit actions recorded for each operation
    up,           \* worker processes accepting work
    pc,           \* where each goroutine stands in Worker.execute
    cur,          \* the operation a goroutine claimed
    cancelled,    \* the goroutine's context has been cancelled
    outcome,      \* the state execute computed and Finish will write
    remote,       \* the command on the managed host: "none", "active", "done"
    effects,      \* history: how many times a remote command was started
    reconciled,   \* history: operations whose lease an administrator removed
    torn          \* history: those of them removed after the last renewal

rowVars == <<state, resource_id, requester, approval_by, worker_id>>
dbVars == <<rowVars, leases, ttl, audit>>
threadVars == <<up, pc, cur, cancelled, outcome>>
hostVars == <<remote, effects>>
adminVars == <<reconciled, torn>>
vars == <<dbVars, threadVars, hostVars, adminVars>>

Terminal == {"succeeded", "failed", "cancelled", "timeout", "rejected"}
OpState == {"absent", "waiting_approval", "queued", "running"} \cup Terminal

Thread == Worker \X Slot
WorkerOf(t) == t[1]
ThreadsOf(w) == {t \in Thread : WorkerOf(t) = w}

(***************************************************************************)
(* The places of Worker.execute between which other actors may move:       *)
(* checking  - re-reading user, token, host, target, policy and approver;  *)
(* renewing  - everything re-authorized, the lease still to be renewed;    *)
(* ready     - renewed; parameters and connection before the command;      *)
(* executing - the remote command was handed to the host;                  *)
(* finishing - execute returned, Finish not yet committed.                 *)
(***************************************************************************)
Place == {"idle", "checking", "renewing", "ready", "executing", "finishing"}
PastRenewal == {"ready", "executing"}
Outcome == {"succeeded", "failed", "timeout", "rejected"}

AuditAction ==
    {"operation.created", "approval.requested", "approval.approved",
     "approval.rejected", "operation.started", "operation.cancelled",
     "operation.succeeded", "operation.failed", "operation.timeout",
     "operation.rejected", "operation.orphaned"}

\* The audit action Finish writes for a state ("operation." + state).
FinishAudit == [s \in Outcome |->
    CASE s = "succeeded" -> "operation.succeeded"
      [] s = "failed"    -> "operation.failed"
      [] s = "timeout"   -> "operation.timeout"
      [] s = "rejected"  -> "operation.rejected"]

TypeOK ==
    /\ state \in [Op -> OpState]
    /\ resource_id \in [Op -> Resource \cup {None}]
    /\ requester \in [Op -> User \cup {None}]
    /\ approval_by \in [Op -> User \cup {None}]
    /\ worker_id \in [Op -> Worker \cup {None}]
    /\ leases \in [Resource -> Op \cup {None}]
    /\ ttl \in [Op -> 0..LeaseTTL]
    /\ audit \in [Op -> SUBSET AuditAction]
    /\ up \in [Worker -> BOOLEAN]
    /\ pc \in [Thread -> Place]
    /\ cur \in [Thread -> Op \cup {None}]
    /\ cancelled \in [Thread -> BOOLEAN]
    /\ outcome \in [Thread -> Outcome \cup {None}]
    /\ remote \in [Op -> {"none", "active", "done"}]
    /\ effects \in [Op -> Nat]
    /\ reconciled \in SUBSET Op
    /\ torn \in SUBSET Op

Init ==
    /\ state = [o \in Op |-> "absent"]
    /\ resource_id = [o \in Op |-> None]
    /\ requester = [o \in Op |-> None]
    /\ approval_by = [o \in Op |-> None]
    /\ worker_id = [o \in Op |-> None]
    /\ leases = [r \in Resource |-> None]
    /\ ttl = [o \in Op |-> 0]
    /\ audit = [o \in Op |-> {}]
    /\ up = [w \in Worker |-> TRUE]
    /\ pc = [t \in Thread |-> "idle"]
    /\ cur = [t \in Thread |-> None]
    /\ cancelled = [t \in Thread |-> FALSE]
    /\ outcome = [t \in Thread |-> None]
    /\ remote = [o \in Op |-> "none"]
    /\ effects = [o \in Op |-> 0]
    /\ reconciled = {}
    /\ torn = {}

Record(o, action) == audit' = [audit EXCEPT ![o] = @ \cup {action}]

-----------------------------------------------------------------------------
(* The API: Engine.Submit, Engine.Approve, Engine.Cancel, Server.reconcile. *)

\* Submit inserts a row for user u on resource r. The policy decision asks
\* for an approval or does not (needsApproval); a denied request, and a replay
\* of an idempotency key, write no operation.
Submit(o, u, r, needsApproval) ==
    /\ state[o] = "absent"
    /\ state' = [state EXCEPT ![o] =
                    IF needsApproval THEN "waiting_approval" ELSE "queued"]
    /\ resource_id' = [resource_id EXCEPT ![o] = r]
    /\ requester' = [requester EXCEPT ![o] = u]
    /\ Record(o, IF needsApproval THEN "approval.requested" ELSE "operation.created")
    /\ UNCHANGED <<approval_by, worker_id, leases, ttl, threadVars, hostVars, adminVars>>

MayApprove_SelfAllowed(o, u) == u \in Approver

\* Permission and the ban on self approval.
MayApprove(o, u) == u \in Approver /\ u # requester[o]

\* Approve(approve=true): the UPDATE is guarded by state='waiting_approval'.
Approve(o, u) ==
    /\ state[o] = "waiting_approval"
    /\ MayApprove(o, u)
    /\ state' = [state EXCEPT ![o] = "queued"]
    /\ approval_by' = [approval_by EXCEPT ![o] = u]
    /\ Record(o, "approval.approved")
    /\ UNCHANGED <<resource_id, requester, worker_id, leases, ttl,
                   threadVars, hostVars, adminVars>>

\* Approve(approve=false) also stores the decider in approval_by.
Reject(o, u) ==
    /\ state[o] = "waiting_approval"
    /\ MayApprove(o, u)
    /\ state' = [state EXCEPT ![o] = "rejected"]
    /\ approval_by' = [approval_by EXCEPT ![o] = u]
    /\ Record(o, "approval.rejected")
    /\ UNCHANGED <<resource_id, requester, worker_id, leases, ttl,
                   threadVars, hostVars, adminVars>>

LeasesAfterCancel_Dropped(o) ==
    [r \in Resource |-> IF leases[r] = o THEN None ELSE leases[r]]

\* Cancel leaves the lease of a running operation in place: its worker finds
\* out at its next renewal.
LeasesAfterCancel(o) == leases

Cancel(o, u) ==
    /\ state[o] \in {"waiting_approval", "queued", "running"}
    /\ u = requester[o] \/ u \in Admin
    /\ state' = [state EXCEPT ![o] = "cancelled"]
    /\ leases' = LeasesAfterCancel(o)
    /\ Record(o, "operation.cancelled")
    /\ UNCHANGED <<resource_id, requester, approval_by, worker_id, ttl,
                   threadVars, hostVars, adminVars>>

Reconcilable_TimeoutOnly(r) ==
    leases[r] # None /\ ttl[leases[r]] = 0 /\ state[leases[r]] = "timeout"

\* The WHERE clause of the DELETE in reconcile.
Reconcilable(r) ==
    /\ leases[r] # None
    /\ ttl[leases[r]] = 0
    /\ state[leases[r]] # "running"

\* An administrator declares the remote state checked and frees the resource.
Reconcile(r) ==
    /\ Reconcilable(r)
    /\ leases' = [leases EXCEPT ![r] = None]
    /\ reconciled' = reconciled \cup {leases[r]}
    /\ torn' = torn \cup {o \in {leases[r]} : \E t \in Thread : cur[t] = o /\ pc[t] \in PastRenewal}
    /\ UNCHANGED <<rowVars, ttl, audit, threadVars, hostVars>>

-----------------------------------------------------------------------------
(* PGQueue: Claim, Renew, Finish, Recover. *)

Claimable_IgnoringLease(o) == state[o] = "queued"

\* The row Claim selects: queued, and no lease row on its resource.
Claimable(o) == state[o] = "queued" /\ leases[resource_id[o]] = None

\* The writes of the Claim transaction.
ClaimRow(o, w) ==
    /\ Claimable(o)
    /\ leases' = [leases EXCEPT ![resource_id[o]] = o]
    /\ ttl' = [ttl EXCEPT ![o] = LeaseTTL]
    /\ state' = [state EXCEPT ![o] = "running"]
    /\ worker_id' = [worker_id EXCEPT ![o] = w]
    /\ Record(o, "operation.started")
    /\ UNCHANGED <<resource_id, requester, approval_by>>

\* A goroutine's claim succeeds; execute and its heartbeat start.
Claim(t, o) ==
    /\ up[WorkerOf(t)]
    /\ pc[t] = "idle"
    /\ ClaimRow(o, WorkerOf(t))
    /\ pc' = [pc EXCEPT ![t] = "checking"]
    /\ cur' = [cur EXCEPT ![t] = o]
    /\ cancelled' = [cancelled EXCEPT ![t] = FALSE]
    /\ UNCHANGED <<up, outcome, hostVars, adminVars>>

\* The commit succeeded but its reply was lost: Claim returns an error, the
\* loop continues, and the row stays running with nobody working on it.
ClaimReplyLost(t, o) ==
    /\ up[WorkerOf(t)]
    /\ pc[t] = "idle"
    /\ ClaimRow(o, WorkerOf(t))
    /\ UNCHANGED <<threadVars, hostVars, adminVars>>

\* The WHERE clauses of the two UPDATEs of Renew (lease_until and expires_at
\* are written together, so one ttl stands for both).
Renewable(t) ==
    LET o == cur[t] IN
    /\ state[o] = "running"
    /\ worker_id[o] = WorkerOf(t)
    /\ leases[resource_id[o]] = o
    /\ ttl[o] > 0

\* The heartbeat goroutine renews while execute runs.
Heartbeat(t) ==
    /\ pc[t] # "idle"
    /\ ~cancelled[t]
    /\ Renewable(t)
    /\ ttl' = [ttl EXCEPT ![cur[t]] = LeaseTTL]
    /\ UNCHANGED <<rowVars, leases, audit, threadVars, hostVars, adminVars>>

\* A renewal is refused, or the database does not answer: the heartbeat
\* cancels the context of execute and ends.
HeartbeatLost(t) ==
    /\ pc[t] # "idle"
    /\ ~cancelled[t]
    /\ cancelled' = [cancelled EXCEPT ![t] = TRUE]
    /\ UNCHANGED <<dbVars, up, pc, cur, outcome, hostVars, adminVars>>

RowMatches_AnyState(t) == worker_id[cur[t]] = WorkerOf(t)

\* The WHERE clause of the UPDATE of Finish.
RowMatches(t) == state[cur[t]] = "running" /\ worker_id[cur[t]] = WorkerOf(t)

\* Finish deletes the lease unless the outcome is unknown.
ReleasesLease(out) == out # "timeout"

GoIdle(t) ==
    /\ pc' = [pc EXCEPT ![t] = "idle"]
    /\ cur' = [cur EXCEPT ![t] = None]
    /\ outcome' = [outcome EXCEPT ![t] = None]
    /\ cancelled' = [cancelled EXCEPT ![t] = FALSE]

\* Finish: the row is written and audited only if it is still running, but
\* the DELETE of the lease does not depend on that.
Finish(t) ==
    LET o == cur[t]
        r == resource_id[o] IN
    /\ pc[t] = "finishing"
    /\ IF RowMatches(t)
       THEN /\ state' = [state EXCEPT ![o] = outcome[t]]
            /\ Record(o, FinishAudit[outcome[t]])
       ELSE UNCHANGED <<state, audit>>
    /\ leases' = IF ReleasesLease(outcome[t]) /\ leases[r] = o
                 THEN [leases EXCEPT ![r] = None]
                 ELSE leases
    /\ ttl' = [ttl EXCEPT ![o] = IF ReleasesLease(outcome[t]) THEN 0 ELSE @]
    /\ GoIdle(t)
    /\ UNCHANGED <<resource_id, requester, approval_by, worker_id, up,
                   hostVars, adminVars>>

\* The database cannot be reached for 10 seconds: execute logs the error and
\* the goroutine returns to its loop, the row still running.
FinishFails(t) ==
    /\ pc[t] = "finishing"
    /\ GoIdle(t)
    /\ UNCHANGED <<dbVars, up, hostVars, adminVars>>

Orphaned_Unleased(o) ==
    state[o] = "running" /\ ttl[o] = 0 /\ leases[resource_id[o]] = None

\* Running rows whose lease_until is in the past.
Orphaned(o) == state[o] = "running" /\ ttl[o] = 0

OrphanState_Requeued == "queued"
OrphanState_Orphaned == "orphaned"

\* An orphan is closed, not retried.
OrphanState == "timeout"

LeasesAfterRecovery_Dropped ==
    [r \in Resource |-> IF leases[r] # None /\ Orphaned(leases[r]) THEN None ELSE leases[r]]

\* Recover touches no row of resource_leases.
LeasesAfterRecovery == leases

\* Recover marks every orphan in one UPDATE and keeps the lease rows.
Recover ==
    /\ \E w \in Worker : up[w]
    /\ \E o \in Op : Orphaned(o)
    /\ state' = [o \in Op |-> IF Orphaned(o) THEN OrphanState ELSE state[o]]
    /\ audit' = [o \in Op |-> IF Orphaned(o) THEN audit[o] \cup {"operation.orphaned"}
                              ELSE audit[o]]
    /\ leases' = LeasesAfterRecovery
    /\ UNCHANGED <<resource_id, requester, approval_by, worker_id, ttl,
                   threadVars, hostVars, adminVars>>

-----------------------------------------------------------------------------
(* Worker.execute. *)

Advance(t, from, to) == pc[t] = from /\ pc' = [pc EXCEPT ![t] = to]

\* execute leaves its closure with outcome out.
Conclude(t, out) ==
    /\ pc' = [pc EXCEPT ![t] = "finishing"]
    /\ outcome' = [outcome EXCEPT ![t] = out]

\* An error of a step whose context is cancelled is context.Canceled; one whose
\* text contains "permission" counts as a denial (IsDenied).
ErrorOutcome(t) == IF cancelled[t] THEN {"timeout"} ELSE {"failed", "rejected"}

\* Every re-check passes.
Recheck(t) ==
    /\ Advance(t, "checking", "renewing")
    /\ ~cancelled[t]
    /\ UNCHANGED <<dbVars, up, cur, cancelled, outcome, hostVars, adminVars>>

\* A re-check denies: user, token, environment, target, policy or approver. A
\* token or approver that could not be read is denied, with a cancelled context
\* too.
RecheckDenied(t) ==
    /\ pc[t] = "checking"
    /\ Conclude(t, "rejected")
    /\ UNCHANGED <<dbVars, up, cur, cancelled, hostVars, adminVars>>

\* A read of the re-check fails.
RecheckFails(t) ==
    /\ pc[t] = "checking"
    /\ \E out \in ErrorOutcome(t) : Conclude(t, out)
    /\ UNCHANGED <<dbVars, up, cur, cancelled, hostVars, adminVars>>

PassesRenewal_Always(t) == ~cancelled[t]

\* The renewal just before the command is sent goes through.
PassesRenewal(t) == ~cancelled[t] /\ Renewable(t)

\* Renew succeeds: the command may be sent.
RenewBeforeExecute(t) ==
    /\ Advance(t, "renewing", "ready")
    /\ PassesRenewal(t)
    /\ ttl' = [ttl EXCEPT ![cur[t]] = LeaseTTL]
    /\ UNCHANGED <<rowVars, leases, audit, up, cur, cancelled, outcome, hostVars,
                   adminVars>>

\* Renew is refused or the database fails: the lease is lost.
RenewRefused(t) ==
    /\ pc[t] = "renewing"
    /\ \E out \in ErrorOutcome(t) : Conclude(t, out)
    /\ UNCHANGED <<dbVars, up, cur, cancelled, hostVars, adminVars>>

\* The secret of the parameters or the connection fails, or no SSH slot is
\* free in time, before the command is sent. An error whose text contains
\* "permission" counts as a denial (IsDenied).
PrepareFails(t) ==
    /\ pc[t] = "ready"
    /\ \E out \in {"failed", "timeout", "rejected"} : Conclude(t, out)
    /\ UNCHANGED <<dbVars, up, cur, cancelled, hostVars, adminVars>>

\* The adapter hands the command to the managed host.
StartEffect(t) ==
    /\ Advance(t, "ready", "executing")
    /\ ~cancelled[t]
    /\ remote' = [remote EXCEPT ![cur[t]] = "active"]
    /\ effects' = [effects EXCEPT ![cur[t]] = @ + 1]
    /\ UNCHANGED <<dbVars, up, cur, cancelled, outcome, adminVars>>

\* The command ends while the session is open. A cancelled context turns the
\* result into context.Canceled; a command may fail; the text of its error may
\* contain "permission", which execute reports as rejected.
EffectReturns(t) ==
    /\ pc[t] = "executing"
    /\ remote' = [remote EXCEPT ![cur[t]] = "done"]
    /\ \E out \in IF cancelled[t] THEN {"timeout"}
                  ELSE {"succeeded", "failed", "rejected"} : Conclude(t, out)
    /\ UNCHANGED <<dbVars, up, cur, cancelled, effects, adminVars>>

\* The context is cancelled or the command timeout fires: the connection is
\* closed, and the command may still be running on the host.
EffectAbandoned(t) ==
    /\ pc[t] = "executing"
    /\ Conclude(t, "timeout")
    /\ UNCHANGED <<dbVars, up, cur, cancelled, hostVars, adminVars>>

\* The session breaks by itself: an ordinary error, so the outcome is failed.
SessionBroken(t) ==
    /\ pc[t] = "executing"
    /\ ~cancelled[t]
    /\ Conclude(t, "failed")
    /\ UNCHANGED <<dbVars, up, cur, cancelled, hostVars, adminVars>>

-----------------------------------------------------------------------------
(* Processes, time and the managed host. *)

\* A worker process dies: its goroutines vanish, the tables stay.
Crash(w) ==
    /\ \E t \in ThreadsOf(w) : pc[t] # "idle"
    /\ up' = [up EXCEPT ![w] = FALSE]
    /\ pc' = [t \in Thread |-> IF WorkerOf(t) = w THEN "idle" ELSE pc[t]]
    /\ cur' = [t \in Thread |-> IF WorkerOf(t) = w THEN None ELSE cur[t]]
    /\ cancelled' = [t \in Thread |-> IF WorkerOf(t) = w THEN FALSE ELSE cancelled[t]]
    /\ outcome' = [t \in Thread |-> IF WorkerOf(t) = w THEN None ELSE outcome[t]]
    /\ UNCHANGED <<dbVars, hostVars, adminVars>>

\* SIGTERM: Run's context is cancelled; goroutines finish what they hold.
Shutdown(w) ==
    /\ up[w]
    /\ up' = [up EXCEPT ![w] = FALSE]
    /\ cancelled' = [t \in Thread |->
                        IF WorkerOf(t) = w /\ pc[t] # "idle" THEN TRUE ELSE cancelled[t]]
    /\ UNCHANGED <<dbVars, pc, cur, outcome, hostVars, adminVars>>

\* The process is started again once the old one is gone.
Restart(w) ==
    /\ ~up[w]
    /\ \A t \in ThreadsOf(w) : pc[t] = "idle"
    /\ up' = [up EXCEPT ![w] = TRUE]
    /\ UNCHANGED <<dbVars, pc, cur, cancelled, outcome, hostVars, adminVars>>

\* One tick off the time left; a lease in the past stays in the past.
Elapsed(n) == IF n > 0 THEN n - 1 ELSE 0

\* Time passes for every lease alike.
Tick ==
    /\ \E o \in Op : ttl[o] > 0
    /\ ttl' = [o \in Op |-> Elapsed(ttl[o])]
    /\ UNCHANGED <<rowVars, leases, audit, threadVars, hostVars, adminVars>>

\* A command whose session is gone ends on its own.
RemoteEnds(o) ==
    /\ remote[o] = "active"
    /\ \A t \in Thread : cur[t] = o => pc[t] # "executing"
    /\ remote' = [remote EXCEPT ![o] = "done"]
    /\ UNCHANGED <<dbVars, threadVars, effects, adminVars>>

-----------------------------------------------------------------------------
ApiStep ==
    \/ \E o \in Op, u \in User, r \in Resource, a \in BOOLEAN : Submit(o, u, r, a)
    \/ \E o \in Op, u \in User : Approve(o, u)
    \/ \E o \in Op, u \in User : Reject(o, u)
    \/ \E o \in Op, u \in User : Cancel(o, u)
    \/ \E r \in Resource : Reconcile(r)

\* What a goroutine does by itself once it holds an operation.
ExecuteStep(t) ==
    \/ Recheck(t)
    \/ RecheckDenied(t)
    \/ RecheckFails(t)
    \/ RenewBeforeExecute(t)
    \/ RenewRefused(t)
    \/ PrepareFails(t)
    \/ StartEffect(t)
    \/ EffectReturns(t)
    \/ EffectAbandoned(t)
    \/ SessionBroken(t)
    \/ Finish(t)
    \/ FinishFails(t)

ThreadStep(t) ==
    \/ \E o \in Op : Claim(t, o)
    \/ \E o \in Op : ClaimReplyLost(t, o)
    \/ Heartbeat(t)
    \/ HeartbeatLost(t)
    \/ ExecuteStep(t)

EnvironmentStep ==
    \/ \E w \in Worker : Crash(w)
    \/ \E w \in Worker : Shutdown(w)
    \/ \E w \in Worker : Restart(w)
    \/ \E o \in Op : RemoteEnds(o)
    \/ Tick

Next ==
    \/ ApiStep
    \/ \E t \in Thread : ThreadStep(t)
    \/ Recover
    \/ EnvironmentStep

Spec == Init /\ [][Next]_vars

(***************************************************************************)
(* Fairness. Time passes; a process that is down is started again; a       *)
(* goroutine that holds an operation goes on (every database call and      *)
(* every command is bounded by a timeout); Recover runs on a 15 s ticker   *)
(* of every live process, so processes that come and go do not starve it   *)
(* for ever. Nothing is assumed of users, claims or heartbeats.            *)
(***************************************************************************)
Fairness ==
    /\ WF_vars(Tick)
    /\ SF_vars(Recover)
    /\ \A w \in Worker : WF_vars(Restart(w))
    /\ \A t \in Thread : WF_vars(ExecuteStep(t))

FairSpec == Spec /\ Fairness

-----------------------------------------------------------------------------
(* Properties. *)

\* A running operation holds the lease of its resource, so a resource has at
\* most one running operation, whatever Finish, Recover, Cancel and reconcile
\* do to the lease table in between.
RunningHoldsLease ==
    \A o \in Op : state[o] = "running" => leases[resource_id[o]] = o

\* Two goroutines never drive commands on one resource at the same time unless
\* an administrator reconciled one of the operations: a cancel, an expired
\* lease, a recovery or a crash alone never lets a second command in.
ExclusiveExecution ==
    \A t1, t2 \in Thread :
        /\ t1 # t2
        /\ pc[t1] = "executing"
        /\ pc[t2] = "executing"
        /\ resource_id[cur[t1]] = resource_id[cur[t2]]
        => {cur[t1], cur[t2]} \cap reconciled # {}

\* No operation ever starts its remote command twice: neither a recovery nor a
\* lost reply, restart or late Finish makes it claimable again.
AtMostOneEffect == \A o \in Op : effects[o] <= 1

\* A command whose request needed approval starts only after somebody other
\* than the requester, allowed to approve, approved it.
EffectApproved ==
    \A o \in Op :
        effects[o] > 0 /\ "approval.requested" \in audit[o]
        => approval_by[o] \in Approver \ {requester[o]} /\ "approval.approved" \in audit[o]

\* The verdicts an operation in a state may have in the audit log.
VerdictFor == [s \in Terminal |->
    CASE s = "succeeded" -> {"operation.succeeded"}
      [] s = "failed"    -> {"operation.failed"}
      [] s = "cancelled" -> {"operation.cancelled"}
      [] s = "timeout"   -> {"operation.timeout", "operation.orphaned"}
      [] s = "rejected"  -> {"operation.rejected", "approval.rejected"}]
Verdict == UNION {VerdictFor[s] : s \in Terminal}

\* The audit log holds exactly one verdict for a closed operation, the one its
\* row shows, and none for an open one: a late Finish after a cancel or a
\* recovery adds no second, contradicting record.
OneAuditedVerdict ==
    \A o \in Op :
        IF state[o] \in Terminal
        THEN \E v \in VerdictFor[state[o]] : audit[o] \cap Verdict = {v}
        ELSE audit[o] \cap Verdict = {}

\* A lease leaves the table only when the goroutine that holds its operation
\* finishes, or by reconcile after it expired; it never passes straight to
\* another operation.
LeaseReleasedByHolder ==
    [][\A r \in Resource :
          leases[r] # None /\ leases'[r] # leases[r] =>
             /\ leases'[r] = None
             /\ \/ \E t \in Thread : cur[t] = leases[r] /\ pc[t] = "finishing"
                \/ leases[r] \in reconciled' /\ ttl[leases[r]] = 0]_vars

\* From its last renewal to its end a command has its resource locked for it: a
\* cancel, an expiry or a recovery that falls between the renewal and the command
\* does not stop the command, but does not let another one in either. Only an
\* administrator who reconciles in that gap takes the lock away.
CommandUnderLease ==
    \A t \in Thread :
        pc[t] \in PastRenewal =>
            leases[resource_id[cur[t]]] = cur[t] \/ cur[t] \in torn

\* Every running operation is closed, even when its worker dies, loses the
\* database or never learned that it had claimed it.
RunningEnds == \A o \in Op : state[o] = "running" ~> state[o] \in Terminal

\* No lease is stuck for ever: it is released, or reconcile would accept it.
LeaseNeverStuck ==
    \A r \in Resource : \A o \in Op :
        leases[r] = o ~> (leases[r] # o \/ Reconcilable(r))

\* The abstract life cycle, seen through the tables: a row's state and resource,
\* the lease table as the holders, the audit log for what was started.
Lifecycle == INSTANCE OperationLifecycle WITH
    status  <- state,
    target  <- resource_id,
    holder  <- leases,
    started <- {o \in Op : "operation.started" \in audit[o]},
    fired   <- effects

\* The queue implements the life cycle: workers that crash, stall or lose
\* replies, expired leases and administrators are invisible at that level.
ImplementsLifecycle == Lifecycle!Spec

\* What the comment in Recover and docs/OPERATIONS.md say of the lock of an
\* orphaned operation: it stays until an administrator reconciles it.
OrphanKeepsLock ==
    [][\A o \in Op : \A r \in Resource :
          state[o] = "timeout" /\ leases[r] = o /\ leases'[r] # o
          => o \in reconciled']_vars
=============================================================================
