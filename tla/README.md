# TLA+ verification of infra-orchestrator

infra-orchestrator is a Go service that runs commands on managed hosts (Docker,
systemd, Kubernetes, Nomad, PM2 ...) for people, schedules and agents. A request
is authorized, perhaps approved, stored in PostgreSQL, claimed by a worker,
authorized again and sent over SSH. This directory models that path in TLA+, together with
the components around it (identity, scheduler, events, notifications, inventory,
alerts, agent, provisioning, console, connection pool), checks them with TLC on
small instances and proves every safety property that the passing runs check with
TLAPS, for every size.

`PROJECT.json` maps every definition to the source lines it models and lists the
runs, the mutants, the hazards, the findings and the theorems.

## 1. The system

Several API and worker processes share one PostgreSQL database. Nothing else is
shared: NATS only distributes events, Redis only counts requests. Processes
coordinate through SQL transactions with guards in their WHERE clauses, row locks
(`FOR UPDATE SKIP LOCKED`), leases with an expiry, and advisory locks.

| Component | State | Operations | Hard behaviour | What makes it correct |
|---|---|---|---|---|
| Operation queue and workers (`internal/operations`) | `operations`, `resource_leases`, `audit`; goroutines, heartbeats | Submit, Approve, Cancel, reconcile; Claim, Renew, Finish, Recover; execute | crashes, lost replies, expired leases, late Finish, cancel against execution | one running operation per resource, no command twice, approval before effect, one verdict, nothing stuck |
| Second authorization (`Worker.execute`, `target.go`) | the worker's copies of rows read one by one | user, token, resource, host, target hash, rules, approver, renewal, dial | administrators change rows between the reads | only what was authorized since the claim is sent, to the host that was hashed |
| Rolling batches (`Engine.Batch`, batch part of Claim and Recover) | `batches`, its operations, an advisory lock | create, replay, undo, release; start by group; stop | creation in many statements, retries, claim on a stale snapshot | whole, one request per key, group by group, bounded failures, no endless wait |
| Policy engine (`internal/policy`, `Engine.Rules`) | `objects` of kind `policies` | store, edit, delete; Evaluate | order of rules, early returns, windows across midnight, row limit | the decision is a function of the set of rules; policies only restrict |
| Role permissions (`internal/rbac`) | none | Allowed, Permission | roles, environments and token scopes combined | used by the policy engine |
| Identity and sessions (`internal/auth`, `api/identity.go`) | `users`, `sessions`, `api_tokens`, `login_failures`, `auth_limits`, `oidc_states` | login, TOTP, renewal, revocation, password change and reset, enrolment; user edits, directory logins, tokens; limits | account read before the statement that writes, role read before the lock, concurrent logins with one code | a code opens one session, revoked sessions and tokens stay dead, guarded demotions keep an administrator, the lock only grows |
| Scheduler (`internal/scheduler`) | schedules, `schedule_runs`, leader lock | tick | crash between reservation and Submit, two leaders after a lost session | each instant is submitted at most once and, once due, submitted or refused on record, unless its own tick stopped in between |
| Event outbox and stream (`internal/events`, `api/observability.go`) | `events`, cursor of each stream | AuditTx, relay, stream | republishing, ids drawn before commit, reconnection | marked only when published, everything published, the stream in order, what it passes over has a cause |
| Notifications (`internal/notifications`) | `notification_deliveries`, provider objects, secrets | enqueue, send, retry; edits and deletions of providers | crash between send and record, lost lock | delivered or given up after five attempts, nothing sent after it was recorded |
| Inventory and discovery (`internal/store`, `internal/discovery`) | `hosts`, `resources` | saveHost, deleteHost, Discover, ObserveHost, UpsertResources, refresh | a look at the machine is written later than it was taken, a runtime that is not detected | one picture at a time, of the machine the document names; the administrator's fields are kept; the inventory converges |
| Collector and alerts (`internal/observability`) | alert objects | tick | opened and announced in two transactions, two collectors, failed reads | each opening is announced, and once but for named causes; open alerts become the findings |
| Agent monitor (`internal/agent/monitor.go`, `runtime.go`) | monitoring objects, recommendations | tick, Analyze, Tool | whole-object save, count before Submit, hourly limit of calls | at most so many operations an hour, anomalies are analysed, switched off stays off |
| Chat, debug, console (`internal/agent`, `api/console.go`) | conversations, hourly budget, SSH slots, audit | turns of a model, commands, shells | clients that go away, a process that dies, shared slots and budget | the budget holds, every session ends, slots come back, a missing entry has a cause |
| Provisioning and deployments (`api/infrastructure.go`, `api/deployments.go`, `internal/provisioning`) | secrets, operations by key, deployment objects | provisionContainer, deploy, replay, undo, collect | secret put before Submit, answer of a commit lost | retries are answered, one container per key, the document is there when it is fetched |
| Database pool (`internal/store`) | 32 connections, session advisory locks | acquire, release, lock | a caller holds one and waits for another | nobody waits for nothing: only a full pool stops progress |
| API plumbing, adapters, clients, configuration, CLI, web | none that matters here | | | not modelled, see section 12 |

Interactions. HTTP handlers, the scheduler, the agent and the deployment code all
end in `Engine.Submit` or `Engine.Batch`, which call `Engine.Authorize` (policy
engine and RBAC). Approvals and cancels come from people. Workers poll `Claim`
and call `execute`, which calls `Authorize` again, then an adapter and the SSH
executor. Every change writes `audit` and `events` in its transaction; the relay,
the stream, the dispatcher and the collector read from there.

The hazards of this code are listed, each at its line, in `PROJECT.json`.

## 2. Plan

Order: what can hurt a managed host came first, then what decides who may do it,
then what acts by itself.

1. `OperationQueue` with its abstract specification `OperationLifecycle`, its
   proofs `OperationQueueProofs`. Done.
2. `ExecutionRecheck` and `ExecutionRecheckProofs`: the "ready to send" of the
   queue in detail. Done.
3. `RollingBatch`: the batch conditions the queue module leaves out. Done.
4. `Rbac`, `PolicyEngine`: the decision the other modules take as given. Done.
5. `Sessions`, `Accounts`, `LoginThrottle` (section 7). Done.
6. `Scheduler`, `Notifications`, `Alerts`, `AgentMonitor`: the loops with a leader
   (section 8). Done.
7. `Provisioning`, `HostInventory`, `ContainerSessions`, `EventOutbox`,
   `ConnectionPool` (section 9). Done.
8. Open: rollback and the GitOps difference of `api/deployments.go`; the
   composition of `Scheduler` and `Provisioning` over `OperationQueue` through
   `OperationLifecycle`, so that a schedule is shown to fire one command (each of
   them uses what Submit promises, an operation per key, as one step).

Theorems: every safety property of a passing run, invariant or action property, and
the refinement of `OperationLifecycle` by the queue are proved (section 10). The
liveness properties stay with TLC.

## 3. OperationQueue

One action is one SQL transaction, or one step of a goroutine between two.

| Model | Code |
|---|---|
| `state`, `resource_id`, `requester`, `approval_by`, `worker_id` | columns of `operations` |
| `leases[r]` | the row of `resource_leases` for `r` |
| `ttl[o]` | time left until `lease_until` / `expires_at`, always written together |
| `audit[o]` | the audit actions recorded for `o` |
| `pc`, `cur`, `cancelled`, `outcome` per goroutine | position in `Worker.execute`, the claimed operation, its context, the computed state |
| `remote`, `effects` | the command on the managed host; how often it was started |
| `Submit`, `Approve`, `Reject`, `Cancel`, `Reconcile` | `Engine.Submit`, `Approve`, `Cancel`, `Server.reconcile` |
| `Claim`, `ClaimReplyLost`, `Heartbeat`, `HeartbeatLost`, `Finish`, `FinishFails`, `Recover` | `PGQueue` and the heartbeat goroutine, with the failures of their database calls |
| `Recheck...`, `RenewBeforeExecute`, `RenewRefused`, `PrepareFails`, `StartEffect`, `EffectReturns`, `EffectAbandoned`, `SessionBroken` | the closure of `execute` |
| `Crash`, `Shutdown`, `Restart`, `Tick`, `RemoteEnds` | processes, time, managed host |

`OperationLifecycle` is what callers may rely on: created once, decided once,
begun while it alone holds its resource, at most one command, one verdict. The
refinement maps rows to status, the lease table to holders, `operation.started`
in the audit log to "begun".

Operations here have no batch. The re-check is one step (it is section 4); the
replay of an idempotency key writes nothing.

Runs:

- `queue_safety` (776 007 states): two operations, one resource, two workers with
  one goroutine, an operator and an administrator, a lease of one tick. Two
  operations on one resource are the smallest instance with a conflict; two
  processes allow one to recover what the other still drives; one tick
  distinguishes only "valid" and "expired", all the code asks of a lease.
  Symmetry permutes operations, resources and workers, which no action names.
  Checks that a running operation holds its lease, that two goroutines drive one
  resource only after a reconcile, that no command starts twice, that a required
  approval came from another person, that a closed operation has exactly one
  audited verdict, that leases leave the table only by their holder's Finish or
  by reconcile, that a command finds its resource locked for it although a cancel,
  an expiry or a recovery falls between the last renewal and the command
  (`CommandUnderLease`; `torn` remembers the operations an administrator reconciled
  in that gap, the one thing that takes the lock away), and that the queue
  implements `OperationLifecycle`.
- `progress_liveness` (its queue part; module `MCProgress`, with the inventory of
  section 9): two operations, one worker. `RunningEnds`: every running operation is
  closed; `LeaseNeverStuck`: every lease is released or becomes reconcilable.
- `queue_orphan_lock` (violated): a Finish that arrives after Recover matches no
  row but still deletes the lease, so the lock of an orphan is not always kept
  for an administrator, as the comment in Recover and `docs/OPERATIONS.md` say.

Fairness (`progress_liveness`, queue part): time passes; a process that is down is started
again; a goroutine that holds an operation continues, because every database call
and every command has a timeout; `Recover` runs on a 15 s ticker in every live
process, so it is strongly fair: processes that come and go do not starve it.
Nothing is assumed of users, claims or heartbeats.

## 4. ExecutionRecheck

One operation from Submit to the SSH dial, with every read of `execute` as a step
and administrators acting in between. `granted`, `policy`, `approver`, `host`,
`bastion`, `jumpOn` are the rows; `seen` the worker's copies; `target` the stored
hash; `held` and `lost` collect which authorities held, or failed, at some instant
since the claim. A host's connection identity is one opaque value, since the
code only hashes and compares it; what the rules decide is one of "allow",
"approve", "deny", and section 6 is about how they do.

Properties are about instants, because reads outside a transaction can promise
no more: each authority stood at *some* instant since the claim, not all at the
same one. In particular the host's address and the bastion behind it are read
separately.

Every call of `execute` can fail, and so can the command. How such an error ends is
part of the model: an error of the token query or of the approver's read is a denial
(`worker.go:233`, `270`), and `IsDenied` takes any error whose text contains
"permission" for one, that of the command included. `erred` remembers that something
failed; `RejectionHasCause` is about the rejections without it.

- `execution_safety` (1 800 858 states with the batches of section 5; module
  `MCExecution`): two host identities, one behind a bastion with two, at most four
  changes (`MaxChanges`). Four changes are enough to revoke and restore two things
  between reads. `EffectAuthorized`, `RejectionHasCause`, and `CopiesSafe`: what the
  worker carries keeps its type, and the command goes to the host that was hashed
  (`EffectOnSubmittedHost`).

Deadlock is not checked: the operation ends.

## 5. RollingBatch

`Engine.Batch` statement by statement for several calls with the same key, which
fail, die and are retried; `Claim` as two steps, because its subqueries read the
snapshot of the statement while the chosen row is re-read under its lock;
`Finish`, and `Recover` with both of its UPDATEs. Which running rows expired is
left open. Operations outside the batch may lease an item's resource.

- `execution_safety` (module `MCExecution`): two calls, two claimers, six requests of two
  or three items in groups of one or two, with and without `continue_on_error`.
  Three items in groups of two are the smallest batch with a full and a partial
  group; two claimers are needed for a stale snapshot. `CreationSafe`
  (`CreatedWhole`, `KeyBindsOneRequest`), `GroupOrder`, `FailureBudget`, and `StartedConcluded`: an item
  that ends without an audit event (cancelled by the undo of a failed creation or by
  Recover) was never started.
- `batch_liveness` (154 873 states): `StoppedBatchDrains`, `ReadyBatchEnds`.
  Fairness: a request is served to its end or lost; claiming a given item is
  strongly fair because Claim takes the oldest row first; a claim that selected
  goes on; running items finish; Recover runs from a ticker. Nobody is obliged to
  approve, and the lease of an operation outside the batch need not end: one that
  timed out keeps it until an administrator reconciles. `ReadyBatchEnds` therefore
  says that an accepted batch ends unless a queued item of it waits behind such a
  lease, again and again or for good.

Two observations that no document contradicts: replaying an accepted batch whose
Submit fails cancels the queued items of the accepted batch; and a batch retried
after a failed creation becomes ready with the items of the first attempt
cancelled, since the item keys make their INSERT a no-op. `CreatedWhole` speaks of
rows, not of rows still to run.

Deadlock is not checked: a finished batch stops.

## 6. Rbac and PolicyEngine

`Rbac` holds the role table, environments and token scopes as operators.
`PolicyEngine` holds `Window.Contains`, `Risk`, `ReadOnly`, `Evaluate`, whose loop
over the rules with its early return is the recursive function `Turns`, and
`Engine.Rules` with the row limit; its state is the list of stored policies (newest first), a request and the minute of
the week. Time zones belong to Go's `time` package and are left out.

- `policy_decision` (913 752 states): 168 requests (seven principals, three
  actions, two environments, four agent modes), six rules of which three may be
  stored and two are listed (`MaxRules`, `ObjectLimit`), so that a policy can fall
  off the list; days of three minutes. A day of three minutes has a before, an inside
  and an after for every window, wrapped or not. `WindowMeetsReference` compares
  every window with the intervals it describes; `EvaluateMeetsReference` compares
  the loop with the set of rules; `UnattendedMutation` says what may run without a
  second person; `PoliciesOnlyRestrict` that one more policy never allows a
  person more, as long as one query lists them all.

## 7. Sessions, Accounts and LoginThrottle

`Sessions` is one account and its browser sessions. A request reads the account
when it is authenticated (`Authenticate`, `Login`, `Callback`) and writes in a later
step (`LoginTOTP`, `CreateSession`, `Rotate`, `Password`, `MfaCommit` ...); the
administrators' handlers are one transaction each. A password is its version, a
TOTP code the secret and time step it was computed for, the clock counts steps.
Local and LDAP logins take the same path once the password is accepted; an OIDC
login is `Callback`.

`Accounts` is user administration: `updateUser` as read, lock and count, commit;
`deleteUser` and `createToken` as read and write without the lock; `SyncIdentity`,
the directory login that writes the mapped role. `bypassed` remembers that an
administrator was lost by a write no count preceded, `buried` which tokens existed
when their account was deleted.

`LoginThrottle` is one login name: the handler's check of the lock, the counted
attempt, the verification and the record of its outcome for several requests, with
time in units of the shortest lock. `admitted` is the sequence of the instants at
which attempts were let through; the length of a lock doubles through the recursive
function `Power`.

The three share no variable. **Sums.** `MCExecution`, `MCProgress`, `MCIdentity`, `MCLeaders` and `MCHandlers`
put such independent components into one run: a variable `moving`, chosen in the
initial state, selects the component that takes steps; the others stay where they
begin. The states are then the sum of the components' states, every property is
checked in all of them, and nothing of a component is lost because no step of
another could influence it. In the liveness runs `moving` also selects whose
fairness holds, and each property is stated for the behaviours in which its
component moves (`Elsewhere(part) \/ ...`). Each component's safety properties and
its type invariant are the named parts of one formula (`SessionsSafe` ...), which is
what the runs check; `PROJECT.json` lists a mutant of the code for each part.

- `identity_safety` (2 657 067 states): two requests, two sessions, three time
  steps, two changes of the account; three accounts of people, one of them from
  a directory, and a service account with a token, two administrators' requests,
  four requests begun; two login requests, windows of two. Two requests are
  needed for every race here and no property counts to three; two
  changes allow a reset and the password change it forces; three steps let a
  session be renewed and then pass its limit. Requests and session ids are
  symmetric. `SessionsSafe` (`LoginCodeFresh`, `RevocationReaches`, `SecondFactor`,
  `LifetimeBounded`), `AccountsSafe` (`GuardKeepsAdmin`, `DeletedTokensDead`),
  `ThrottleSafe` (`WindowAdmits`, `LockGrows`). Deadlock is not checked: bounds stop
  the components.

## 8. Scheduler, Notifications, Alerts, AgentMonitor

Every process runs the four loops; an advisory lock of a database session makes one
of them the leader of each. The session can be lost while the tick goes on, so
that two processes work at once; this is an action in all four modules, as is a tick
that fails or a process that dies between two statements.

| Module | State | Actions and code |
|---|---|---|
| `Scheduler` | schedules, `schedule_runs`, operations by key, each tick | `Lead`, `Reserve`, `SubmitRun`, `RecordRun`, `Finish` are `Scheduler.Tick`; `DueAt` is `Due` (a cron schedule only in its minute, an instant ever after; the cron parser is the set `Matches`) |
| `Notifications` | events, providers and secrets, `notification_deliveries`, each tick | `DispatchStart`, `Prepare`, `Send`, `RecordAttempt` are `Dispatcher.Tick`; `ReadForEdit`, `SaveObject`, `ReadForDelete`, `DeleteObject`, `DeleteSecret` are `saveObject` and `deleteObject` |
| `Alerts` | inventory documents, alert objects, each tick | `EvaluateAll`, `Skip`, `ReadUnknown`, `ReadFails` (the read of an open alert fails and falls through to the save), `Save`, `Announce`, `List`, `Resolve` are the alert part of `Collector.Tick` |
| `AgentMonitor` | monitoring objects, their service account, the calls and agent operations of the last hour, recommendations, each tick | `PassOver`, `Touch`, `Analyze`, `Count`, `SubmitAction` are `monitorTick`; `Tool` is a person using a recommendation; `EditMonitor` is `saveObject` and `deleteObject` |

Abstractions: providers exist from the start (they can be deleted, and put back by
a late edit), the environment and topic filters admit every event; one mount point
stands for the disks of a host; `ADVISORY` stands for `ASSISTED`, which the monitor
treats alike; senders and models are external steps.

- `leaders_safety` (1 885 629 states): two processes. Scheduler: a cron and a
  one-shot schedule, two owners, two faults, one edit. Dispatcher: two providers,
  one event, two attempts, one edit or deletion, one fault. Collector: one host
  with documents at the edges of the rules, two changes, one fault. Monitor: one
  monitor and one resource, one operation an hour, three recommendations, one edit,
  one fault. `SchedulerSafe` (`OncePerInstant`, `OutcomeRecorded`,
  `TriggeredWhileEnabled`), `NotificationsSafe` (`AttemptsBounded`, `SendsRecorded`,
  `SentOnce`), `AlertsSafe` (`OpeningAnnounced`, `AnnouncedOnce`), `MonitorSafe`
  (`ActionsBounded`, `SwitchedOffStaysOff`). One fault is enough for a lost lock or a
  crash, the scheduler's second one for a crash of the new leader. Processes and
  owners are symmetric.
- `leaders_liveness` (59 140 states): `LoopsServe`, that is `InstantServed`,
  `Delivered`, `AlertsConverge` and `AnomalyAnalyzed`, with one fault each, one edit
  of the schedules, two changes of the inventory; two resources, two calls an hour and
  one change of health for the monitor. `InstantServed`: an instant of a schedule that
  stays enabled is submitted or its refusal recorded; a mere reservation does not
  count, and only a tick that stopped between the reservation of this instant and its
  record loses it. `AnomalyAnalyzed`: the limit of calls recurs with every hour, and
  the resources are visited in the order of their names; as long as the unhealthy ones
  are no more than an hour's calls none of them is starved. Fairness: ticks recur in some live process and their
  statements end (every call has a timeout); the clock, the back-off of a delivery
  and a monitor's interval pass. Nothing is assumed of administrators, of the
  inventory or of the outcome of a send. Notifications are checked without edits of
  providers and alerts within the listing limit; section 11 says what happens
  otherwise.

## 9. Provisioning, HostInventory, ContainerSessions, EventOutbox, ConnectionPool

| Module | State | Actions and code |
|---|---|---|
| `Provisioning` | secrets, operations by key, deployments, requests | `provisionContainer` and `deploy` up to their answer, with the failing, lost or replayed `Submit`, `Undo` and `Record`; `Execute` is the worker reading the document back; `CollectRead`, `CollectSave` are the collector's deployment loop |
| `HostInventory` | the machines and whether their runtime answers, `hosts`, `resources`, each look, each edit | `saveHost` and `deleteHost` as read, bastion check and save; `Collect`, `DiscoverHost`, `Refresh` start a look, `ConnectHost`, `Look`, `Lock`, `Mark`, `CommitResources`, `ObserveHost` carry it out |
| `ContainerSessions` | conversations, sessions, slots, the hourly counter, audit history | `OpenChat`, `OpenDebug`, `Turn`, `Budget`, `TakeSlot`, `Run`, `AuditExec`, `SaveChat`, `SaveDiagnosis`, `Report` are Chat, Debug and runCommand; `OpenConsole`, `AuditOpen`, `ShellStart`, `ShellEnd`, `AuditEnd` the console; `Cut` is the client going away, which cancels the context of a chat or debug request but not that of a console, whose connection is hijacked; `ProcessDies` is a crash or a `Shutdown` that does not wait |
| `EventOutbox` | open and committed events, marks, relay transactions, the bus, one stream | `AuditTx`, `CommitEvent`, `Rollback`; `Select`, `Publish`, `RelayCommit`, `RelayFails` are `relayBatch`; `StreamConnects`, `Poll`, `Disconnect` the SSE handler |
| `ConnectionPool` | where each caller stands, who holds each advisory lock | `Acquire`, `AcquireSecond`, `LockBatch`, `TryLeader`, `StatementDone`, `GiveUp`, ...: Batch, the leader ticks and requests with one statement |

Abstractions: one requester in `Provisioning`, so that a key names one operation,
and the queue between Submit and Execute is section 3; one provider per host in
`HostInventory`, and one host in the runs, so that the bastion branches are taken
only with no bastion (Kubernetes clusters behind a kubeconfig are written the same
way); `ContainerSessions` drops bytes, resizes and prompts.

- `handlers_safety` (1 389 876 states): two requests of each kind. Provisioning: one
  key, two specifications and a manifest, four requests. Inventory: one host, two
  machines, two resources, one edit, one change, one fault. Sessions: one
  conversation, two exchanges, two turns, one command an hour, one slot, one client
  that leaves, one death of the process, one audit write that fails. Outbox: three events, pages and batches
  of two, one fault. Pool: two processes with two connections each, three requests,
  two tickers. These are the smallest numbers at which a request is retried twice,
  pictures differ, a budget and a pool are exhausted and a page is left unfinished.
  `ProvisioningSafe` (`RetryAnswered`, `DocumentPresent`, `MadeOnce`), `InventorySafe`
  (`OnePicture`, `FactsOfIdentity`, `AdminFieldsKept`), `ContainersSafe`
  (`BudgetHolds`, `UnauditedOnlyCut`, `ConsoleEntries`, `SlotsReturned`,
  `ExchangesKept`), `OutboxSafe` (`MarkedReachedBus`, `StreamOrdered`,
  `SkipsOnlyLate`), `PoolSafe` (`StuckOnlyWhenFull`). Deadlock is not checked by TLC, because a pool can really
  come to a standstill; `StuckOnlyWhenFull` says when.
- `handlers_liveness` (188 011 states): `HandlersComplete`, that is `StatusFollows`,
  `SessionsEnd` and `EventuallyPublished`; one relay and one audit write fail and the
  process dies once. Fairness: a request that was accepted is served to its end or
  its process dies; the collector reads and saves deployments in every tick;
  statements, commands and model calls end by their timeouts; a relay goes on with its
  batch. Nothing is assumed of clients or of when a transaction commits. No liveness is
  stated for the pool: a request that waits for a connection has no timeout of its own,
  so that progress depends on clients giving up.
- `progress_liveness` (270 432 states with the queue of section 3; module
  `MCProgress`): `InventoryConverges` for one host that an edit may point, disable or
  route elsewhere, two looks at once, and one change of a container or of a runtime.
  At first its own machine holds the resource and the other has neither the resource
  nor a runtime that answers. A picture of the machine named before, an older picture
  written last, a runtime that disappears and one that comes up all occur. Failing
  looks are left to `handlers_safety`: a look that fails writes no row, and the
  collector comes back. A runtime whose `Detect` says no or fails is skipped without a
  failure (`discovery.go:64`): the host stays online with the rows of its last picture,
  hence the premise that the runtime is detected. Fairness: the collector visits every
  enabled host again (strong fairness, as it is disabled while every looker is busy),
  looks have deadlines, a request that was read is saved. Nothing is assumed of edits
  or machines.
- `command_audit` (violated): `EveryCommandAudited`, what CONSOLE.md, AGENT_SECURITY.md,
  RBAC.md and the comment of `debug.go` say. A client that leaves between the answer of
  a command and its `agent.exec` entry cancels the context the entry is written with.
  What does hold is `UnauditedOnlyCut`: entries are missing at most for such clients,
  for writes the database refused and for commands that died with their process.

## 10. What is proved

The proofs hold for every value of the constants that satisfies the named ASSUMEs;
TLC evaluates these on every run. Each theorem `Spec => []Property` goes through an
inductive invariant, named below with the reason it is needed. The specifications
have fairness conjuncts, which the proofs do not use. `None` is assumed to be none of
the values it stands beside; callers, collectors, workers, sessions, providers,
dispatchers and the inventory are assumed finite where they are counted; some resource
is watched by the monitor, a provider and a conversation exist, the providers, which
are there from the start, fit among the instants that number them; an agent's mode is
one of the code's five.

| Module | Theorems | Property of a run |
|---|---|---|
| `OperationQueueProofs` | `QueueInvariant`, `AuditInvariant` | |
| | `TypeCorrect`, `RunningIsLeased`, `EffectOnce`, `ExecutionIsExclusive` | `TypeOK`, `RunningHoldsLease`, `AtMostOneEffect`, `ExclusiveExecution` |
| | `EffectIsApproved`, `VerdictIsAuditedOnce` | `EffectApproved`, `OneAuditedVerdict` |
| | `CommandIsUnderLease`, `LeaseIsReleasedByHolder` (an action property) | `CommandUnderLease`, `LeaseReleasedByHolder` |
| | `QueueImplementsLifecycle` | `ImplementsLifecycle` |
| `ExecutionRecheckProofs` | `RecheckInvariant`, `CauseInvariant` | |
| | `ExecutionIsAuthorized`, `CopiesAreSafe`, `RejectionIsCaused` | `EffectAuthorized`, `CopiesSafe`, `RejectionHasCause` |
| `RollingBatchProofs` | `BatchInvariant`; `CreationIsSafe`, `GroupsInOrder`, `FailuresBounded`, `StartedIsConcluded` | `CreationSafe`, `GroupOrder`, `FailureBudget`, `StartedConcluded` |
| `PolicyEngineProofs` | `PolicyTypes`, `WindowIsReference`, `EvaluateIsReference`, `UnattendedIsGuarded` | `TypeOK`, `WindowMeetsReference`, `EvaluateMeetsReference`, `UnattendedMutation` |
| | `PoliciesRestrict` (action property) | `PoliciesOnlyRestrict` |
| `IdentityProofs` | `SessionsInvariant`, `SessionsAreSafe`; `AccountsInvariant`, `AccountsAreSafe`; `ThrottleInvariant`, `ThrottleIsSafe` | `SessionsSafe`; `AccountsSafe`; `ThrottleSafe` |
| `SchedulerProofs` | `SchedulerInvariant`, `SchedulerIsSafe` | `SchedulerSafe` |
| `LeadersProofs` | `AlertsInvariant`, `AlertsAreSafe`; `MonitorInvariant`, `MonitorIsSafe`; `NotificationsInvariant`, `NotificationsAreSafe` | `AlertsSafe`; `MonitorSafe`; `NotificationsSafe` |
| `HandlersProofs` | `ProvisioningInvariant`, `ProvisioningIsSafe`; `PoolInvariant`, `PoolIsSafe`; `OutboxInvariant`, `OutboxIsSafe`; `InventoryInvariant`, `InventoryIsSafe`; `ContainersInvariant`, `ContainersAreSafe` | `ProvisioningSafe`; `PoolSafe`; `OutboxSafe`; `InventorySafe`; `ContainersSafe` |

**Queue** (any operations, resources, users, workers, goroutines, any lease length).
`QueueInv` strengthens the properties by what a late Finish depends on. A goroutine
that returns after its operation was cancelled or recovered still deletes the
lease; that is harmless only because the operation is its alone
(`OneThreadPerOp`), was claimed by its worker (`BusyThread`), and because a lease
on a resource belongs to an operation on that resource (`LeaseOfResource`). A
goroutine that drives a command still holds the lease or was reconciled
(`ThreadHoldsLease`), hence exclusion. An unclaimed operation has no lease, no
goroutine and no command (`Untouched`), and one whose goroutine has not reached
the command has none either (`EffectPending`), hence at most one effect. `AuditInv`
is a second layer over it: an absent operation has no audit entry, and one that
needs an approval has it or has not been claimed. The refinement is proved action by
action.

**Second authorization** (any identities, any number of changes). `RecheckInv`: what
a worker's copy says was true at an instant since the claim (`CopiesInv`), and each
check passed leaves its authority in the history (`PassedInv`). `CauseInv` is the
same for refusals: a copy that will be judged unfavourably saw its authority missing,
or a call failed.

**Batches** (any requests, calls and claimers). `CreationInv`: the advisory lock lets
one call create, that call's request is the stored one, what it submitted exists.
`ProgressInv`: Claim decides on a snapshot, and what it saw of the earlier groups
stays true, because terminal states are final; so every item ever selected keeps its
predecessors ended and their failures within the budget. `FailureBudget` then follows
by counting: all failed items but those of the last group are predecessors of one
item.

**Policy engine** (any rules, requests, limits and length of the day). The decision is
a function of the state, so what has to be shown is about operators. `TurnsDefined`:
the recursion of `Turns` has a solution, hence equals its body. `TurnMeetsReference`
and `EvaluateSummary` relate the state after n turns to the rules met so far; a turn
that failed first would have a predecessor that did not (`Smallest`: a set of natural
numbers has a least member), which is the induction the loop needs.
`PoliciesOnlyRestrict` compares the two sets of listed rules, `WindowMeetsReference` is
arithmetic modulo the week, wrapped windows by cases.

**Identity.** `SessionsInv` says where the rows remember what was done once:
`mfa_last` is not behind any spent code, a session a revocation reached is a revoked
row, an open session expires within its limit, a login without a code that goes on
while TOTP is active was overtaken by the enrolment. It assumes that the clock can
advance and that request and session names differ. `AccountsInv`: one request at a
time is past its count, and until its commit another administrator is left or one
was lost outside the guard. `ThrottleInv`: instants are admitted in order, all but the
last `count` of them came before the open window and all but `Attempts` of those a
window earlier still, so that two attempts whose numbers differ by `2 * Attempts` are a
window apart; the last lock is no longer than the one the stored failures would give.

**Leaders.** `SchedulerInv`: a reservation is held by one tick, precedes every
operation of its instant and has not been submitted while the tick is about to.
`AlertsInv` and `MonitorInv` count: a tick without the lock costs a lost lock. For
alerts, announcements made plus those that ticks without the lock, or a leader they
overtook, may still make do not exceed openings plus lost locks plus failed reads of
the alert while it was open. For the monitor, operations counted plus
those that ticks may still submit stay within `MaxActions` plus lost locks;
`SwitchedOffStaysOff` needs that a tick's copy agrees with the administrator's choice
unless the choice is younger than the tick or was overwritten. `NotificationsInv`
counts alike: ticks at work are the holder of the lock and one per lost lock; attempts
recorded, plus the ticks that still have the delivery before them, stay within
`MaxAttempts` plus lost locks; while none was lost, only the holder works and what it
has before it is pending, hence nothing is sent after success.

**Handlers.** `ProvisioningInv`: a secret belongs to one request until Submit gives
it to an operation; a request that may still delete it is the one that lost its
answer. `PoolInv`: a pool lends at most its size, a lock is held by a caller past it;
`StuckOnlyWhenFull` then follows: a caller that waits for a lock waits for a holder
that waits for its second connection, a pool without a free connection has no caller
that is inside or makes its only statement (those do not wait), so all its
connections are with callers that ask for one more. `OutboxInv`: what a relay has
published in its open transaction is on the bus, and the cursor is the last event
sent; what a reconnection jumped over was committed and lies before anything received.
Its lemmas show that rank orders a finite set of ids (`InOrder`, `FirstRows`),
so that a page is a prefix of what follows the cursor. `InventoryInv`: every copy of a
document, in a look or an edit too, shows facts of the machine it names; one
transaction holds a host's lock, so that the rows it will mark missing (`GoneSound`)
are still those it did not find when it commits. `ContainersInv`: every command that
waits or runs is charged to an hour, every client that left and every command or
console that died with the process explains one missing entry at most, a slot is held exactly by what runs; two exchanges open on one
conversation know of each other, and an exchange that overlapped none is in the
conversation and in every copy that will replace it.

Only model-checked: liveness (`RunningEnds`, `LeaseNeverStuck`, `StoppedBatchDrains`,
`ReadyBatchEnds`, `LoopsServe`, `HandlersComplete`, `InventoryConverges`), because
fairness and ENABLED are outside the prover; and the violated `queue_orphan_lock` and
`command_audit`, which are counterexamples.
The provers cannot use the library's induction theorems, which take an operator;
where a proof needs induction (`Turns`, `Power`, the smallest pending delivery) it argues
by a least counterexample.

## 11. Behaviours worth knowing

`queue_orphan_lock` and `command_audit` are the disagreements with the repository's own
words kept as runs. The following were met
while modelling; the properties are stated so that they hold beside them, and each
says where its limit is.

- A broken SSH session is an ordinary failure (`worker.go:328`): the lease goes while
  the command may run on. `ExclusiveExecution` is about goroutines, not about what
  still runs on the host.
- `SSH.connect` reads the bastion again after the hash was compared (`ssh.go:149`):
  `EffectOnSubmittedHost` is about the host, not its bastion.
- Items of a batch cancelled by the undo of a failed creation or by Recover get no
  audit event; `StartedConcluded` says that these never started.
- `DB.Objects` returns the newest 2000 rows (`store.go:235`): older policies are not
  evaluated and older alerts not resolved. `EvaluateMeetsReference` is about the
  policies that are listed, `PoliciesOnlyRestrict` about no more than the limit,
  `AlertsConverge` about at most as many alerts.
- Two enrolment confirmations in flight: the second changes no account row
  (`identity.go:183`) and still marks its session. `LoginCodeFresh` is about logins.
- A password change authenticated before an administrator's reset can commit after
  it and lift the forced change (`identity.go:122`).
- The last administrator can go through a role read before the lock
  (`identity.go:287`), a deletion without it, or a directory login: the exception
  in `GuardKeepsAdmin`.
- An event that commits after a later identifier was streamed is skipped for good
  (`observability.go:150`): the exception in `SkipsOnlyLate`.
- An edit of a provider that races its deletion puts the object back with a secret
  that is gone; every tick then ends at that provider (`dispatcher.go:79`) and the
  ones after it get nothing. `Delivered` is checked without edits.
- A host that serves as bastion can be disabled or given a bastion of its own
  (`infrastructure.go:98`); connections through it are then refused.
- A console's closing entry and the entry of a command under way are lost with the
  process; `Shutdown` does not wait for hijacked connections (`app.go:172`). After
  the connection is hijacked a leaving client cancels nothing: a shell may start for
  nobody and end at its half hour (`console.go:106`).
- A browser whose stream broke before it received anything is put at the newest event
  when it comes back (`observability.go:124`): the second exception in `SkipsOnlyLate`.
- Any error of the token query or of the approver's read, and any error whose text
  contains "permission", is reported as a rejection (`worker.go:233`, `270`,
  `engine.go:367`), also after the command was sent: the exception in
  `RejectionHasCause`.
- A failed read of an open alert saves and announces it again (`collector.go:111`):
  the exception in `AnnouncedOnce`.
- With more unhealthy resources than analyses an hour, those that come last by name are
  never analysed (`runtime.go:165`); a monitor whose service account is missing or
  disabled analyses nothing (`monitor.go:57`). Both are in the premise of
  `AnomalyAnalyzed`.
- An instant whose tick stopped after its reservation stays reserved: SCHEDULER.md
  leaves it to a person, and so does `InstantServed`.
- Two exchanges of one conversation at the same time: the later save overwrites the
  earlier (`chat.go:221`), the exception in `ExchangesKept`.
- A monitor tick saves the whole object it read (`monitor.go:54`) and undoes an edit
  made meanwhile: the exception in `SwitchedOffStaysOff`.
- A provisioning handler that loses the answer of its commit deletes the document of
  the operation it created (`infrastructure.go:519`): the exception in
  `DocumentPresent`.
- With all 32 connections held by callers that want a second one nobody proceeds
  until a client gives up: `StuckOnlyWhenFull`.

## 12. Not modelled

`rollback` submits one operation and records it like `deploy`, and `gitopsDiff`
compares a fetched manifest; neither adds a state. HTTP routing, headers, error
bodies and the Redis request limiter keep nothing the properties depend on.
Adapters, parsers and manifest checks are text in, text out; the LLM, LDAP and OIDC
wire protocols are external, their answers are inputs of `AgentMonitor`,
`ContainerSessions`, `Sessions` and `Accounts`. Secrets encryption, redaction,
configuration, telemetry, the CLI and the web interface are pure or only I/O.
Migrations are a sequential script; their constraints (one lease per resource,
unique keys) are facts the modules use.
