----------------------------- MODULE Provisioning -----------------------------
(***************************************************************************)
(* Creating containers and deploying manifests. The handler stores the     *)
(* document as a secret, submits an operation that carries the secret's id *)
(* and hash, and (deploy) records a deployment; Submit is idempotent in    *)
(* the client's key. The worker reads the document back when the operation *)
(* runs. The collector copies the operation's state into the deployment.   *)
(* Clients retry, processes die, and the answer of a commit may be lost.   *)
(*                                                                         *)
(* One requester, so that a key names one operation; the queue itself      *)
(* (leases, recovery, approval) is module OperationQueue.                  *)
(***************************************************************************)
EXTENDS Naturals, FiniteSets

CONSTANTS
    Call,       \* HTTP requests in progress at once
    Key,        \* idempotency keys
    Blueprint,      \* container specifications (provisionContainer)
    Manifest,   \* manifests (deploy)
    MaxSecret,  \* bound: requests, each with a secret of its own
    None

ASSUME ProvisioningAssumption ==
    /\ Blueprint \cap Manifest = {} /\ None \notin Blueprint \cup Manifest
    /\ MaxSecret \in Nat

VARIABLES
    secrets,    \* the secrets table: what each id holds, or None
    next,       \* secrets stored so far
    calls,      \* requests in progress
    operations, \* the operation of each key, or None
    records,    \* the deployment recorded for each key's operation: its status, or None
    collector,  \* the deployment the collector is about to save, or None
    made,       \* history: containers created, manifests applied, per key
    lost,       \* history: keys whose Submit committed without an answer
    misled      \* history: a retry of the same request was refused

provisioningVars == <<secrets, next, calls, operations, records, collector, made, lost, misled>>

Document == Blueprint \cup Manifest
SecretId == 1..MaxSecret
State == {"queued", "running", "completed", "failed"}
Ended == {"completed", "failed"}
NoCall == [at |-> "idle"]

Operation == [doc : Document, secret : SecretId, state : State,
              step : {"fetch", "create", "start", "check", "done"}]

ASSUME NoneAssumption == None \notin Operation

ProvisioningTypeOK ==
    /\ secrets \in [SecretId -> Document \cup {None}]
    /\ next \in 0..MaxSecret
    /\ calls \in [Call -> {NoCall}
            \cup [at : {"submit", "undo"}, key : Key, doc : Document, secret : SecretId]
            \cup [at : {"record"}, key : Key, state : State]]
    /\ operations \in [Key -> Operation \cup {None}]
    /\ records \in [Key -> State \cup {None}]
    /\ collector \in [key : Key, state : State] \cup {None}
    /\ made \in [Key -> Nat]
    /\ lost \subseteq Key
    /\ misled \in BOOLEAN

ProvisioningInit ==
    /\ secrets = [i \in SecretId |-> None] /\ next = 0
    /\ calls = [c \in Call |-> NoCall]
    /\ operations = [k \in Key |-> None]
    /\ records = [k \in Key |-> None]
    /\ collector = None
    /\ made = [k \in Key |-> 0]
    /\ lost = {} /\ misled = FALSE

OperationState(k) == IF operations[k] = None THEN None ELSE operations[k].state

Goes(c, state) == calls' = [calls EXCEPT ![c] = state]

-----------------------------------------------------------------------------
(* The handlers. *)

\* Secrets.Put under a fresh id.
Put(c, k, doc) ==
    /\ calls[c] = NoCall
    /\ next < MaxSecret
    /\ next' = next + 1
    /\ secrets' = [secrets EXCEPT ![next'] = doc]
    /\ Goes(c, [at |-> "submit", key |-> k, doc |-> doc, secret |-> next'])
    /\ UNCHANGED <<operations, records, collector, made, lost, misled>>

\* The two handlers up to Submit, with a document that passed their checks.
ProvisionContainer(c, k) == \E doc \in Blueprint : Put(c, k, doc)
Deploy(c, k) == \E doc \in Manifest : Put(c, k, doc)

\* After an error of Submit: provisionContainer deletes its secret, deploy does not.
AfterError(c) == IF calls[c].doc \in Blueprint THEN [calls[c] EXCEPT !.at = "undo"] ELSE NoCall

AfterSubmit_NoState(c, state) ==
    IF calls[c].doc \in Manifest THEN [at |-> "record", key |-> calls[c].key, state |-> None]
    ELSE NoCall

\* After success: deploy saves its record with the state Submit returned.
AfterSubmit(c, state) ==
    IF calls[c].doc \in Manifest THEN [at |-> "record", key |-> calls[c].key, state |-> state]
    ELSE NoCall

Conflicts_Never(k) == FALSE

\* INSERT ... ON CONFLICT(requester,idempotency_key) DO NOTHING.
Conflicts(k) == operations[k] # None

NewOperation(c) == [doc |-> calls[c].doc, secret |-> calls[c].secret, state |-> "queued", step |-> "fetch"]

\* Submit inserts the operation and its answer arrives, or not.
SubmitCreates(c, answered) ==
    /\ calls[c].at = "submit"
    /\ ~Conflicts(calls[c].key)
    /\ operations' = [operations EXCEPT ![calls[c].key] = NewOperation(c)]
    /\ Goes(c, IF answered THEN AfterSubmit(c, "queued") ELSE AfterError(c))
    /\ lost' = IF answered THEN lost ELSE lost \cup {calls[c].key}
    /\ UNCHANGED <<secrets, next, records, collector, made, misled>>

RequestHash_WithId(doc, id) == <<doc, id>>

\* The hash covers resource, action and parameters without the secret's id.
RequestHash(doc, id) == <<doc>>

\* Submit finds the key taken: the same request gets the operation, another
\* one is denied.
SubmitReplays(c) ==
    /\ calls[c].at = "submit"
    /\ Conflicts(calls[c].key)
    /\ LET op == operations[calls[c].key]
           same == RequestHash(op.doc, op.secret) = RequestHash(calls[c].doc, calls[c].secret)
       IN /\ Goes(c, IF same THEN AfterSubmit(c, op.state) ELSE AfterError(c))
          /\ misled' = (misled \/ (~same /\ op.doc = calls[c].doc))
    /\ UNCHANGED <<secrets, next, operations, records, collector, made, lost>>

\* Submit is denied by policy or fails before its commit.
SubmitFails(c) ==
    /\ calls[c].at = "submit"
    /\ Goes(c, AfterError(c))
    /\ UNCHANGED <<secrets, next, operations, records, collector, made, lost, misled>>

UndoneSecret_Latest(c) == IF operations[calls[c].key] # None THEN operations[calls[c].key].secret
                          ELSE calls[c].secret

\* Secrets.Delete(specID).
UndoneSecret(c) == calls[c].secret

Undo(c) ==
    /\ calls[c].at = "undo"
    /\ secrets' = [secrets EXCEPT ![UndoneSecret(c)] = None]
    /\ Goes(c, NoCall)
    /\ UNCHANGED <<next, operations, records, collector, made, lost, misled>>

\* SaveObject of deployment-<operation>, an upsert: a replay writes again.
Record(c) ==
    /\ calls[c].at = "record"
    /\ records' = [records EXCEPT ![calls[c].key] = calls[c].state]
    /\ Goes(c, NoCall)
    /\ UNCHANGED <<secrets, next, operations, collector, made, lost, misled>>

\* The process dies, or the client's connection ends the request.
CallDies(c) ==
    /\ calls[c] # NoCall
    /\ Goes(c, NoCall)
    /\ UNCHANGED <<secrets, next, operations, records, collector, made, lost, misled>>

-----------------------------------------------------------------------------
(* The worker: Docker.Execute, or an adapter's apply of a manifest. *)

Running(k, step) ==
    /\ operations[k] # None
    /\ operations[k].state = "running" /\ operations[k].step = step

Advance(k, state, step) == operations' = [operations EXCEPT ![k].state = state, ![k].step = step]

Claim(k) ==
    /\ operations[k] # None /\ operations[k].state = "queued"
    /\ Advance(k, "running", "fetch")
    /\ UNCHANGED <<secrets, next, calls, records, collector, made, lost, misled>>

\* Secrets.Get, then the hash, the specification and the registry are checked.
Fetch(k) ==
    /\ Running(k, "fetch")
    /\ IF secrets[operations[k].secret] = operations[k].doc
       THEN Advance(k, "running", "create") ELSE Advance(k, "failed", "done")
    /\ UNCHANGED <<secrets, next, calls, records, collector, made, lost, misled>>

\* The pull and containers/create; a manifest is applied in one call.
Create(k) ==
    /\ Running(k, "create")
    /\ made' = [made EXCEPT ![k] = @ + 1]
    /\ IF operations[k].doc \in Blueprint THEN Advance(k, "running", "start")
       ELSE Advance(k, "completed", "done")
    /\ UNCHANGED <<secrets, next, calls, records, collector, lost, misled>>

\* start, and three seconds later the container's state.
StartContainer(k) ==
    /\ Running(k, "start")
    /\ Advance(k, "running", "check")
    /\ UNCHANGED <<secrets, next, calls, records, collector, made, lost, misled>>

Check(k) ==
    /\ Running(k, "check")
    /\ Advance(k, "completed", "done")
    /\ UNCHANGED <<secrets, next, calls, records, collector, made, lost, misled>>

\* The daemon refuses a call, the container exits, the worker is cut off.
ExecuteFails(k) ==
    /\ operations[k] # None /\ operations[k].state = "running"
    /\ Advance(k, "failed", "done")
    /\ UNCHANGED <<secrets, next, calls, records, collector, made, lost, misled>>

-----------------------------------------------------------------------------
(* Collector.Tick, the part about deployments. *)

Outdated_Running(k) == OperationState(k) = "running" /\ records[k] # "running"

\* status != state.
Outdated(k) == records[k] # operations[k].state

\* It reads the operation's state, and saves the deployment in a later statement.
CollectRead(k) ==
    /\ collector = None
    /\ records[k] # None /\ Outdated(k)
    /\ collector' = [key |-> k, state |-> operations[k].state]
    /\ UNCHANGED <<secrets, next, calls, operations, records, made, lost, misled>>

CollectSave ==
    /\ collector # None
    /\ records' = [records EXCEPT ![collector.key] = collector.state]
    /\ collector' = None
    /\ UNCHANGED <<secrets, next, calls, operations, made, lost, misled>>

Handle(c) ==
    \/ \E k \in Key : ProvisionContainer(c, k) \/ Deploy(c, k)
    \/ \E answered \in BOOLEAN : SubmitCreates(c, answered)
    \/ SubmitReplays(c) \/ SubmitFails(c) \/ Undo(c) \/ Record(c) \/ CallDies(c)

Execute(k) == Claim(k) \/ Fetch(k) \/ Create(k) \/ StartContainer(k) \/ Check(k) \/ ExecuteFails(k)

ProvisioningNext ==
    \/ \E c \in Call : Handle(c)
    \/ \E k \in Key : Execute(k) \/ CollectRead(k)
    \/ CollectSave

\* A handler in progress ends, and the collector ticks every minute.
ProvisioningFairness ==
    /\ \A c \in Call : WF_provisioningVars(SubmitFails(c) \/ Undo(c) \/ Record(c) \/ CallDies(c))
    /\ \A k \in Key : WF_provisioningVars(CollectRead(k))
    /\ WF_provisioningVars(CollectSave)

ProvisioningSpec == ProvisioningInit /\ [][ProvisioningNext]_provisioningVars /\ ProvisioningFairness

-----------------------------------------------------------------------------
(* Properties. *)

\* A client that repeats a request under its key is never told that the key
\* was used for something else, although each attempt stores a secret of its own.
RetryAnswered == ~misled

\* An operation that may still fetch its document finds it, whatever failed
\* calls under the same key clean up; only the caller who never got the answer
\* of the commit takes the document from the operation he created.
DocumentPresent == \A k \in Key \ lost :
    operations[k] # None /\ operations[k].state \notin Ended /\ operations[k].step = "fetch" =>
        secrets[operations[k].secret] = operations[k].doc

\* However often a request is repeated, one container (or one application of
\* the manifest) comes of a key.
MadeOnce == \A k \in Key : made[k] <= 1

\* "O status acompanha a operacao": once the operation has ended its deployment
\* shows the final state again and again, though a late replay may write an
\* older one in between.
StatusFollows == \A k \in Key :
    records[k] # None /\ OperationState(k) \in Ended ~> records[k] = OperationState(k)

\* A key as a whole: its retries are answered, its document is there, and one
\* container comes of it.
ProvisioningSafe == ProvisioningTypeOK /\ RetryAnswered /\ DocumentPresent /\ MadeOnce
=============================================================================
