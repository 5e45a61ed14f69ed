---------------------------- MODULE HandlersProofs ----------------------------
(***************************************************************************)
(* Safety of what the HTTP handlers do beside the queue: provisioning and  *)
(* deployments (ProvisioningSafe), the connection pools (PoolSafe), the    *)
(* event outbox with its stream (OutboxSafe), the host inventory           *)
(* (InventorySafe) and the sessions inside containers (ContainersSafe).    *)
(***************************************************************************)
EXTENDS Provisioning, ConnectionPool, EventOutbox, HostInventory, ContainerSessions,
        FiniteSetTheorems, SequenceTheorems, TLAPS

(***************************************************************************)
(* Provisioning. That an operation finds its document depends on who may   *)
(* still delete it: ProvisioningInv says which request owns which secret.  *)
(***************************************************************************)

\* The request has stored a secret and may still submit it or delete it.
Owns(c) == calls[c].at \in {"submit", "undo"}

\* Secret ids were handed out, each to one request; before Submit it holds the
\* request's document.
SecretsOwned ==
    /\ \A c \in Call : Owns(c) => calls[c].secret <= next
    /\ \A c, d \in Call : Owns(c) /\ Owns(d) /\ calls[c].secret = calls[d].secret => c = d
    /\ \A c \in Call : calls[c].at = "submit" => secrets[calls[c].secret] = calls[c].doc

\* Nobody but a caller who lost the answer of the commit may still delete the
\* secret of an operation.
OperationOwns == \A k \in Key : operations[k] # None =>
    /\ operations[k].secret <= next
    /\ \A c \in Call : Owns(c) /\ calls[c].secret = operations[k].secret =>
         calls[c].at = "undo" /\ k \in lost

\* Deployments are recorded, and about to be, for operations there are.
RecordsExist ==
    /\ \A c \in Call : calls[c].at = "record" => operations[calls[c].key] # None
    /\ \A k \in Key : records[k] # None => operations[k] # None
    /\ collector # None => operations[collector.key] # None

\* Nothing is made before the step that makes it, and that step is left at once.
NotMadeYet == \A k \in Key :
    /\ operations[k] = None => made[k] = 0
    /\ operations[k] # None =>
         /\ operations[k].step \in {"fetch", "create"} => made[k] = 0
         /\ operations[k].state = "queued" => operations[k].step = "fetch"

\* The inductive invariant.
ProvisioningInv ==
    /\ ProvisioningSafe
    /\ SecretsOwned /\ OperationOwns /\ RecordsExist /\ NotMadeYet

CallPosition == {NoCall}
    \cup [at : {"submit", "undo"}, key : Key, doc : Document, secret : SecretId]
    \cup [at : {"record"}, key : Key, state : State]

\* The fields of a request, by where it stands.
LEMMA CallShape ==
    ASSUME ProvisioningTypeOK, NEW c \in Call
    PROVE  /\ Owns(c) =>
                /\ calls[c] \in [at : {"submit", "undo"}, key : Key, doc : Document, secret : SecretId]
                /\ calls[c].key \in Key /\ calls[c].doc \in Document /\ calls[c].secret \in SecretId
           /\ calls[c].at = "record" => calls[c].key \in Key /\ calls[c].state \in State
  BY DEF ProvisioningTypeOK, NoCall, Owns

\* A step of one request leaves the others where they were.
LEMMA CallMoves ==
    ASSUME ProvisioningTypeOK, NEW c \in Call, NEW q \in CallPosition, Goes(c, q)
    PROVE  /\ calls' \in [Call -> CallPosition]
           /\ calls'[c] = q
           /\ \A d \in Call : d # c => calls'[d] = calls[d]
  BY DEF ProvisioningTypeOK, CallPosition, Goes

\* The type of calls, by its name here.
LEMMA CallsTyped == ProvisioningTypeOK <=>
    /\ secrets \in [SecretId -> Document \cup {None}]
    /\ next \in 0..MaxSecret
    /\ calls \in [Call -> CallPosition]
    /\ operations \in [Key -> Operation \cup {None}]
    /\ records \in [Key -> State \cup {None}]
    /\ collector \in [key : Key, state : State] \cup {None}
    /\ made \in [Key -> Nat]
    /\ lost \subseteq Key
    /\ misled \in BOOLEAN
  BY DEF ProvisioningTypeOK, CallPosition

\* At the start nothing is stored.
LEMMA ProvisioningInitInv == ProvisioningInit => ProvisioningInv
<1> SUFFICES ASSUME ProvisioningInit PROVE ProvisioningInv
  OBVIOUS
<1>1. \A c \in Call : calls[c].at = "idle"
  BY DEF ProvisioningInit, NoCall
<1>2. ProvisioningTypeOK
  <2>1. next \in 0..MaxSecret /\ made \in [Key -> Nat]
    BY ProvisioningAssumption DEF ProvisioningInit
  <2>2. /\ secrets \in [SecretId -> Document \cup {None}] /\ operations \in [Key -> Operation \cup {None}]
        /\ records \in [Key -> State \cup {None}] /\ calls \in [Call -> CallPosition]
        /\ collector \in [key : Key, state : State] \cup {None}
    BY DEF ProvisioningInit, CallPosition
  <2>3. lost \subseteq Key /\ misled \in BOOLEAN
    BY DEF ProvisioningInit
  <2> QED
    BY <2>1, <2>2, <2>3, CallsTyped
<1>3. RetryAnswered /\ DocumentPresent /\ MadeOnce
  BY DEF ProvisioningInit, RetryAnswered, DocumentPresent, MadeOnce
<1>4. SecretsOwned
  BY <1>1 DEF SecretsOwned, Owns
<1>5. OperationOwns /\ RecordsExist /\ NotMadeYet
  BY <1>1 DEF ProvisioningInit, OperationOwns, RecordsExist, NotMadeYet, Owns
<1> QED
  BY <1>2, <1>3, <1>4, <1>5 DEF ProvisioningInv, ProvisioningSafe

\* A request that gives up its secret, or moves on to delete it, and writes at
\* most deployment records.
LEMMA CallReleases ==
    ASSUME ProvisioningInv, NEW c \in Call, NEW q \in CallPosition, Goes(c, q),
           q.at \in {"idle", "record", "undo"},
           q.at = "record" => operations[q.key] # None,
           q.at = "undo" => Owns(c) /\ q.secret = calls[c].secret,
           q.at = "undo" => \A k \in Key : operations[k] # None /\ operations[k].secret = q.secret => k \in lost,
           records' \in [Key -> State \cup {None}],
           \A k \in Key : records'[k] # None => operations[k] # None,
           UNCHANGED <<secrets, next, operations, collector, made, lost, misled>>
    PROVE  ProvisioningInv'
<1>1. /\ calls' \in [Call -> CallPosition]
      /\ calls'[c] = q
      /\ \A d \in Call : d # c => calls'[d] = calls[d]
  BY CallMoves DEF ProvisioningInv, ProvisioningSafe
<1>2. ProvisioningTypeOK'
  <2>1. ProvisioningTypeOK
    BY DEF ProvisioningInv, ProvisioningSafe
  <2> QED
    BY <1>1, <2>1, CallsTyped DEF ProvisioningTypeOK, CallPosition
<1>3. RetryAnswered' /\ DocumentPresent' /\ MadeOnce'
  BY DEF ProvisioningInv, ProvisioningSafe, RetryAnswered, DocumentPresent, MadeOnce
<1>4. \A d \in Call : Owns(d)' => Owns(d) /\ calls'[d].secret = calls[d].secret
  BY <1>1 DEF Owns
<1>5. SecretsOwned'
  BY <1>1, <1>4 DEF ProvisioningInv, SecretsOwned
<1>6. OperationOwns'
  <2> SUFFICES ASSUME NEW k \in Key, operations[k] # None
               PROVE  /\ operations[k].secret <= next
                      /\ \A d \in Call : Owns(d)' /\ calls'[d].secret = operations[k].secret =>
                           calls'[d].at = "undo" /\ k \in lost
    BY DEF OperationOwns
  <2> QED
    BY <1>1, <1>4 DEF ProvisioningInv, OperationOwns, Owns
<1>7. RecordsExist' /\ NotMadeYet'
  BY <1>1 DEF ProvisioningInv, RecordsExist, NotMadeYet
<1> QED
  BY <1>2, <1>3, <1>5, <1>6, <1>7 DEF ProvisioningInv, ProvisioningSafe

\* What a request becomes after Submit returned an error.
LEMMA AfterErrorShape ==
    ASSUME ProvisioningInv, NEW c \in Call, calls[c].at = "submit"
    PROVE  /\ AfterError(c) \in CallPosition /\ AfterError(c).at \in {"idle", "undo"}
           /\ AfterError(c).at = "undo" => Owns(c) /\ AfterError(c).secret = calls[c].secret
<1>1. calls[c] \in [at : {"submit", "undo"}, key : Key, doc : Document, secret : SecretId] /\ Owns(c)
  BY CallShape DEF Owns, ProvisioningInv, ProvisioningSafe
<1>2. CASE calls[c].doc \in Blueprint
  BY <1>1, <1>2 DEF AfterError, CallPosition
<1>3. CASE calls[c].doc \notin Blueprint
  BY <1>3 DEF AfterError, CallPosition, NoCall
<1> QED
  BY <1>2, <1>3

\* What a request becomes after Submit returned an operation in that state.
LEMMA AfterSubmitShape ==
    ASSUME ProvisioningInv, NEW c \in Call, calls[c].at = "submit", NEW state \in State
    PROVE  /\ AfterSubmit(c, state) \in CallPosition /\ AfterSubmit(c, state).at \in {"idle", "record"}
           /\ AfterSubmit(c, state).at = "record" => AfterSubmit(c, state).key = calls[c].key
<1>1. calls[c].key \in Key
  BY CallShape DEF Owns, ProvisioningInv, ProvisioningSafe
<1>2. CASE calls[c].doc \in Manifest
  BY <1>1, <1>2 DEF AfterSubmit, CallPosition
<1>3. CASE calls[c].doc \notin Manifest
  BY <1>3 DEF AfterSubmit, CallPosition, NoCall
<1> QED
  BY <1>2, <1>3

\* A secret under an id that nobody has.
LEMMA PutInv ==
    ASSUME ProvisioningInv, NEW c \in Call, NEW k \in Key, NEW text \in Document, Put(c, k, text)
    PROVE  ProvisioningInv'
<1> DEFINE i == next + 1
           q == [at |-> "submit", key |-> k, doc |-> text, secret |-> i]
<1>1. /\ i \in SecretId /\ next' = i /\ next \in Nat /\ next' \in 0..MaxSecret
      /\ secrets' = [secrets EXCEPT ![i] = text] /\ Goes(c, q)
      /\ UNCHANGED <<operations, records, collector, made, lost, misled>>
  BY ProvisioningAssumption DEF Put, SecretId, ProvisioningInv, ProvisioningSafe, ProvisioningTypeOK
<1>2. q \in CallPosition /\ q.at = "submit" /\ q.secret = i /\ q.doc = text
  BY <1>1 DEF CallPosition
<1> HIDE DEF q
<1>3. /\ calls' \in [Call -> CallPosition]
      /\ calls'[c] = q
      /\ \A d \in Call : d # c => calls'[d] = calls[d]
  BY <1>1, <1>2, CallMoves DEF ProvisioningInv, ProvisioningSafe
<1>4. /\ secrets' \in [SecretId -> Document \cup {None}] /\ secrets'[i] = text
      /\ \A j \in SecretId : j # i => secrets'[j] = secrets[j]
  BY <1>1 DEF ProvisioningInv, ProvisioningSafe, ProvisioningTypeOK
<1>5. /\ \A d \in Call : Owns(d) => calls[d].secret \in SecretId /\ calls[d].secret <= next /\ calls[d].secret # i
      /\ \A j \in Key : operations[j] # None =>
           operations[j].secret \in SecretId /\ operations[j].secret <= next /\ operations[j].secret # i
  <2>1. \A d \in Call : Owns(d) => calls[d].secret \in SecretId /\ calls[d].secret <= next
    BY CallShape DEF ProvisioningInv, ProvisioningSafe, SecretsOwned
  <2>2. \A j \in Key : operations[j] # None => operations[j].secret \in SecretId /\ operations[j].secret <= next
    BY DEF ProvisioningInv, ProvisioningSafe, ProvisioningTypeOK, Operation, OperationOwns
  <2> QED
    BY <1>1, <2>1, <2>2 DEF SecretId
<1>6. i <= next' /\ \A n \in SecretId : n <= next => n <= next'
  BY <1>1 DEF SecretId
<1> HIDE DEF i
<1>7. ProvisioningTypeOK'
  <2>1. ProvisioningTypeOK
    BY DEF ProvisioningInv, ProvisioningSafe
  <2> QED
    BY <1>1, <1>3, <1>4, <2>1 DEF ProvisioningTypeOK, CallPosition
<1>8. RetryAnswered' /\ MadeOnce'
  BY <1>1 DEF ProvisioningInv, ProvisioningSafe, RetryAnswered, MadeOnce
<1>9. DocumentPresent'
  BY <1>1, <1>4, <1>5 DEF ProvisioningInv, ProvisioningSafe, DocumentPresent
<1>10. SecretsOwned'
  <2>1. \A d \in Call : Owns(d)' => calls'[d].secret <= next'
    BY <1>2, <1>3, <1>5, <1>6 DEF Owns
  <2>2. \A d, e \in Call : Owns(d)' /\ Owns(e)' /\ calls'[d].secret = calls'[e].secret => d = e
    BY <1>2, <1>3, <1>5 DEF Owns, ProvisioningInv, SecretsOwned
  <2>3. \A d \in Call : calls'[d].at = "submit" => secrets'[calls'[d].secret] = calls'[d].doc
    BY <1>2, <1>3, <1>4, <1>5 DEF Owns, ProvisioningInv, SecretsOwned
  <2> QED
    BY <2>1, <2>2, <2>3 DEF SecretsOwned
<1>11. OperationOwns'
  BY <1>1, <1>2, <1>3, <1>5, <1>6 DEF Owns, ProvisioningInv, OperationOwns
<1>12. RecordsExist' /\ NotMadeYet'
  BY <1>1, <1>2, <1>3 DEF ProvisioningInv, RecordsExist, NotMadeYet
<1> QED
  BY <1>7, <1>8, <1>9, <1>10, <1>11, <1>12 DEF ProvisioningInv, ProvisioningSafe

\* Submit inserts: the operation takes over the secret, and a caller who does
\* not learn of it counts as lost.
LEMMA SubmitCreatesInv ==
    ASSUME ProvisioningInv, NEW c \in Call, NEW told \in BOOLEAN, SubmitCreates(c, told)
    PROVE  ProvisioningInv'
<1> DEFINE k == calls[c].key
           op == NewOperation(c)
           q == IF told THEN AfterSubmit(c, "queued") ELSE AfterError(c)
<1>1. /\ calls[c].at = "submit" /\ Owns(c) /\ k \in Key /\ calls[c].doc \in Document
      /\ calls[c].secret \in SecretId /\ operations[k] = None
  BY CallShape DEF SubmitCreates, Conflicts, Owns, ProvisioningInv, ProvisioningSafe
<1>2. /\ op \in Operation /\ op # None /\ op.secret = calls[c].secret /\ op.doc = calls[c].doc
      /\ op.state = "queued" /\ op.step = "fetch"
  <2>1. /\ op \in Operation /\ op.secret = calls[c].secret /\ op.doc = calls[c].doc
        /\ op.state = "queued" /\ op.step = "fetch"
    BY <1>1 DEF NewOperation, Operation, State
  <2> QED
    BY <2>1, NoneAssumption
<1>3. /\ q \in CallPosition /\ q.at \in {"idle", "record", "undo"}
      /\ q.at = "record" => q.key = k
      /\ q.at = "undo" => ~told /\ q.secret = calls[c].secret
  BY <1>1, AfterErrorShape, AfterSubmitShape DEF State
<1>4. /\ operations' = [operations EXCEPT ![k] = op] /\ Goes(c, q)
      /\ lost' = IF told THEN lost ELSE lost \cup {k}
      /\ UNCHANGED <<secrets, next, records, collector, made, misled>>
  BY DEF SubmitCreates
<1>5. secrets[op.secret] = op.doc /\ op.secret <= next
  BY <1>1, <1>2 DEF ProvisioningInv, SecretsOwned
<1> HIDE DEF k, op, q
<1>6. /\ calls' \in [Call -> CallPosition]
      /\ calls'[c] = q
      /\ \A d \in Call : d # c => calls'[d] = calls[d]
  BY <1>3, <1>4, CallMoves DEF ProvisioningInv, ProvisioningSafe
<1>7. /\ operations' \in [Key -> Operation \cup {None}] /\ operations'[k] = op
      /\ \A j \in Key : j # k => operations'[j] = operations[j]
      /\ lost' \subseteq Key /\ lost \subseteq lost'
  BY <1>1, <1>2, <1>4 DEF ProvisioningInv, ProvisioningSafe, ProvisioningTypeOK
<1>8. ProvisioningTypeOK'
  <2>1. ProvisioningTypeOK
    BY DEF ProvisioningInv, ProvisioningSafe
  <2> QED
    BY <1>4, <1>6, <1>7, <2>1 DEF ProvisioningTypeOK, CallPosition
<1>9. RetryAnswered' /\ MadeOnce'
  BY <1>4 DEF ProvisioningInv, ProvisioningSafe, RetryAnswered, MadeOnce
<1>10. DocumentPresent'
  BY <1>4, <1>5, <1>7 DEF ProvisioningInv, ProvisioningSafe, DocumentPresent
<1>11. \A d \in Call : Owns(d)' => /\ Owns(d) /\ calls'[d].secret = calls[d].secret
                                   /\ d = c => calls'[d].at = "undo" /\ ~told
                                   /\ d # c => calls'[d] = calls[d]
  BY <1>1, <1>3, <1>6 DEF Owns
<1>12. SecretsOwned'
  <2>1. \A d \in Call : Owns(d)' => calls'[d].secret <= next'
    BY <1>4, <1>11 DEF ProvisioningInv, SecretsOwned
  <2>2. \A d, e \in Call : Owns(d)' /\ Owns(e)' /\ calls'[d].secret = calls'[e].secret => d = e
    BY <1>11 DEF ProvisioningInv, SecretsOwned
  <2>3. \A d \in Call : calls'[d].at = "submit" => secrets'[calls'[d].secret] = calls'[d].doc
    BY <1>3, <1>4, <1>6 DEF ProvisioningInv, SecretsOwned
  <2> QED
    BY <2>1, <2>2, <2>3 DEF SecretsOwned
<1>13. OperationOwns'
  <2> SUFFICES ASSUME NEW j \in Key, operations'[j] # None
               PROVE  /\ operations'[j].secret <= next'
                      /\ \A d \in Call : Owns(d)' /\ calls'[d].secret = operations'[j].secret =>
                           calls'[d].at = "undo" /\ j \in lost'
    BY DEF OperationOwns
  <2>1. CASE j = k
    <3>1. operations'[j].secret <= next'
      BY <1>4, <1>5, <1>7, <2>1
    <3>2. ASSUME NEW d \in Call, Owns(d)', calls'[d].secret = operations'[j].secret
          PROVE  calls'[d].at = "undo" /\ j \in lost'
      <4>1. Owns(d) /\ calls[d].secret = calls[c].secret
        BY <1>2, <1>7, <1>11, <2>1, <3>2
      <4>2. d = c
        BY <1>1, <4>1 DEF ProvisioningInv, SecretsOwned
      <4> QED
        BY <1>4, <1>11, <2>1, <3>2, <4>2
    <3> QED
      BY <3>1, <3>2
  <2>2. CASE j # k
    <3>1. operations'[j] = operations[j]
      BY <1>7, <2>2
    <3>2. ASSUME NEW d \in Call, Owns(d)', calls'[d].secret = operations'[j].secret
          PROVE  calls'[d].at = "undo" /\ j \in lost'
      BY <1>7, <1>11, <3>1, <3>2 DEF ProvisioningInv, OperationOwns
    <3> QED
      BY <1>4, <3>1, <3>2 DEF ProvisioningInv, OperationOwns
  <2> QED
    BY <2>1, <2>2
<1>14. RecordsExist'
  <2>1. \A d \in Call : calls'[d].at = "record" => operations'[calls'[d].key] # None
    <3> SUFFICES ASSUME NEW d \in Call, calls'[d].at = "record" PROVE operations'[calls'[d].key] # None
      OBVIOUS
    <3>1. CASE d = c
      BY <1>2, <1>3, <1>6, <1>7, <3>1
    <3>2. CASE d # c
      <4>1. calls'[d] = calls[d] /\ calls[d].key \in Key /\ operations[calls[d].key] # None
        BY <1>6, <3>2, CallShape DEF ProvisioningInv, ProvisioningSafe, RecordsExist
      <4> QED
        BY <1>2, <1>7, <4>1
    <3> QED
      BY <3>1, <3>2
  <2>2. \A j \in Key : records'[j] # None => operations'[j] # None
    BY <1>2, <1>4, <1>7 DEF ProvisioningInv, RecordsExist
  <2>3. collector' # None => operations'[collector'.key] # None
    <3>1. collector # None => collector.key \in Key /\ operations[collector.key] # None
      BY DEF ProvisioningInv, ProvisioningSafe, ProvisioningTypeOK, RecordsExist
    <3> QED
      BY <1>2, <1>4, <1>7, <3>1
  <2> QED
    BY <2>1, <2>2, <2>3 DEF RecordsExist
<1>15. NotMadeYet'
  BY <1>1, <1>2, <1>4, <1>7 DEF ProvisioningInv, NotMadeYet, k
<1> QED
  BY <1>8, <1>9, <1>10, <1>12, <1>13, <1>14, <1>15 DEF ProvisioningInv, ProvisioningSafe

\* Submit finds the key taken, or fails before its commit: the request keeps at
\* most the right to delete a secret that no operation has.
LEMMA SubmitReturnsInv ==
    ASSUME ProvisioningInv, NEW c \in Call, SubmitReplays(c) \/ SubmitFails(c)
    PROVE  ProvisioningInv'
<1>1. calls[c].at = "submit" /\ Owns(c) /\ calls[c].key \in Key
  BY CallShape DEF SubmitReplays, SubmitFails, Owns, ProvisioningInv, ProvisioningSafe
<1>2. \A k \in Key : operations[k] # None => operations[k].secret # calls[c].secret
  BY <1>1 DEF ProvisioningInv, OperationOwns
<1>3. /\ records' \in [Key -> State \cup {None}] /\ \A k \in Key : records'[k] # None => operations[k] # None
      /\ UNCHANGED <<secrets, next, operations, collector, made, lost>>
  BY DEF SubmitReplays, SubmitFails, ProvisioningInv, ProvisioningSafe, ProvisioningTypeOK, RecordsExist
<1>4. CASE SubmitFails(c)
  <2>1. Goes(c, AfterError(c)) /\ UNCHANGED misled
    BY <1>4 DEF SubmitFails
  <2> QED
    BY <1>1, <1>2, <1>3, <2>1, AfterErrorShape, CallReleases
<1>5. CASE SubmitReplays(c)
  <2> DEFINE op == operations[calls[c].key]
             same == RequestHash(op.doc, op.secret) = RequestHash(calls[c].doc, calls[c].secret)
             q == IF same THEN AfterSubmit(c, op.state) ELSE AfterError(c)
  <2>1. Goes(c, q) /\ misled' = (misled \/ (~same /\ op.doc = calls[c].doc)) /\ op # None
    BY <1>5 DEF SubmitReplays, Conflicts
  <2>2. op.state \in State
    BY <1>1, <2>1 DEF ProvisioningInv, ProvisioningSafe, ProvisioningTypeOK, Operation
  <2>3. op.doc = calls[c].doc => same
    BY DEF RequestHash
  <2> HIDE DEF same
  <2>4. UNCHANGED misled
    <3>1. misled = FALSE
      BY DEF ProvisioningInv, ProvisioningSafe, ProvisioningTypeOK, RetryAnswered
    <3> QED
      BY <2>1, <2>3, <3>1
  <2>5. /\ q \in CallPosition /\ q.at \in {"idle", "record", "undo"}
        /\ q.at = "record" => q.key = calls[c].key
        /\ q.at = "undo" => q.secret = calls[c].secret
    BY <1>1, <2>2, AfterErrorShape, AfterSubmitShape
  <2> HIDE DEF q
  <2> QED
    BY <1>1, <1>2, <1>3, <2>1, <2>4, <2>5, CallReleases
<1> QED
  BY <1>4, <1>5

\* Secrets.Delete of the request's own secret.
LEMMA UndoInv ==
    ASSUME ProvisioningInv, NEW c \in Call, Undo(c)
    PROVE  ProvisioningInv'
<1> DEFINE i == calls[c].secret
<1>1. calls[c].at = "undo" /\ Owns(c) /\ i \in SecretId
  BY CallShape DEF Undo, Owns, ProvisioningInv, ProvisioningSafe
<1>2. /\ secrets' = [secrets EXCEPT ![i] = None] /\ Goes(c, NoCall)
      /\ UNCHANGED <<next, operations, records, collector, made, lost, misled>>
  BY DEF Undo, UndoneSecret
<1>3. NoCall \in CallPosition /\ NoCall.at = "idle"
  BY DEF NoCall, CallPosition
<1>4. /\ calls' \in [Call -> CallPosition]
      /\ calls'[c].at = "idle"
      /\ \A d \in Call : d # c => calls'[d] = calls[d]
  BY <1>2, <1>3, CallMoves DEF ProvisioningInv, ProvisioningSafe
<1>5. /\ secrets' \in [SecretId -> Document \cup {None}]
      /\ \A j \in SecretId : j # i => secrets'[j] = secrets[j]
  BY <1>1, <1>2 DEF ProvisioningInv, ProvisioningSafe, ProvisioningTypeOK
<1>6. \A d \in Call : Owns(d)' => d # c /\ Owns(d) /\ calls'[d] = calls[d]
                                  /\ calls[d].secret \in SecretId /\ calls[d].secret # i
  <2> SUFFICES ASSUME NEW d \in Call, Owns(d)'
               PROVE  d # c /\ Owns(d) /\ calls'[d] = calls[d]
                      /\ calls[d].secret \in SecretId /\ calls[d].secret # i
    OBVIOUS
  <2>1. d # c /\ Owns(d) /\ calls'[d] = calls[d]
    BY <1>4 DEF Owns
  <2>2. calls[d].secret \in SecretId
    BY <2>1, CallShape DEF ProvisioningInv, ProvisioningSafe
  <2> QED
    BY <1>1, <2>1, <2>2 DEF ProvisioningInv, SecretsOwned
<1>7. \A k \in Key \ lost : operations[k] # None =>
          operations[k].secret \in SecretId /\ operations[k].secret # i
  BY <1>1 DEF ProvisioningInv, ProvisioningSafe, ProvisioningTypeOK, Operation, OperationOwns
<1> HIDE DEF i
<1>8. ProvisioningTypeOK'
  <2>1. ProvisioningTypeOK
    BY DEF ProvisioningInv, ProvisioningSafe
  <2> QED
    BY <1>2, <1>4, <1>5, <2>1 DEF ProvisioningTypeOK, CallPosition
<1>9. RetryAnswered' /\ MadeOnce'
  BY <1>2 DEF ProvisioningInv, ProvisioningSafe, RetryAnswered, MadeOnce
<1>10. DocumentPresent'
  BY <1>2, <1>5, <1>7 DEF ProvisioningInv, ProvisioningSafe, DocumentPresent
<1>11. SecretsOwned'
  <2>1. \A d \in Call : Owns(d)' => calls'[d].secret <= next'
    BY <1>2, <1>6 DEF ProvisioningInv, SecretsOwned
  <2>2. \A d, e \in Call : Owns(d)' /\ Owns(e)' /\ calls'[d].secret = calls'[e].secret => d = e
    BY <1>6 DEF ProvisioningInv, SecretsOwned
  <2>3. \A d \in Call : calls'[d].at = "submit" => Owns(d)'
    BY DEF Owns
  <2>4. \A d \in Call : calls'[d].at = "submit" => secrets'[calls'[d].secret] = calls'[d].doc
    BY <1>5, <1>6, <2>3 DEF ProvisioningInv, SecretsOwned
  <2> QED
    BY <2>1, <2>2, <2>4 DEF SecretsOwned
<1>12. OperationOwns'
  BY <1>2, <1>6 DEF ProvisioningInv, OperationOwns
<1>13. RecordsExist' /\ NotMadeYet'
  BY <1>2, <1>4 DEF ProvisioningInv, RecordsExist, NotMadeYet
<1> QED
  BY <1>8, <1>9, <1>10, <1>11, <1>12, <1>13 DEF ProvisioningInv, ProvisioningSafe

\* The record of a deployment, and a request that dies.
LEMMA CallEndsInv ==
    ASSUME ProvisioningInv, NEW c \in Call, Record(c) \/ CallDies(c)
    PROVE  ProvisioningInv'
<1>1. Goes(c, NoCall) /\ UNCHANGED <<secrets, next, operations, collector, made, lost, misled>>
  BY DEF Record, CallDies
<1>2. NoCall \in CallPosition /\ NoCall.at = "idle"
  BY DEF NoCall, CallPosition
<1>3. /\ records' \in [Key -> State \cup {None}]
      /\ \A k \in Key : records'[k] # None => operations[k] # None
  <2>1. CASE Record(c)
    <3>1. /\ calls[c].key \in Key /\ calls[c].state \in State /\ operations[calls[c].key] # None
          /\ records' = [records EXCEPT ![calls[c].key] = calls[c].state]
      BY <2>1, CallShape DEF Record, ProvisioningInv, ProvisioningSafe, RecordsExist
    <3> QED
      BY <3>1 DEF ProvisioningInv, ProvisioningSafe, ProvisioningTypeOK, RecordsExist
  <2>2. CASE CallDies(c)
    BY <2>2 DEF CallDies, ProvisioningInv, ProvisioningSafe, ProvisioningTypeOK, RecordsExist
  <2> QED
    BY <2>1, <2>2
<1> QED
  BY <1>1, <1>2, <1>3, CallReleases

\* The worker moves an operation on, and makes at most one thing on the way.
LEMMA AdvanceInv ==
    ASSUME ProvisioningInv, NEW k \in Key, operations[k] # None,
           NEW state \in State, NEW step \in {"fetch", "create", "start", "check", "done"},
           Advance(k, state, step), state # "queued",
           step = "fetch" => operations[k].step = "fetch" /\ operations[k].state \notin Ended,
           made' \in [Key -> Nat], \A j \in Key : j # k => made'[j] = made[j], made'[k] <= 1,
           step \in {"fetch", "create"} => made'[k] = 0,
           UNCHANGED <<secrets, next, calls, records, collector, lost, misled>>
    PROVE  ProvisioningInv'
<1> DEFINE op == [operations[k] EXCEPT !.state = state, !.step = step]
<1>1. operations[k] \in Operation /\ operations \in [Key -> Operation \cup {None}]
  BY DEF ProvisioningInv, ProvisioningSafe, ProvisioningTypeOK
<1>2. operations' = [operations EXCEPT ![k] = op]
  BY <1>1 DEF Advance
<1>3. /\ op \in Operation /\ op.secret = operations[k].secret /\ op.doc = operations[k].doc
      /\ op.state = state /\ op.step = step
  BY <1>1 DEF Operation
<1> HIDE DEF op
<1>4. op # None
  BY <1>3, NoneAssumption
<1>5. /\ operations' \in [Key -> Operation \cup {None}] /\ operations'[k] = op
      /\ \A j \in Key : j # k => operations'[j] = operations[j]
  BY <1>1, <1>2, <1>3
<1>6. \A j \in Key : /\ operations'[j] # None <=> operations[j] # None
                     /\ operations[j] # None => operations'[j].secret = operations[j].secret
                                                /\ operations'[j].doc = operations[j].doc
  BY <1>3, <1>4, <1>5
<1>7. ProvisioningTypeOK'
  <2>1. ProvisioningTypeOK
    BY DEF ProvisioningInv, ProvisioningSafe
  <2> QED
    BY <1>5, <2>1 DEF ProvisioningTypeOK
<1>8. RetryAnswered' /\ MadeOnce'
  BY DEF ProvisioningInv, ProvisioningSafe, RetryAnswered, MadeOnce
<1>9. DocumentPresent'
  BY <1>3, <1>5, <1>6 DEF ProvisioningInv, ProvisioningSafe, DocumentPresent
<1>10. SecretsOwned'
  BY DEF ProvisioningInv, SecretsOwned, Owns
<1>11. OperationOwns'
  BY <1>6 DEF ProvisioningInv, OperationOwns, Owns
<1>12. RecordsExist'
  <2>1. \A c \in Call : calls[c].at = "record" => calls[c].key \in Key
    BY CallShape DEF ProvisioningInv, ProvisioningSafe
  <2>2. collector # None => collector.key \in Key
    BY DEF ProvisioningInv, ProvisioningSafe, ProvisioningTypeOK
  <2> QED
    BY <1>6, <2>1, <2>2 DEF ProvisioningInv, RecordsExist
<1>13. NotMadeYet'
  BY <1>3, <1>4, <1>5 DEF ProvisioningInv, NotMadeYet
<1> QED
  BY <1>7, <1>8, <1>9, <1>10, <1>11, <1>12, <1>13 DEF ProvisioningInv, ProvisioningSafe

\* Docker.Execute, or an adapter's apply.
LEMMA ExecuteInv ==
    ASSUME ProvisioningInv, NEW k \in Key, Execute(k)
    PROVE  ProvisioningInv'
<1>1. /\ operations[k] # None
      /\ UNCHANGED <<secrets, next, calls, records, collector, lost, misled>>
  BY DEF Execute, Claim, Fetch, Create, StartContainer, Check, ExecuteFails, Running
<1>2. /\ made \in [Key -> Nat] /\ made[k] \in Nat /\ made[k] <= 1
      /\ operations[k].step \in {"fetch", "create"} => made[k] = 0
      /\ operations[k].state = "queued" => operations[k].step = "fetch"
  BY <1>1 DEF ProvisioningInv, ProvisioningSafe, ProvisioningTypeOK, MadeOnce, NotMadeYet
<1>3. {"running", "completed", "failed"} \subseteq State /\ Ended = {"completed", "failed"}
  BY DEF State, Ended
<1>4. CASE Claim(k)
  <2>1. Advance(k, "running", "fetch") /\ made' = made /\ operations[k].state = "queued"
    BY <1>4 DEF Claim
  <2> QED
    BY <1>1, <1>2, <1>3, <2>1, AdvanceInv
<1>5. CASE Fetch(k)
  <2>1. Advance(k, "running", "create") \/ Advance(k, "failed", "done")
    BY <1>5 DEF Fetch
  <2>2. made' = made /\ operations[k].step = "fetch"
    BY <1>5 DEF Fetch, Running
  <2> QED
    BY <1>1, <1>2, <1>3, <2>1, <2>2, AdvanceInv
<1>6. CASE Create(k)
  <2>1. Advance(k, "running", "start") \/ Advance(k, "completed", "done")
    BY <1>6 DEF Create
  <2>2. made' = [made EXCEPT ![k] = @ + 1] /\ operations[k].step = "create"
    BY <1>6 DEF Create, Running
  <2>3. made' \in [Key -> Nat] /\ made'[k] <= 1 /\ \A j \in Key : j # k => made'[j] = made[j]
    BY <1>2, <2>2
  <2> QED
    BY <1>1, <1>3, <2>1, <2>3, AdvanceInv
<1>7. CASE StartContainer(k) \/ Check(k) \/ ExecuteFails(k)
  <2>1. Advance(k, "running", "check") \/ Advance(k, "completed", "done") \/ Advance(k, "failed", "done")
    BY <1>7 DEF StartContainer, Check, ExecuteFails
  <2>2. made' = made
    BY <1>7 DEF StartContainer, Check, ExecuteFails
  <2> QED
    BY <1>1, <1>2, <1>3, <2>1, <2>2, AdvanceInv
<1> QED
  BY <1>4, <1>5, <1>6, <1>7 DEF Execute

\* The collector copies the state of an operation to its deployment; nothing else.
LEMMA CollectInv ==
    ASSUME ProvisioningInv,
           (\E k \in Key : CollectRead(k)) \/ CollectSave \/ UNCHANGED provisioningVars
    PROVE  ProvisioningInv'
<1>1. UNCHANGED <<secrets, next, calls, operations, made, lost, misled>>
  BY DEF CollectRead, CollectSave, provisioningVars
<1>2. /\ records' \in [Key -> State \cup {None}] /\ collector' \in [key : Key, state : State] \cup {None}
      /\ \A k \in Key : records'[k] # None => operations[k] # None
  <2>1. ASSUME NEW k \in Key, CollectRead(k)
        PROVE  records' = records /\ collector' \in [key : Key, state : State]
    <3>1. operations[k] \in Operation
      BY <2>1 DEF CollectRead, ProvisioningInv, ProvisioningSafe, ProvisioningTypeOK, RecordsExist
    <3> QED
      BY <2>1, <3>1 DEF CollectRead, Operation
  <2>2. CASE CollectSave
    <3>1. collector.key \in Key /\ collector.state \in State
      BY <2>2 DEF CollectSave, ProvisioningInv, ProvisioningSafe, ProvisioningTypeOK
    <3>2. operations[collector.key] # None
      BY <2>2 DEF CollectSave, ProvisioningInv, RecordsExist
    <3> QED
      BY <2>2, <3>1, <3>2 DEF CollectSave, ProvisioningInv, ProvisioningSafe, ProvisioningTypeOK, RecordsExist
  <2> QED
    BY <2>1, <2>2 DEF ProvisioningInv, ProvisioningSafe, ProvisioningTypeOK, RecordsExist, provisioningVars
<1>3. ProvisioningTypeOK' /\ RetryAnswered' /\ DocumentPresent' /\ MadeOnce'
  BY <1>1, <1>2 DEF ProvisioningInv, ProvisioningSafe, ProvisioningTypeOK, RetryAnswered, DocumentPresent, MadeOnce
<1>4. SecretsOwned' /\ OperationOwns' /\ NotMadeYet'
  BY <1>1 DEF ProvisioningInv, SecretsOwned, OperationOwns, NotMadeYet, Owns
<1>5. collector' # None => operations[collector'.key] # None
  <2>1. ASSUME NEW k \in Key, CollectRead(k) PROVE operations[collector'.key] # None
    <3>1. collector'.key = k /\ records[k] # None
      BY <2>1 DEF CollectRead
    <3> QED
      BY <3>1 DEF ProvisioningInv, RecordsExist
  <2>2. CASE CollectSave
    BY <2>2 DEF CollectSave
  <2>3. CASE UNCHANGED provisioningVars
    BY <2>3 DEF provisioningVars, ProvisioningInv, RecordsExist
  <2> QED
    BY <2>1, <2>2, <2>3
<1>6. RecordsExist'
  BY <1>1, <1>2, <1>5 DEF ProvisioningInv, RecordsExist
<1> QED
  BY <1>3, <1>4, <1>6 DEF ProvisioningInv, ProvisioningSafe

\* A secret belongs to the request that stored it until Submit gives it to the
\* operation, whatever fails, is repeated or is cleaned up in between.
THEOREM ProvisioningInvariant == ProvisioningSpec => []ProvisioningInv
<1>1. ProvisioningInv /\ [ProvisioningNext]_provisioningVars => ProvisioningInv'
  <2> SUFFICES ASSUME ProvisioningInv, [ProvisioningNext]_provisioningVars PROVE ProvisioningInv'
    OBVIOUS
  <2>1. ASSUME NEW c \in Call, Handle(c) PROVE ProvisioningInv'
    <3>1. ASSUME NEW k \in Key, ProvisionContainer(c, k) \/ Deploy(c, k) PROVE ProvisioningInv'
      BY <3>1, PutInv DEF ProvisionContainer, Deploy, Document
    <3>2. ASSUME NEW told \in BOOLEAN, SubmitCreates(c, told) PROVE ProvisioningInv'
      BY <3>2, SubmitCreatesInv
    <3>3. CASE SubmitReplays(c) \/ SubmitFails(c) \/ Undo(c) \/ Record(c) \/ CallDies(c)
      BY <3>3, SubmitReturnsInv, UndoInv, CallEndsInv
    <3> QED
      BY <2>1, <3>1, <3>2, <3>3 DEF Handle
  <2>2. ASSUME NEW k \in Key, Execute(k) PROVE ProvisioningInv'
    BY <2>2, ExecuteInv
  <2>3. CASE (\E k \in Key : CollectRead(k)) \/ CollectSave \/ UNCHANGED provisioningVars
    BY <2>3, CollectInv
  <2> QED
    BY <2>1, <2>2, <2>3 DEF ProvisioningNext
<1> QED
  BY <1>1, ProvisioningInitInv, PTL DEF ProvisioningSpec

\* A repeated request is never refused as another's, an operation finds its
\* document unless its own caller lost the answer, and a key makes one container.
THEOREM ProvisioningIsSafe == ProvisioningSpec => []ProvisioningSafe
<1>1. ProvisioningInv => ProvisioningSafe
  BY DEF ProvisioningInv
<1> QED
  BY <1>1, ProvisioningInvariant, PTL

-----------------------------------------------------------------------------
(***************************************************************************)
(* The connection pools. A standstill without a full pool would need a     *)
(* caller that waits for an advisory lock nobody is about to release;      *)
(* PoolInv says who holds a lock: a caller past it, on its second          *)
(* connection or waiting for one.                                          *)
(***************************************************************************)

\* Whoever holds an advisory lock is past it; whoever waits for one has a key.
LockHolders ==
    /\ \A k \in LockKey : holder[k] # Nobody => callers[holder[k]].at \in {"second", "inside"}
    /\ \A c \in Caller : callers[c].at = "lock" => callers[c].key \in LockKey

\* The inductive invariant.
PoolInv == PoolTypeOK /\ LockHolders

\* Connections a caller has in this position.
Weight(at) == IF at = "inside" THEN 2 ELSE IF at \in {"single", "lock", "second"} THEN 1 ELSE 0

\* One element more or less in a finite set.
LEMMA CardinalityAround ==
    ASSUME NEW S, IsFiniteSet(S), NEW c
    PROVE  /\ IsFiniteSet(S \ {c}) /\ Cardinality(S \ {c}) \in Nat
           /\ Cardinality(S) = Cardinality(S \ {c}) + (IF c \in S THEN 1 ELSE 0)
<1>1. CASE c \in S
  <2>1. IsFiniteSet(S \ {c}) /\ Cardinality(S \ {c}) = Cardinality(S) - 1
    BY <1>1, FS_RemoveElement
  <2>2. Cardinality(S) \in Nat /\ Cardinality(S \ {c}) \in Nat
    BY <2>1, FS_CardinalityType
  <2> QED
    BY <1>1, <2>1, <2>2
<1>2. CASE c \notin S
  <2>1. S \ {c} = S
    BY <1>2
  <2>2. Cardinality(S) \in Nat
    BY FS_CardinalityType
  <2>3. Cardinality(S) = Cardinality(S) + 0
    BY <2>2
  <2>4. IsFiniteSet(S \ {c}) /\ Cardinality(S \ {c}) = Cardinality(S)
    BY <2>1
  <2> QED
    BY <1>2, <2>2, <2>3, <2>4
<1> QED
  BY <1>1, <1>2

\* There are finitely many callers.
LEMMA CallersFinite == IsFiniteSet(Caller)
  BY PoolAssumption, FS_Union DEF Caller

\* A step of one caller leaves the others where they were.
LEMMA CallerMoves ==
    ASSUME PoolTypeOK, NEW c \in Caller, NEW q \in CallerPosition \cup {NoCaller}, CallerGoes(c, q)
    PROVE  /\ callers' \in [Caller -> CallerPosition \cup {NoCaller}]
           /\ callers'[c] = q
           /\ \A d \in Caller : d # c => callers'[d] = callers[d]
  BY DEF PoolTypeOK, CallerGoes

\* The callers in some positions, before and after a step of one of them.
LEMMA AtMoves ==
    ASSUME PoolTypeOK, NEW c \in Caller, NEW q \in CallerPosition \cup {NoCaller}, CallerGoes(c, q),
           NEW p \in Process, NEW positions
    PROVE  \E n \in Nat :
             /\ Cardinality(At(p, positions)) =
                  n + (IF Home[c] = p /\ callers[c].at \in positions THEN 1 ELSE 0)
             /\ Cardinality(At(p, positions)') =
                  n + (IF Home[c] = p /\ q.at \in positions THEN 1 ELSE 0)
<1> DEFINE S == At(p, positions)
           T == {d \in Caller : Home[d] = p /\ callers'[d].at \in positions}
<1>1. At(p, positions)' = T
  BY DEF At
<1>2. /\ callers'[c] = q
      /\ \A d \in Caller : d # c => callers'[d] = callers[d]
  BY CallerMoves
<1>3. IsFiniteSet(S) /\ IsFiniteSet(T)
  BY CallersFinite, FS_Subset DEF At
<1>4. S \ {c} = T \ {c}
  BY <1>2 DEF At
<1>5. (c \in S <=> Home[c] = p /\ callers[c].at \in positions) /\ (c \in T <=> Home[c] = p /\ q.at \in positions)
  BY <1>2 DEF At
<1> HIDE DEF S, T
<1>6. Cardinality(S) = Cardinality(S \ {c}) + (IF c \in S THEN 1 ELSE 0) /\ Cardinality(S \ {c}) \in Nat
  BY <1>3, CardinalityAround
<1>7. Cardinality(T) = Cardinality(S \ {c}) + (IF c \in T THEN 1 ELSE 0)
  BY <1>3, <1>4, CardinalityAround
<1> QED
  BY <1>1, <1>5, <1>6, <1>7 DEF S

\* A step changes the use of the caller's own pool by the weights of its positions.
LEMMA UsedMoves ==
    ASSUME PoolTypeOK, NEW c \in Caller, NEW q \in CallerPosition \cup {NoCaller}, CallerGoes(c, q),
           NEW p \in Process
    PROVE  /\ Used(p) \in Nat /\ Used(p)' \in Nat
           /\ p # Home[c] => Used(p)' = Used(p)
           /\ p = Home[c] => Used(p)' + Weight(callers[c].at) = Used(p) + Weight(q.at)
<1> DEFINE one == {"single", "lock", "second"}
           two == {"inside"}
<1>1. PICK m \in Nat :
        /\ Cardinality(At(p, one)) = m + (IF Home[c] = p /\ callers[c].at \in one THEN 1 ELSE 0)
        /\ Cardinality(At(p, one)') = m + (IF Home[c] = p /\ q.at \in one THEN 1 ELSE 0)
  BY AtMoves
<1>2. PICK n \in Nat :
        /\ Cardinality(At(p, two)) = n + (IF Home[c] = p /\ callers[c].at \in two THEN 1 ELSE 0)
        /\ Cardinality(At(p, two)') = n + (IF Home[c] = p /\ q.at \in two THEN 1 ELSE 0)
  BY AtMoves
<1>3. /\ Used(p) = Cardinality(At(p, one)) + 2 * Cardinality(At(p, two))
      /\ Used(p)' = Cardinality(At(p, one)') + 2 * Cardinality(At(p, two)')
  BY DEF Used
<1> QED
  BY <1>1, <1>2, <1>3 DEF Weight

\* A caller moves: it takes a connection only if its pool has one, and holds no
\* lock but in the positions past it.
LEMMA PoolMoves ==
    ASSUME PoolInv, NEW c \in Caller, NEW q \in CallerPosition \cup {NoCaller}, CallerGoes(c, q),
           \/ Weight(q.at) <= Weight(callers[c].at)
           \/ FreeConn(Home[c]) /\ Weight(q.at) = Weight(callers[c].at) + 1,
           holder' \in [LockKey -> Caller \cup {Nobody}],
           \A k \in LockKey : holder'[k] # Nobody =>
             \/ holder'[k] # c /\ holder'[k] = holder[k]
             \/ holder'[k] = c /\ q.at \in {"second", "inside"},
           q.at = "lock" => q.key \in LockKey
    PROVE  PoolInv'
<1>1. /\ callers' \in [Caller -> CallerPosition \cup {NoCaller}]
      /\ callers'[c] = q
      /\ \A d \in Caller : d # c => callers'[d] = callers[d]
  BY CallerMoves DEF PoolInv
<1>2. \A p \in Process : Used(p)' <= Size
  <2> SUFFICES ASSUME NEW p \in Process PROVE Used(p)' <= Size
    OBVIOUS
  <2> DEFINE u == Used(p)
             v == Used(p)'
             w == Weight(callers[c].at)
             x == Weight(q.at)
  <2>1. /\ u \in Nat /\ v \in Nat /\ (p # Home[c] => v = u) /\ (p = Home[c] => v + w = u + x)
    BY UsedMoves DEF PoolInv
  <2>2. u <= Size /\ Size \in Nat /\ w \in Nat /\ x \in Nat
    BY PoolAssumption DEF PoolInv, PoolTypeOK, Weight
  <2>3. x <= w \/ (Used(Home[c]) < Size /\ x = w + 1)
    BY DEF FreeConn
  <2>4. p = Home[c] => x <= w \/ (u < Size /\ x = w + 1)
    BY <2>3
  <2> HIDE DEF u, v, w, x
  <2>5. v <= Size
    BY <2>1, <2>2, <2>4
  <2> QED
    BY <2>5 DEF v
<1>3. PoolTypeOK'
  BY <1>1, <1>2 DEF PoolTypeOK
<1>4. LockHolders'
  <2>1. \A k \in LockKey : holder'[k] # Nobody => callers'[holder'[k]].at \in {"second", "inside"}
    <3> SUFFICES ASSUME NEW k \in LockKey, holder'[k] # Nobody
                 PROVE  callers'[holder'[k]].at \in {"second", "inside"}
      OBVIOUS
    <3>1. holder'[k] \in Caller
      OBVIOUS
    <3>2. CASE holder'[k] # c /\ holder'[k] = holder[k]
      BY <1>1, <3>1, <3>2 DEF PoolInv, LockHolders
    <3>3. CASE holder'[k] = c /\ q.at \in {"second", "inside"}
      BY <1>1, <3>3
    <3> QED
      BY <3>2, <3>3
  <2>2. \A d \in Caller : callers'[d].at = "lock" => callers'[d].key \in LockKey
    BY <1>1 DEF PoolInv, LockHolders
  <2> QED
    BY <2>1, <2>2 DEF LockHolders
<1> QED
  BY <1>3, <1>4 DEF PoolInv

\* A caller that is not past a lock holds none.
LEMMA HoldsNone ==
    ASSUME PoolInv, NEW c \in Caller, callers[c].at \notin {"second", "inside"}
    PROVE  /\ holder \in [LockKey -> Caller \cup {Nobody}]
           /\ \A k \in LockKey : holder[k] # Nobody => holder[k] # c
  BY DEF PoolInv, PoolTypeOK, LockHolders

\* The fields of a caller in progress.
LEMMA CallerShape ==
    ASSUME PoolInv, NEW c \in Caller, callers[c].at # "idle"
    PROVE  callers[c] \in CallerPosition
  BY DEF PoolInv, PoolTypeOK, NoCaller

\* Arrivals.
LEMMA ArriveInv ==
    ASSUME PoolInv, NEW c \in Caller, NEW k \in LockKey \cup {Nobody}, callers[c] = NoCaller,
           CallerGoes(c, [at |-> "acquire", key |-> k, todo |-> 0]), UNCHANGED holder
    PROVE  PoolInv'
<1> DEFINE q == [at |-> "acquire", key |-> k, todo |-> 0]
<1>1. q \in CallerPosition /\ q.at = "acquire"
  BY PoolAssumption DEF CallerPosition, Position
<1>2. callers[c].at = "idle"
  BY DEF NoCaller
<1>3. Weight(q.at) <= Weight(callers[c].at)
  BY <1>1, <1>2 DEF Weight
<1>4. /\ holder' \in [LockKey -> Caller \cup {Nobody}]
      /\ \A j \in LockKey : holder'[j] # Nobody => holder'[j] # c /\ holder'[j] = holder[j]
  BY <1>2, HoldsNone
<1> HIDE DEF q
<1>5. q.at # "lock" /\ CallerGoes(c, q)
  BY <1>1 DEF q
<1> QED
  BY <1>1, <1>3, <1>4, <1>5, PoolMoves

\* Pool.Acquire, and the end of a caller with one connection.
LEMMA AcquireInv ==
    ASSUME PoolInv, NEW c \in Caller, Acquire(c) \/ SingleDone(c)
    PROVE  PoolInv'
<1>1. callers[c].at \in {"acquire", "single"} /\ callers[c] \in CallerPosition /\ UNCHANGED holder
  BY CallerShape DEF Acquire, SingleDone
<1>2. /\ holder' \in [LockKey -> Caller \cup {Nobody}]
      /\ \A j \in LockKey : holder'[j] # Nobody => holder'[j] # c /\ holder'[j] = holder[j]
  BY <1>1, HoldsNone
<1>3. CASE Acquire(c)
  <2> DEFINE at == IF callers[c].key = Nobody THEN "single" ELSE "lock"
             q == [callers[c] EXCEPT !.at = at]
  <2>1. q \in CallerPosition /\ q.at = at /\ q.key = callers[c].key
    BY <1>1 DEF CallerPosition, Position
  <2>2. Weight(q.at) = Weight(callers[c].at) + 1 /\ FreeConn(Home[c]) /\ CallerGoes(c, q)
    BY <1>3, <2>1 DEF Weight, Acquire
  <2>3. q.at = "lock" => q.key \in LockKey
    BY <1>1, <2>1 DEF CallerPosition
  <2> HIDE DEF q
  <2> QED
    BY <1>2, <2>1, <2>2, <2>3, PoolMoves
<1>4. CASE SingleDone(c)
  <2>1. CallerGoes(c, NoCaller) /\ NoCaller.at = "idle"
    BY <1>4 DEF SingleDone, NoCaller
  <2>2. Weight(NoCaller.at) <= Weight(callers[c].at)
    BY <2>1 DEF Weight
  <2> QED
    BY <1>2, <2>1, <2>2, PoolMoves
<1> QED
  BY <1>3, <1>4

\* The advisory lock is granted to a caller that waits for it.
LEMMA TakesLockInv ==
    ASSUME PoolInv, NEW c \in Caller, callers[c].at = "lock", TakesLock(c)
    PROVE  PoolInv'
<1>1. PICK n \in 1..MaxStatements : CallerGoes(c, [callers[c] EXCEPT !.at = "second", !.todo = n])
  BY DEF TakesLock
<1> DEFINE q == [callers[c] EXCEPT !.at = "second", !.todo = n]
<1>2. callers[c] \in CallerPosition /\ callers[c].key \in LockKey
  BY CallerShape DEF PoolInv, LockHolders
<1>3. q \in CallerPosition /\ q.at = "second"
  <2>1. n \in 0..MaxStatements
    BY PoolAssumption
  <2>2. "second" \in Position
    BY DEF Position
  <2> QED
    BY <1>2, <2>1, <2>2 DEF CallerPosition
<1>4. Weight(q.at) <= Weight(callers[c].at)
  BY <1>3 DEF Weight
<1>5. /\ holder' \in [LockKey -> Caller \cup {Nobody}]
      /\ \A j \in LockKey : holder'[j] # Nobody => holder'[j] = c \/ (holder'[j] # c /\ holder'[j] = holder[j])
  BY <1>2, HoldsNone DEF TakesLock
<1> HIDE DEF q
<1> QED
  BY <1>1, <1>3, <1>4, <1>5, PoolMoves DEF q

\* A caller goes and its session's locks with it.
LEMMA LeaveInv ==
    ASSUME PoolInv, NEW c \in Caller, Leave(c)
    PROVE  PoolInv'
<1>1. CallerGoes(c, NoCaller) /\ NoCaller.at = "idle" /\ holder' = Unlocked(c)
  BY DEF Leave, NoCaller
<1>2. Weight(NoCaller.at) <= Weight(callers[c].at)
  BY <1>1 DEF Weight
<1>3. /\ holder' \in [LockKey -> Caller \cup {Nobody}]
      /\ \A j \in LockKey : holder'[j] # Nobody => holder'[j] # c /\ holder'[j] = holder[j]
  BY <1>1 DEF Unlocked, PoolInv, PoolTypeOK
<1> QED
  BY <1>1, <1>2, <1>3, PoolMoves

\* The end of a tick that did not get the lock.
LEMMA TryLeaderInv ==
    ASSUME PoolInv, NEW c \in Caller, TryLeader(c) \/ LockBatch(c)
    PROVE  PoolInv'
<1>1. callers[c].at = "lock"
  BY DEF TryLeader, LockBatch
<1>2. CASE TakesLock(c)
  BY <1>1, <1>2, TakesLockInv
<1>3. CASE CallerGoes(c, NoCaller) /\ UNCHANGED holder
  <2>1. NoCaller.at = "idle" /\ Weight(NoCaller.at) <= Weight(callers[c].at)
    BY DEF NoCaller, Weight
  <2>2. /\ holder' \in [LockKey -> Caller \cup {Nobody}]
        /\ \A j \in LockKey : holder'[j] # Nobody => holder'[j] # c /\ holder'[j] = holder[j]
    BY <1>1, <1>3, HoldsNone
  <2> QED
    BY <1>3, <2>1, <2>2, PoolMoves
<1> QED
  BY <1>2, <1>3 DEF TryLeader, LockBatch

\* The further statements of a caller that holds its lock.
LEMMA StatementInv ==
    ASSUME PoolInv, NEW c \in Caller, AcquireSecond(c) \/ StatementDone(c)
    PROVE  PoolInv'
<1>1. callers[c] \in CallerPosition /\ callers[c].at \in {"second", "inside"}
  BY CallerShape DEF AcquireSecond, StatementDone
<1>2. CASE Leave(c)
  BY <1>2, LeaveInv
<1>3. ASSUME UNCHANGED holder
      PROVE  /\ holder' \in [LockKey -> Caller \cup {Nobody}]
             /\ \A j \in LockKey : holder'[j] # Nobody =>
                  holder'[j] = c \/ (holder'[j] # c /\ holder'[j] = holder[j])
  BY <1>3 DEF PoolInv, PoolTypeOK
<1>4. CASE AcquireSecond(c)
  <2> DEFINE q == [callers[c] EXCEPT !.at = "inside"]
  <2>1. q \in CallerPosition /\ q.at = "inside" /\ CallerGoes(c, q)
    BY <1>1, <1>4 DEF CallerPosition, Position, AcquireSecond
  <2>2. Weight(q.at) = Weight(callers[c].at) + 1 /\ FreeConn(Home[c])
    BY <1>4, <2>1 DEF Weight, AcquireSecond
  <2>3. UNCHANGED holder
    BY <1>4 DEF AcquireSecond
  <2> HIDE DEF q
  <2> QED
    BY <1>3, <2>1, <2>2, <2>3, PoolMoves
<1>5. CASE StatementDone(c) /\ ~Leave(c)
  <2> DEFINE n == callers[c].todo - 1
             q == [callers[c] EXCEPT !.at = "second", !.todo = n]
  <2>1. /\ callers[c].todo > 1 /\ UNCHANGED holder
        /\ CallerGoes(c, [callers[c] EXCEPT !.at = "second", !.todo = @ - 1])
    BY <1>5 DEF StatementDone
  <2>2. n \in 0..MaxStatements
    BY <1>1, <2>1, PoolAssumption DEF CallerPosition
  <2>3. CallerGoes(c, q)
    BY <2>1
  <2> HIDE DEF n
  <2>4. q \in CallerPosition /\ q.at = "second"
    BY <1>1, <2>2 DEF CallerPosition, Position
  <2>5. Weight(q.at) <= Weight(callers[c].at)
    BY <1>1, <2>4 DEF Weight
  <2> HIDE DEF q
  <2> QED
    BY <1>3, <2>1, <2>3, <2>4, <2>5, PoolMoves
<1> QED
  BY <1>2, <1>4, <1>5

\* At the start the pools are unused.
LEMMA PoolInitInv == PoolInit => PoolInv
<1> SUFFICES ASSUME PoolInit PROVE PoolInv
  OBVIOUS
<1>1. \A c \in Caller : callers[c] = NoCaller /\ callers[c].at = "idle"
  BY DEF PoolInit, NoCaller
<1>2. \A p \in Process : Used(p) <= Size
  <2> SUFFICES ASSUME NEW p \in Process PROVE Used(p) <= Size
    OBVIOUS
  <2>1. At(p, {"single", "lock", "second"}) = {} /\ At(p, {"inside"}) = {}
    BY <1>1 DEF At
  <2>2. Used(p) = 0 + 2 * 0
    BY <2>1, FS_EmptySet DEF Used
  <2> QED
    BY <2>2, PoolAssumption
<1>3. /\ callers \in [Caller -> CallerPosition \cup {NoCaller}]
      /\ holder \in [LockKey -> Caller \cup {Nobody}]
  BY DEF PoolInit
<1>4. LockHolders
  BY <1>1 DEF PoolInit, LockHolders
<1> QED
  BY <1>2, <1>3, <1>4 DEF PoolInv, PoolTypeOK

\* No pool lends more connections than it has, and a lock is held only by a
\* caller past it, for any number of processes, requests and leader loops.
THEOREM PoolInvariant == PoolSpec => []PoolInv
<1>1. PoolInv /\ [PoolNext]_poolVars => PoolInv'
  <2> SUFFICES ASSUME PoolInv, [PoolNext]_poolVars PROVE PoolInv'
    OBVIOUS
  <2>1. ASSUME NEW r \in PoolRequest, ArriveRequest(r) \/ GiveUp(r) PROVE PoolInv'
    <3>1. r \in Caller
      BY DEF Caller
    <3>2. CASE GiveUp(r)
      BY <3>1, <3>2, LeaveInv DEF GiveUp
    <3>3. CASE ArriveRequest(r)
      <4>1. PICK k \in BatchKey \cup {Nobody} : CallerGoes(r, [at |-> "acquire", key |-> k, todo |-> 0])
        BY <3>3 DEF ArriveRequest
      <4>2. k \in LockKey \cup {Nobody}
        BY DEF LockKey
      <4> QED
        BY <3>1, <3>3, <4>1, <4>2, ArriveInv DEF ArriveRequest
    <3> QED
      BY <2>1, <3>2, <3>3
  <2>2. ASSUME NEW t \in Ticker, ArriveTicker(t) PROVE PoolInv'
    <3>1. t \in Caller /\ LeaderLock[t] \in LockKey \cup {Nobody}
      BY DEF Caller, LockKey
    <3> QED
      BY <2>2, <3>1, ArriveInv DEF ArriveTicker
  <2>3. ASSUME NEW c \in Caller, CallerStep(c) PROVE PoolInv'
    BY <2>3, AcquireInv, TryLeaderInv, StatementInv DEF CallerStep
  <2>4. CASE UNCHANGED poolVars
    <3>1. callers' = callers /\ holder' = holder
      BY <2>4 DEF poolVars
    <3>2. \A p \in Process : Used(p)' = Used(p)
      BY <3>1 DEF Used, At
    <3> QED
      BY <3>1, <3>2 DEF PoolInv, PoolTypeOK, LockHolders
  <2> QED
    BY <2>1, <2>2, <2>3, <2>4 DEF PoolNext
<1> QED
  BY <1>1, PoolInitInv, PTL DEF PoolSpec

\* Batches, leader loops and all other callers can wait on each other for ever
\* only when one pool is taken entirely by callers that keep a connection and
\* ask for one more (Engine.Batch, the ticks; store.Open's MaxConns).
THEOREM PoolIsSafe == PoolSpec => []PoolSafe
<1>1. PoolInv => PoolSafe
  <2> SUFFICES ASSUME PoolInv, Busy # {}, \A c \in Busy : Waits(c)
               PROVE  \E p \in Process : Cardinality(At(p, {"lock", "second"})) = Size
    BY DEF PoolInv, PoolSafe, StuckOnlyWhenFull
  <2>1. \A c \in Caller : callers[c].at # "idle" => Waits(c)
    BY DEF Busy, NoCaller
  <2>2. \A c \in Caller : callers[c].at \in {"idle", "acquire", "lock", "second"}
    <3> SUFFICES ASSUME NEW c \in Caller, callers[c].at # "idle"
                 PROVE  callers[c].at \in {"acquire", "lock", "second"}
      OBVIOUS
    <3> QED
      BY <2>1 DEF Waits
  <2>3. CASE \E c \in Caller : callers[c].at \in {"acquire", "second"}
    <3>1. PICK c \in Caller : callers[c].at \in {"acquire", "second"}
      BY <2>3
    <3> DEFINE p == Home[c]
    <3>2. p \in Process /\ ~FreeConn(p)
      BY <2>1, <3>1, PoolAssumption DEF Waits
    <3>3. At(p, {"inside"}) = {} /\ At(p, {"single", "lock", "second"}) = At(p, {"lock", "second"})
      BY <2>2 DEF At
    <3> DEFINE n == Cardinality(At(p, {"lock", "second"}))
    <3>4. n \in Nat
      <4>1. IsFiniteSet(At(p, {"lock", "second"}))
        BY CallersFinite, FS_Subset DEF At
      <4> QED
        BY <4>1, FS_CardinalityType
    <3>5. Used(p) = n
      <4>1. Used(p) = n + 2 * 0
        BY <3>3, FS_EmptySet DEF Used
      <4> HIDE DEF n
      <4> QED
        BY <3>4, <4>1
    <3>6. n = Size
      <4>1. n <= Size /\ ~(n < Size) /\ Size \in Nat
        BY <3>2, <3>5, PoolAssumption DEF PoolInv, PoolTypeOK, FreeConn
      <4> HIDE DEF n
      <4> QED
        BY <3>4, <4>1
    <3> QED
      BY <3>2, <3>6
  <2>4. CASE \A c \in Caller : callers[c].at \notin {"acquire", "second"}
    <3>1. PICK c \in Caller : callers[c] # NoCaller
      BY DEF Busy
    <3>2. callers[c].at # "idle"
      BY <3>1 DEF PoolInv, PoolTypeOK, CallerPosition, Position
    <3>3. callers[c].at = "lock" /\ Waits(c)
      BY <2>1, <2>2, <2>4, <3>2
    <3>4. holder[callers[c].key] # Nobody /\ callers[c].key \in LockKey
      BY <3>3 DEF Waits, PoolInv, LockHolders
    <3>5. /\ holder[callers[c].key] \in Caller
          /\ callers[holder[callers[c].key]].at \in {"second", "inside"}
      BY <3>4 DEF PoolInv, PoolTypeOK, LockHolders
    <3> QED
      BY <2>2, <2>4, <3>5
  <2> QED
    BY <2>3, <2>4
<1> QED
  BY <1>1, PoolInvariant, PTL
-----------------------------------------------------------------------------
(***************************************************************************)
(* The event outbox and the stream. The order of the stream rests on what  *)
(* ORDER BY id gives: the elements of a finite set of ids, each once,      *)
(* ascending, so that the cursor is the greatest id sent.                  *)
(***************************************************************************)

\* Ids before i in S.
Before(S, i) == {j \in S : j < i}

\* The place of an id in a finite set grows with the id.
LEMMA PlacesGrow ==
    ASSUME NEW S, \A x \in S : x \in Nat, IsFiniteSet(S), NEW i \in S, NEW j \in S
    PROVE  /\ Cardinality(Before(S, i)) \in 0..(Cardinality(S) - 1)
           /\ i < j => Cardinality(Before(S, i)) < Cardinality(Before(S, j))
<1>1. Before(S, i) \subseteq S /\ i \notin Before(S, i) /\ Before(S, j) \subseteq S
  BY DEF Before
<1>2. /\ IsFiniteSet(Before(S, i)) /\ IsFiniteSet(Before(S, j))
      /\ Cardinality(Before(S, i)) <= Cardinality(S) /\ Cardinality(Before(S, i)) # Cardinality(S)
  BY <1>1, FS_Subset
<1>3. Cardinality(S) \in Nat /\ Cardinality(Before(S, i)) \in Nat /\ Cardinality(Before(S, j)) \in Nat
  BY <1>2, FS_CardinalityType
<1>4. ASSUME i < j PROVE Cardinality(Before(S, i)) < Cardinality(Before(S, j))
  <2>1. Before(S, i) \subseteq Before(S, j) /\ i \in Before(S, j)
    BY <1>4 DEF Before
  <2>2. Cardinality(Before(S, i)) <= Cardinality(Before(S, j)) /\ Cardinality(Before(S, i)) # Cardinality(Before(S, j))
    BY <1>1, <1>2, <2>1, FS_Subset
  <2> QED
    BY <1>3, <2>2
<1> QED
  BY <1>2, <1>3, <1>4

\* Every place up to the size of the set is taken.
LEMMA PlacesTaken ==
    ASSUME NEW S, \A x \in S : x \in Nat, IsFiniteSet(S), NEW n \in 1..Cardinality(S)
    PROVE  \E i \in S : Cardinality(Before(S, i)) = n - 1
<1> DEFINE N == Cardinality(S)
           T == 0..(N - 1)
           f == [i \in S |-> Cardinality(Before(S, i))]
<1>1. N \in Nat
  BY FS_CardinalityType
<1>2. IsFiniteSet(T) /\ Cardinality(T) = N
  <2>1. N - 1 \in Int /\ 0 \in Int
    BY <1>1
  <2> HIDE DEF N
  <2>2. IsFiniteSet(T) /\ Cardinality(T) = IF 0 > N - 1 THEN 0 ELSE (N - 1) - 0 + 1
    BY <2>1, FS_Interval
  <2> QED
    BY <1>1, <2>2
<1>3. f \in [S -> T]
  BY PlacesGrow
<1>4. \A i, j \in S : i # j => f[i] # f[j]
  <2> SUFFICES ASSUME NEW i \in S, NEW j \in S, i # j PROVE f[i] # f[j]
    OBVIOUS
  <2>1. i \in Nat /\ j \in Nat /\ f[i] \in Int /\ f[j] \in Int
    BY <1>1, <1>3
  <2>2. f[i] = Cardinality(Before(S, i)) /\ f[j] = Cardinality(Before(S, j))
    OBVIOUS
  <2> HIDE DEF f
  <2>3. i < j => f[i] < f[j]
    BY <2>2, PlacesGrow
  <2>4. j < i => f[j] < f[i]
    BY <2>2, PlacesGrow
  <2> QED
    BY <2>1, <2>3, <2>4
<1> HIDE DEF f, T
<1>5. f \in Injection(S, T)
  BY <1>3, <1>4 DEF Injection, IsInjective
<1>6. f \in Surjection(S, T)
  BY <1>2, <1>5, FS_Injection
<1>7. n - 1 \in T
  BY <1>1 DEF T
<1>8. \E i \in S : f[i] = n - 1
  BY <1>6, <1>7 DEF Surjection
<1> QED
  BY <1>8 DEF f

\* InOrder lists the set, ascending, each element once.
LEMMA InOrderLists ==
    ASSUME NEW S, \A x \in S : x \in Nat, IsFiniteSet(S)
    PROVE  /\ InOrder(S) \in Seq(S) /\ Len(InOrder(S)) = Cardinality(S) /\ Cardinality(S) \in Nat
           /\ \A m, n \in 1..Cardinality(S) : m < n => InOrder(S)[m] < InOrder(S)[n]
           /\ \A i \in S : \E n \in 1..Cardinality(S) : InOrder(S)[n] = i
<1> DEFINE N == Cardinality(S)
           s == InOrder(S)
<1>1. N \in Nat
  BY FS_CardinalityType
<1>2. ASSUME NEW n \in 1..N PROVE s[n] \in S /\ Cardinality(Before(S, s[n])) = n - 1
  <2>1. \E i \in S : Cardinality({j \in S : j < i}) = n - 1
    BY PlacesTaken DEF Before
  <2>2. s[n] = CHOOSE i \in S : Cardinality({j \in S : j < i}) = n - 1
    BY DEF InOrder
  <2>3. s[n] \in S /\ Cardinality({j \in S : j < s[n]}) = n - 1
    BY <2>1, <2>2
  <2> QED
    BY <2>3 DEF Before
<1>3. DOMAIN s = 1..N
  BY DEF InOrder
<1>4. s \in [1..N -> S]
  BY <1>2, <1>3 DEF InOrder
<1>5. s \in Seq(S) /\ Len(s) = N
  BY <1>1, <1>4
<1>6. ASSUME NEW m \in 1..N, NEW n \in 1..N, m < n PROVE s[m] < s[n]
  <2>1. s[m] \in S /\ s[n] \in S /\ Cardinality(Before(S, s[m])) = m - 1 /\ Cardinality(Before(S, s[n])) = n - 1
    BY <1>2
  <2>2. s[m] \in Nat /\ s[n] \in Nat /\ s[m] # s[n]
    BY <1>1, <1>6, <2>1
  <2>3. ~(s[n] < s[m])
    BY <1>1, <1>6, <2>1, PlacesGrow
  <2> QED
    BY <2>2, <2>3
<1>7. ASSUME NEW i \in S PROVE \E n \in 1..N : s[n] = i
  <2> DEFINE k == Cardinality(Before(S, i))
  <2>1. k \in 0..(N - 1)
    BY PlacesGrow
  <2>2. k + 1 \in 1..N /\ (k + 1) - 1 = k
    BY <1>1, <2>1
  <2> HIDE DEF k, s
  <2>3. s[k + 1] \in S /\ Cardinality(Before(S, s[k + 1])) = k
    BY <1>2, <2>2
  <2>4. s[k + 1] \in Nat /\ i \in Nat /\ k \in Int
    BY <2>1, <2>3
  <2>5. ~(s[k + 1] < i) /\ ~(i < s[k + 1])
    <3>1. s[k + 1] < i => k < Cardinality(Before(S, i))
      BY <2>3, PlacesGrow
    <3>2. i < s[k + 1] => Cardinality(Before(S, i)) < k
      BY <2>3, PlacesGrow
    <3>3. Cardinality(Before(S, i)) = k
      BY DEF k
    <3> QED
      BY <2>4, <3>1, <3>2, <3>3
  <2>6. s[k + 1] = i
    BY <2>4, <2>5
  <2> QED
    BY <2>2, <2>6
<1> QED
  BY <1>1, <1>5, <1>6, <1>7

\* A finite set of ids has a greatest and a least one; the greatest comes last.
LEMMA Extremes ==
    ASSUME NEW S, \A x \in S : x \in Nat, IsFiniteSet(S), S # {}
    PROVE  /\ Max(S) \in S /\ \A i \in S : i <= Max(S)
           /\ Min(S) \in S
           /\ Cardinality(S) \in Nat \ {0} /\ InOrder(S)[Cardinality(S)] = Max(S)
<1> DEFINE N == Cardinality(S)
           s == InOrder(S)
<1>1. N \in Nat /\ N # 0
  BY FS_CardinalityType, FS_EmptySet
<1>2. /\ s \in Seq(S) /\ Len(s) = N
      /\ \A m, n \in 1..N : m < n => s[m] < s[n]
      /\ \A i \in S : \E n \in 1..N : s[n] = i
  BY InOrderLists
<1> HIDE DEF s, N
<1>3. s[N] \in S /\ s[1] \in S /\ s[N] \in Nat /\ s[1] \in Nat
  BY <1>1, <1>2
<1>4. ASSUME NEW i \in S PROVE i <= s[N] /\ s[1] <= i
  <2>1. PICK n \in 1..N : s[n] = i
    BY <1>2
  <2>2. n < N => s[n] < s[N]
    BY <1>1, <1>2, <2>1
  <2>3. 1 < n => s[1] < s[n]
    BY <1>1, <1>2, <2>1
  <2> QED
    BY <1>1, <1>3, <2>1, <2>2, <2>3
<1>5. Max(S) \in S /\ \A i \in S : Max(S) >= i
  BY <1>3, <1>4 DEF Max
<1>6. Min(S) \in S
  BY <1>3, <1>4 DEF Min
<1>7. s[N] = Max(S)
  BY <1>3, <1>4, <1>5
<1> QED
  BY <1>1, <1>5, <1>6, <1>7 DEF s, N
\* A relay has published of its batch what it says.
BatchesOnBus == \A r \in Relayer : relays[r].done \subseteq relays[r].rows /\ relays[r].done \subseteq bus

\* The cursor stands at the last event sent.
CursorAtLast == got # <<>> => stream.cursor = got[Len(got)]

\* What a reconnection jumped over lies behind the cursor.
GapBehind == (\A i \in gap : i <= stream.cursor) /\ (stream.at = "new" => gap = {})

\* The inductive invariant.
OutboxInv == OutboxSafe /\ BatchesOnBus /\ CursorAtLast /\ GapBehind

\* Sets of event ids are finite sets of numbers.
LEMMA IdSets ==
    ASSUME NEW S, S \subseteq Id
    PROVE  IsFiniteSet(S) /\ IsFiniteSet(S \cup {0}) /\ (\A x \in S : x \in Nat) /\ (\A x \in S \cup {0} : x \in Nat)
<1>1. \A x \in Id : x \in Nat
  BY OutboxAssumption DEF Id
<1>2. IsFiniteSet(Id)
  BY FS_Interval, OutboxAssumption DEF Id
<1>3. IsFiniteSet(S)
  BY <1>2, FS_Subset
<1> QED
  BY <1>1, <1>3, FS_AddElement

\* The rows a query returns are of the set; what precedes one of them is there too.
LEMMA FirstRowsPrefix ==
    ASSUME NEW S, \A x \in S : x \in Nat, IsFiniteSet(S), NEW n \in Nat
    PROVE  /\ FirstRows(S, n) \subseteq S
           /\ \A i \in FirstRows(S, n), j \in S : j <= i => j \in FirstRows(S, n)
<1>1. FirstRows(S, n) = {i \in S : Cardinality(Before(S, i)) < n}
  BY DEF FirstRows, Before
<1>2. ASSUME NEW i \in FirstRows(S, n), NEW j \in S, j <= i PROVE j \in FirstRows(S, n)
  <2>1. i \in S /\ Cardinality(Before(S, i)) < n
    BY <1>1
  <2>2. /\ Cardinality(Before(S, i)) \in 0..(Cardinality(S) - 1) /\ Cardinality(Before(S, j)) \in 0..(Cardinality(S) - 1)
        /\ j < i => Cardinality(Before(S, j)) < Cardinality(Before(S, i))
    BY <2>1, PlacesGrow
  <2>3. Cardinality(S) \in Nat
    BY FS_CardinalityType
  <2>4. i \in Nat /\ j \in Nat
    BY <2>1
  <2>5. Cardinality(Before(S, j)) < n
    <3>1. CASE j < i
      BY <2>1, <2>2, <2>3, <3>1
    <3>2. CASE j = i
      BY <2>1, <3>2
    <3> QED
      BY <1>2, <2>4, <3>1, <3>2
  <2> QED
    BY <1>1, <2>5
<1> QED
  BY <1>1, <1>2

\* Audited transactions: an event that commits behind the cursor is late.
LEMMA WriteInv ==
    ASSUME OutboxInv, Write
    PROVE  OutboxInv'
<1>1. UNCHANGED <<marked, relays, bus, stream, got, since, relayFaults, gap>>
  BY DEF Write, AuditTx, CommitEvent, Rollback
<1>2. /\ drawn \in 0..MaxEvent /\ open \in [Writer -> Id \cup {0}] /\ committed \subseteq Id /\ late \subseteq Id
      /\ stream \in [at : {"new", "on", "off"}, cursor : Id \cup {0}] /\ MaxEvent \in Nat
  BY OutboxAssumption DEF OutboxInv, OutboxSafe, OutboxTypeOK
<1>3. PICK w \in Writer : AuditTx(w) \/ CommitEvent(w) \/ Rollback(w)
  BY DEF Write
<1>4. drawn' \in 0..MaxEvent /\ open' \in [Writer -> Id \cup {0}]
  <2>1. CASE AuditTx(w)
    <3>1. drawn + 1 \in Id /\ drawn + 1 \in 0..MaxEvent
      BY <1>2, <2>1 DEF AuditTx, Id
    <3> QED
      BY <1>2, <2>1, <3>1 DEF AuditTx
  <2>2. CASE CommitEvent(w) \/ Rollback(w)
    BY <1>2, <2>2 DEF CommitEvent, Rollback
  <2> QED
    BY <1>3, <2>1, <2>2
<1>5. \/ UNCHANGED <<committed, late>>
      \/ /\ open[w] \in Id /\ committed' = committed \cup {open[w]}
         /\ late' = IF open[w] <= stream.cursor THEN late \cup {open[w]} ELSE late
  BY <1>2, <1>3 DEF AuditTx, CommitEvent, Rollback
<1>6. committed' \subseteq Id /\ late' \subseteq Id /\ late \subseteq late' /\ committed \subseteq committed'
  BY <1>2, <1>5
<1>7. OutboxTypeOK'
  BY <1>1, <1>4, <1>6 DEF OutboxInv, OutboxSafe, OutboxTypeOK
<1>8. MarkedReachedBus' /\ StreamOrdered' /\ BatchesOnBus' /\ CursorAtLast' /\ GapBehind'
  BY <1>1 DEF OutboxInv, OutboxSafe, MarkedReachedBus, StreamOrdered, BatchesOnBus, CursorAtLast, GapBehind
<1>9. SkipsOnlyLate'
  <2> SUFFICES ASSUME NEW i \in committed', since < i, i <= stream.cursor, i \notin ToSet(got)
               PROVE  i \in late' \cup gap
    BY <1>1 DEF OutboxInv, OutboxSafe, SkipsOnlyLate
  <2>1. CASE i \in committed
    BY <1>6, <2>1 DEF OutboxInv, OutboxSafe, SkipsOnlyLate
  <2>2. CASE i \notin committed
    BY <1>5, <2>2
  <2> QED
    BY <2>1, <2>2
<1> QED
  BY <1>7, <1>8, <1>9 DEF OutboxInv, OutboxSafe

\* A relay: what it marks at the commit, it published before.
LEMMA RelayInv ==
    ASSUME OutboxInv, NEW r \in Relayer, RelayStep(r) \/ RelayFails(r)
    PROVE  OutboxInv'
<1>1. UNCHANGED <<drawn, open, committed, stream, got, since, late, gap>>
  BY DEF RelayStep, RelayFails, Select, Publish, RelayCommit
<1>2. /\ relays \in [Relayer -> [rows : SUBSET Id, done : SUBSET Id]] /\ bus \subseteq Id /\ marked \subseteq Id
      /\ marked \subseteq bus /\ committed \subseteq Id /\ relayFaults \in 0..MaxRelayFaults
      /\ \A q \in Relayer : relays[q].done \subseteq relays[q].rows /\ relays[q].done \subseteq bus
  BY DEF OutboxInv, OutboxSafe, OutboxTypeOK, MarkedReachedBus, BatchesOnBus
<1>3. NoBatch \in [rows : SUBSET Id, done : SUBSET Id] /\ NoBatch.done = {} /\ NoBatch.rows = {}
  BY DEF NoBatch
<1>4. /\ relays' \in [Relayer -> [rows : SUBSET Id, done : SUBSET Id]] /\ bus' \subseteq Id /\ marked' \subseteq bus'
      /\ relayFaults' \in 0..MaxRelayFaults
      /\ \A q \in Relayer : relays'[q].done \subseteq relays'[q].rows /\ relays'[q].done \subseteq bus'
  <2>1. CASE Select(r)
    <3> DEFINE first == FirstRows(Unpublished \ LockedRows, Batch)
    <3>1. first \subseteq Id
      BY <1>2 DEF FirstRows, Unpublished
    <3>2. /\ relays' = [relays EXCEPT ![r].rows = first] /\ UNCHANGED <<marked, bus, relayFaults>>
          /\ relays[r].done = {}
      BY <1>3, <2>1 DEF Select
    <3> HIDE DEF first
    <3> QED
      BY <1>2, <3>1, <3>2
  <2>2. CASE Publish(r)
    <3> DEFINE left == relays[r].rows \ relays[r].done
               i == Min(left)
    <3>1. left \subseteq Id /\ left # {}
      BY <1>2, <2>2 DEF Publish
    <3>2. i \in left
      BY <3>1, IdSets, Extremes
    <3>3. /\ bus' = bus \cup {i} /\ relays' = [relays EXCEPT ![r].done = @ \cup {i}]
          /\ UNCHANGED <<marked, relayFaults>>
      BY <2>2 DEF Publish
    <3> HIDE DEF i
    <3> QED
      BY <1>2, <3>2, <3>3
  <2>3. CASE RelayCommit(r)
    BY <1>2, <1>3, <2>3 DEF RelayCommit, BatchDone
  <2>4. CASE RelayFails(r)
    <3>1. bus \subseteq bus' /\ bus' \subseteq Id
      BY <1>2, <2>4 DEF RelayFails, FirstRows
    <3>2. relays' = [relays EXCEPT ![r] = NoBatch] /\ UNCHANGED marked /\ relayFaults' \in 0..MaxRelayFaults
      BY <1>2, <2>4, OutboxAssumption DEF RelayFails, RelayFault
    <3> QED
      BY <1>2, <1>3, <3>1, <3>2
  <2> QED
    BY <2>1, <2>2, <2>3, <2>4 DEF RelayStep
<1>5. OutboxTypeOK' /\ MarkedReachedBus' /\ BatchesOnBus'
  BY <1>1, <1>4 DEF OutboxInv, OutboxSafe, OutboxTypeOK, MarkedReachedBus, BatchesOnBus
<1>6. StreamOrdered' /\ SkipsOnlyLate' /\ CursorAtLast' /\ GapBehind'
  BY <1>1 DEF OutboxInv, OutboxSafe, StreamOrdered, SkipsOnlyLate, CursorAtLast, GapBehind
<1> QED
  BY <1>5, <1>6 DEF OutboxInv, OutboxSafe

\* The browser connects: it goes on where it stopped, or starts at the newest
\* event, or at 0 when that cannot be read.
LEMMA ConnectInv ==
    ASSUME OutboxInv, StreamConnects
    PROVE  OutboxInv'
<1>1. UNCHANGED <<drawn, open, committed, marked, relays, bus, got, late>>
  BY DEF StreamConnects
<1>2. /\ committed \subseteq Id /\ got \in Seq(Id) /\ late \subseteq Id /\ since \in Id \cup {0} /\ gap \subseteq committed
      /\ stream \in [at : {"new", "on", "off"}, cursor : Id \cup {0}] /\ relayFaults \in 0..MaxRelayFaults
      /\ got # <<>> => stream.cursor = got[Len(got)]
  BY DEF OutboxInv, OutboxSafe, OutboxTypeOK, CursorAtLast
<1>3. PICK c : ConnectAt(c) /\ c \in Id \cup {0} /\ (got # <<>> => c = stream.cursor)
  <2>1. got # <<>> => StartCursor = got[Len(got)] /\ got[Len(got)] \in Id
    BY <1>2 DEF StartCursor, Last
  <2>2. got = <<>> => StartCursor \in Id \cup {0}
    <3>1. Max(committed \cup {0}) \in committed \cup {0}
      BY <1>2, IdSets, Extremes
    <3> QED
      BY <1>2, <3>1 DEF StartCursor
  <2> QED
    BY <1>2, <2>1, <2>2 DEF StreamConnects
<1>4. relayFaults' \in 0..MaxRelayFaults
  BY <1>2, OutboxAssumption DEF StreamConnects, RelayFault
<1>5. stream' = [at |-> "on", cursor |-> c] /\ stream'.cursor = c /\ stream'.at = "on"
  BY <1>3 DEF ConnectAt
<1>6. /\ stream.at = "new" => since' = c /\ gap' = gap
      /\ stream.at # "new" => since' = since /\ gap' = {i \in committed : (i \in gap \/ stream.cursor < i) /\ i <= c}
  BY <1>3 DEF ConnectAt
<1>7. c \in Nat /\ stream.cursor \in Nat /\ \A i \in committed : i \in Nat
  BY <1>2, <1>3, OutboxAssumption DEF Id
<1>8. gap' \subseteq committed /\ since' \in Id \cup {0}
  BY <1>2, <1>3, <1>6
<1>9. OutboxTypeOK'
  BY <1>1, <1>2, <1>3, <1>4, <1>5, <1>8 DEF OutboxInv, OutboxSafe, OutboxTypeOK
<1>10. MarkedReachedBus' /\ StreamOrdered' /\ BatchesOnBus' /\ CursorAtLast'
  BY <1>1, <1>2, <1>3, <1>5 DEF OutboxInv, OutboxSafe, MarkedReachedBus, StreamOrdered, BatchesOnBus, CursorAtLast
<1>11. GapBehind'
  BY <1>5, <1>6 DEF OutboxInv, GapBehind
<1>12. ASSUME NEW i \in committed, since' < i, i <= c, i \notin ToSet(got)
       PROVE  i \in late \cup gap'
  <2>1. CASE stream.at = "new"
    BY <1>6, <1>7, <1>12, <2>1
  <2>2. CASE stream.at # "new" /\ stream.cursor < i
    BY <1>6, <1>12, <2>2
  <2>3. CASE stream.at # "new" /\ i <= stream.cursor
    <3>1. i \in late \cup gap
      BY <1>6, <1>12, <2>3 DEF OutboxInv, OutboxSafe, SkipsOnlyLate
    <3> QED
      BY <1>6, <1>12, <2>3, <3>1
  <2> QED
    BY <1>7, <2>1, <2>2, <2>3
<1>13. ASSUME got # <<>>, NEW i \in gap' PROVE i < Head(got)
  <2>1. i \in gap
    BY <1>3, <1>6, <1>7, <1>13
  <2> QED
    BY <1>13, <2>1 DEF OutboxInv, OutboxSafe, SkipsOnlyLate
<1>14. SkipsOnlyLate'
  BY <1>1, <1>5, <1>12, <1>13 DEF SkipsOnlyLate
<1> QED
  BY <1>9, <1>10, <1>11, <1>14 DEF OutboxInv, OutboxSafe

\* What a sequence holds once another is appended to it.
LEMMA Appended ==
    ASSUME NEW T, NEW p \in Seq(T), NEW q \in Seq(T)
    PROVE  /\ p \o q \in Seq(T) /\ Len(p \o q) = Len(p) + Len(q)
           /\ \A n \in 1..Len(p) : (p \o q)[n] = p[n]
           /\ \A n \in 1..Len(q) : (p \o q)[Len(p) + n] = q[n]
<1>1. p \o q \in Seq(T) /\ Len(p \o q) = Len(p) + Len(q)
  OBVIOUS
<1>2. \A n \in 1..Len(p) : (p \o q)[n] = p[n]
  OBVIOUS
<1>3. ASSUME NEW n \in 1..Len(q) PROVE (p \o q)[Len(p) + n] = q[n]
  <2>1. Len(p) \in Nat /\ Len(q) \in Nat /\ n \in Nat /\ 1 <= n /\ n <= Len(q)
    OBVIOUS
  <2>2. Len(p) + n \in 1..(Len(p) + Len(q)) /\ ~(Len(p) + n <= Len(p)) /\ (Len(p) + n) - Len(p) = n
    BY <2>1
  <2> QED
    BY <2>1, <2>2
<1> QED
  BY <1>1, <1>2, <1>3

\* A poll: the next rows are sent in order and the cursor follows them.
LEMMA PollInv ==
    ASSUME OutboxInv, Poll
    PROVE  OutboxInv'
<1>0. PICK n \in 1..Page :
        /\ Polled(n) # {} /\ got' = got \o InOrder(Polled(n))
        /\ stream' = [at |-> IF Polled(n) = Polled(Page) THEN "on" ELSE "off", cursor |-> CursorAfter(Polled(n))]
  BY DEF Poll
<1> DEFINE S == {i \in committed : i > stream.cursor}
           P == Polled(n)
           s == InOrder(P)
           N == Cardinality(P)
<1>1. /\ P # {} /\ got' = got \o s /\ stream'.cursor = Max(P) /\ stream'.at \in {"on", "off"}
      /\ stream' = [at |-> stream'.at, cursor |-> stream'.cursor]
      /\ UNCHANGED <<drawn, open, committed, marked, relays, bus, since, late, gap, relayFaults>>
  BY <1>0 DEF Poll, CursorAfter
<1>2. /\ committed \subseteq Id /\ got \in Seq(Id) /\ stream \in [at : {"new", "on", "off"}, cursor : Id \cup {0}]
      /\ got # <<>> => stream.cursor = got[Len(got)]
      /\ \A j, k \in DOMAIN got : j < k => got[j] < got[k]
      /\ n \in Nat
  BY OutboxAssumption DEF OutboxInv, OutboxSafe, OutboxTypeOK, CursorAtLast, StreamOrdered
<1>3. /\ S \subseteq Id /\ IsFiniteSet(S) /\ \A x \in S : x \in Nat
  BY <1>2, IdSets
<1>4. P = FirstRows(S, n)
  BY DEF Polled
<1>5. P \subseteq S /\ \A i \in P, j \in S : j <= i => j \in P
  <2>1. n \in Nat /\ IsFiniteSet(S) /\ \A x \in S : x \in Nat
    BY <1>2, <1>3
  <2> HIDE DEF S
  <2>2. /\ FirstRows(S, n) \subseteq S
        /\ \A i \in FirstRows(S, n), j \in S : j <= i => j \in FirstRows(S, n)
    BY ONLY <2>1, FirstRowsPrefix
  <2> QED
    BY <1>4, <2>2
<1>6. P \subseteq Id /\ IsFiniteSet(P) /\ (\A x \in P : x \in Nat) /\ \A i \in P : i > stream.cursor
  BY <1>3, <1>5, IdSets
<1> HIDE DEF P
<1>7. /\ s \in Seq(P) /\ Len(s) = N /\ N \in Nat
      /\ \A j, k \in 1..N : j < k => s[j] < s[k]
      /\ \A i \in P : \E k \in 1..N : s[k] = i
  BY <1>6, InOrderLists
<1>8. Max(P) \in P /\ (\A i \in P : i <= Max(P)) /\ N \in Nat \ {0} /\ s[N] = Max(P)
  BY <1>1, <1>6, Extremes
<1> HIDE DEF s, N
<1>9. s \in Seq(Id) /\ \A k \in 1..N : s[k] \in P
  BY <1>6, <1>7
<1> DEFINE L == Len(got)
<1>10. L \in Nat /\ DOMAIN got = 1..L
  BY <1>2
<1>11. /\ got' \in Seq(Id) /\ Len(got') = L + N
       /\ \A k \in 1..L : got'[k] = got[k]
       /\ \A k \in 1..N : got'[L + k] = s[k]
  <2>1. got \in Seq(Id) /\ s \in Seq(Id)
    BY <1>2, <1>9
  <2>2. /\ (got \o s) \in Seq(Id) /\ Len(got \o s) = Len(got) + Len(s)
        /\ \A k \in 1..Len(got) : (got \o s)[k] = got[k]
        /\ \A k \in 1..Len(s) : (got \o s)[Len(got) + k] = s[k]
    BY ONLY <2>1, Appended
  <2>3. got' = got \o s /\ Len(s) = N
    BY <1>1, <1>7
  <2> QED
    BY <2>2, <2>3, Zenon
<1> HIDE DEF L
<1>12. OutboxTypeOK'
  <2>1. stream' \in [at : {"new", "on", "off"}, cursor : Id \cup {0}]
    BY <1>1, <1>2, <1>6, <1>8
  <2> QED
    BY <1>1, <1>11, <2>1 DEF OutboxInv, OutboxSafe, OutboxTypeOK
<1>13. stream'.cursor = Max(P)
  BY <1>1
<1>14. CursorAtLast'
  BY <1>7, <1>8, <1>10, <1>11, <1>13 DEF CursorAtLast
<1>15. ASSUME NEW m \in 1..L PROVE got[m] <= stream.cursor /\ got[m] \in Nat /\ stream.cursor \in Nat
  <2>1. L \in 1..L /\ got # <<>> /\ got[m] \in Id /\ got[L] \in Id
    BY <1>2, <1>10 DEF L
  <2>2. stream.cursor = got[L] /\ got[m] \in Nat /\ got[L] \in Nat
    BY <1>2, <2>1, OutboxAssumption DEF L, Id
  <2>3. m < L => got[m] < got[L]
    BY <1>2, <1>10, <2>1
  <2> QED
    BY <1>10, <2>2, <2>3
<1>16. StreamOrdered'
  <2> SUFFICES ASSUME NEW m \in 1..(L + N), NEW k \in 1..(L + N), m < k PROVE got'[m] < got'[k]
    BY <1>11 DEF StreamOrdered
  <2>1. CASE k <= L
    <3>1. m \in 1..L /\ k \in 1..L
      BY <1>7, <1>10, <2>1
    <3> QED
      BY <1>2, <1>10, <1>11, <3>1
  <2>2. CASE m <= L /\ k > L
    <3>1. m \in 1..L /\ k - L \in 1..N /\ L + (k - L) = k
      BY <1>7, <1>10, <2>2
    <3>2. got'[m] = got[m] /\ got'[k] = s[k - L]
      BY <1>11, <3>1
    <3>3. s[k - L] \in P
      BY <1>9, <3>1
    <3>4. s[k - L] > stream.cursor /\ s[k - L] \in Nat
      BY <1>6, <3>3
    <3>5. got[m] <= stream.cursor /\ got[m] \in Nat /\ stream.cursor \in Nat
      BY <1>15, <3>1
    <3> QED
      BY <3>2, <3>4, <3>5
  <2>3. CASE m > L
    <3>1. m - L \in 1..N /\ k - L \in 1..N /\ L + (m - L) = m /\ L + (k - L) = k /\ m - L < k - L
      BY <1>7, <1>10, <2>3
    <3>2. got'[m] = s[m - L] /\ got'[k] = s[k - L]
      BY <1>11, <3>1
    <3> QED
      BY <1>7, <3>1, <3>2
  <2> QED
    BY <1>7, <1>10, <2>1, <2>2, <2>3
<1>17. ToSet(got) \subseteq ToSet(got') /\ P \subseteq ToSet(got')
  <2>1. DOMAIN got' = 1..(L + N)
    BY <1>11
  <2>2. \A k \in 1..L : k \in 1..(L + N)
    BY <1>7, <1>10
  <2>3. \A k \in 1..N : L + k \in 1..(L + N)
    BY <1>7, <1>10
  <2>4. ToSet(got) \subseteq ToSet(got')
    BY <1>10, <1>11, <2>1, <2>2 DEF ToSet
  <2>5. P \subseteq ToSet(got')
    BY <1>7, <1>11, <2>1, <2>3 DEF ToSet
  <2> QED
    BY <2>4, <2>5
<1>18. /\ got' # <<>> => \A i \in gap : i < Head(got')
       /\ \A i \in gap : i <= Max(P)
  <2>1. \A i \in gap : i \in Nat /\ i <= stream.cursor /\ stream.cursor \in Nat
    BY <1>2, OutboxAssumption DEF OutboxInv, OutboxSafe, OutboxTypeOK, GapBehind, Id
  <2>2. Max(P) \in Nat /\ Max(P) > stream.cursor
    BY <1>6, <1>8
  <2>3. Head(got') = got'[1]
    BY <1>11
  <2>4. CASE L = 0
    <3>1. got'[1] = s[1] /\ s[1] \in P
      BY <1>8, <1>9, <1>11, <2>4
    <3>2. s[1] > stream.cursor /\ s[1] \in Nat
      BY <1>6, <3>1
    <3> QED
      BY <2>1, <2>2, <2>3, <3>1, <3>2
  <2>5. CASE L # 0
    <3>1. got # <<>> /\ Head(got) = got[1] /\ 1 \in 1..L
      BY <1>2, <1>10, <2>5 DEF L
    <3>2. Head(got') = Head(got)
      BY <1>11, <2>3, <3>1
    <3> QED
      BY <2>1, <2>2, <3>1, <3>2 DEF OutboxInv, OutboxSafe, SkipsOnlyLate
  <2> QED
    BY <2>4, <2>5
<1>19. SkipsOnlyLate'
  <2> SUFFICES ASSUME NEW i \in committed, since < i, i <= Max(P), i \notin ToSet(got')
               PROVE  i \in late \cup gap
    BY <1>1, <1>13, <1>18 DEF SkipsOnlyLate
  <2>1. i \in Nat /\ stream.cursor \in Nat
    BY <1>2, OutboxAssumption DEF Id
  <2>2. i \notin P /\ i \notin ToSet(got)
    BY <1>17
  <2>3. ~(i > stream.cursor)
    BY <1>5, <1>8, <2>2
  <2>4. i <= stream.cursor
    BY <2>1, <2>3
  <2> QED
    BY <2>2, <2>4 DEF OutboxInv, OutboxSafe, SkipsOnlyLate
<1>20. GapBehind'
  BY <1>1, <1>13, <1>18 DEF GapBehind
<1>21. MarkedReachedBus' /\ BatchesOnBus'
  BY <1>1 DEF OutboxInv, OutboxSafe, MarkedReachedBus, BatchesOnBus
<1> QED
  BY <1>12, <1>14, <1>16, <1>19, <1>21, <1>20 DEF OutboxInv, OutboxSafe

\* The connection ends, or no step.
LEMMA DisconnectInv ==
    ASSUME OutboxInv, Disconnect \/ UNCHANGED outboxVars
    PROVE  OutboxInv'
<1>1. UNCHANGED <<drawn, open, committed, marked, relays, bus, got, since, late, gap, relayFaults>>
  BY DEF Disconnect, outboxVars
<1>2. /\ stream' \in [at : {"new", "on", "off"}, cursor : Id \cup {0}] /\ stream'.cursor = stream.cursor
      /\ stream'.at = "new" => stream.at = "new"
  <2>1. stream \in [at : {"new", "on", "off"}, cursor : Id \cup {0}]
    BY DEF OutboxInv, OutboxSafe, OutboxTypeOK
  <2> QED
    BY <2>1 DEF Disconnect, outboxVars
<1>3. OutboxTypeOK'
  BY <1>1, <1>2 DEF OutboxInv, OutboxSafe, OutboxTypeOK
<1>4. MarkedReachedBus' /\ StreamOrdered' /\ SkipsOnlyLate' /\ BatchesOnBus' /\ CursorAtLast' /\ GapBehind'
  BY <1>1, <1>2 DEF OutboxInv, OutboxSafe, MarkedReachedBus, StreamOrdered, SkipsOnlyLate, BatchesOnBus,
                    CursorAtLast, GapBehind
<1> QED
  BY <1>3, <1>4 DEF OutboxInv, OutboxSafe

\* At the start there is no event.
LEMMA OutboxInitInv == OutboxInit => OutboxInv
<1> SUFFICES ASSUME OutboxInit PROVE OutboxInv
  OBVIOUS
<1>1. NoBatch \in [rows : SUBSET Id, done : SUBSET Id] /\ NoBatch.done = {} /\ NoBatch.rows = {}
  BY DEF NoBatch
<1>2. OutboxTypeOK
  <2>1. relays \in [Relayer -> [rows : SUBSET Id, done : SUBSET Id]]
    BY <1>1 DEF OutboxInit
  <2>2. drawn \in 0..MaxEvent /\ relayFaults \in 0..MaxRelayFaults
    BY OutboxAssumption DEF OutboxInit
  <2>3. got \in Seq(Id) /\ stream \in [at : {"new", "on", "off"}, cursor : Id \cup {0}]
    BY DEF OutboxInit
  <2> QED
    BY <2>1, <2>2, <2>3 DEF OutboxInit, OutboxTypeOK
<1>3. MarkedReachedBus /\ SkipsOnlyLate /\ CursorAtLast /\ GapBehind
  BY DEF OutboxInit, MarkedReachedBus, SkipsOnlyLate, CursorAtLast, GapBehind
<1>4. StreamOrdered
  BY DEF OutboxInit, StreamOrdered
<1>5. BatchesOnBus
  BY <1>1 DEF OutboxInit, BatchesOnBus
<1> QED
  BY <1>2, <1>3, <1>4, <1>5 DEF OutboxInv, OutboxSafe

\* Relays mark what they published, the stream's cursor is its last event, and
\* what reconnections jumped over lies behind it, for any
\* number of writers, relays and events and any size of page and batch.
THEOREM OutboxInvariant == OutboxSpec => []OutboxInv
<1>1. OutboxInv /\ [OutboxNext]_outboxVars => OutboxInv'
  <2> SUFFICES ASSUME OutboxInv, [OutboxNext]_outboxVars PROVE OutboxInv'
    OBVIOUS
  <2>1. CASE Write
    BY <2>1, WriteInv
  <2>2. ASSUME NEW r \in Relayer, RelayStep(r) \/ RelayFails(r) PROVE OutboxInv'
    BY <2>2, RelayInv
  <2>3. CASE StreamConnects \/ Poll \/ Disconnect \/ UNCHANGED outboxVars
    BY <2>3, ConnectInv, PollInv, DisconnectInv
  <2> QED
    BY <2>1, <2>2, <2>3 DEF OutboxNext
<1> QED
  BY <1>1, OutboxInitInv, PTL DEF OutboxSpec

\* No event is written off before it reached the bus; a browser gets events in
\* the order of their ids, none twice; what it misses committed late, or before it
\* had received a first event and came back without one.
THEOREM OutboxIsSafe == OutboxSpec => []OutboxSafe
<1>1. OutboxInv => OutboxSafe
  BY DEF OutboxInv
<1> QED
  BY <1>1, OutboxInvariant, PTL

-----------------------------------------------------------------------------
(***************************************************************************)
(* HostInventory. A discovery works on a copy of the host document while   *)
(* others edit it: InventoryInv says what every copy may show, who holds   *)
(* the advisory lock of a host, and what a commit is about to mark.        *)
(***************************************************************************)

LookPlace == {"connect", "look", "lock", "mark", "commit", "observe"}
LookRow == [at : LookPlace, host : Host, doc : Doc, found : SUBSET Res, gone : SUBSET Res,
            full : BOOLEAN, state : {"online", "degraded", "offline"}]
EditRow == [at : {"bastion", "save"}, host : Host, doc : Doc]

\* Discoveries and requests are records of their own kind, or none.
InventoryShapes ==
    /\ machine \in [Address -> SUBSET Res]
    /\ runtime \in [Address -> BOOLEAN]
    /\ doc \in [Host -> Doc]
    /\ rows \in [Host -> [Res -> {"absent", "present", "missing"}]]
    /\ picture \in [Host -> SUBSET Res]
    /\ lock \in [Host -> SUBSET Looker]
    /\ look \in [Looker -> LookRow \cup {NoLook}]
    /\ request \in [Editor -> EditRow \cup {NoEdit}]
    /\ edits \in 0..MaxEdits /\ changes \in 0..MaxChanges /\ lookFaults \in 0..MaxLookFaults

\* A document shows facts of the machine it names, or none.
OwnFacts(d) == d.facts \in {NoFacts, d.id}

\* Every copy of a document does.
CopiesSound ==
    /\ \A h \in Host : OwnFacts(doc[h])
    /\ \A l \in Looker : look[l] # NoLook => OwnFacts(look[l].doc)
    /\ \A e \in Editor : request[e] # NoEdit => OwnFacts(request[e].doc)

Writing(l) == look[l].at \in {"mark", "commit"}

\* One transaction at a time writes the resources of a host.
LockSound ==
    /\ \A l \in Looker : Writing(l) => l \in lock[look[l].host]
    /\ \A h \in Host : \A l \in lock[h] : Writing(l) /\ look[l].host = h
    /\ \A h \in Host : \A l, k \in lock[h] : l = k

\* What a transaction that is about to commit marks missing are the rows it
\* did not find, as they still are.
GoneSound == \A l \in Looker : look[l].at = "commit" =>
    look[l].gone = {r \in Res : rows[look[l].host][r] # "absent"} \ look[l].found

InventoryInv == InventoryShapes /\ CopiesSound /\ LockSound /\ GoneSound /\ OnePicture

LEMMA RowsAreRows ==
    /\ \A row \in LookRow : row # NoLook /\ row.at # "idle"
    /\ \A row \in EditRow : row # NoEdit /\ row.at # "idle"
    /\ NoLook.at = "idle" /\ NoEdit.at = "idle"
BY DEF LookRow, EditRow, NoLook, NoEdit, LookPlace

LEMMA InventoryInitInv == InventoryInit => InventoryInv
<1> SUFFICES ASSUME InventoryInit PROVE InventoryInv
  OBVIOUS
<1> USE DEF InventoryInit
<1>1. ASSUME NEW h \in Host
      PROVE  doc[h] \in Doc /\ OwnFacts(doc[h])
  <2>1. PICK a \in Address : doc[h] = [id |-> [address |-> a, secret |-> 0], enabled |-> TRUE,
                                       bastion |-> NoHost, state |-> "unknown", facts |-> NoFacts]
    OBVIOUS
  <2>2. 0 \in Secret
    BY InventoryAssumption DEF Secret
  <2>3. [address |-> a, secret |-> 0] \in Identity
    BY <2>2 DEF Identity
  <2> QED
    BY <2>1, <2>3 DEF Doc, OwnFacts
<1>2. InventoryShapes
  <2>1. doc \in [Host -> Doc]
    BY <1>1
  <2>2. edits \in 0..MaxEdits /\ changes \in 0..MaxChanges /\ lookFaults \in 0..MaxLookFaults
    BY InventoryAssumption
  <2>3. machine \in [Address -> SUBSET Res] /\ runtime \in [Address -> BOOLEAN]
    OBVIOUS
  <2> QED
    BY <2>1, <2>2, <2>3 DEF InventoryShapes
<1>3. CopiesSound
  BY <1>1 DEF CopiesSound
<1>4. LockSound
  BY RowsAreRows DEF LockSound, Writing
<1>5. GoneSound
  BY RowsAreRows DEF GoneSound
<1>6. OnePicture
  BY DEF OnePicture, Present
<1> QED
  BY <1>2, <1>3, <1>4, <1>5, <1>6 DEF InventoryInv

\* One discovery moves and writes no table.
LEMMA LookMoves ==
    ASSUME InventoryInv, NEW l \in Looker, NEW row \in LookRow \cup {NoLook},
           look' = [look EXCEPT ![l] = row],
           row # NoLook => OwnFacts(row.doc),
           UNCHANGED <<machine, runtime, doc, rows, picture, request, edits, changes>>,
           lookFaults' \in 0..MaxLookFaults,
           lock' \in [Host -> SUBSET Looker], LockSound', GoneSound'
    PROVE  InventoryInv'
<1> USE DEF InventoryInv
<1>1. InventoryShapes'
  BY DEF InventoryShapes
<1>2. CopiesSound'
  BY DEF CopiesSound, InventoryShapes
<1>3. OnePicture'
  BY DEF OnePicture, Present
<1> QED
  BY <1>1, <1>2, <1>3

\* A discovery that writes neither before nor after keeps the locks.
LEMMA LocksKept ==
    ASSUME InventoryInv, NEW l \in Looker, NEW row \in LookRow \cup {NoLook},
           look' = [look EXCEPT ![l] = row], ~Writing(l), row.at \notin {"mark", "commit"},
           lock' = lock, rows' = rows
    PROVE  LockSound' /\ GoneSound'
<1> USE DEF InventoryInv
<1>1. look'[l] = row /\ \A k \in Looker : k # l => look'[k] = look[k]
  BY DEF InventoryShapes
<1>2. \A h \in Host : l \notin lock[h] /\ lock[h] \subseteq Looker
  BY DEF LockSound, InventoryShapes
<1>3. LockSound'
  BY <1>1, <1>2 DEF LockSound, Writing
<1>4. GoneSound'
  BY <1>1 DEF GoneSound
<1> QED
  BY <1>3, <1>4

LEMMA StartLookInv ==
    ASSUME InventoryInv, NEW l \in Looker, NEW h \in Host, NEW full \in BOOLEAN, StartLook(l, h, full)
    PROVE  InventoryInv'
<1> USE DEF InventoryInv
<1> DEFINE row == [at |-> "connect", host |-> h, doc |-> doc[h], found |-> {}, gone |-> {},
                   full |-> full, state |-> "online"]
<1>1. look' = [look EXCEPT ![l] = row] /\ look[l] = NoLook
        /\ UNCHANGED <<machine, runtime, doc, rows, picture, lock, request, edits, changes, lookFaults>>
  BY DEF StartLook
<1>2. row \in LookRow /\ OwnFacts(row.doc) /\ row.at = "connect"
  BY DEF LookRow, LookPlace, InventoryShapes, CopiesSound
<1>3. ~Writing(l)
  BY <1>1, RowsAreRows DEF Writing
<1> HIDE DEF row
<1>4. LockSound' /\ GoneSound'
  BY <1>1, <1>2, <1>3, LocksKept
<1>5. lookFaults' \in 0..MaxLookFaults /\ lock' \in [Host -> SUBSET Looker]
  BY <1>1 DEF InventoryShapes
<1> QED
  BY <1>1, <1>2, <1>4, <1>5, LookMoves

LEMMA LookFaulted ==
    ASSUME InventoryInv, LookFault
    PROVE  lookFaults' \in 0..MaxLookFaults
BY InventoryAssumption DEF LookFault, InventoryInv, InventoryShapes

\* A row with other contents for the same document.
LEMMA RowType ==
    ASSUME InventoryInv, NEW l \in Looker, look[l] # NoLook
    PROVE  /\ look[l] \in LookRow /\ look[l].host \in Host /\ look[l].doc \in Doc
           /\ look[l].found \subseteq Res /\ OwnFacts(look[l].doc)
BY DEF InventoryInv, InventoryShapes, CopiesSound, LookRow

LEMMA ConnectHostInv ==
    ASSUME InventoryInv, NEW l \in Looker, ConnectHost(l)
    PROVE  InventoryInv'
<1> USE DEF InventoryInv
<1>1. look[l].at = "connect" /\ UNCHANGED <<machine, runtime, doc, rows, picture, lock, request, edits, changes>>
  BY DEF ConnectHost
<1>2. look[l] # NoLook /\ look[l] \in LookRow /\ OwnFacts(look[l].doc) /\ ~Writing(l)
  BY <1>1, RowsAreRows, RowType DEF Writing
<1>3. PICK row \in LookRow \cup {NoLook} :
         /\ look' = [look EXCEPT ![l] = row]
         /\ row # NoLook => row.doc = look[l].doc
         /\ row.at \notin {"mark", "commit"}
  <2>1. CASE LookGoes(l, "look")
    <3> DEFINE row == [look[l] EXCEPT !.at = "look"]
    <3>1. look' = [look EXCEPT ![l] = row]
      BY <2>1 DEF LookGoes, InventoryShapes
    <3>2. row \in LookRow /\ row.doc = look[l].doc /\ row.at = "look"
      BY <1>2 DEF LookRow, LookPlace
    <3> QED
      BY <3>1, <3>2
  <2>2. CASE look' = [look EXCEPT ![l].at = "observe", ![l].state = "offline"]
    <3> DEFINE row == [look[l] EXCEPT !.at = "observe", !.state = "offline"]
    <3>1. look' = [look EXCEPT ![l] = row]
      BY <2>2 DEF InventoryShapes
    <3>2. row \in LookRow /\ row.doc = look[l].doc /\ row.at = "observe"
      BY <1>2 DEF LookRow, LookPlace
    <3> QED
      BY <3>1, <3>2
  <2>3. CASE LookEnds(l)
    BY <2>3, RowsAreRows DEF LookEnds
  <2> QED
    BY <2>1, <2>2, <2>3 DEF ConnectHost
<1>4. lookFaults' \in 0..MaxLookFaults
  BY LookFaulted DEF ConnectHost, InventoryShapes
<1>5. LockSound' /\ GoneSound'
  BY <1>1, <1>2, <1>3, LocksKept
<1>6. lock' \in [Host -> SUBSET Looker]
  BY <1>1 DEF InventoryShapes
<1> QED
  BY <1>1, <1>2, <1>3, <1>4, <1>5, <1>6, LookMoves

LEMMA LookInv ==
    ASSUME InventoryInv, NEW l \in Looker, Look(l)
    PROVE  InventoryInv'
<1> USE DEF InventoryInv
<1>1. look[l].at = "look" /\ UNCHANGED <<machine, runtime, doc, rows, picture, lock, request, edits, changes>>
  BY DEF Look
<1>2. look[l] # NoLook /\ look[l] \in LookRow /\ OwnFacts(look[l].doc) /\ ~Writing(l)
        /\ machine[look[l].doc.id.address] \subseteq Res
  BY <1>1, RowsAreRows, RowType DEF Writing, InventoryShapes, Doc, Identity
<1>3. PICK row \in LookRow \cup {NoLook} :
         /\ look' = [look EXCEPT ![l] = row]
         /\ row # NoLook => row.doc = look[l].doc
         /\ row.at \notin {"mark", "commit"}
  <2>1. CASE look' = [look EXCEPT ![l].at = "lock", ![l].found = machine[look[l].doc.id.address]]
    <3> DEFINE row == [look[l] EXCEPT !.at = "lock", !.found = machine[look[l].doc.id.address]]
    <3>1. look' = [look EXCEPT ![l] = row]
      BY <2>1 DEF InventoryShapes
    <3>2. row \in LookRow /\ row.doc = look[l].doc /\ row.at = "lock"
      BY <1>2 DEF LookRow, LookPlace
    <3> QED
      BY <3>1, <3>2
  <2>2. CASE look' = [look EXCEPT ![l].at = "observe", ![l].state = "degraded"]
    <3> DEFINE row == [look[l] EXCEPT !.at = "observe", !.state = "degraded"]
    <3>1. look' = [look EXCEPT ![l] = row]
      BY <2>2 DEF InventoryShapes
    <3>2. row \in LookRow /\ row.doc = look[l].doc /\ row.at = "observe"
      BY <1>2 DEF LookRow, LookPlace
    <3> QED
      BY <3>1, <3>2
  <2>3. CASE LookEnds(l)
    BY <2>3, RowsAreRows DEF LookEnds
  <2>4. CASE LookGoes(l, "observe")
    <3> DEFINE row == [look[l] EXCEPT !.at = "observe"]
    <3>1. look' = [look EXCEPT ![l] = row]
      BY <2>4 DEF LookGoes, InventoryShapes
    <3>2. row \in LookRow /\ row.doc = look[l].doc /\ row.at = "observe"
      BY <1>2 DEF LookRow, LookPlace
    <3> QED
      BY <3>1, <3>2
  <2> QED
    BY <2>1, <2>2, <2>3, <2>4 DEF Look
<1>4. lookFaults' \in 0..MaxLookFaults
  BY LookFaulted DEF Look, Refuses, InventoryShapes
<1>5. LockSound' /\ GoneSound'
  BY <1>1, <1>2, <1>3, LocksKept
<1>6. lock' \in [Host -> SUBSET Looker]
  BY <1>1 DEF InventoryShapes
<1> QED
  BY <1>1, <1>2, <1>3, <1>4, <1>5, <1>6, LookMoves

LEMMA LockInv ==
    ASSUME InventoryInv, NEW l \in Looker, Lock(l)
    PROVE  InventoryInv'
<1> USE DEF InventoryInv
<1> DEFINE row == [look[l] EXCEPT !.at = "mark"]
           h == look[l].host
<1>1. /\ look[l].at = "lock" /\ lock[h] = {}
      /\ lock' = [lock EXCEPT ![h] = {l}]
      /\ UNCHANGED <<machine, runtime, doc, rows, picture, request, edits, changes, lookFaults>>
  BY DEF Lock, LockFree
<1>2. look[l] # NoLook /\ look[l] \in LookRow /\ OwnFacts(look[l].doc) /\ ~Writing(l) /\ h \in Host
  BY <1>1, RowsAreRows, RowType DEF Writing
<1>3. look' = [look EXCEPT ![l] = row]
  BY DEF Lock, LookGoes, InventoryShapes
<1>4. row \in LookRow /\ row.doc = look[l].doc /\ row.at = "mark" /\ row.host = h
  BY <1>2 DEF LookRow, LookPlace
<1> HIDE DEF row, h
<1>5. look'[l] = row /\ \A k \in Looker : k # l => look'[k] = look[k]
  BY <1>3 DEF InventoryShapes
<1>6. lock' \in [Host -> SUBSET Looker] /\ lock'[h] = {l} /\ \A g \in Host : g # h => lock'[g] = lock[g]
  BY <1>1, <1>2 DEF InventoryShapes
<1>7. \A g \in Host : l \notin lock[g] /\ lock[g] \subseteq Looker
  BY <1>2 DEF LockSound, InventoryShapes
<1>8. LockSound'
  <2>1. ASSUME NEW k \in Looker, Writing(k)' PROVE k \in lock'[look'[k].host]
    <3>1. CASE k = l
      BY <1>4, <1>5, <1>6, <3>1
    <3>2. CASE k # l
      <4>1. Writing(k) /\ look'[k] = look[k]
        BY <1>5, <2>1, <3>2 DEF Writing
      <4>2. k \in lock[look[k].host] /\ look[k].host \in Host
        BY <4>1, RowsAreRows, RowType DEF LockSound, Writing
      <4>3. look[k].host # h
        BY <1>1, <4>2
      <4> QED
        BY <1>6, <4>1, <4>2, <4>3
    <3> QED
      BY <3>1, <3>2
  <2>2. ASSUME NEW g \in Host, NEW k \in lock'[g] PROVE Writing(k)' /\ look'[k].host = g
    <3>1. CASE g = h
      BY <1>4, <1>5, <1>6, <2>2, <3>1 DEF Writing
    <3>2. CASE g # h
      <4>1. k \in lock[g] /\ k # l /\ k \in Looker
        BY <1>6, <1>7, <2>2, <3>2
      <4> QED
        BY <1>5, <4>1 DEF LockSound, Writing
    <3> QED
      BY <3>1, <3>2
  <2>3. ASSUME NEW g \in Host, NEW k \in lock'[g], NEW j \in lock'[g] PROVE k = j
    BY <1>6 DEF LockSound
  <2> QED
    BY <2>1, <2>2, <2>3 DEF LockSound
<1>9. GoneSound'
  BY <1>1, <1>4, <1>5 DEF GoneSound
<1>10. lookFaults' \in 0..MaxLookFaults
  BY <1>1 DEF InventoryShapes
<1> QED
  BY <1>1, <1>2, <1>3, <1>4, <1>6, <1>8, <1>9, <1>10, LookMoves

LEMMA MarkInv ==
    ASSUME InventoryInv, NEW l \in Looker, Mark(l)
    PROVE  InventoryInv'
<1> USE DEF InventoryInv
<1> DEFINE row == [look[l] EXCEPT !.at = "commit", !.gone = Gone(l)]
<1>1. /\ look[l].at = "mark"
      /\ UNCHANGED <<machine, runtime, doc, rows, picture, lock, request, edits, changes, lookFaults>>
  BY DEF Mark
<1>2. look[l] # NoLook /\ look[l] \in LookRow /\ OwnFacts(look[l].doc) /\ Gone(l) \subseteq Res
  BY <1>1, RowsAreRows, RowType DEF Gone
<1>3. look' = [look EXCEPT ![l] = row]
  BY DEF Mark, InventoryShapes
<1>4. row \in LookRow /\ row.doc = look[l].doc /\ row.at = "commit" /\ row.host = look[l].host
        /\ row.gone = Gone(l) /\ row.found = look[l].found
  BY <1>2 DEF LookRow, LookPlace
<1> HIDE DEF row
<1>5. look'[l] = row /\ \A k \in Looker : k # l => look'[k] = look[k]
  BY <1>3 DEF InventoryShapes
<1>6. \A k \in Looker : Writing(k)' = Writing(k) /\ look'[k].host = look[k].host
  BY <1>1, <1>4, <1>5 DEF Writing
<1>7. LockSound'
  BY <1>1, <1>6 DEF LockSound, InventoryShapes
<1>8. GoneSound'
  BY <1>1, <1>4, <1>5 DEF GoneSound, Gone
<1>9. lookFaults' \in 0..MaxLookFaults /\ lock' \in [Host -> SUBSET Looker]
  BY <1>1 DEF InventoryShapes
<1> QED
  BY <1>1, <1>2, <1>3, <1>4, <1>7, <1>8, <1>9, LookMoves

\* Freeing the lock of a discovery that no longer writes.
LEMMA LockFreed ==
    ASSUME InventoryInv, NEW l \in Looker, look[l] # NoLook, NEW row \in LookRow \cup {NoLook},
           look' = [look EXCEPT ![l] = row], row.at \notin {"mark", "commit"},
           lock' = [lock EXCEPT ![look[l].host] = lock[look[l].host] \ {l}]
    PROVE  /\ LockSound' /\ lock' \in [Host -> SUBSET Looker]
           /\ look'[l] = row /\ \A k \in Looker : k # l => look'[k] = look[k]
<1> USE DEF InventoryInv
<1> DEFINE h == look[l].host
<1>1. h \in Host
  BY RowType
<1>2. look'[l] = row /\ \A k \in Looker : k # l => look'[k] = look[k]
  BY DEF InventoryShapes
<1>3. lock' \in [Host -> SUBSET Looker] /\ lock'[h] = lock[h] \ {l}
        /\ \A g \in Host : g # h => lock'[g] = lock[g]
  BY <1>1 DEF InventoryShapes
<1>4. \A g \in Host : lock[g] \subseteq Looker /\ (g # h => l \notin lock[g])
  BY DEF LockSound, InventoryShapes
<1> HIDE DEF h
<1>5. \A g \in Host : lock'[g] \subseteq lock[g] /\ l \notin lock'[g]
  BY <1>3, <1>4
<1>6. ASSUME NEW k \in Looker, Writing(k)' PROVE k \in lock'[look'[k].host]
  <2>1. k # l /\ look'[k] = look[k] /\ Writing(k)
    BY <1>2, <1>6 DEF Writing
  <2>2. k \in lock[look[k].host] /\ look[k].host \in Host
    BY <2>1, RowsAreRows, RowType DEF LockSound, Writing
  <2> QED
    BY <1>3, <2>1, <2>2
<1>7. ASSUME NEW g \in Host, NEW k \in lock'[g] PROVE Writing(k)' /\ look'[k].host = g
  <2>1. k \in lock[g] /\ k # l /\ k \in Looker
    BY <1>4, <1>5, <1>7
  <2> QED
    BY <1>2, <2>1 DEF LockSound, Writing
<1>8. ASSUME NEW g \in Host, NEW k \in lock'[g], NEW j \in lock'[g] PROVE k = j
  BY <1>5, <1>8 DEF LockSound
<1> QED
  BY <1>2, <1>3, <1>6, <1>7, <1>8 DEF LockSound

LEMMA UpsertFailsInv ==
    ASSUME InventoryInv, NEW l \in Looker, UpsertFails(l)
    PROVE  InventoryInv'
<1> USE DEF InventoryInv
<1>1. /\ look[l].at \in {"lock", "mark", "commit", "observe"} /\ LookFault
      /\ lock' = [lock EXCEPT ![look[l].host] = lock[look[l].host] \ {l}]
      /\ look' = [look EXCEPT ![l] = NoLook]
      /\ UNCHANGED <<machine, runtime, doc, rows, picture, request, edits, changes>>
  BY DEF UpsertFails, LookEnds
<1>2. look[l] # NoLook /\ NoLook.at \notin {"mark", "commit"} /\ NoLook.at # "commit"
  BY <1>1, RowsAreRows
<1>3. LockSound' /\ lock' \in [Host -> SUBSET Looker]
        /\ look'[l] = NoLook /\ \A k \in Looker : k # l => look'[k] = look[k]
  BY <1>1, <1>2, LockFreed
<1>4. GoneSound'
  BY <1>1, <1>2, <1>3 DEF GoneSound
<1>5. lookFaults' \in 0..MaxLookFaults
  BY <1>1, LookFaulted
<1> QED
  BY <1>1, <1>3, <1>4, <1>5, LookMoves

LEMMA CommitInv ==
    ASSUME InventoryInv, NEW l \in Looker, CommitResources(l)
    PROVE  InventoryInv'
<1> USE DEF InventoryInv
<1> DEFINE h == look[l].host
           after == [r \in Res |-> IF r \in look[l].found THEN "present"
                                   ELSE IF r \in look[l].gone THEN "missing" ELSE rows[h][r]]
<1>1. /\ look[l].at = "commit"
      /\ rows' = [rows EXCEPT ![h] = after]
      /\ picture' = [picture EXCEPT ![h] = look[l].found]
      /\ lock' = [lock EXCEPT ![h] = lock[h] \ {l}]
      /\ UNCHANGED <<machine, runtime, doc, request, edits, changes, lookFaults>>
  BY DEF CommitResources
<1>2. look[l] # NoLook /\ look[l] \in LookRow /\ OwnFacts(look[l].doc) /\ h \in Host
        /\ look[l].found \subseteq Res
  BY <1>1, RowsAreRows, RowType
<1>3. PICK row \in LookRow \cup {NoLook} :
         /\ look' = [look EXCEPT ![l] = row]
         /\ row # NoLook => row.doc = look[l].doc
         /\ row.at \notin {"mark", "commit"}
  <2>1. CASE look' = [look EXCEPT ![l].at = "observe", ![l].found = {}, ![l].gone = {}]
    <3> DEFINE row == [look[l] EXCEPT !.at = "observe", !.found = {}, !.gone = {}]
    <3>1. look' = [look EXCEPT ![l] = row]
      BY <2>1 DEF InventoryShapes
    <3>2. row \in LookRow /\ row.doc = look[l].doc /\ row.at = "observe"
      BY <1>2 DEF LookRow, LookPlace
    <3> QED
      BY <3>1, <3>2
  <2>2. CASE LookEnds(l)
    BY <2>2, RowsAreRows DEF LookEnds
  <2> QED
    BY <2>1, <2>2 DEF CommitResources
<1>4. LockSound' /\ lock' \in [Host -> SUBSET Looker]
        /\ look'[l] = row /\ \A k \in Looker : k # l => look'[k] = look[k]
  BY <1>1, <1>2, <1>3, LockFreed
<1>5. after \in [Res -> {"absent", "present", "missing"}]
  BY <1>2 DEF InventoryShapes
<1>6. {r \in Res : after[r] = "present"} = look[l].found
  <2>1. look[l].gone = {r \in Res : rows[h][r] # "absent"} \ look[l].found
    BY <1>1 DEF GoneSound
  <2>2. ASSUME NEW r \in Res, r \notin look[l].found PROVE after[r] # "present"
    BY <2>1, <2>2
  <2> QED
    BY <1>2, <2>2
<1> HIDE DEF after
<1>7. rows'[h] = after /\ \A g \in Host : g # h => rows'[g] = rows[g]
  BY <1>1, <1>2 DEF InventoryShapes
<1>8. picture'[h] = look[l].found /\ \A g \in Host : g # h => picture'[g] = picture[g]
  BY <1>1, <1>2 DEF InventoryShapes
<1>9. OnePicture'
  <2>1. ASSUME NEW g \in Host PROVE Present(g)' = picture'[g]
    <3>1. CASE g = h
      BY <1>6, <1>7, <1>8, <3>1 DEF Present
    <3>2. CASE g # h
      BY <1>7, <1>8, <3>2 DEF Present, OnePicture
    <3> QED
      BY <3>1, <3>2
  <2> QED
    BY <2>1 DEF OnePicture
<1>10. GoneSound'
  <2>1. ASSUME NEW k \in Looker, look'[k].at = "commit"
        PROVE  look'[k].gone = {r \in Res : rows'[look'[k].host][r] # "absent"} \ look'[k].found
    <3>1. k # l /\ look'[k] = look[k]
      BY <1>3, <1>4, <2>1
    <3>2. look[k].host \in Host /\ k \in lock[look[k].host] /\ l \in lock[h]
      BY <1>1, <2>1, <3>1, RowsAreRows, RowType DEF LockSound, Writing
    <3>3. look[k].host # h
      BY <1>2, <3>1, <3>2 DEF LockSound
    <3> QED
      BY <1>7, <2>1, <3>1, <3>2, <3>3 DEF GoneSound
  <2> QED
    BY <2>1 DEF GoneSound
<1>11. InventoryShapes'
  <2>1. look' \in [Looker -> LookRow \cup {NoLook}]
    BY <1>3 DEF InventoryShapes
  <2>2. rows' \in [Host -> [Res -> {"absent", "present", "missing"}]]
    BY <1>1, <1>5 DEF InventoryShapes
  <2>3. picture' \in [Host -> SUBSET Res]
    BY <1>1, <1>2 DEF InventoryShapes
  <2> QED
    BY <1>1, <1>4, <2>1, <2>2, <2>3 DEF InventoryShapes
<1>12. CopiesSound'
  BY <1>1, <1>2, <1>3, <1>4 DEF CopiesSound
<1> QED
  BY <1>4, <1>9, <1>10, <1>11, <1>12

LEMMA ObserveInv ==
    ASSUME InventoryInv, NEW l \in Looker, ObserveHost(l)
    PROVE  /\ InventoryInv'
           /\ \A h \in Host : AdminFields(doc'[h]) = AdminFields(doc[h])
<1> USE DEF InventoryInv
<1> DEFINE h == look[l].host
<1>1. /\ look[l].at = "observe" /\ look' = [look EXCEPT ![l] = NoLook]
      /\ UNCHANGED <<machine, runtime, rows, picture, lock, request, edits, changes, lookFaults>>
  BY DEF ObserveHost, LookEnds
<1>2. look[l] # NoLook /\ look[l] \in LookRow /\ OwnFacts(look[l].doc) /\ h \in Host /\ ~Writing(l)
  BY <1>1, RowsAreRows, RowType DEF Writing
<1>3. LockSound' /\ GoneSound'
  BY <1>1, <1>2, RowsAreRows, LocksKept
<1>4. OnePicture'
  BY <1>1 DEF OnePicture, Present
<1>5. \A g \in Host : doc'[g] \in Doc /\ OwnFacts(doc'[g]) /\ AdminFields(doc'[g]) = AdminFields(doc[g])
  <2>1. CASE SameIdentity(l)
    <3> DEFINE d == doc[h]
               o == [d EXCEPT !.state = Seen(l).state, !.facts = Seen(l).facts]
    <3>1. doc' = [doc EXCEPT ![h] = o]
      BY <2>1 DEF ObserveHost, Observed
    <3>2. d \in Doc /\ d.id = look[l].doc.id
      BY <1>2, <2>1 DEF InventoryShapes, SameIdentity
    <3>3. Seen(l).state \in {"online", "degraded", "offline"} /\ Seen(l).facts \in {NoFacts, d.id}
      BY <1>2, <3>2 DEF Seen, LookRow, OwnFacts
    <3>4. o \in Doc /\ o.facts \in {NoFacts, d.id} /\ o.id = d.id /\ o.enabled = d.enabled
            /\ o.bastion = d.bastion
      BY <3>2, <3>3 DEF Doc
    <3> HIDE DEF o, d
    <3>5. doc'[h] = o /\ \A g \in Host : g # h => doc'[g] = doc[g]
      BY <1>2, <3>1 DEF InventoryShapes
    <3> QED
      BY <3>4, <3>5 DEF CopiesSound, OwnFacts, AdminFields, InventoryShapes, d
  <2>2. CASE ~SameIdentity(l)
    BY <2>2 DEF ObserveHost, CopiesSound, InventoryShapes
  <2> QED
    BY <2>1, <2>2
<1>6. doc' \in [Host -> Doc]
  BY <1>5 DEF ObserveHost, InventoryShapes
<1>7. InventoryShapes'
  BY <1>1, <1>6 DEF InventoryShapes
<1>8. CopiesSound'
  BY <1>1, <1>5 DEF CopiesSound, InventoryShapes
<1> QED
  BY <1>3, <1>4, <1>5, <1>7, <1>8

\* A request of an administrator moves or writes its document.
LEMMA EditMoves ==
    ASSUME InventoryInv, NEW e \in Editor, NEW row \in EditRow \cup {NoEdit},
           request' = [request EXCEPT ![e] = row],
           row # NoEdit => OwnFacts(row.doc),
           doc' \in [Host -> Doc], \A h \in Host : OwnFacts(doc'[h]),
           UNCHANGED <<machine, runtime, rows, picture, lock, look, changes, lookFaults>>,
           edits' \in 0..MaxEdits
    PROVE  InventoryInv'
<1> USE DEF InventoryInv
<1>1. InventoryShapes'
  BY DEF InventoryShapes
<1>2. CopiesSound'
  BY DEF CopiesSound, InventoryShapes
<1>3. OnePicture' /\ LockSound' /\ GoneSound'
  BY DEF OnePicture, Present, LockSound, GoneSound, Writing
<1> QED
  BY <1>1, <1>2, <1>3

LEMMA EditInv ==
    ASSUME InventoryInv, NEW e \in Editor, Edit(e)
    PROVE  InventoryInv'
<1> USE DEF InventoryInv
<1>0. doc \in [Host -> Doc] /\ \A h \in Host : OwnFacts(doc[h])
  BY DEF InventoryShapes, CopiesSound
<1>1. ASSUME NEW h \in Host, ReadForSave(e, h) PROVE InventoryInv'
  <2>1. edits' \in 0..MaxEdits
    BY <1>1, InventoryAssumption DEF ReadForSave, InventoryShapes
  <2>2. PICK a \in Address, b \in Host \cup {NoHost}, on \in BOOLEAN, secret \in {doc[h].id.secret, edits'} :
         request' = [request EXCEPT ![e] =
            [at |-> "bastion", host |-> h,
             doc |-> [id |-> [address |-> a, secret |-> secret], enabled |-> on, bastion |-> b,
                      state |-> "unknown", facts |-> NoFacts]]]
    BY <1>1 DEF ReadForSave
  <2> DEFINE new == [id |-> [address |-> a, secret |-> secret], enabled |-> on, bastion |-> b,
                     state |-> "unknown", facts |-> NoFacts]
             row == [at |-> "bastion", host |-> h, doc |-> new]
  <2>3. secret \in Secret
    BY <1>0, <2>1 DEF Secret, Doc, Identity
  <2>4. new \in Doc /\ OwnFacts(new)
    BY <2>3 DEF Doc, Identity, OwnFacts
  <2> HIDE DEF new
  <2>5. row \in EditRow /\ row.doc = new
    BY <2>4 DEF EditRow
  <2>6. request' = [request EXCEPT ![e] = row]
    BY <2>2 DEF new
  <2> HIDE DEF row
  <2>7. UNCHANGED <<machine, runtime, doc, rows, picture, lock, look, changes, lookFaults>>
    BY <1>1 DEF ReadForSave
  <2> QED
    BY <1>0, <2>1, <2>4, <2>5, <2>6, <2>7, EditMoves
<1>2. ASSUME NEW h \in Host, ReadForDelete(e, h) PROVE InventoryInv'
  <2>1. edits' \in 0..MaxEdits
    BY <1>2, InventoryAssumption DEF ReadForDelete, InventoryShapes
  <2> DEFINE new == [doc[h] EXCEPT !.enabled = FALSE, !.state = "disabled"]
             row == [at |-> "save", host |-> h, doc |-> new]
  <2>2. new \in Doc /\ OwnFacts(new)
    BY <1>0 DEF Doc, OwnFacts
  <2>3. request' = [request EXCEPT ![e] = row]
    BY <1>2 DEF ReadForDelete
  <2> HIDE DEF new
  <2>4. row \in EditRow /\ row.doc = new
    BY <2>2 DEF EditRow
  <2> HIDE DEF row
  <2>5. UNCHANGED <<machine, runtime, doc, rows, picture, lock, look, changes, lookFaults>>
    BY <1>2 DEF ReadForDelete
  <2> QED
    BY <1>0, <2>1, <2>2, <2>3, <2>4, <2>5, EditMoves
<1>3. CASE CheckBastion(e)
  <2>1. request[e].at = "bastion" /\ request[e] \in EditRow /\ OwnFacts(request[e].doc)
    BY <1>3, RowsAreRows DEF CheckBastion, InventoryShapes, CopiesSound
  <2>2. PICK row \in EditRow \cup {NoEdit} :
          request' = [request EXCEPT ![e] = row] /\ (row # NoEdit => row.doc = request[e].doc)
    <3> DEFINE row == [request[e] EXCEPT !.at = "save"]
    <3>1. row \in EditRow /\ row.doc = request[e].doc
      BY <2>1 DEF EditRow
    <3>2. request' = [request EXCEPT ![e] = row] \/ request' = [request EXCEPT ![e] = NoEdit]
      BY <1>3 DEF CheckBastion
    <3> QED
      BY <3>1, <3>2
  <2>3. UNCHANGED <<machine, runtime, doc, rows, picture, lock, look, edits, changes, lookFaults>>
    BY <1>3 DEF CheckBastion
  <2>4. edits' \in 0..MaxEdits
    BY <2>3 DEF InventoryShapes
  <2> QED
    BY <1>0, <2>1, <2>2, <2>3, <2>4, EditMoves
<1>4. CASE SaveHost(e)
  <2>1. request[e].at = "save" /\ request[e] \in EditRow /\ OwnFacts(request[e].doc)
    BY <1>4, RowsAreRows DEF SaveHost, InventoryShapes, CopiesSound
  <2>2. request[e].doc \in Doc /\ request[e].host \in Host
    BY <2>1 DEF EditRow
  <2>3. doc' \in [Host -> Doc] /\ \A h \in Host : OwnFacts(doc'[h])
    BY <1>0, <1>4, <2>1, <2>2 DEF SaveHost
  <2>4. request' = [request EXCEPT ![e] = NoEdit]
          /\ UNCHANGED <<machine, runtime, rows, picture, lock, look, edits, changes, lookFaults>>
    BY <1>4 DEF SaveHost
  <2>5. edits' \in 0..MaxEdits
    BY <2>4 DEF InventoryShapes
  <2> QED
    BY <2>3, <2>4, <2>5, EditMoves
<1> QED
  BY <1>1, <1>2, <1>3, <1>4 DEF Edit

LEMMA ChangeInv ==
    ASSUME InventoryInv, NEW a \in Address, NEW r, (r \in Res /\ Change(a, r)) \/ RuntimeChanges(a)
    PROVE  InventoryInv'
<1> USE DEF InventoryInv
<1>1. UNCHANGED <<doc, rows, picture, lock, look, request, edits, lookFaults>>
  BY DEF Change, RuntimeChanges
<1>2. changes' \in 0..MaxChanges
  BY InventoryAssumption DEF Change, RuntimeChanges, InventoryShapes
<1>3. machine' \in [Address -> SUBSET Res] /\ runtime' \in [Address -> BOOLEAN]
  <2>1. CASE r \in Res /\ Change(a, r)
    BY <2>1 DEF Change, InventoryShapes
  <2>2. CASE RuntimeChanges(a)
    <3>1. UNCHANGED machine /\ runtime' = [runtime EXCEPT ![a] = ~runtime[a]]
      BY <2>2 DEF RuntimeChanges
    <3> QED
      BY <3>1, ZenonT(30) DEF InventoryShapes
  <2> QED
    BY <2>1, <2>2
<1>4. InventoryShapes'
  BY <1>1, <1>2, <1>3 DEF InventoryShapes
<1>5. CopiesSound' /\ OnePicture' /\ LockSound' /\ GoneSound'
  BY <1>1 DEF CopiesSound, OnePicture, Present, LockSound, GoneSound, Writing
<1> QED
  BY <1>4, <1>5

LEMMA InventoryStutterInv ==
    ASSUME InventoryInv, UNCHANGED inventoryVars
    PROVE  InventoryInv'
BY DEF InventoryInv, inventoryVars, InventoryShapes, CopiesSound, OnePicture, Present, LockSound, GoneSound, Writing

LEMMA InventoryStep == InventoryInv /\ [InventoryNext]_inventoryVars => InventoryInv'
<1> SUFFICES ASSUME InventoryInv, [InventoryNext]_inventoryVars PROVE InventoryInv'
  OBVIOUS
<1>1. ASSUME NEW l \in Looker, NEW h \in Host, Collect(l, h) \/ DiscoverHost(l, h) \/ Refresh(l, h)
      PROVE  InventoryInv'
  BY <1>1, StartLookInv DEF Collect, DiscoverHost, Refresh
<1>2. ASSUME NEW l \in Looker, LookStep(l) \/ UpsertFails(l) PROVE InventoryInv'
  BY <1>2, ConnectHostInv, LookInv, LockInv, MarkInv, CommitInv, ObserveInv, UpsertFailsInv DEF LookStep
<1> QED
  BY <1>1, <1>2, ChangeInv, EditInv, InventoryStutterInv DEF InventoryNext

\* InventoryInv is inductive: any hosts, machines, resources, discoveries and requests.
THEOREM InventoryInvariant == InventorySpec => []InventoryInv
BY InventoryInitInv, InventoryStep, PTL DEF InventorySpec

\* What an observation, a refresh and a request of an administrator may do to
\* the administrator's fields.
LEMMA AdminFieldsStep ==
    ASSUME InventoryInv, [InventoryNext]_inventoryVars, NEW h \in Host,
           AdminFields(doc'[h]) # AdminFields(doc[h])
    PROVE  \E e \in Editor : request[e].at = "save" /\ request[e].host = h /\ request'[e] = NoEdit
<1>1. doc' # doc
  OBVIOUS
<1>2. ASSUME NEW l \in Looker, LookStep(l) \/ UpsertFails(l) PROVE FALSE
  <2>1. CASE ObserveHost(l)
    BY <2>1, ObserveInv
  <2>2. CASE ~ObserveHost(l)
    BY <1>1, <1>2, <2>2 DEF LookStep, ConnectHost, Look, Lock, Mark, CommitResources, UpsertFails
  <2> QED
    BY <2>1, <2>2
<1>3. PICK e \in Editor : Edit(e)
  BY <1>1, <1>2 DEF InventoryNext, inventoryVars, Change, RuntimeChanges, Collect, DiscoverHost, Refresh, StartLook
<1>4. SaveHost(e)
  BY <1>1, <1>3 DEF Edit, ReadForSave, ReadForDelete, CheckBastion
<1>5. request[e].at = "save" /\ request'[e] = NoEdit /\ request[e].host = h
  BY <1>4 DEF SaveHost, InventoryInv, InventoryShapes
<1> QED
  BY <1>5

\* A host's resources are always one picture of it, its facts those of the
\* machine its document names, and an administrator's fields change only when a
\* request of an administrator is saved.
THEOREM InventoryIsSafe == InventorySpec => InventorySafe
<1>1. InventoryInv => InventoryTypeOK /\ OnePicture /\ FactsOfIdentity
  <2> SUFFICES ASSUME InventoryInv PROVE InventoryTypeOK /\ FactsOfIdentity
    BY DEF InventoryInv
  <2>1. ASSUME NEW l \in Looker, look[l] # NoLook
        PROVE  look[l] \in LookRow
    BY <2>1 DEF InventoryInv, InventoryShapes
  <2>2. ASSUME NEW e \in Editor, request[e] # NoEdit
        PROVE  request[e] \in EditRow
    BY <2>2 DEF InventoryInv, InventoryShapes
  <2>3. InventoryTypeOK
    BY <2>1, <2>2 DEF InventoryInv, InventoryShapes, InventoryTypeOK, LookRow, EditRow, LookPlace
  <2>4. FactsOfIdentity
    BY DEF InventoryInv, CopiesSound, FactsOfIdentity, OwnFacts
  <2> QED
    BY <2>3, <2>4
<1>2. InventoryInv /\ [InventoryNext]_inventoryVars
        => [\A h \in Host : AdminFields(doc'[h]) # AdminFields(doc[h]) =>
              \E e \in Editor : request[e].at = "save" /\ request[e].host = h /\ request'[e] = NoEdit]_inventoryVars
  BY AdminFieldsStep
<1> QED
  BY <1>1, <1>2, InventoryInvariant, PTL DEF InventorySpec, InventorySafe, AdminFieldsKept

-----------------------------------------------------------------------------
(***************************************************************************)
(* ContainerSessions. The counters of ContainersSafe are about sessions in *)
(* some position: ContainersInv charges every command that waits or runs   *)
(* to the budget, every client that went away to one session, and follows  *)
(* an exchange through the copies of its conversation that sessions read.  *)
(***************************************************************************)

SessionPlace == {"idle", "turn", "budget", "slot", "run", "audit", "save", "report",
                 "enter", "wait", "shell", "leave"}
SessionRow == [at : SessionPlace, kind : {"chat", "debug", "console"}, conv : Conversation,
               base : Seq(Exchange), step : Nat, exchange : Exchange \cup {0}, cut : BOOLEAN]

\* What a session knows: only the model's sessions run commands, never in their
\* last turn, and a chat has its exchange.
RowSound(x) ==
    /\ x \in SessionRow
    /\ x.step \in 1..Steps(x.kind)
    /\ Len(x.base) <= Keep
    /\ x.at \in {"turn", "budget", "slot", "run", "audit", "save", "report"} => x.kind \in {"chat", "debug"}
    /\ x.at \in {"budget", "slot", "run", "audit"} => x.step < Steps(x.kind)
    /\ x.kind = "chat" /\ x.at # "idle" => x.exchange \in Exchange

SessionsSound == session \in [Session -> SessionRow] /\ \A s \in Session : RowSound(session[s])

SlotsSound ==
    /\ slots \subseteq Session /\ Cardinality(slots) <= Slots
    /\ \A s \in Session : s \in slots <=> session[s].at \in {"run", "shell"}

Left == {s \in Session : session[s].cut}

\* Every command that waits for a slot or runs was charged.
BudgetSound ==
    /\ ran + Cardinality(Standing({"slot", "run"})) <= used + carried
    /\ ran + Cardinality(Standing({"slot", "run"})) <= ExecBudget + carried

\* Every session that is to write an entry has an unaudited command, and every
\* client that left explains one more.
AuditSound ==
    /\ Cardinality(Standing({"audit"})) <= unaudited
    /\ unaudited + Cardinality(Left) <= Cardinality(Standing({"audit"})) + cuts + auditFaults + killed.command

\* Every open console owes its closing entry.
ConsoleSound == Cardinality(Standing(ConsoleOpen)) <= unended /\ ConsoleEntries

\* Two exchanges open on one conversation know of each other.
OverlapsKnown == \A c \in Conversation : \A s, t \in Unsaved(c) :
    s # t => session[s].exchange \in overlapped

\* A copy of a conversation has the exchange m, or newer ones fill it.
Covers(copy, m) == m \in ToSet(copy) \/ Len(copy) = Keep

\* Exchanges that were stored.
Kept(m) == m \in answered \/ \E s \in Session :
    session[s].at = "report" /\ session[s].kind = "chat" /\ session[s].exchange = m

\* Stored exchanges are in the conversation and in every copy that will replace it.
CopiesCover == \A m \in Exchange \ overlapped : Kept(m) =>
    \E c \in Conversation :
        /\ Covers(conv[c], m)
        /\ \A s \in Unsaved(c) : Covers(session[s].base, m)

CountersTyped ==
    /\ used \in 0..(ExecBudget + 1)
    /\ ran \in Nat /\ carried \in Nat /\ unaudited \in Nat /\ unopened \in Nat /\ unended \in Nat
    /\ begun \in 0..MaxMessages /\ answered \subseteq Exchange /\ overlapped \subseteq Exchange
    /\ cuts \in 0..MaxCuts /\ auditFaults \in 0..MaxAuditFaults
    /\ killed \in [command : Nat, console : Nat] /\ deaths \in 0..MaxDeaths

ConvTyped == conv \in [Conversation -> Seq(Exchange)] /\ \A c \in Conversation : Len(conv[c]) <= Keep

ContainersInv ==
    /\ SessionsSound /\ SlotsSound /\ BudgetSound /\ AuditSound /\ ConsoleSound
    /\ OverlapsKnown /\ CopiesCover /\ CountersTyped /\ ConvTyped

LEMMA ContainersLimits ==
    /\ MaxMessages \in Nat /\ MaxCuts \in Nat /\ MaxDeaths \in Nat /\ MaxAuditFaults \in Nat /\ ExecBudget \in Nat
    /\ ChatSteps \in Nat /\ ChatSteps > 0 /\ DebugSteps \in Nat /\ DebugSteps > 0
    /\ Keep \in Nat /\ Keep > 0 /\ Slots \in Nat /\ Slots > 0
    /\ IsFiniteSet(Session) /\ Conversation # {}
BY ContainersAssumption

LEMMA StepsPositive == ASSUME NEW kind PROVE Steps(kind) \in Nat /\ Steps(kind) >= 1
BY ContainersLimits DEF Steps

LEMMA NoSessionSound ==
    /\ RowSound(NoSession) /\ NoSession.at = "idle" /\ NoSession.kind = "chat" /\ NoSession.cut = FALSE
    /\ NoSession.step = 1 /\ NoSession.base = <<>> /\ NoSession.exchange = 0
<1>1. (CHOOSE c \in Conversation : TRUE) \in Conversation
  BY ContainersLimits
<1>2. NoSession \in SessionRow
  BY <1>1 DEF NoSession, SessionRow, SessionPlace
<1>3. NoSession.at = "idle" /\ NoSession.kind = "chat" /\ NoSession.cut = FALSE
        /\ NoSession.step = 1 /\ NoSession.base = <<>> /\ NoSession.exchange = 0
  BY DEF NoSession
<1>4. NoSession.step \in 1..Steps(NoSession.kind) /\ Len(NoSession.base) <= Keep
  BY <1>3, StepsPositive, ContainersLimits
<1> QED
  BY <1>2, <1>3, <1>4 DEF RowSound

LEMMA ContainersInitInv == ContainersInit => ContainersInv
<1> SUFFICES ASSUME ContainersInit PROVE ContainersInv
  OBVIOUS
<1> USE DEF ContainersInit
<1>1. \A s \in Session : session[s] = NoSession
  OBVIOUS
<1>2. SessionsSound
  BY NoSessionSound DEF SessionsSound, RowSound
<1>3. Cardinality({}) = 0
  BY FS_EmptySet
<1>4. SlotsSound
  BY <1>1, <1>3, NoSessionSound, ContainersLimits DEF SlotsSound
<1>5. Standing({"slot", "run"}) = {} /\ Standing({"audit"}) = {} /\ Left = {}
        /\ Standing(ConsoleOpen) = {}
  BY <1>1, NoSessionSound DEF Standing, Left, ConsoleOpen
<1>6. BudgetSound /\ AuditSound /\ ConsoleSound
  <2>1. Cardinality(Standing({"slot", "run"})) = 0 /\ Cardinality(Standing({"audit"})) = 0
          /\ Cardinality(Left) = 0 /\ Cardinality(Standing(ConsoleOpen)) = 0
    BY <1>3, <1>5
  <2>2. killed.command = 0 /\ killed.console = 0
    OBVIOUS
  <2> QED
    BY <2>1, <2>2, ContainersLimits DEF BudgetSound, AuditSound, ConsoleSound, ConsoleEntries
<1>7. \A c \in Conversation : Unsaved(c) = {}
  BY <1>1, NoSessionSound DEF Unsaved
<1>8. OverlapsKnown /\ CopiesCover
  BY <1>1, <1>7, NoSessionSound DEF OverlapsKnown, CopiesCover, Kept
<1>9. CountersTyped
  BY ContainersLimits DEF CountersTyped
<1>10. ConvTyped
  BY ContainersLimits DEF ConvTyped
<1> QED
  BY <1>2, <1>4, <1>6, <1>8, <1>9, <1>10 DEF ContainersInv

-----------------------------------------------------------------------------
\* Two finite sets that differ in one element at most.
LEMMA OneApart ==
    ASSUME NEW A, NEW B, NEW s, IsFiniteSet(A), IsFiniteSet(B), A \ {s} = B \ {s}
    PROVE  \E n \in Nat : /\ Cardinality(A) = n + (IF s \in A THEN 1 ELSE 0)
                          /\ Cardinality(B) = n + (IF s \in B THEN 1 ELSE 0)
<1>1. Cardinality(A) = Cardinality(A \ {s}) + (IF s \in A THEN 1 ELSE 0) /\ Cardinality(A \ {s}) \in Nat
  BY CardinalityAround
<1>2. Cardinality(B) = Cardinality(A \ {s}) + (IF s \in B THEN 1 ELSE 0)
  BY CardinalityAround
<1> QED
  BY <1>1, <1>2

\* One session moves: the rows, and how many stand where.
LEMMA SessionMoves ==
    ASSUME ContainersInv, NEW s \in Session, NEW row, RowSound(row),
           session' = [session EXCEPT ![s] = row]
    PROVE  /\ SessionsSound'
           /\ session'[s] = row /\ \A t \in Session : t # s => session'[t] = session[t]
           /\ \A places : \E n \in Nat :
                /\ Cardinality(Standing(places)) = n + (IF session[s].at \in places THEN 1 ELSE 0)
                /\ Cardinality(Standing(places)') = n + (IF row.at \in places THEN 1 ELSE 0)
           /\ \E n \in Nat :
                /\ Cardinality(Left) = n + (IF session[s].cut THEN 1 ELSE 0)
                /\ Cardinality(Left') = n + (IF row.cut THEN 1 ELSE 0)
<1>1. session \in [Session -> SessionRow] /\ \A t \in Session : RowSound(session[t])
  BY DEF ContainersInv, SessionsSound
<1>2. session'[s] = row /\ \A t \in Session : t # s => session'[t] = session[t]
  BY <1>1
<1>3. SessionsSound'
  BY <1>1, <1>2 DEF SessionsSound, RowSound
<1>4. ASSUME NEW places
      PROVE  \E n \in Nat :
                /\ Cardinality(Standing(places)) = n + (IF session[s].at \in places THEN 1 ELSE 0)
                /\ Cardinality(Standing(places)') = n + (IF row.at \in places THEN 1 ELSE 0)
  <2> DEFINE A == {t \in Session : session[t].at \in places}
             B == {t \in Session : session'[t].at \in places}
  <2>1. IsFiniteSet(A) /\ IsFiniteSet(B)
    BY ContainersLimits, FS_Subset
  <2>2. A \ {s} = B \ {s} /\ (s \in A <=> session[s].at \in places) /\ (s \in B <=> row.at \in places)
    BY <1>2
  <2>3. Standing(places) = A /\ Standing(places)' = B
    BY DEF Standing
  <2> HIDE DEF A, B
  <2> QED
    BY <2>1, <2>2, <2>3, OneApart
<1>5. \E n \in Nat :
                /\ Cardinality(Left) = n + (IF session[s].cut THEN 1 ELSE 0)
                /\ Cardinality(Left') = n + (IF row.cut THEN 1 ELSE 0)
  <2> DEFINE A == {t \in Session : session[t].cut}
             B == {t \in Session : session'[t].cut}
  <2>1. IsFiniteSet(A) /\ IsFiniteSet(B)
    BY ContainersLimits, FS_Subset
  <2>2. A \ {s} = B \ {s} /\ (s \in A <=> session[s].cut) /\ (s \in B <=> row.cut)
    BY <1>2
  <2>3. Left = A /\ Left' = B
    BY DEF Left
  <2> HIDE DEF A, B
  <2> QED
    BY <2>1, <2>2, <2>3, OneApart
<1> QED
  BY <1>2, <1>3, <1>4, <1>5

\* A move that neither opens nor stores an exchange.
Quiet(x, y) ==
    \/ y.at = "idle" \/ y.kind # "chat"
    \/ /\ y.kind = x.kind /\ y.conv = x.conv /\ y.base = x.base /\ y.exchange = x.exchange
       /\ x.at # "idle" /\ (y.at = "report" <=> x.at = "report")

LEMMA QuietMoves ==
    ASSUME ContainersInv, NEW s \in Session, NEW row, RowSound(row),
           session' = [session EXCEPT ![s] = row], Quiet(session[s], row),
           UNCHANGED <<conv, overlapped>>,
           \A m \in answered' \ overlapped : Kept(m)
    PROVE  OverlapsKnown' /\ CopiesCover'
<1>1. session'[s] = row /\ \A t \in Session : t # s => session'[t] = session[t]
  BY SessionMoves
<1>2. ASSUME NEW c \in Conversation, NEW t \in Unsaved(c)'
      PROVE  t \in Unsaved(c) /\ session'[t].exchange = session[t].exchange /\ session'[t].base = session[t].base
  <2>1. t \in Session /\ session'[t].kind = "chat" /\ session'[t].conv = c
          /\ session'[t].at \notin {"idle", "report"}
    BY <1>2 DEF Unsaved
  <2>2. CASE t # s
    BY <1>1, <2>1, <2>2 DEF Unsaved
  <2>3. CASE t = s
    BY <1>1, <2>1, <2>3 DEF Unsaved, Quiet
  <2> QED
    BY <2>2, <2>3
<1>3. ASSUME NEW m, m \notin overlapped, Kept(m)' PROVE Kept(m)
  <2>1. CASE m \in answered'
    BY <1>3, <2>1
  <2>2. CASE m \notin answered'
    <3>1. PICK t \in Session : session'[t].at = "report" /\ session'[t].kind = "chat" /\ session'[t].exchange = m
      BY <1>3, <2>2 DEF Kept
    <3>2. CASE t # s
      BY <1>1, <3>1, <3>2 DEF Kept
    <3>3. CASE t = s
      BY <1>1, <3>1, <3>3 DEF Kept, Quiet
    <3> QED
      BY <3>2, <3>3
  <2> QED
    BY <2>1, <2>2
<1>4. OverlapsKnown'
  BY <1>2 DEF OverlapsKnown, ContainersInv
<1>5. CopiesCover'
  <2>1. ASSUME NEW m \in Exchange \ overlapped, Kept(m)'
        PROVE  \E c \in Conversation : Covers(conv'[c], m) /\ \A t \in Unsaved(c)' : Covers(session'[t].base, m)
    <3>1. Kept(m)
      BY <1>3, <2>1
    <3>2. PICK c \in Conversation : Covers(conv[c], m) /\ \A t \in Unsaved(c) : Covers(session[t].base, m)
      BY <3>1 DEF CopiesCover, ContainersInv
    <3>3. \A t \in Unsaved(c)' : Covers(session'[t].base, m)
      BY <1>2, <3>2
    <3> QED
      BY <3>2, <3>3
  <2> QED
    BY <2>1 DEF CopiesCover, Covers
<1> QED
  BY <1>4, <1>5

LEMMA ChargedMoves ==
    ASSUME ContainersInv, NEW s \in Session, NEW row, RowSound(row),
           session' = [session EXCEPT ![s] = row]
    PROVE  \E n \in Nat :
        /\ Cardinality(Standing({"slot", "run"})) = n + (IF session[s].at \in {"slot", "run"} THEN 1 ELSE 0)
        /\ Cardinality(Standing({"slot", "run"})') = n + (IF row.at \in {"slot", "run"} THEN 1 ELSE 0)
<1>1. PICK P : P = {"slot", "run"}
  OBVIOUS
<1>2. PICK n \in Nat :
        /\ Cardinality(Standing(P)) = n + (IF session[s].at \in P THEN 1 ELSE 0)
        /\ Cardinality(Standing(P)') = n + (IF row.at \in P THEN 1 ELSE 0)
  BY SessionMoves
<1> QED
  BY <1>1, <1>2

\* A session that does not come to be charged.
LEMMA BudgetKept ==
    ASSUME ContainersInv, NEW s \in Session, NEW row, RowSound(row),
           session' = [session EXCEPT ![s] = row],
           row.at \in {"slot", "run"} => session[s].at \in {"slot", "run"},
           ran' = ran, carried' = carried, used' \in Nat, used <= used'
    PROVE  BudgetSound'
<1>1. PICK n \in Nat :
        /\ Cardinality(Standing({"slot", "run"})) = n + (IF session[s].at \in {"slot", "run"} THEN 1 ELSE 0)
        /\ Cardinality(Standing({"slot", "run"})') = n + (IF row.at \in {"slot", "run"} THEN 1 ELSE 0)
  BY ChargedMoves
<1>2. Cardinality(Standing({"slot", "run"})) \in Nat /\ Cardinality(Standing({"slot", "run"})') \in Nat
        /\ Cardinality(Standing({"slot", "run"})') <= Cardinality(Standing({"slot", "run"}))
  BY <1>1
<1>3. ran \in Nat /\ carried \in Nat /\ used \in Nat
  BY ContainersLimits DEF ContainersInv, CountersTyped
<1> QED
  BY <1>2, <1>3, ContainersLimits DEF BudgetSound, ContainersInv

\* A session that is charged within the budget.
LEMMA BudgetCharged ==
    ASSUME ContainersInv, NEW s \in Session, NEW row, RowSound(row),
           session' = [session EXCEPT ![s] = row],
           ran' = ran, carried' = carried, used' = used + 1, used + 1 <= ExecBudget
    PROVE  BudgetSound'
<1>1. PICK n \in Nat :
        /\ Cardinality(Standing({"slot", "run"})) = n + (IF session[s].at \in {"slot", "run"} THEN 1 ELSE 0)
        /\ Cardinality(Standing({"slot", "run"})') = n + (IF row.at \in {"slot", "run"} THEN 1 ELSE 0)
  BY ChargedMoves
<1>2. Cardinality(Standing({"slot", "run"})) \in Nat /\ Cardinality(Standing({"slot", "run"})') \in Nat
        /\ Cardinality(Standing({"slot", "run"})') <= Cardinality(Standing({"slot", "run"})) + 1
  BY <1>1
<1>3. ran \in Nat /\ carried \in Nat /\ used \in Nat
  BY ContainersLimits DEF ContainersInv, CountersTyped
<1> QED
  BY <1>2, <1>3, ContainersLimits DEF BudgetSound, ContainersInv

LEMMA AuditingMoves ==
    ASSUME ContainersInv, NEW s \in Session, NEW row, RowSound(row),
           session' = [session EXCEPT ![s] = row]
    PROVE  \E n \in Nat :
        /\ Cardinality(Standing({"audit"})) = n + (IF session[s].at = "audit" THEN 1 ELSE 0)
        /\ Cardinality(Standing({"audit"})') = n + (IF row.at = "audit" THEN 1 ELSE 0)
<1>1. PICK P : P = {"audit"}
  OBVIOUS
<1>2. PICK n \in Nat :
        /\ Cardinality(Standing(P)) = n + (IF session[s].at \in P THEN 1 ELSE 0)
        /\ Cardinality(Standing(P)') = n + (IF row.at \in P THEN 1 ELSE 0)
  BY SessionMoves
<1>3. (session[s].at \in P <=> session[s].at = "audit") /\ (row.at \in P <=> row.at = "audit")
  BY <1>1
<1> QED
  BY <1>1, <1>2, <1>3

\* A session that has no entry to write, before and after.
LEMMA AuditKept ==
    ASSUME ContainersInv, NEW s \in Session, NEW row, RowSound(row),
           session' = [session EXCEPT ![s] = row],
           session[s].at # "audit", row.at # "audit", row.cut => session[s].cut,
           unaudited' = unaudited, cuts' = cuts, killed' = killed, auditFaults' \in Nat, auditFaults <= auditFaults'
    PROVE  AuditSound'
<1>1. PICK n \in Nat :
        /\ Cardinality(Standing({"audit"})) = n + (IF session[s].at = "audit" THEN 1 ELSE 0)
        /\ Cardinality(Standing({"audit"})') = n + (IF row.at = "audit" THEN 1 ELSE 0)
  BY AuditingMoves
<1>2. Cardinality(Standing({"audit"})) = n /\ Cardinality(Standing({"audit"})') = n
  BY <1>1
<1>3. PICK k \in Nat :
        /\ Cardinality(Left) = k + (IF session[s].cut THEN 1 ELSE 0)
        /\ Cardinality(Left') = k + (IF row.cut THEN 1 ELSE 0)
  BY SessionMoves
<1>4. Cardinality(Left) \in Nat /\ Cardinality(Left') \in Nat /\ Cardinality(Left') <= Cardinality(Left)
  BY <1>3
<1>5. unaudited \in Nat /\ cuts \in Nat /\ auditFaults \in Nat /\ killed.command \in Nat
  BY ContainersLimits DEF ContainersInv, CountersTyped
<1> QED
  BY <1>2, <1>4, <1>5 DEF AuditSound, ContainersInv

LEMMA ConsolesMove ==
    ASSUME ContainersInv, NEW s \in Session, NEW row, RowSound(row),
           session' = [session EXCEPT ![s] = row]
    PROVE  \E n \in Nat :
        /\ Cardinality(Standing(ConsoleOpen)) = n + (IF session[s].at \in ConsoleOpen THEN 1 ELSE 0)
        /\ Cardinality(Standing(ConsoleOpen)') = n + (IF row.at \in ConsoleOpen THEN 1 ELSE 0)
<1>1. PICK P : P = ConsoleOpen
  OBVIOUS
<1>2. PICK n \in Nat :
        /\ Cardinality(Standing(P)) = n + (IF session[s].at \in P THEN 1 ELSE 0)
        /\ Cardinality(Standing(P)') = n + (IF row.at \in P THEN 1 ELSE 0)
  BY SessionMoves
<1>3. Standing(ConsoleOpen)' = Standing(P)'
  BY <1>1 DEF Standing, ConsoleOpen
<1> QED
  BY <1>1, <1>2, <1>3

\* A session that neither opens nor closes a console.
LEMMA ConsoleKept ==
    ASSUME ContainersInv, NEW s \in Session, NEW row, RowSound(row),
           session' = [session EXCEPT ![s] = row],
           session[s].at \in ConsoleOpen <=> row.at \in ConsoleOpen,
           unopened' = unopened, unended' = unended, killed' = killed,
           auditFaults' \in Nat, auditFaults <= auditFaults'
    PROVE  ConsoleSound'
<1>1. PICK n \in Nat :
        /\ Cardinality(Standing(ConsoleOpen)) = n + (IF session[s].at \in ConsoleOpen THEN 1 ELSE 0)
        /\ Cardinality(Standing(ConsoleOpen)') = n + (IF row.at \in ConsoleOpen THEN 1 ELSE 0)
  BY ConsolesMove
<1>2. /\ Cardinality(Standing(ConsoleOpen)') = Cardinality(Standing(ConsoleOpen))
      /\ Cardinality(Standing(ConsoleOpen)) \in Nat
  BY <1>1
<1>3. unopened \in Nat /\ unended \in Nat /\ auditFaults \in Nat /\ killed.console \in Nat
  BY ContainersLimits DEF ContainersInv, CountersTyped
<1> QED
  BY <1>2, <1>3 DEF ConsoleSound, ConsoleEntries, ContainersInv

\* A session that neither takes nor returns a slot.
LEMMA SlotsKept ==
    ASSUME ContainersInv, NEW s \in Session, NEW row, RowSound(row),
           session' = [session EXCEPT ![s] = row], slots' = slots,
           row.at \in {"run", "shell"} <=> session[s].at \in {"run", "shell"}
    PROVE  SlotsSound'
<1>1. session'[s] = row /\ \A t \in Session : t # s => session'[t] = session[t]
  BY SessionMoves
<1> QED
  BY <1>1 DEF SlotsSound, ContainersInv

LEMMA SlotTaken ==
    ASSUME ContainersInv, NEW s \in Session, NEW row, RowSound(row),
           session' = [session EXCEPT ![s] = row], row.at \in {"run", "shell"},
           SlotFree, slots' = slots \cup {s}
    PROVE  SlotsSound'
<1>1. session'[s] = row /\ \A t \in Session : t # s => session'[t] = session[t]
  BY SessionMoves
<1>2. slots \subseteq Session /\ IsFiniteSet(slots)
  BY ContainersLimits, FS_Subset DEF ContainersInv, SlotsSound
<1>3. Cardinality(slots \cup {s}) <= Cardinality(slots) + 1 /\ Cardinality(slots) \in Nat
        /\ Cardinality(slots \cup {s}) \in Nat
  <2>1. Cardinality(slots) \in Nat
    BY <1>2, FS_CardinalityType
  <2>2. Cardinality(slots \cup {s}) = IF s \in slots THEN Cardinality(slots) ELSE Cardinality(slots) + 1
    BY <1>2, FS_AddElement
  <2> QED
    BY <2>1, <2>2
<1>4. Cardinality(slots') <= Slots
  BY <1>3, ContainersLimits DEF SlotFree
<1>5. \A t \in Session : t \in slots' <=> session'[t].at \in {"run", "shell"}
  BY <1>1 DEF SlotsSound, ContainersInv
<1> QED
  BY <1>2, <1>4, <1>5 DEF SlotsSound

LEMMA SlotReturned ==
    ASSUME ContainersInv, NEW s \in Session, NEW row, RowSound(row),
           session' = [session EXCEPT ![s] = row], row.at \notin {"run", "shell"},
           slots' = slots \ {s}
    PROVE  SlotsSound'
<1>1. session'[s] = row /\ \A t \in Session : t # s => session'[t] = session[t]
  BY SessionMoves
<1>2. slots \subseteq Session /\ IsFiniteSet(slots) /\ Cardinality(slots) <= Slots
  BY ContainersLimits, FS_Subset DEF ContainersInv, SlotsSound
<1>3. Cardinality(slots \ {s}) <= Cardinality(slots) /\ Cardinality(slots) \in Nat
        /\ Cardinality(slots \ {s}) \in Nat
  <2>1. Cardinality(slots) \in Nat
    BY <1>2, FS_CardinalityType
  <2>2. Cardinality(slots \ {s}) \in Nat
          /\ Cardinality(slots) = Cardinality(slots \ {s}) + (IF s \in slots THEN 1 ELSE 0)
    BY <1>2, CardinalityAround
  <2> QED
    BY <2>1, <2>2
<1>4. Cardinality(slots') <= Slots
  BY <1>2, <1>3, ContainersLimits
<1>5. \A t \in Session : t \in slots' <=> session'[t].at \in {"run", "shell"}
  BY <1>1 DEF SlotsSound, ContainersInv
<1> QED
  BY <1>2, <1>4, <1>5 DEF SlotsSound

\* A quiet move, once the counters are settled.
LEMMA QuietStep ==
    ASSUME ContainersInv, NEW s \in Session, NEW row, RowSound(row),
           session' = [session EXCEPT ![s] = row], Quiet(session[s], row),
           UNCHANGED <<conv, overlapped, begun, answered>>,
           SlotsSound', BudgetSound', AuditSound', ConsoleSound',
           used' \in 0..(ExecBudget + 1), ran' \in Nat, carried' \in Nat, unaudited' \in Nat,
           unopened' \in Nat, unended' \in Nat, cuts' \in 0..MaxCuts, auditFaults' \in 0..MaxAuditFaults,
           UNCHANGED <<killed, deaths>>
    PROVE  ContainersInv'
<1>1. SessionsSound'
  BY SessionMoves
<1>2. \A m \in answered' \ overlapped : Kept(m)
  BY DEF Kept
<1>3. OverlapsKnown' /\ CopiesCover'
  BY <1>2, QuietMoves
<1>4. CountersTyped' /\ ConvTyped'
  BY DEF CountersTyped, ConvTyped, ContainersInv
<1> QED
  BY <1>1, <1>3, <1>4 DEF ContainersInv

LEMMA Counters ==
    ASSUME ContainersInv
    PROVE  /\ used \in 0..(ExecBudget + 1) /\ used \in Nat /\ ran \in Nat /\ carried \in Nat /\ unaudited \in Nat
           /\ unopened \in Nat /\ unended \in Nat /\ cuts \in 0..MaxCuts /\ cuts \in Nat
           /\ auditFaults \in 0..MaxAuditFaults /\ auditFaults \in Nat
           /\ killed.command \in Nat /\ killed.console \in Nat
BY ContainersLimits DEF ContainersInv, CountersTyped

LEMMA FaultCounted ==
    ASSUME ContainersInv, AuditFault
    PROVE  auditFaults' = auditFaults + 1 /\ auditFaults' \in 0..MaxAuditFaults /\ auditFaults' \in Nat
BY Counters, ContainersLimits DEF AuditFault

\* A session ends, outside of its run, its console and its entry.
LEMMA EndInv ==
    ASSUME ContainersInv, NEW s \in Session, End(s),
           session[s].at \notin {"run", "shell", "audit", "wait", "leave"},
           UNCHANGED <<conv, slots, ran, carried, begun, replies, audit, cuts, auditFaults, killed, deaths>>,
           used' \in 0..(ExecBudget + 1), used <= used'
    PROVE  ContainersInv'
<1> DEFINE row == NoSession
<1>1. session' = [session EXCEPT ![s] = row] /\ RowSound(row) /\ row.at = "idle" /\ ~row.cut
  BY NoSessionSound DEF End
<1>2. Quiet(session[s], row)
  BY <1>1 DEF Quiet
<1> HIDE DEF row
<1>3. used' \in Nat /\ auditFaults' \in Nat /\ auditFaults <= auditFaults' /\ UNCHANGED <<unaudited, unopened, unended>>
  BY ContainersLimits, Counters DEF audit
<1>4. SlotsSound' /\ BudgetSound' /\ AuditSound'
  BY <1>1, <1>3, SlotsKept, BudgetKept, AuditKept
<1>5. ConsoleSound'
  BY <1>1, <1>3, ConsoleKept DEF ConsoleOpen
<1> QED
  BY <1>1, <1>2, <1>3, <1>4, <1>5, Counters, QuietStep DEF replies

\* The row a step that only moves a session writes.
LEMMA GotoRow ==
    ASSUME ContainersInv, NEW s \in Session, NEW at \in SessionPlace, Goto(s, at)
    PROVE  \E row : /\ session' = [session EXCEPT ![s] = row] /\ row \in SessionRow
                    /\ row.at = at /\ row.kind = session[s].kind /\ row.conv = session[s].conv
                    /\ row.base = session[s].base /\ row.step = session[s].step
                    /\ row.exchange = session[s].exchange /\ row.cut = session[s].cut
<1> DEFINE row == [session[s] EXCEPT !.at = at]
<1>1. session[s] \in SessionRow /\ session \in [Session -> SessionRow]
  BY DEF ContainersInv, SessionsSound
<1>2. session' = [session EXCEPT ![s] = row]
  BY <1>1 DEF Goto
<1>3. /\ row \in SessionRow
      /\ row.at = at /\ row.kind = session[s].kind /\ row.conv = session[s].conv
      /\ row.base = session[s].base /\ row.step = session[s].step
      /\ row.exchange = session[s].exchange /\ row.cut = session[s].cut
  BY <1>1 DEF SessionRow
<1> QED
  BY <1>2, <1>3

\* The next turn.
LEMMA NextTurnRow ==
    ASSUME ContainersInv, NEW s \in Session, session[s].at \in {"budget", "audit"},
           session' = [session EXCEPT ![s].at = "turn", ![s].step = NextStep(session[s])]
    PROVE  \E row : /\ session' = [session EXCEPT ![s] = row] /\ RowSound(row)
                    /\ row.at = "turn" /\ row.cut = session[s].cut /\ Quiet(session[s], row)
<1> DEFINE row == [session[s] EXCEPT !.at = "turn", !.step = NextStep(session[s])]
<1>1. session[s] \in SessionRow /\ session \in [Session -> SessionRow] /\ RowSound(session[s])
  BY DEF ContainersInv, SessionsSound
<1>2. session' = [session EXCEPT ![s] = row]
  BY <1>1
<1>3. NextStep(session[s]) \in 1..Steps(session[s].kind) /\ NextStep(session[s]) \in Nat
  BY <1>1, StepsPositive DEF RowSound, NextStep
<1>4. /\ row \in SessionRow
      /\ row.at = "turn" /\ row.kind = session[s].kind /\ row.conv = session[s].conv
      /\ row.base = session[s].base /\ row.step = NextStep(session[s])
      /\ row.exchange = session[s].exchange /\ row.cut = session[s].cut
  BY <1>1, <1>3 DEF SessionRow, SessionPlace
<1> HIDE DEF row
<1>5. RowSound(row)
  BY <1>1, <1>3, <1>4 DEF RowSound
<1>6. Quiet(session[s], row)
  BY <1>4 DEF Quiet
<1> QED
  BY <1>2, <1>4, <1>5, <1>6

\* A plain move to another position.
LEMMA GotoInv ==
    ASSUME ContainersInv, NEW s \in Session, NEW at \in SessionPlace, Goto(s, at),
           session[s].at \notin {"idle", "audit"}, at \notin {"idle", "audit"},
           at = "report" => session[s].kind # "chat",
           session[s].at # "report",
           at \in {"turn", "budget", "slot", "run", "save", "report"} => session[s].kind \in {"chat", "debug"},
           at \in {"budget", "slot", "run"} => session[s].step < Steps(session[s].kind),
           at \in {"wait", "shell", "leave"} <=> session[s].at \in {"wait", "shell", "leave"},
           UNCHANGED <<conv, begun, replies, audit, ran, carried, cuts, auditFaults, killed, deaths>>,
           \/ used <= used' /\ (at \in {"slot", "run"} => session[s].at \in {"slot", "run"})
           \/ used' = used + 1 /\ used + 1 <= ExecBudget,
           \/ slots' = slots /\ (at \in {"run", "shell"} <=> session[s].at \in {"run", "shell"})
           \/ slots' = slots \cup {s} /\ SlotFree /\ at \in {"run", "shell"}
           \/ slots' = slots \ {s} /\ at \notin {"run", "shell"},
           used' \in 0..(ExecBudget + 1)
    PROVE  ContainersInv'
<1>1. PICK row : /\ session' = [session EXCEPT ![s] = row] /\ row \in SessionRow
                 /\ row.at = at /\ row.kind = session[s].kind /\ row.conv = session[s].conv
                 /\ row.base = session[s].base /\ row.step = session[s].step
                 /\ row.exchange = session[s].exchange /\ row.cut = session[s].cut
  BY GotoRow
<1>2. RowSound(session[s])
  BY DEF ContainersInv, SessionsSound
<1>3. RowSound(row)
  BY <1>1, <1>2 DEF RowSound
<1>4. Quiet(session[s], row)
  BY <1>1 DEF Quiet
<1>5. SlotsSound'
  BY <1>1, <1>3, SlotsKept, SlotTaken, SlotReturned
<1>6. auditFaults' \in Nat /\ used' \in Nat /\ auditFaults <= auditFaults' /\ UNCHANGED <<unaudited, unopened, unended>>
  BY ContainersLimits, Counters DEF audit
<1>7. AuditSound' /\ ConsoleSound'
  BY <1>1, <1>3, <1>6, AuditKept, ConsoleKept DEF ConsoleOpen
<1>8. BudgetSound'
  BY <1>1, <1>3, <1>6, BudgetKept, BudgetCharged
<1> QED
  BY <1>1, <1>3, <1>4, <1>5, <1>6, <1>7, <1>8, Counters, QuietStep DEF replies

LEMMA RowOf ==
    ASSUME ContainersInv, NEW s \in Session
    PROVE  RowSound(session[s]) /\ session[s] \in SessionRow
BY DEF ContainersInv, SessionsSound

LEMMA CutInv ==
    ASSUME ContainersInv, NEW s \in Session, Cut(s)
    PROVE  ContainersInv'
<1> DEFINE row == [session[s] EXCEPT !.cut = TRUE]
<1>1. session[s] \in SessionRow /\ session \in [Session -> SessionRow] /\ RowSound(session[s])
  BY DEF ContainersInv, SessionsSound
<1>2. session' = [session EXCEPT ![s] = row] /\ session[s].at # "idle" /\ ~session[s].cut
        /\ cuts < MaxCuts /\ cuts' = cuts + 1
        /\ UNCHANGED <<conv, slots, used, ran, carried, begun, replies, unaudited, unopened, unended, auditFaults, killed, deaths>>
  BY <1>1 DEF Cut, audit, process
<1>3. /\ row \in SessionRow
      /\ row.at = session[s].at /\ row.kind = session[s].kind /\ row.conv = session[s].conv
      /\ row.base = session[s].base /\ row.step = session[s].step
      /\ row.exchange = session[s].exchange /\ row.cut
  BY <1>1 DEF SessionRow
<1> HIDE DEF row
<1>4. RowSound(row) /\ Quiet(session[s], row)
  BY <1>1, <1>2, <1>3 DEF RowSound, Quiet
<1>5. SlotsSound' /\ BudgetSound'
  <2>1. SlotsSound'
    BY <1>2, <1>3, <1>4, SlotsKept
  <2>2. used' \in Nat /\ used <= used'
    BY <1>2, Counters
  <2> QED
    BY <1>2, <1>3, <1>4, <2>1, <2>2, BudgetKept
<1>6. AuditSound'
  <2>1. PICK n \in Nat :
          /\ Cardinality(Standing({"audit"})) = n + (IF session[s].at = "audit" THEN 1 ELSE 0)
          /\ Cardinality(Standing({"audit"})') = n + (IF row.at = "audit" THEN 1 ELSE 0)
    BY <1>2, <1>4, AuditingMoves
  <2>2. Cardinality(Standing({"audit"})') = Cardinality(Standing({"audit"})) /\ Cardinality(Standing({"audit"})) \in Nat
    BY <1>3, <2>1
  <2>3. PICK k \in Nat :
          /\ Cardinality(Left) = k + (IF session[s].cut THEN 1 ELSE 0)
          /\ Cardinality(Left') = k + (IF row.cut THEN 1 ELSE 0)
    BY <1>2, <1>4, SessionMoves
  <2>4. Cardinality(Left) = k /\ Cardinality(Left') = k + 1
    BY <1>2, <1>3, <2>3
  <2> QED
    BY <1>2, <2>2, <2>4, Counters DEF AuditSound, ContainersInv, audit
<1>7. cuts' \in 0..MaxCuts
  BY <1>2, Counters, ContainersLimits
<1>8. ConsoleSound'
  <2>1. auditFaults' \in Nat /\ auditFaults <= auditFaults' /\ (session[s].at \in ConsoleOpen <=> row.at \in ConsoleOpen)
    BY <1>2, <1>3, Counters
  <2> QED
    BY <1>2, <1>4, <2>1, ConsoleKept
<1> QED
  BY <1>2, <1>4, <1>5, <1>6, <1>7, <1>8, Counters, QuietStep DEF replies

LEMMA HourInv ==
    ASSUME ContainersInv, Hour
    PROVE  ContainersInv'
<1>1. /\ used' = 0 /\ ran' = 0 /\ carried' = Cardinality(Standing({"slot", "run"}))
      /\ UNCHANGED <<conv, session, slots, begun, answered, overlapped, unaudited, unopened, unended,
                     cuts, auditFaults, killed, deaths>>
  BY DEF Hour, replies, audit, process
<1>2. Cardinality(Standing({"slot", "run"})) \in Nat
  BY ContainersLimits, FS_Subset, FS_CardinalityType DEF Standing
<1>3. Standing({"slot", "run"})' = Standing({"slot", "run"}) /\ Standing({"audit"})' = Standing({"audit"})
        /\ Left' = Left /\ Standing(ConsoleOpen)' = Standing(ConsoleOpen)
  BY <1>1 DEF Standing, Left, ConsoleOpen
<1>4. BudgetSound'
  BY <1>1, <1>2, <1>3, ContainersLimits DEF BudgetSound
<1>5. AuditSound'
  BY <1>1, <1>3 DEF AuditSound, ContainersInv
<1>6. CountersTyped'
  BY <1>1, <1>2, ContainersLimits DEF CountersTyped, ContainersInv
<1>7. SessionsSound' /\ SlotsSound' /\ ConsoleSound' /\ ConvTyped'
  BY <1>1, <1>3 DEF ContainersInv, SessionsSound, SlotsSound, ConsoleSound, ConsoleEntries, ConvTyped
<1>8. OverlapsKnown' /\ CopiesCover'
  BY <1>1 DEF ContainersInv, OverlapsKnown, CopiesCover, Unsaved, Kept, Covers
<1> QED
  BY <1>4, <1>5, <1>6, <1>7, <1>8 DEF ContainersInv

LEMMA OpenOtherInv ==
    ASSUME ContainersInv, NEW s \in Session, OpenDebug(s) \/ OpenConsole(s)
    PROVE  ContainersInv'
<1>1. PICK row : /\ session' = [session EXCEPT ![s] = row] /\ RowSound(row)
                 /\ row.kind # "chat" /\ row.at \in {"turn", "enter"} /\ ~row.cut
  <2> DEFINE d == [NoSession EXCEPT !.at = "turn", !.kind = "debug"]
             c == [NoSession EXCEPT !.at = "enter", !.kind = "console"]
  <2>1. NoSession \in SessionRow
    BY NoSessionSound DEF RowSound
  <2>2. d \in SessionRow /\ d.at = "turn" /\ d.kind = "debug" /\ d.step = 1 /\ d.base = <<>> /\ ~d.cut
    BY <2>1, NoSessionSound DEF SessionRow, SessionPlace
  <2>3. c \in SessionRow /\ c.at = "enter" /\ c.kind = "console" /\ c.step = 1 /\ c.base = <<>> /\ ~c.cut
    BY <2>1, NoSessionSound DEF SessionRow, SessionPlace
  <2> HIDE DEF d, c
  <2>4. RowSound(d) /\ RowSound(c)
    BY <2>2, <2>3, StepsPositive, ContainersLimits DEF RowSound
  <2>5. session' = [session EXCEPT ![s] = d] \/ session' = [session EXCEPT ![s] = c]
    BY DEF OpenDebug, OpenConsole, OpenSession, d, c
  <2> QED
    BY <2>2, <2>3, <2>4, <2>5
<1>2. session[s].at = "idle"
        /\ UNCHANGED <<conv, slots, used, ran, carried, begun, replies, unaudited, unopened, unended, cuts, auditFaults,
                       killed, deaths>>
  BY NoSessionSound DEF OpenDebug, OpenConsole, OpenSession, audit, process
<1>3. SlotsSound' /\ BudgetSound' /\ AuditSound' /\ ConsoleSound'
  <2>1. used' \in Nat /\ used <= used' /\ auditFaults' \in Nat /\ auditFaults <= auditFaults'
    BY <1>2, Counters
  <2>2. SlotsSound'
    BY <1>1, <1>2, SlotsKept
  <2>3. BudgetSound'
    BY <1>1, <1>2, <2>1, BudgetKept
  <2>4. AuditSound' /\ ConsoleSound'
    BY <1>1, <1>2, <2>1, AuditKept, ConsoleKept DEF ConsoleOpen
  <2> QED
    BY <2>2, <2>3, <2>4
<1>4. Quiet(session[s], row)
  BY <1>1 DEF Quiet
<1> QED
  BY <1>1, <1>2, <1>3, <1>4, Counters, QuietStep DEF replies

LEMMA TurnInv ==
    ASSUME ContainersInv, NEW s \in Session, Turn(s)
    PROVE  ContainersInv'
<1>1. session[s].at = "turn"
        /\ UNCHANGED <<conv, slots, used, ran, carried, begun, replies, audit, cuts, auditFaults, killed, deaths>>
  BY DEF Turn, process
<1>2. RowSound(session[s])
  BY RowOf
<1>3. CASE End(s)
  BY <1>1, <1>3, Counters, EndInv DEF audit
<1>4. CASE ~LastStep(session[s]) /\ Goto(s, "budget")
  <2>1. session[s].step < Steps(session[s].kind) /\ session[s].kind \in {"chat", "debug"}
    BY <1>1, <1>2, <1>4, StepsPositive DEF LastStep, RowSound
  <2> QED
    BY <1>1, <1>4, <2>1, Counters, GotoInv DEF SessionPlace, audit
<1>5. CASE Goto(s, "save")
  <2>1. session[s].kind \in {"chat", "debug"}
    BY <1>1, <1>2 DEF RowSound
  <2> QED
    BY <1>1, <1>5, <2>1, Counters, GotoInv DEF SessionPlace, audit
<1> QED
  BY <1>3, <1>4, <1>5 DEF Turn

LEMMA TwoLeast ==
    ASSUME NEW a \in Nat, NEW b \in Nat
    PROVE  Min({a, b}) = IF a <= b THEN a ELSE b
<1>1. CASE a <= b
  <2>1. a \in {a, b} /\ \A y \in {a, b} : a <= y
    BY <1>1
  <2>2. \A x \in {a, b} : (\A y \in {a, b} : x <= y) => x = a
    BY <1>1
  <2> QED
    BY <1>1, <2>1, <2>2 DEF Min
<1>2. CASE b < a
  <2>1. b \in {a, b} /\ \A y \in {a, b} : b <= y
    BY <1>2
  <2>2. \A x \in {a, b} : (\A y \in {a, b} : x <= y) => x = b
    BY <1>2
  <2> QED
    BY <1>2, <2>1, <2>2 DEF Min
<1> QED
  BY <1>1, <1>2

LEMMA BudgetInv ==
    ASSUME ContainersInv, NEW s \in Session, Budget(s)
    PROVE  ContainersInv'
<1>1. session[s].at = "budget"
        /\ UNCHANGED <<conv, slots, ran, carried, begun, replies, audit, cuts, auditFaults, killed, deaths>>
  BY DEF Budget, process
<1>2. RowSound(session[s])
  BY RowOf
<1>3. used' \in 0..(ExecBudget + 1) /\ used <= used' /\ used' \in Nat
        /\ (~session[s].cut /\ used + 1 <= ExecBudget => used' = used + 1)
  <2>1. Min({used + 1, ExecBudget + 1}) = IF used + 1 <= ExecBudget + 1 THEN used + 1 ELSE ExecBudget + 1
    BY Counters, ContainersLimits, TwoLeast
  <2>2. used' = IF session[s].cut THEN used ELSE Min({used + 1, ExecBudget + 1})
    BY DEF Budget
  <2> QED
    BY <2>1, <2>2, Counters, ContainersLimits
<1>4. CASE End(s)
  BY <1>1, <1>3, <1>4, Counters, EndInv DEF audit
<1>5. CASE ~End(s) /\ Goto(s, "slot")
  <2>1. ~session[s].cut /\ used + 1 <= ExecBudget
    BY <1>5 DEF Budget, WithinBudget
  <2>2. used' = used + 1
    BY <1>3, <2>1
  <2>3. session[s].step < Steps(session[s].kind) /\ session[s].kind \in {"chat", "debug"}
    BY <1>1, <1>2 DEF RowSound
  <2> QED
    BY <1>1, <1>3, <1>5, <2>1, <2>2, <2>3, Counters, GotoInv DEF SessionPlace, audit
<1>6. CASE session' = [session EXCEPT ![s].at = "turn", ![s].step = NextStep(session[s])]
  <2>1. PICK row : /\ session' = [session EXCEPT ![s] = row] /\ RowSound(row)
                   /\ row.at = "turn" /\ row.cut = session[s].cut /\ Quiet(session[s], row)
    BY <1>1, <1>6, NextTurnRow
  <2>2. SlotsSound' /\ BudgetSound' /\ AuditSound' /\ ConsoleSound'
    <3>1. auditFaults' \in Nat /\ auditFaults <= auditFaults' /\ UNCHANGED <<unaudited, unopened, unended>>
      BY <1>1, Counters DEF audit
    <3>2. SlotsSound'
      BY <1>1, <2>1, SlotsKept
    <3>3. BudgetSound'
      BY <1>1, <1>3, <2>1, BudgetKept
    <3>4. AuditSound' /\ ConsoleSound'
      BY <1>1, <2>1, <3>1, AuditKept, ConsoleKept DEF ConsoleOpen
    <3> QED
      BY <3>2, <3>3, <3>4
  <2> QED
    BY <1>1, <1>3, <2>1, <2>2, Counters, QuietStep DEF replies, audit
<1> QED
  BY <1>4, <1>5, <1>6 DEF Budget

LEMMA SlotInv ==
    ASSUME ContainersInv, NEW s \in Session, TakeSlot(s) \/ SlotTimeout(s)
    PROVE  ContainersInv'
<1>1. RowSound(session[s]) /\ session[s].at = "slot"
  BY RowOf DEF TakeSlot, SlotTimeout
<1>2. session[s].step < Steps(session[s].kind) /\ session[s].kind \in {"chat", "debug"}
  BY <1>1 DEF RowSound
<1>3. CASE TakeSlot(s)
  BY <1>1, <1>2, <1>3, Counters, GotoInv DEF TakeSlot, SessionPlace, process
<1>4. CASE SlotTimeout(s)
  BY <1>1, <1>4, Counters, EndInv DEF SlotTimeout, process
<1> QED
  BY <1>3, <1>4

LEMMA RunInv ==
    ASSUME ContainersInv, NEW s \in Session, Run(s)
    PROVE  ContainersInv'
<1>1. session[s].at = "run" /\ ran' = ran + 1
        /\ UNCHANGED <<conv, used, carried, begun, replies, unopened, unended, cuts, killed, deaths>>
  BY DEF Run, process
<1>2. PICK ok \in BOOLEAN, written \in BOOLEAN :
         /\ ok => ~session[s].cut /\ written
         /\ IF written THEN UNCHANGED auditFaults ELSE AuditFault
         /\ slots' = slots \ {s}
         /\ unaudited' = IF ~ok /\ written THEN unaudited ELSE unaudited + 1
         /\ IF ok THEN Goto(s, "audit") ELSE End(s)
  BY DEF Run, SlotsAfter, UnauditedAfter
<1>3. RowSound(session[s])
  BY RowOf
<1>4. PICK row : /\ session' = [session EXCEPT ![s] = row] /\ RowSound(row) /\ Quiet(session[s], row)
                 /\ row.at = (IF ok THEN "audit" ELSE "idle")
                 /\ (row.cut => session[s].cut)
  <2>1. CASE ok
    <3>1. PICK row : /\ session' = [session EXCEPT ![s] = row] /\ row \in SessionRow
                     /\ row.at = "audit" /\ row.kind = session[s].kind /\ row.conv = session[s].conv
                     /\ row.base = session[s].base /\ row.step = session[s].step
                     /\ row.exchange = session[s].exchange /\ row.cut = session[s].cut
      BY <1>2, <2>1, GotoRow DEF SessionPlace
    <3>2. RowSound(row)
      BY <1>1, <1>3, <3>1 DEF RowSound
    <3>3. Quiet(session[s], row)
      BY <1>1, <3>1 DEF Quiet
    <3> QED
      BY <2>1, <3>1, <3>2, <3>3
  <2>2. CASE ~ok
    <3>1. session' = [session EXCEPT ![s] = NoSession] /\ Quiet(session[s], NoSession)
      BY <1>2, <2>2, NoSessionSound DEF End, Quiet
    <3> QED
      BY <2>2, <3>1, NoSessionSound
  <2> QED
    BY <2>1, <2>2
<1>5. SlotsSound'
  BY <1>2, <1>4, SlotReturned
<1>6. BudgetSound'
  <2>1. PICK n \in Nat :
          /\ Cardinality(Standing({"slot", "run"})) = n + (IF session[s].at \in {"slot", "run"} THEN 1 ELSE 0)
          /\ Cardinality(Standing({"slot", "run"})') = n + (IF row.at \in {"slot", "run"} THEN 1 ELSE 0)
    BY <1>4, ChargedMoves
  <2>2. Cardinality(Standing({"slot", "run"})) = n + 1 /\ Cardinality(Standing({"slot", "run"})') = n
    BY <1>1, <1>4, <2>1
  <2> QED
    BY <1>1, <2>2, Counters, ContainersLimits DEF BudgetSound, ContainersInv
<1>7. auditFaults' \in 0..MaxAuditFaults /\ auditFaults' = IF written THEN auditFaults ELSE auditFaults + 1
  BY <1>2, Counters, FaultCounted
<1>8. AuditSound' /\ unaudited' \in Nat
  <2>1. PICK n \in Nat :
          /\ Cardinality(Standing({"audit"})) = n + (IF session[s].at = "audit" THEN 1 ELSE 0)
          /\ Cardinality(Standing({"audit"})') = n + (IF row.at = "audit" THEN 1 ELSE 0)
    BY <1>4, AuditingMoves
  <2>2. Cardinality(Standing({"audit"})) = n /\ Cardinality(Standing({"audit"})') = n + (IF ok THEN 1 ELSE 0)
    BY <1>1, <1>4, <2>1
  <2>3. PICK k \in Nat :
          /\ Cardinality(Left) = k + (IF session[s].cut THEN 1 ELSE 0)
          /\ Cardinality(Left') = k + (IF row.cut THEN 1 ELSE 0)
    BY <1>4, SessionMoves
  <2>4. Cardinality(Left) \in Nat /\ Cardinality(Left') \in Nat /\ Cardinality(Left') <= Cardinality(Left)
    BY <1>4, <2>3
  <2>5. unaudited' = (IF ok THEN unaudited + 1 ELSE IF written THEN unaudited ELSE unaudited + 1)
    BY <1>2
  <2>6. ok => written
    BY <1>2
  <2> QED
    BY <1>1, <1>7, <2>2, <2>4, <2>5, <2>6, Counters DEF AuditSound, ContainersInv
<1>9. ConsoleSound'
  <2>1. auditFaults' \in Nat /\ auditFaults <= auditFaults'
    BY <1>7, Counters
  <2> QED
    BY <1>1, <1>4, <2>1, ConsoleKept DEF ConsoleOpen
<1>10. ran' \in Nat
  BY <1>1, Counters
<1> QED
  BY <1>1, <1>4, <1>5, <1>6, <1>7, <1>8, <1>9, <1>10, Counters, QuietStep DEF replies

LEMMA AuditExecInv ==
    ASSUME ContainersInv, NEW s \in Session, AuditExec(s)
    PROVE  ContainersInv'
<1>1. session[s].at = "audit"
        /\ UNCHANGED <<conv, slots, used, ran, carried, begun, replies, unopened, unended, cuts, killed, deaths>>
  BY DEF AuditExec, process
<1> DEFINE entered == ~session[s].cut /\ unaudited' = unaudited - 1 /\ auditFaults' = auditFaults
           refused == unaudited' = unaudited /\ ((session[s].cut /\ auditFaults' = auditFaults) \/ AuditFault)
<1>2. PICK row : /\ session' = [session EXCEPT ![s] = row] /\ RowSound(row) /\ Quiet(session[s], row)
                 /\ row.at \in {"turn", "idle"} /\ ~row.cut
                 /\ entered \/ refused
  <2>1. CASE ~session[s].cut /\ unaudited' = unaudited - 1 /\ UNCHANGED auditFaults
               /\ session' = [session EXCEPT ![s].at = "turn", ![s].step = NextStep(session[s])]
    <3>1. PICK row : /\ session' = [session EXCEPT ![s] = row] /\ RowSound(row)
                     /\ row.at = "turn" /\ row.cut = session[s].cut /\ Quiet(session[s], row)
      BY <1>1, <2>1, NextTurnRow
    <3> QED
      BY <2>1, <3>1
  <2>2. CASE End(s) /\ UNCHANGED unaudited /\ ((session[s].cut /\ UNCHANGED auditFaults) \/ AuditFault)
    <3>1. session' = [session EXCEPT ![s] = NoSession] /\ Quiet(session[s], NoSession)
      BY <2>2, NoSessionSound DEF End, Quiet
    <3> QED
      BY <2>2, <3>1, NoSessionSound
  <2> QED
    BY <2>1, <2>2 DEF AuditExec
<1>3. used' \in Nat /\ used <= used'
  BY <1>1, Counters
<1>4. SlotsSound' /\ BudgetSound'
  <2>1. SlotsSound'
    BY <1>1, <1>2, SlotsKept
  <2> QED
    BY <1>1, <1>2, <1>3, <2>1, BudgetKept
<1>5. auditFaults' \in 0..MaxAuditFaults /\ auditFaults' \in Nat /\ auditFaults <= auditFaults'
  BY <1>2, Counters, FaultCounted
<1>6. AuditSound' /\ unaudited' \in Nat
  <2>1. PICK n \in Nat :
          /\ Cardinality(Standing({"audit"})) = n + (IF session[s].at = "audit" THEN 1 ELSE 0)
          /\ Cardinality(Standing({"audit"})') = n + (IF row.at = "audit" THEN 1 ELSE 0)
    BY <1>2, AuditingMoves
  <2>2. Cardinality(Standing({"audit"})) = n + 1 /\ Cardinality(Standing({"audit"})') = n
    BY <1>1, <1>2, <2>1
  <2>3. PICK k \in Nat :
          /\ Cardinality(Left) = k + (IF session[s].cut THEN 1 ELSE 0)
          /\ Cardinality(Left') = k + (IF row.cut THEN 1 ELSE 0)
    BY <1>2, SessionMoves
  <2>4. Cardinality(Left') = k /\ Cardinality(Left) \in Nat /\ k <= Cardinality(Left)
          /\ (session[s].cut => Cardinality(Left) = k + 1)
    BY <1>2, <2>3
  <2>5. n + 1 <= unaudited
          /\ unaudited + Cardinality(Left) <= n + 1 + cuts + auditFaults + killed.command
    BY <2>2 DEF AuditSound, ContainersInv
  <2>6. CASE entered
    <3>1. unaudited' = unaudited - 1 /\ auditFaults' = auditFaults
      BY <2>6
    <3> QED
      BY <1>1, <2>2, <2>4, <2>5, <3>1, Counters DEF AuditSound
  <2>7. CASE refused /\ AuditFault
    <3>1. unaudited' = unaudited /\ auditFaults' = auditFaults + 1
      BY <2>7, FaultCounted
    <3> QED
      BY <1>1, <2>2, <2>4, <2>5, <3>1, Counters DEF AuditSound
  <2>8. CASE refused /\ session[s].cut /\ auditFaults' = auditFaults
    <3>1. unaudited' = unaudited /\ Cardinality(Left) = k + 1
      BY <2>4, <2>8
    <3> QED
      BY <1>1, <2>2, <2>4, <2>5, <2>8, <3>1, Counters DEF AuditSound
  <2> QED
    BY <1>2, <2>6, <2>7, <2>8
<1>7. ConsoleSound'
  BY <1>1, <1>2, <1>5, ConsoleKept DEF ConsoleOpen
<1> QED
  BY <1>1, <1>2, <1>4, <1>5, <1>6, <1>7, Counters, QuietStep DEF replies

\* A console that is opened, and one that is closed.
LEMMA AuditOpenInv ==
    ASSUME ContainersInv, NEW s \in Session, AuditOpen(s)
    PROVE  ContainersInv'
<1>1. session[s].at = "enter" /\ Goto(s, "wait") /\ unended' = unended + 1
        /\ UNCHANGED <<conv, slots, used, ran, carried, begun, replies, unaudited, cuts, killed, deaths>>
  BY DEF AuditOpen, process
<1>2. PICK row : /\ session' = [session EXCEPT ![s] = row] /\ row \in SessionRow
                 /\ row.at = "wait" /\ row.kind = session[s].kind /\ row.conv = session[s].conv
                 /\ row.base = session[s].base /\ row.step = session[s].step
                 /\ row.exchange = session[s].exchange /\ row.cut = session[s].cut
  BY <1>1, GotoRow DEF SessionPlace
<1>3. RowSound(row) /\ Quiet(session[s], row)
  BY <1>1, <1>2, RowOf DEF RowSound, Quiet
<1>4. /\ auditFaults' \in 0..MaxAuditFaults /\ auditFaults' \in Nat /\ auditFaults <= auditFaults'
      /\ unopened' \in Nat /\ unopened' <= unopened + (auditFaults' - auditFaults)
  <2>1. CASE UNCHANGED <<auditFaults, unopened>>
    BY <2>1, Counters
  <2>2. CASE AuditFault /\ unopened' = unopened + 1
    BY <2>2, Counters, FaultCounted
  <2> QED
    BY <2>1, <2>2 DEF AuditOpen
<1>5. used' \in Nat /\ used <= used'
  BY <1>1, Counters
<1>6. SlotsSound' /\ BudgetSound' /\ AuditSound'
  BY <1>1, <1>2, <1>3, <1>4, <1>5, SlotsKept, BudgetKept, AuditKept
<1>7. ConsoleSound'
  <2>1. PICK n \in Nat :
          /\ Cardinality(Standing(ConsoleOpen)) = n + (IF session[s].at \in ConsoleOpen THEN 1 ELSE 0)
          /\ Cardinality(Standing(ConsoleOpen)') = n + (IF row.at \in ConsoleOpen THEN 1 ELSE 0)
    BY <1>2, <1>3, ConsolesMove
  <2>2. Cardinality(Standing(ConsoleOpen)) = n /\ Cardinality(Standing(ConsoleOpen)') = n + 1
    BY <1>1, <1>2, <2>1 DEF ConsoleOpen
  <2> QED
    BY <1>1, <1>4, <2>2, Counters DEF ConsoleSound, ConsoleEntries, ContainersInv
<1>8. unended' \in Nat
  BY <1>1, Counters
<1> QED
  BY <1>1, <1>2, <1>3, <1>4, <1>6, <1>7, <1>8, Counters, QuietStep DEF replies

LEMMA AuditEndInv ==
    ASSUME ContainersInv, NEW s \in Session, AuditEnd(s)
    PROVE  ContainersInv'
<1> DEFINE row == NoSession
<1>1. session' = [session EXCEPT ![s] = row] /\ RowSound(row) /\ row.at = "idle" /\ ~row.cut
  BY NoSessionSound DEF End, AuditEnd
<1>2. Quiet(session[s], row)
  BY <1>1 DEF Quiet
<1> HIDE DEF row
<1>3. session[s].at = "leave"
        /\ UNCHANGED <<conv, slots, used, ran, carried, begun, replies, unaudited, unopened, cuts, killed, deaths>>
  BY DEF AuditEnd, process
<1>4. PICK n \in Nat :
        /\ Cardinality(Standing(ConsoleOpen)) = n + (IF session[s].at \in ConsoleOpen THEN 1 ELSE 0)
        /\ Cardinality(Standing(ConsoleOpen)') = n + (IF row.at \in ConsoleOpen THEN 1 ELSE 0)
  BY <1>1, ConsolesMove
<1>5. Cardinality(Standing(ConsoleOpen)) = n + 1 /\ Cardinality(Standing(ConsoleOpen)') = n
  BY <1>1, <1>3, <1>4 DEF ConsoleOpen
<1>6. n + 1 <= unended /\ unopened + unended <= n + 1 + auditFaults + killed.console
  BY <1>5 DEF ConsoleSound, ConsoleEntries, ContainersInv
<1>7. /\ auditFaults' \in 0..MaxAuditFaults /\ auditFaults' \in Nat /\ auditFaults <= auditFaults'
      /\ unended' \in Nat /\ n <= unended' /\ unopened + unended' <= n + auditFaults' + killed.console
  <2>1. CASE UNCHANGED auditFaults /\ unended' = unended - 1
    BY <1>6, <2>1, Counters
  <2>2. CASE AuditFault /\ UNCHANGED unended
    BY <1>6, <2>2, Counters, FaultCounted
  <2> QED
    BY <2>1, <2>2 DEF AuditEnd
<1>8. ConsoleSound'
  BY <1>3, <1>5, <1>7 DEF ConsoleSound, ConsoleEntries
<1>9. used' \in Nat /\ used <= used'
  BY <1>3, Counters
<1>10. SlotsSound' /\ BudgetSound' /\ AuditSound'
  BY <1>1, <1>3, <1>7, <1>9, SlotsKept, BudgetKept, AuditKept
<1> QED
  BY <1>1, <1>2, <1>3, <1>7, <1>8, <1>10, Counters, QuietStep DEF replies

LEMMA ConsoleInv ==
    ASSUME ContainersInv, NEW s \in Session, ConsoleStep(s)
    PROVE  ContainersInv'
<1>1. CASE ShellStart(s)
  BY <1>1, Counters, GotoInv DEF ShellStart, SessionPlace, process
<1>2. CASE ShellRefused(s)
  BY <1>2, Counters, GotoInv DEF ShellRefused, AfterShell, SessionPlace, process
<1>3. CASE ShellEnd(s)
  BY <1>3, Counters, GotoInv DEF ShellEnd, AfterShell, SessionPlace, process
<1> QED
  BY <1>1, <1>2, <1>3, AuditOpenInv, AuditEndInv DEF ConsoleStep

LEMMA SaveDiagnosisInv ==
    ASSUME ContainersInv, NEW s \in Session, SaveDiagnosis(s)
    PROVE  ContainersInv'
<1>1. session[s].at = "save" /\ session[s].kind = "debug"
        /\ UNCHANGED <<conv, slots, used, ran, carried, begun, replies, audit, cuts, auditFaults, killed, deaths>>
  BY DEF SaveDiagnosis, process
<1>2. CASE End(s)
  BY <1>1, <1>2, Counters, EndInv DEF audit
<1>3. CASE Goto(s, "report")
  BY <1>1, <1>3, Counters, GotoInv DEF SessionPlace, audit
<1> QED
  BY <1>2, <1>3 DEF SaveDiagnosis

\* The reply of a stored exchange.
LEMMA ReportInv ==
    ASSUME ContainersInv, NEW s \in Session, Report(s)
    PROVE  ContainersInv'
<1> DEFINE row == NoSession
<1>1. session' = [session EXCEPT ![s] = row] /\ RowSound(row) /\ row.at = "idle" /\ ~row.cut
  BY NoSessionSound DEF End, Report
<1>2. Quiet(session[s], row)
  BY <1>1 DEF Quiet
<1> HIDE DEF row
<1>3. session[s].at = "report"
        /\ UNCHANGED <<conv, slots, used, ran, carried, begun, overlapped, unaudited, unopened, unended, cuts, auditFaults,
                       killed, deaths>>
  BY DEF Report, audit, process
<1>4. used' \in Nat /\ used <= used' /\ auditFaults' \in Nat /\ auditFaults <= auditFaults'
  BY <1>3, Counters
<1>5. SlotsSound' /\ BudgetSound' /\ AuditSound' /\ ConsoleSound'
  <2>1. ConsoleSound'
    BY <1>1, <1>3, <1>4, ConsoleKept DEF ConsoleOpen
  <2> QED
    BY <1>1, <1>3, <1>4, <2>1, SlotsKept, BudgetKept, AuditKept
<1>6. RowSound(session[s])
  BY RowOf
<1>7. session[s].kind \in {"chat", "debug"}
  BY <1>3, <1>6 DEF RowSound
<1>8. \A m \in answered' : Kept(m) /\ m \in Exchange
  <2>1. \A m \in answered : Kept(m) /\ m \in Exchange
    BY DEF Kept, ContainersInv, CountersTyped
  <2>2. CASE answered' = answered
    BY <2>1, <2>2
  <2>3. CASE session[s].kind # "debug" /\ answered' = answered \cup {session[s].exchange}
    <3>1. session[s].kind = "chat"
      BY <1>7, <2>3
    <3>2. Kept(session[s].exchange) /\ session[s].exchange \in Exchange
      BY <1>3, <1>6, <3>1 DEF Kept, RowSound
    <3> QED
      BY <2>1, <2>3, <3>2
  <2> QED
    BY <2>2, <2>3 DEF Report
<1>9. OverlapsKnown' /\ CopiesCover'
  BY <1>1, <1>2, <1>3, <1>8, QuietMoves
<1>10. SessionsSound'
  BY <1>1, SessionMoves
<1>11. CountersTyped' /\ ConvTyped'
  BY <1>3, <1>8 DEF CountersTyped, ConvTyped, ContainersInv
<1> QED
  BY <1>5, <1>9, <1>10, <1>11 DEF ContainersInv

LEMMA TwoGreatest ==
    ASSUME NEW a \in Int, NEW b \in Int
    PROVE  Max({a, b}) = IF a >= b THEN a ELSE b
<1>1. CASE a >= b
  <2>1. a \in {a, b} /\ \A y \in {a, b} : a >= y
    BY <1>1
  <2>2. \A x \in {a, b} : (\A y \in {a, b} : x >= y) => x = a
    BY <1>1
  <2> QED
    BY <1>1, <2>1, <2>2 DEF Max
<1>2. CASE b > a
  <2>1. b \in {a, b} /\ \A y \in {a, b} : b >= y
    BY <1>2
  <2>2. \A x \in {a, b} : (\A y \in {a, b} : x >= y) => x = b
    BY <1>2
  <2> QED
    BY <1>2, <2>1, <2>2 DEF Max
<1> QED
  BY <1>1, <1>2

\* What a chat stores: its exchange, after what it read, unless that is full.
LEMMA StoredCopy ==
    ASSUME NEW x, RowSound(x), x.exchange \in Exchange
    PROVE  /\ Stored(x) \in Seq(Exchange) /\ Len(Stored(x)) <= Keep
           /\ Covers(Stored(x), x.exchange)
           /\ \A m : Covers(x.base, m) => Covers(Stored(x), m)
<1> DEFINE b == x.base  n == Len(x.base)  all == Append(x.base, x.exchange)
<1>1. b \in Seq(Exchange) /\ n \in Nat /\ n = Len(b) /\ n <= Keep /\ Keep \in Nat /\ Keep > 0
  BY ContainersLimits DEF RowSound, SessionRow
<1>2. all \in Seq(Exchange) /\ Len(all) = n + 1 /\ all[n + 1] = x.exchange
        /\ \A i \in 1..n : all[i] = b[i]
  BY <1>1
<1> DEFINE from == IF 1 >= n + 1 - Keep + 1 THEN 1 ELSE n + 1 - Keep + 1
<1> HIDE DEF b, n, all
<1>3. Max({1, Len(all) - Keep + 1}) = from /\ from \in Nat
  BY <1>1, <1>2, TwoGreatest
<1>4. Stored(x) = SubSeq(all, from, n + 1)
  BY <1>2, <1>3 DEF Stored, Newest, all
<1>5. CASE n < Keep
  <2>1. from = 1
    BY <1>1, <1>5
  <2>2. Stored(x) = all
    <3>1. Stored(x) = SubSeq(all, 1, Len(all))
      BY <1>2, <1>4, <2>1
    <3> QED
      BY <1>2, <3>1
  <2>3. x.exchange \in ToSet(all)
    BY <1>1, <1>2 DEF ToSet
  <2>4. \A m \in ToSet(b) : m \in ToSet(all)
    <3>1. ASSUME NEW m \in ToSet(b) PROVE m \in ToSet(all)
      <4>1. PICK i \in 1..n : b[i] = m
        BY <1>1 DEF ToSet
      <4>2. i \in 1..Len(all) /\ all[i] = m
        BY <1>1, <1>2, <4>1
      <4> QED
        BY <4>2 DEF ToSet
    <3> QED
      BY <3>1
  <2> QED
    BY <1>1, <1>2, <1>5, <2>2, <2>3, <2>4 DEF Covers, b, n
<1>6. CASE n = Keep
  <2>1. from = 2
    BY <1>1, <1>6
  <2>2. Stored(x) \in Seq(Exchange) /\ Len(Stored(x)) = n
    <3>1. Stored(x) = SubSeq(all, 2, n + 1) /\ 2 \in 1..(n + 1) /\ n + 1 \in 2..(n + 1)
      BY <1>1, <1>4, <1>6, <2>1
    <3>2. \A i \in 2..(n + 1) : all[i] \in Exchange
      BY <1>1, <1>2
    <3>3. SubSeq(all, 2, n + 1) \in Seq(Exchange) /\ Len(SubSeq(all, 2, n + 1)) = n
      BY <1>1, <1>6, <3>2, SubSeqProperties
    <3> QED
      BY <3>1, <3>3
  <2> QED
    BY <1>1, <1>6, <2>2 DEF Covers
<1> QED
  BY <1>1, <1>5, <1>6

\* SaveChat replaces the conversation by a copy that has all a reader relies on.
LEMMA SaveChatInv ==
    ASSUME ContainersInv, NEW s \in Session, SaveChat(s)
    PROVE  ContainersInv'
<1>1. session[s].at = "save" /\ session[s].kind = "chat"
        /\ UNCHANGED <<slots, used, ran, carried, begun, replies, audit, cuts, auditFaults, killed, deaths>>
  BY DEF SaveChat, process
<1>2. CASE End(s) /\ UNCHANGED conv
  BY <1>1, <1>2, Counters, EndInv DEF audit
<1>3. CASE conv' = [conv EXCEPT ![session[s].conv] = Stored(session[s])] /\ Goto(s, "report")
  <2>0. PICK w, d, e : w = Stored(session[s]) /\ d = session[s].conv /\ e = session[s].exchange
    OBVIOUS
  <2>1. PICK row : /\ session' = [session EXCEPT ![s] = row] /\ row \in SessionRow
                   /\ row.at = "report" /\ row.kind = session[s].kind /\ row.conv = session[s].conv
                   /\ row.base = session[s].base /\ row.step = session[s].step
                   /\ row.exchange = session[s].exchange /\ row.cut = session[s].cut
    BY <1>3, GotoRow DEF SessionPlace
  <2>2. RowSound(session[s]) /\ session[s] \in SessionRow
    BY RowOf
  <2>3. RowSound(row)
    BY <1>1, <2>1, <2>2 DEF RowSound
  <2>4. session'[s] = row /\ SessionsSound' /\ \A t \in Session : t # s => session'[t] = session[t]
    BY <2>1, <2>3, SessionMoves
  <2>5. e \in Exchange /\ d \in Conversation
    BY <1>1, <2>0, <2>2 DEF RowSound, SessionRow
  <2>6. /\ w \in Seq(Exchange) /\ Len(w) <= Keep
        /\ Covers(w, e)
        /\ \A m : Covers(session[s].base, m) => Covers(w, m)
    BY <2>0, <2>2, <2>5, StoredCopy
  <2>7. conv' = [conv EXCEPT ![d] = w] /\ conv \in [Conversation -> Seq(Exchange)]
    BY <1>3, <2>0 DEF ContainersInv, ConvTyped
  <2>8. s \in Unsaved(d) /\ \A c : Unsaved(c)' = Unsaved(c) \ {s}
    BY <1>1, <2>0, <2>1, <2>4 DEF Unsaved
  <2>9. conv'[d] = w /\ \A c \in Conversation : c # d => conv'[c] = conv[c]
    BY <2>5, <2>7
  <2>10. ConvTyped'
    BY <2>6, <2>7, <2>9 DEF ConvTyped, ContainersInv
  <2>11. CountersTyped'
    BY <1>1 DEF CountersTyped, ContainersInv, audit, replies
  <2>12. used' \in Nat /\ used <= used' /\ auditFaults' \in Nat /\ auditFaults <= auditFaults'
           /\ UNCHANGED <<unaudited, unopened, unended>>
    BY <1>1, Counters DEF audit
  <2>16. ConsoleSound'
    BY <1>1, <2>1, <2>3, <2>12, ConsoleKept DEF ConsoleOpen
  <2>13. SlotsSound' /\ BudgetSound' /\ AuditSound'
    BY <1>1, <2>1, <2>3, <2>12, SlotsKept, BudgetKept, AuditKept
  <2>14. OverlapsKnown'
    <3>1. ASSUME NEW c \in Conversation, NEW t \in Unsaved(c)', NEW u \in Unsaved(c)', t # u
          PROVE  session'[t].exchange \in overlapped'
      <4>1. t \in Unsaved(c) /\ u \in Unsaved(c) /\ t # s
        BY <2>8
      <4>2. session'[t] = session[t]
        BY <2>4, <4>1 DEF Unsaved
      <4>3. session[t].exchange \in overlapped
        BY <3>1, <4>1 DEF OverlapsKnown, ContainersInv
      <4> QED
        BY <1>1, <4>2, <4>3 DEF replies
    <3> QED
      BY <3>1 DEF OverlapsKnown
  <2>15. CopiesCover'
    <3>1. ASSUME NEW m \in Exchange \ overlapped, Kept(m)'
          PROVE  \E c \in Conversation : Covers(conv'[c], m) /\ \A t \in Unsaved(c)' : Covers(session'[t].base, m)
      <4>1. CASE m = e
        <5>1. Unsaved(d)' = {}
          BY <2>0, <2>5, <2>8, <4>1 DEF OverlapsKnown, ContainersInv
        <5> QED
          BY <2>5, <2>6, <2>9, <4>1, <5>1
      <4>2. CASE m # e
        <5>1. Kept(m)
          BY <1>1, <2>0, <2>1, <2>4, <3>1, <4>2 DEF Kept, replies
        <5>2. PICK c \in Conversation : Covers(conv[c], m) /\ \A t \in Unsaved(c) : Covers(session[t].base, m)
          BY <5>1 DEF CopiesCover, ContainersInv
        <5>3. \A t \in Unsaved(c)' : t \in Session /\ Covers(session'[t].base, m)
          BY <2>4, <2>8, <5>2 DEF Unsaved
        <5>4. Covers(conv'[c], m)
          BY <2>6, <2>8, <2>9, <5>2
        <5> QED
          BY <5>3, <5>4
      <4> QED
        BY <4>1, <4>2
    <3> QED
      BY <1>1, <3>1 DEF CopiesCover, Covers, replies
  <2> QED
    BY <2>4, <2>10, <2>11, <2>13, <2>14, <2>15, <2>16 DEF ContainersInv
<1> QED
  BY <1>2, <1>3 DEF SaveChat

\* A chat reads the conversation as it is, and is told of the ones beside it.
LEMMA OpenChatInv ==
    ASSUME ContainersInv, NEW s \in Session, NEW d \in Conversation, OpenChat(s, d)
    PROVE  ContainersInv'
<1> DEFINE row == [NoSession EXCEPT !.at = "turn", !.conv = d, !.base = conv[d], !.exchange = begun']
           beside == {session[x].exchange : x \in Unsaved(d)}
<1>1. session[s] = NoSession /\ session[s].at = "idle" /\ begun < MaxMessages /\ begun' = begun + 1
        /\ overlapped' = overlapped \cup (IF beside = {} THEN {} ELSE beside \cup {begun'})
        /\ UNCHANGED <<conv, slots, used, ran, carried, answered, audit, cuts, auditFaults, killed, deaths>>
  BY NoSessionSound DEF OpenChat, OpenSession, process
<1>2. begun' \in Exchange /\ begun' \in 0..MaxMessages
  BY <1>1, ContainersLimits DEF ContainersInv, CountersTyped, Exchange
<1>3. conv[d] \in Seq(Exchange) /\ Len(conv[d]) <= Keep
  BY DEF ContainersInv, ConvTyped
<1>4. session' = [session EXCEPT ![s] = row]
  BY DEF OpenChat, OpenSession
<1>5. NoSession \in SessionRow
  BY NoSessionSound DEF RowSound
<1>6. row \in SessionRow /\ row.at = "turn" /\ row.kind = "chat" /\ row.conv = d /\ row.base = conv[d]
        /\ row.step = 1 /\ row.exchange = begun' /\ row.cut = FALSE
  BY <1>2, <1>3, <1>5, NoSessionSound DEF SessionRow, SessionPlace
<1> HIDE DEF row
<1>7. RowSound(row)
  BY <1>2, <1>3, <1>6, StepsPositive DEF RowSound
<1>8. session'[s] = row /\ SessionsSound' /\ \A t \in Session : t # s => session'[t] = session[t]
  BY <1>4, <1>7, SessionMoves
<1>9. used' \in Nat /\ used <= used' /\ auditFaults' \in Nat /\ auditFaults <= auditFaults'
        /\ UNCHANGED <<unaudited, unopened, unended>>
  BY <1>1, Counters DEF audit
<1>10. SlotsSound' /\ BudgetSound' /\ AuditSound' /\ ConsoleSound'
  <2>1. SlotsSound'
    BY <1>1, <1>4, <1>6, <1>7, SlotsKept
  <2>2. BudgetSound'
    BY <1>1, <1>4, <1>6, <1>7, <1>9, BudgetKept
  <2>3. AuditSound' /\ ConsoleSound'
    BY <1>1, <1>4, <1>6, <1>7, <1>9, AuditKept, ConsoleKept DEF ConsoleOpen
  <2> QED
    BY <2>1, <2>2, <2>3
<1>11. \A c : \A t \in Unsaved(c)' : t \in Session /\ (t # s => t \in Unsaved(c) /\ session'[t] = session[t])
                                    /\ (t = s => c = d)
  BY <1>6, <1>8 DEF Unsaved
<1>12. beside \subseteq Exchange
  <2>1. \A x \in Unsaved(d) : session[x].exchange \in Exchange
    <3>1. ASSUME NEW x \in Unsaved(d) PROVE session[x].exchange \in Exchange
      <4>1. x \in Session /\ session[x].kind = "chat" /\ session[x].at # "idle"
        BY DEF Unsaved
      <4> QED
        BY <4>1, RowOf DEF RowSound
    <3> QED
      BY <3>1
  <2> QED
    BY <2>1
<1>13. overlapped \subseteq overlapped' /\ overlapped' \subseteq Exchange
  BY <1>1, <1>2, <1>12 DEF ContainersInv, CountersTyped
<1>14. CountersTyped' /\ ConvTyped'
  BY <1>1, <1>2, <1>13 DEF CountersTyped, ConvTyped, ContainersInv, audit
<1>15. OverlapsKnown'
  <2>1. ASSUME NEW c \in Conversation, NEW t \in Unsaved(c)', NEW u \in Unsaved(c)', t # u
        PROVE  session'[t].exchange \in overlapped'
    <3>1. CASE t # s /\ u # s
      BY <1>11, <1>13, <2>1, <3>1 DEF OverlapsKnown, ContainersInv
    <3>2. CASE t = s /\ u # s
      <4>1. session[u].exchange \in beside
        BY <1>11, <3>2
      <4> QED
        BY <1>1, <1>6, <1>8, <3>2, <4>1
    <3>3. CASE t # s /\ u = s
      <4>1. session[t].exchange \in beside /\ session'[t] = session[t]
        BY <1>11, <3>3
      <4> QED
        BY <1>1, <4>1
    <3> QED
      BY <2>1, <3>1, <3>2, <3>3
  <2> QED
    BY <2>1 DEF OverlapsKnown
<1>16. CopiesCover'
  <2>1. ASSUME NEW m \in Exchange \ overlapped', Kept(m)'
        PROVE  \E c \in Conversation : Covers(conv'[c], m) /\ \A t \in Unsaved(c)' : Covers(session'[t].base, m)
    <3>1. Kept(m) /\ m \notin overlapped
      BY <1>1, <1>6, <1>8, <1>13, <2>1 DEF Kept
    <3>2. PICK c \in Conversation : Covers(conv[c], m) /\ \A t \in Unsaved(c) : Covers(session[t].base, m)
      BY <3>1 DEF CopiesCover, ContainersInv
    <3>3. \A t \in Unsaved(c)' : Covers(session'[t].base, m)
      BY <1>6, <1>8, <1>11, <3>2
    <3> QED
      BY <1>1, <3>2, <3>3
  <2> QED
    BY <2>1 DEF CopiesCover, Covers
<1> QED
  BY <1>8, <1>10, <1>14, <1>15, <1>16 DEF ContainersInv

\* The process dies: no session is left, and what it took with it is counted.
LEMMA ProcessDiesInv ==
    ASSUME ContainersInv, ProcessDies
    PROVE  ContainersInv'
<1>1. /\ deaths < MaxDeaths /\ deaths' = deaths + 1
      /\ killed' = [command |-> killed.command + Cardinality(Standing({"run", "audit"})),
                    console |-> killed.console + Cardinality(Standing(ConsoleOpen))]
      /\ session' = [s \in Session |-> NoSession] /\ slots' = {}
      /\ UNCHANGED <<conv, used, carried, begun, answered, overlapped, unopened, unended, cuts, auditFaults>>
  BY DEF ProcessDies, replies
<1>2. PICK sent \in SUBSET Standing({"run"}) :
        ran' = ran + Cardinality(sent) /\ unaudited' = unaudited + Cardinality(sent)
  BY DEF ProcessDies
<1> DEFINE waiting == Standing({"slot", "run"})
           busy == Standing({"run", "audit"})
           writing == Standing({"audit"})
           consoles == Standing(ConsoleOpen)
<1>3. /\ sent \subseteq waiting /\ sent \cap writing = {} /\ sent \cup writing \subseteq busy
      /\ {waiting, busy, writing, consoles, sent, Left} \subseteq SUBSET Session
  BY DEF Standing, Left
<1> HIDE DEF waiting, busy, writing, consoles
<1>4. \A S \in {waiting, busy, writing, consoles, sent, Left} : IsFiniteSet(S) /\ Cardinality(S) \in Nat
  BY <1>3, ContainersLimits, FS_Subset, FS_CardinalityType
<1>5. Cardinality(sent) <= Cardinality(waiting)
  BY <1>3, <1>4, FS_Subset
<1>6. Cardinality(sent) + Cardinality(writing) <= Cardinality(busy)
  <2>1. Cardinality(sent \cup writing) <= Cardinality(busy)
    BY <1>3, <1>4, FS_Subset
  <2>2. Cardinality(sent \cup writing) = Cardinality(sent) + Cardinality(writing) - Cardinality(sent \cap writing)
    BY <1>4, FS_Union
  <2>3. Cardinality(sent \cap writing) = 0
    BY <1>3, FS_EmptySet
  <2> QED
    BY <1>4, <2>1, <2>2, <2>3
<1>7. \A s \in Session : session'[s] = NoSession
  BY <1>1
<1>8. waiting' = {} /\ writing' = {} /\ consoles' = {} /\ Left' = {} /\ \A c : Unsaved(c)' = {}
  BY <1>7, NoSessionSound DEF waiting, writing, consoles, Standing, ConsoleOpen, Left, Unsaved
<1>9. Cardinality({}) = 0
  BY FS_EmptySet
<1>10. killed'.command = killed.command + Cardinality(busy) /\ killed'.console = killed.console + Cardinality(consoles)
  BY <1>1 DEF busy, consoles
<1>11. SessionsSound'
  BY <1>1, <1>7, NoSessionSound DEF SessionsSound, RowSound
<1>12. SlotsSound'
  BY <1>1, <1>7, <1>9, NoSessionSound, ContainersLimits DEF SlotsSound
<1>13. BudgetSound'
  <2>1. ran + Cardinality(waiting) <= used + carried /\ ran + Cardinality(waiting) <= ExecBudget + carried
    BY DEF BudgetSound, ContainersInv, waiting
  <2>2. Cardinality(Standing({"slot", "run"})') = 0
    BY <1>8, <1>9 DEF waiting
  <2> QED
    BY <1>1, <1>2, <1>4, <1>5, <2>1, <2>2, Counters, ContainersLimits DEF BudgetSound
<1>14. AuditSound'
  <2>1. unaudited + Cardinality(Left) <= Cardinality(writing) + cuts + auditFaults + killed.command
    BY DEF AuditSound, ContainersInv, writing
  <2>2. Cardinality(Standing({"audit"})') = 0 /\ Cardinality(Left') = 0
    BY <1>8, <1>9 DEF writing
  <2> QED
    BY <1>1, <1>2, <1>4, <1>6, <1>10, <2>1, <2>2, Counters DEF AuditSound
<1>15. ConsoleSound'
  <2>1. unopened + unended <= Cardinality(consoles) + auditFaults + killed.console
    BY DEF ConsoleSound, ConsoleEntries, ContainersInv, consoles
  <2>2. Cardinality(Standing(ConsoleOpen)') = 0
    BY <1>8, <1>9 DEF consoles
  <2> QED
    BY <1>1, <1>4, <1>10, <2>1, <2>2, Counters DEF ConsoleSound, ConsoleEntries
<1>16. OverlapsKnown'
  BY <1>8 DEF OverlapsKnown
<1>17. CopiesCover'
  <2>1. ASSUME NEW m \in Exchange \ overlapped, Kept(m)'
        PROVE  \E c \in Conversation : Covers(conv'[c], m) /\ \A t \in Unsaved(c)' : Covers(session'[t].base, m)
    <3>1. Kept(m)
      BY <1>1, <1>7, <2>1, NoSessionSound DEF Kept
    <3>2. PICK c \in Conversation : Covers(conv[c], m)
      BY <3>1 DEF CopiesCover, ContainersInv
    <3> QED
      BY <1>1, <1>8, <3>2
  <2> QED
    BY <1>1, <2>1 DEF CopiesCover, Covers
<1>18. CountersTyped' /\ ConvTyped'
  <2>1. ran' \in Nat /\ unaudited' \in Nat
    BY <1>2, <1>4, Counters
  <2>2. killed' \in [command : Nat, console : Nat]
    <3>1. killed.command + Cardinality(busy) \in Nat /\ killed.console + Cardinality(consoles) \in Nat
      BY <1>4, Counters
    <3> QED
      BY <1>1, <3>1 DEF busy, consoles
  <2>3. deaths' \in 0..MaxDeaths
    BY <1>1, ContainersLimits DEF CountersTyped, ContainersInv
  <2> QED
    BY <1>1, <2>1, <2>2, <2>3 DEF CountersTyped, ConvTyped, ContainersInv
<1> QED
  BY <1>11, <1>12, <1>13, <1>14, <1>15, <1>16, <1>17, <1>18 DEF ContainersInv

LEMMA ContainersStep == ContainersInv /\ [ContainersNext]_containersVars => ContainersInv'
<1> SUFFICES ASSUME ContainersInv, [ContainersNext]_containersVars PROVE ContainersInv'
  OBVIOUS
<1>1. CASE Hour \/ ProcessDies
  BY <1>1, HourInv, ProcessDiesInv
<1>2. ASSUME NEW s \in Session, NEW c \in Conversation, OpenChat(s, c) PROVE ContainersInv'
  BY <1>2, OpenChatInv
<1>3. ASSUME NEW s \in Session, OpenDebug(s) \/ OpenConsole(s) \/ Cut(s) PROVE ContainersInv'
  BY <1>3, OpenOtherInv, CutInv
<1>4. ASSUME NEW s \in Session, AgentStep(s) PROVE ContainersInv'
  BY <1>4, TurnInv, BudgetInv, SlotInv, RunInv, AuditExecInv, SaveChatInv, SaveDiagnosisInv, ReportInv
     DEF AgentStep
<1>5. ASSUME NEW s \in Session, ConsoleStep(s) PROVE ContainersInv'
  BY <1>5, ConsoleInv
<1>6. CASE UNCHANGED containersVars
  <2> USE <1>6 DEF containersVars
  <2>1. SessionsSound' /\ SlotsSound' /\ ConvTyped' /\ CountersTyped'
    BY DEF ContainersInv, SessionsSound, SlotsSound, ConvTyped, CountersTyped
  <2>2. Standing({"slot", "run"})' = Standing({"slot", "run"}) /\ Standing({"audit"})' = Standing({"audit"})
          /\ Left' = Left /\ Standing(ConsoleOpen)' = Standing(ConsoleOpen)
    BY DEF Standing, Left, ConsoleOpen
  <2>3. BudgetSound' /\ AuditSound' /\ ConsoleSound'
    BY <2>2 DEF BudgetSound, AuditSound, ConsoleSound, ConsoleEntries, ContainersInv
  <2>4. OverlapsKnown' /\ CopiesCover'
    BY DEF ContainersInv, OverlapsKnown, CopiesCover, Unsaved, Kept, Covers
  <2> QED
    BY <2>1, <2>3, <2>4 DEF ContainersInv
<1> QED
  BY <1>1, <1>2, <1>3, <1>4, <1>5, <1>6 DEF ContainersNext

\* The sessions inside containers keep their books: every charged command is
\* counted against the hour, every client that left explains at most one missing
\* entry, what died with the process the others, slots belong to what runs, and a stored exchange is in every copy of
\* its conversation that a later save will write back.
THEOREM ContainersInvariant == ContainersSpec => []ContainersInv
<1>1. ContainersInit => ContainersInv
  BY ContainersInitInv
<1>2. ContainersInv /\ [ContainersNext]_containersVars => ContainersInv'
  BY ContainersStep
<1> QED
  BY <1>1, <1>2, PTL DEF ContainersSpec

\* Budget, audit entries, slots and conversations, for any number of sessions,
\* conversations and slots and every length of a session.
THEOREM ContainersAreSafe == ContainersSpec => []ContainersSafe
<1>1. ContainersInv => ContainersSafe
  <2> SUFFICES ASSUME ContainersInv PROVE ContainersSafe
    OBVIOUS
  <2>1. ContainersTypeOK
    <3>1. \A s \in Session : LET x == session[s] IN
            /\ x.at \in SessionPlace
            /\ x.kind \in {"chat", "debug", "console"} /\ x.conv \in Conversation
            /\ x.base \in Seq(Exchange) /\ x.exchange \in Exchange \cup {0} /\ x.cut \in BOOLEAN
            /\ x.step \in 1..Steps(x.kind)
      BY RowOf DEF RowSound, SessionRow
    <3> QED
      BY <3>1 DEF ContainersTypeOK, ContainersInv, ConvTyped, CountersTyped, SlotsSound, SessionPlace
  <2>2. BudgetHolds
    <3>1. Cardinality(Standing({"slot", "run"})) \in Nat
      BY ContainersLimits, FS_Subset, FS_CardinalityType DEF Standing
    <3> QED
      BY <3>1, Counters, ContainersLimits DEF BudgetHolds, BudgetSound, ContainersInv
  <2>3. UnauditedOnlyCut
    <3>1. Cardinality(Standing({"audit"})) \in Nat /\ Cardinality(Left) \in Nat
      <4>1. Standing({"audit"}) \subseteq Session /\ Left \subseteq Session
        BY DEF Standing, Left
      <4> QED
        BY <4>1, ContainersLimits, FS_Subset, FS_CardinalityType
    <3> QED
      BY <3>1, Counters DEF UnauditedOnlyCut, AuditSound, ContainersInv
  <2>4. ConsoleEntries /\ SlotsReturned
    BY DEF ContainersInv, ConsoleSound, SlotsReturned, SlotsSound
  <2>5. ExchangesKept
    BY DEF ContainersInv, ExchangesKept, CopiesCover, Covers, Kept, CountersTyped
  <2> QED
    BY <2>1, <2>2, <2>3, <2>4, <2>5 DEF ContainersSafe
<1> QED
  BY <1>1, ContainersInvariant, PTL
=============================================================================
