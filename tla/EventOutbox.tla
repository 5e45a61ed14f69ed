----------------------------- MODULE EventOutbox -----------------------------
(***************************************************************************)
(* Every audited change writes an audit row and an event in the change's   *)
(* own transaction (AuditTx). Relays publish the events to the bus, one    *)
(* batch per transaction; browsers follow them over a stream that polls    *)
(* with a cursor. Event ids are drawn when the row is inserted, so they    *)
(* become visible in the order of the commits, not of the ids.             *)
(***************************************************************************)
EXTENDS Naturals, FiniteSetsExt, SequencesExt

CONSTANTS
    Writer,     \* transactions that may be open at once
    Relayer,    \* processes that run Relay
    MaxEvent,   \* bound: event ids drawn
    Batch,      \* rows of one relay transaction (50)
    Page,       \* rows of one poll of the stream (100)
    MaxRelayFaults   \* bound: failed relay transactions and failed reads of the newest id

ASSUME OutboxAssumption ==
    /\ {MaxEvent, MaxRelayFaults} \subseteq Nat
    /\ {Batch, Page} \subseteq Nat \ {0}

VARIABLES
    drawn,      \* event ids drawn so far
    open,       \* the id each open transaction has inserted; 0: none
    committed,  \* the events table as others see it
    marked,     \* events with published_at
    relays,     \* the transaction of each relay: rows locked, rows published
    bus,        \* ids the bus has; it drops repeated message ids
    stream,     \* the browser's stream: whether it is connected, its cursor
    got,        \* events the browser received
    since,      \* history: the cursor of the browser's first connection
    late,       \* history: events committed behind the cursor
    gap,        \* history: events a reconnection without Last-Event-ID jumped over
    relayFaults

outboxVars == <<drawn, open, committed, marked, relays, bus, stream, got, since, late, gap, relayFaults>>

Id == 1..MaxEvent
NoBatch == [rows |-> {}, done |-> {}]

OutboxTypeOK ==
    /\ drawn \in 0..MaxEvent
    /\ open \in [Writer -> Id \cup {0}]
    /\ committed \subseteq Id /\ marked \subseteq Id /\ bus \subseteq Id
    /\ late \subseteq Id /\ gap \subseteq committed
    /\ relays \in [Relayer -> [rows : SUBSET Id, done : SUBSET Id]]
    /\ stream \in [at : {"new", "on", "off"}, cursor : Id \cup {0}]
    /\ got \in Seq(Id)
    /\ since \in Id \cup {0}
    /\ relayFaults \in 0..MaxRelayFaults

OutboxInit ==
    /\ drawn = 0
    /\ open = [w \in Writer |-> 0]
    /\ committed = {} /\ marked = {} /\ bus = {}
    /\ relays = [r \in Relayer |-> NoBatch]
    /\ stream = [at |-> "new", cursor |-> 0]
    /\ got = <<>>
    /\ since = 0 /\ late = {} /\ gap = {} /\ relayFaults = 0

RelayFault == relayFaults < MaxRelayFaults /\ relayFaults' = relayFaults + 1

\* ORDER BY id LIMIT n.
FirstRows(S, n) == {i \in S : Cardinality({j \in S : j < i}) < n}

\* ORDER BY id.
InOrder(S) == [n \in 1..Cardinality(S) |-> CHOOSE i \in S : Cardinality({j \in S : j < i}) = n - 1]

-----------------------------------------------------------------------------
(* Audited transactions. *)

AuditTx(w) ==
    /\ open[w] = 0 /\ drawn < MaxEvent
    /\ drawn' = drawn + 1
    /\ open' = [open EXCEPT ![w] = drawn']
    /\ UNCHANGED <<committed, marked, relays, bus, stream, got, since, late, relayFaults, gap>>

CommitEvent(w) ==
    /\ open[w] # 0
    /\ committed' = committed \cup {open[w]}
    /\ late' = IF open[w] <= stream.cursor THEN late \cup {open[w]} ELSE late
    /\ open' = [open EXCEPT ![w] = 0]
    /\ UNCHANGED <<drawn, marked, relays, bus, stream, got, since, relayFaults, gap>>

Rollback(w) ==
    /\ open[w] # 0
    /\ open' = [open EXCEPT ![w] = 0]
    /\ UNCHANGED <<drawn, committed, marked, relays, bus, stream, got, since, late, relayFaults, gap>>

-----------------------------------------------------------------------------
(* relayBatch. *)

LockedRows == UNION {relays[r].rows : r \in Relayer}

Unpublished_Cursor == {i \in committed : \A j \in marked : i > j}

\* published_at IS NULL.
Unpublished == committed \ marked

\* SELECT ... FOR UPDATE SKIP LOCKED.
Select(r) ==
    /\ relays[r] = NoBatch
    /\ Unpublished \ LockedRows # {}
    /\ relays' = [relays EXCEPT ![r].rows = FirstRows(Unpublished \ LockedRows, Batch)]
    /\ UNCHANGED <<drawn, open, committed, marked, bus, stream, got, since, late, relayFaults, gap>>

\* bus.Publish of the next row, then its UPDATE, not yet committed.
Publish(r) ==
    /\ relays[r].done # relays[r].rows
    /\ LET i == Min(relays[r].rows \ relays[r].done) IN
         /\ bus' = bus \cup {i}
         /\ relays' = [relays EXCEPT ![r].done = @ \cup {i}]
    /\ UNCHANGED <<drawn, open, committed, marked, stream, got, since, late, relayFaults, gap>>

\* The bus refuses, or takes the message and its answer is lost; the database
\* fails; the process dies: everything the transaction marked is rolled back.
RelayFails(r) ==
    /\ relays[r] # NoBatch
    /\ RelayFault
    /\ bus' \in {bus} \cup {bus \cup {i} : i \in FirstRows(relays[r].rows \ relays[r].done, 1)}
    /\ relays' = [relays EXCEPT ![r] = NoBatch]
    /\ UNCHANGED <<drawn, open, committed, marked, stream, got, since, late, gap>>

BatchDone_Early(r) == relays[r].done # {}

\* The loop over the items has ended.
BatchDone(r) == relays[r].done = relays[r].rows

RelayCommit(r) ==
    /\ relays[r] # NoBatch /\ BatchDone(r)
    /\ marked' = marked \cup relays[r].rows
    /\ relays' = [relays EXCEPT ![r] = NoBatch]
    /\ UNCHANGED <<drawn, open, committed, bus, stream, got, since, late, relayFaults, gap>>

-----------------------------------------------------------------------------
(* The live stream. *)

StartCursor_Newest == Max(committed \cup {0})

\* Last-Event-ID if the browser has received something, else the newest event.
StartCursor == IF got # <<>> THEN Last(got) ELSE Max(committed \cup {0})

\* The stream begins at c.
ConnectAt(c) ==
    /\ stream' = [at |-> "on", cursor |-> c]
    /\ IF stream.at = "new" THEN since' = c /\ gap' = gap
       ELSE since' = since /\ gap' = {i \in committed : (i \in gap \/ stream.cursor < i) /\ i <= c}

\* An error of the query for the newest id is ignored and leaves the cursor at 0.
StreamConnects ==
    /\ stream.at # "on"
    /\ \/ ConnectAt(StartCursor) /\ UNCHANGED relayFaults
       \/ got = <<>> /\ ConnectAt(0) /\ RelayFault
    /\ UNCHANGED <<drawn, open, committed, marked, relays, bus, got, late>>

Polled_Inclusive(n) == FirstRows({i \in committed : i >= stream.cursor}, n)

\* SELECT ... WHERE id>$1 ORDER BY id LIMIT n.
Polled(n) == FirstRows({i \in committed : i > stream.cursor}, n)

CursorAfter_Newest(rows) == Max(committed)

\* cursor = id, for every row sent.
CursorAfter(rows) == Max(rows)

\* One tick of the stream, by a principal who still authenticates and may read.
\* The connection may break within the page.
Poll ==
    /\ stream.at = "on"
    /\ \E n \in 1..Page :
         /\ Polled(n) # {}
         /\ got' = got \o InOrder(Polled(n))
         /\ stream' = [at |-> IF Polled(n) = Polled(Page) THEN "on" ELSE "off", cursor |-> CursorAfter(Polled(n))]
    /\ UNCHANGED <<drawn, open, committed, marked, relays, bus, since, late, gap, relayFaults>>

\* The five minutes are over, the principal does not authenticate, a query fails,
\* or the connection breaks.
Disconnect ==
    /\ stream.at = "on"
    /\ stream' = [stream EXCEPT !.at = "off"]
    /\ UNCHANGED <<drawn, open, committed, marked, relays, bus, got, since, late, gap, relayFaults>>

-----------------------------------------------------------------------------
Write == \E w \in Writer : AuditTx(w) \/ CommitEvent(w) \/ Rollback(w)
RelayStep(r) == Select(r) \/ Publish(r) \/ RelayCommit(r)
OutboxNext ==
    \/ Write
    \/ \E r \in Relayer : RelayStep(r) \/ RelayFails(r)
    \/ StreamConnects \/ Poll \/ Disconnect

\* Relay ticks every second; failures (bounded) do not last for ever.
OutboxFairness == \A r \in Relayer : WF_outboxVars(RelayStep(r))

OutboxSpec == OutboxInit /\ [][OutboxNext]_outboxVars /\ OutboxFairness

-----------------------------------------------------------------------------
(* Properties. *)

\* No event is written off without having reached the bus: whatever fails
\* between Publish, the update and the commit, it is published again instead.
MarkedReachedBus == marked \subseteq bus

\* Every committed event is published, also one that commits after events with
\* higher ids were published, and with several relays skipping each other's rows.
EventuallyPublished == \A i \in Id : i \in committed ~> i \in marked

\* The browser sees events in the order of their ids and none twice, across
\* pages and reconnections.
StreamOrdered == \A m, n \in DOMAIN got : m < n => got[m] < got[n]

\* Since its first connection the stream passes over an event only if that event
\* was committed when the cursor had already gone by, or if the browser came back
\* without having received anything and was put at the newest event. Once it has
\* received one, no reconnection jumps: what was lost lies before the first.
SkipsOnlyLate ==
    /\ \A i \in committed :
         since < i /\ i <= stream.cursor /\ i \notin ToSet(got) => i \in late \cup gap
    /\ got # <<>> => \A i \in gap : i < Head(got)

\* The way of an event as a whole: marked only on the bus, streamed in order,
\* passed over only when late or before the first one received.
OutboxSafe == OutboxTypeOK /\ MarkedReachedBus /\ StreamOrdered /\ SkipsOnlyLate
=============================================================================
