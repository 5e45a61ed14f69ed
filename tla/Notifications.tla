---------------------------- MODULE Notifications ----------------------------
(***************************************************************************)
(* The notification dispatcher: a leader copies the events each enabled    *)
(* provider wants into delivery rows and sends the rows that are due, up   *)
(* to MaxAttempts recorded attempts each. The providers are objects that   *)
(* administrators edit and delete while a tick is under way; each names a  *)
(* secret that is stored apart from it.                                    *)
(***************************************************************************)
EXTENDS Naturals, FiniteSetsExt

CONSTANTS
    Provider,     \* ids of notification objects
    Dispatcher,   \* processes that run the dispatcher
    Admin,        \* requests to saveObject and deleteObject under way at once
    MaxInstant,      \* bound: events and objects created
    MaxAttempts,  \* recorded attempts of a delivery (5)
    SendLimit,        \* deliveries of one provider in one tick (20)
    MaxProviderEdits,     \* bound: requests of administrators
    MaxDispatcherFaults     \* bound: failed ticks and lost leader locks

ASSUME NotificationsAssumption ==
    /\ IsFiniteSet(Provider) /\ Provider # {} /\ IsFiniteSet(Dispatcher)
    /\ Cardinality(Provider) <= MaxInstant
    /\ {MaxInstant, MaxProviderEdits, MaxDispatcherFaults} \subseteq Nat
    /\ {MaxAttempts, SendLimit} \subseteq Nat \ {0}

VARIABLES
    instant,       \* instants used: events and objects are numbered by creation
    open,      \* events whose transaction has not committed
    events,    \* committed events with a topic that is notified
    provider,    \* the row of each provider
    secrets,   \* secrets that exist
    request,   \* each administrator's request
    nEdits,
    row,       \* notification_deliveries
    nLock,      \* holder of the advisory lock
    nTick,      \* each dispatcher's Tick
    sends,     \* history: calls of Send for a delivery
    nFaults, nLost

nVars == <<instant, open, events, provider, secrets, request, nEdits, row, nLock, nTick, sends, nFaults, nLost>>
adminVars == <<provider, secrets, request, nEdits>>
eventVars == <<instant, open, events>>

Time == 1..MaxInstant
Secret == 0..(Cardinality(Provider) + MaxProviderEdits)        \* 0: no secret_id
ProviderObject == [there : BOOLEAN, enabled : BOOLEAN, secret : Secret, created : 0..MaxInstant]
NoObject == [there |-> FALSE, enabled |-> FALSE, secret |-> 0, created |-> 0]
NoRow == [status |-> "none", attempts |-> 0, due |-> FALSE]
NoTick == [at |-> "idle", todo |-> {}, items |-> {}, outcome |-> "sent"]
NoRequest == [at |-> "idle", of |-> CHOOSE p \in Provider : TRUE, secret |-> 0]

NotificationsTypeOK ==
    /\ instant \in 0..MaxInstant
    /\ open \subseteq Time /\ events \subseteq Time
    /\ provider \in [Provider -> ProviderObject]
    /\ secrets \subseteq Secret
    /\ request \in [Admin -> [at : {"idle", "edit", "delete", "secret"}, of : Provider, secret : Secret]]
    /\ nEdits \in 0..MaxProviderEdits
    /\ row \in [Time -> [Provider -> [status : {"none", "pending", "sent"},
                                      attempts : 0..(MaxAttempts + MaxDispatcherFaults), due : BOOLEAN]]]
    /\ nLock \in SUBSET Dispatcher /\ Cardinality(nLock) <= 1
    /\ \A d \in Dispatcher :
         /\ nTick[d].at \in {"idle", "provider", "send", "record"}
         /\ \A o \in nTick[d].todo : o.id \in Provider /\ o.object \in ProviderObject
         /\ nTick[d].items \subseteq Time
         /\ nTick[d].outcome \in {"sent", "pending"}
    /\ sends \in [Time -> [Provider -> Nat]]
    /\ nFaults \in 0..MaxDispatcherFaults /\ nLost \in 0..nFaults

\* The providers exist, each with its secret, from oldest to newest.
NotificationsInit ==
    /\ LET age == CHOOSE f \in [Provider -> 1..Cardinality(Provider)] :
                     \A p, q \in Provider : f[p] = f[q] => p = q
       IN provider = [p \in Provider |->
                        [there |-> TRUE, enabled |-> TRUE, secret |-> age[p], created |-> age[p]]]
    /\ instant = Cardinality(Provider)
    /\ secrets = 1..Cardinality(Provider)
    /\ open = {} /\ events = {}
    /\ request = [a \in Admin |-> NoRequest]
    /\ nEdits = 0
    /\ row = [e \in Time |-> [p \in Provider |-> NoRow]]
    /\ nLock = {}
    /\ nTick = [d \in Dispatcher |-> NoTick]
    /\ sends = [e \in Time |-> [p \in Provider |-> 0]]
    /\ nFaults = 0 /\ nLost = 0

-----------------------------------------------------------------------------
(* Events, in the transactions of the changes they report. *)

Emit ==
    /\ instant < MaxInstant
    /\ instant' = instant + 1
    /\ open' = open \cup {instant'}
    /\ UNCHANGED <<events, adminVars, row, nLock, nTick, sends, nFaults, nLost>>

CommitEvent(e) ==
    /\ e \in open
    /\ open' = open \ {e}
    /\ events' = events \cup {e}
    /\ UNCHANGED <<instant, adminVars, row, nLock, nTick, sends, nFaults, nLost>>

-----------------------------------------------------------------------------
(* saveObject and deleteObject. *)

\* Both read the object first; the old secret_id is all they keep of it.
ReadObject(a, p, what) ==
    /\ request[a].at = "idle" /\ nEdits < MaxProviderEdits
    /\ provider[p].there
    /\ nEdits' = nEdits + 1
    /\ request' = [request EXCEPT ![a] = [at |-> what, of |-> p, secret |-> provider[p].secret]]
    /\ UNCHANGED <<eventVars, provider, secrets, row, nLock, nTick, sends, nFaults, nLost>>
ReadForEdit(a, p) == ReadObject(a, p, "edit")
ReadForDelete(a, p) == ReadObject(a, p, "delete")

\* A credential in the request is stored under a new id; without one the old
\* secret_id is kept. INSERT ... ON CONFLICT DO UPDATE, which keeps created_at.
SaveObject(a) ==
    /\ request[a].at = "edit"
    /\ LET p == request[a].of IN
       \E enabled \in BOOLEAN, secret \in {request[a].secret, Cardinality(Provider) + nEdits} :
         /\ secrets' = IF secret = request[a].secret THEN secrets ELSE secrets \cup {secret}
         /\ \/ /\ provider[p].there
               /\ provider' = [provider EXCEPT ![p].enabled = enabled, ![p].secret = secret]
               /\ instant' = instant
            \/ /\ ~provider[p].there /\ instant < MaxInstant
               /\ instant' = instant + 1
               /\ provider' = [provider EXCEPT ![p] = [there |-> TRUE, enabled |-> enabled,
                                                   secret |-> secret, created |-> instant']]
    /\ request' = [request EXCEPT ![a] = NoRequest]
    /\ UNCHANGED <<open, events, nEdits, row, nLock, nTick, sends, nFaults, nLost>>

DeleteObject(a) ==
    /\ request[a].at = "delete"
    /\ provider' = [provider EXCEPT ![request[a].of] = NoObject]
    /\ request' = [request EXCEPT ![a].at = "secret"]
    /\ UNCHANGED <<eventVars, secrets, nEdits, row, nLock, nTick, sends, nFaults, nLost>>

DeleteSecret(a) ==
    /\ request[a].at = "secret"
    /\ secrets' = secrets \ {request[a].secret}
    /\ request' = [request EXCEPT ![a] = NoRequest]
    /\ UNCHANGED <<eventVars, provider, nEdits, row, nLock, nTick, sends, nFaults, nLost>>

-----------------------------------------------------------------------------
(* Tick. *)

\* pg_try_advisory_lock, then the providers as they are now; the disabled ones
\* are passed over.
DispatchStart(d) ==
    /\ nTick[d].at = "idle" /\ nLock = {}
    /\ LET todo == {[id |-> p, object |-> provider[p]] :
                      p \in {q \in Provider : provider[q].there /\ provider[q].enabled}}
       IN  /\ todo # {}
           /\ nTick' = [nTick EXCEPT ![d] = [NoTick EXCEPT !.at = "provider", !.todo = todo]]
    /\ nLock' = {d}
    /\ UNCHANGED <<eventVars, adminVars, row, sends, nFaults, nLost>>

\* ORDER BY created_at DESC.
CurrentProvider(d) == CHOOSE o \in nTick[d].todo :
                \A u \in nTick[d].todo : u.object.created <= o.object.created

Wanted_Cursor(o) ==
    {e \in events : e >= o.object.created /\ \A f \in Time : row[f][o.id] # NoRow => e > f}

\* The events a provider is to be told of: those since it was created. There
\* is no cursor: an event that commits late is found by the next tick.
Wanted(o) == {e \in events : e >= o.object.created}

\* INSERT ... ON CONFLICT DO NOTHING.
Inserted(o) == [e \in Time |-> [row[e] EXCEPT ![o.id] =
    IF e \in Wanted(o) /\ @ = NoRow THEN [status |-> "pending", attempts |-> 0, due |-> TRUE] ELSE @]]

Due_Spent(r) == r.status = "pending" /\ r.due /\ r.attempts <= MaxAttempts
Due_Any(r) == r.status # "none" /\ r.due /\ r.attempts < MaxAttempts

\* status='pending' AND next_attempt<=now() AND attempts<5.
Due(r) == r.status = "pending" /\ r.due /\ r.attempts < MaxAttempts

\* What follows when a provider has no deliveries left: the next one, or the
\* end of the tick, which unlocks.
Proceed(d, todo) ==
    IF todo = {}
    THEN /\ nTick' = [nTick EXCEPT ![d] = NoTick]
         /\ nLock' = nLock \ {d}
    ELSE /\ nTick' = [nTick EXCEPT ![d] = [NoTick EXCEPT !.at = "provider", !.todo = todo]]
         /\ nLock' = nLock

\* The INSERT, the SELECT and Secrets.Get for the next provider. When the
\* secret cannot be read the whole tick returns.
Prepare(d) ==
    /\ nTick[d].at = "provider"
    /\ LET o == CurrentProvider(d)
           due == {e \in Time : Due(Inserted(o)[e][o.id])}
           items == {e \in due : Cardinality({f \in due : f < e}) < SendLimit}
       IN
         /\ row' = Inserted(o)
         /\ CASE o.object.secret \notin secrets \cup {0} ->
                   nTick' = [nTick EXCEPT ![d] = NoTick] /\ nLock' = nLock \ {d}
              [] items = {} -> Proceed(d, nTick[d].todo \ {o})
              [] OTHER -> nTick' = [nTick EXCEPT ![d].at = "send", ![d].items = items] /\ nLock' = nLock
    /\ UNCHANGED <<eventVars, adminVars, sends, nFaults, nLost>>

\* provider.Send: a failure may also be an answer that was lost.
Send(d) ==
    /\ nTick[d].at = "send"
    /\ \E outcome \in {"sent", "pending"} :
         nTick' = [nTick EXCEPT ![d].at = "record", ![d].outcome = outcome]
    /\ sends' = [sends EXCEPT ![Min(nTick[d].items)][CurrentProvider(d).id] = @ + 1]
    /\ UNCHANGED <<eventVars, adminVars, row, nLock, nFaults, nLost>>

Attempted_Unspent(r, outcome) ==
    [status |-> outcome, attempts |-> r.attempts + (IF outcome = "sent" THEN 1 ELSE 0), due |-> FALSE]

Attempted_Failed(r, outcome) ==
    [status |-> IF outcome = "sent" THEN "sent" ELSE "failed", attempts |-> r.attempts + 1, due |-> FALSE]

\* UPDATE ... attempts=attempts+1, next_attempt=now()+backoff.
Attempted(r, outcome) == [status |-> outcome, attempts |-> r.attempts + 1, due |-> FALSE]

RecordAttempt(d) ==
    /\ nTick[d].at = "record"
    /\ LET o == CurrentProvider(d)
           e == Min(nTick[d].items)
       IN
         /\ row' = [row EXCEPT ![e][o.id] = Attempted(@, nTick[d].outcome)]
         /\ \/ /\ nTick[d].items # {e}
               /\ nTick' = [nTick EXCEPT ![d].at = "send", ![d].items = @ \ {e}]
               /\ nLock' = nLock
            \/ /\ nTick[d].items = {e}
               /\ Proceed(d, nTick[d].todo \ {o})
    /\ UNCHANGED <<eventVars, adminVars, sends, nFaults, nLost>>

\* The backoff of a delivery is over.
BackoffEnds(e, p) ==
    /\ row[e][p].status # "none" /\ ~row[e][p].due
    /\ row' = [row EXCEPT ![e][p].due = TRUE]
    /\ UNCHANGED <<eventVars, adminVars, nLock, nTick, sends, nFaults, nLost>>

\* A database error or the end of the process, between any two statements.
DispatcherFails(d) ==
    /\ nTick[d].at # "idle" /\ nFaults < MaxDispatcherFaults
    /\ nFaults' = nFaults + 1
    /\ nTick' = [nTick EXCEPT ![d] = NoTick]
    /\ nLock' = nLock \ {d}
    /\ UNCHANGED <<eventVars, adminVars, row, sends, nLost>>

\* The connection that holds the session lock breaks; the tick, which works
\* through other connections of the pool, goes on.
DispatcherLockLost(d) ==
    /\ d \in nLock /\ nFaults < MaxDispatcherFaults
    /\ nFaults' = nFaults + 1 /\ nLost' = nLost + 1
    /\ nLock' = {}
    /\ UNCHANGED <<eventVars, adminVars, row, nTick, sends>>

-----------------------------------------------------------------------------
AdminStep(a) ==
    \/ \E p \in Provider : ReadForEdit(a, p) \/ ReadForDelete(a, p)
    \/ SaveObject(a) \/ DeleteObject(a) \/ DeleteSecret(a)
DispatchStep(d) == DispatchStart(d) \/ Prepare(d) \/ Send(d) \/ RecordAttempt(d)
Backoff == \E e \in Time, p \in Provider : BackoffEnds(e, p)
NotificationsNext ==
    \/ Emit \/ \E e \in Time : CommitEvent(e)
    \/ \E a \in Admin : AdminStep(a)
    \/ \E d \in Dispatcher : DispatchStep(d) \/ DispatcherFails(d) \/ DispatcherLockLost(d)
    \/ Backoff

\* A dispatcher ticks every ten seconds, statements and sends end, time passes.
NotificationsFairness ==
    /\ \A d \in Dispatcher : WF_nVars(Prepare(d)) /\ WF_nVars(Send(d)) /\ WF_nVars(RecordAttempt(d))
    /\ WF_nVars(\E d \in Dispatcher : DispatchStart(d))
    /\ \A e \in Time, p \in Provider : WF_nVars(BackoffEnds(e, p))
    /\ \A a \in Admin : WF_nVars(DeleteSecret(a))

NotificationsSpec == NotificationsInit /\ [][NotificationsNext]_nVars /\ NotificationsFairness

-----------------------------------------------------------------------------
(* Properties. *)

\* A delivery is attempted at most MaxAttempts times on record; only a leader
\* that lost its lock while it went on sending can add one, once per loss.
AttemptsBounded == \A e \in Time, p \in Provider : row[e][p].attempts <= MaxAttempts + nLost

InFlight(e, p) == Cardinality({d \in Dispatcher :
    nTick[d].at = "record" /\ CurrentProvider(d).id = p /\ Min(nTick[d].items) = e})

\* A receiver is called once per recorded attempt, plus the call that is under
\* way and the calls of ticks that failed before they recorded them: retries
\* are never free.
SendsRecorded == \A e \in Time, p \in Provider :
    sends[e][p] <= row[e][p].attempts + InFlight(e, p) + nFaults

\* While no leader has lost its lock, a delivery recorded as sent is never sent
\* again: the restart of a tick, another process or an edit of the provider
\* does not repeat it.
SentOnce == [][\A e \in Time, p \in Provider :
    nLost = 0 /\ row[e][p].status = "sent" => sends'[e][p] = sends[e][p]]_nVars

Settled(e, p) == row[e][p].status = "sent" \/ row[e][p].attempts >= MaxAttempts

\* "Eventos são entregues por dispatcher durável com histórico, backoff e até
\* cinco tentativas": an event some provider wants is sent to it or tried
\* MaxAttempts times, unless the provider is withdrawn.
Delivered == \A e \in Time, p \in Provider :
    (e \in events /\ provider[p].there /\ e >= provider[p].created)
        ~> (Settled(e, p) \/ ~provider[p].there \/ ~provider[p].enabled)

\* Deliveries as a whole: bounded attempts, every call accounted for, and none
\* after success.
NotificationsSafe == [](NotificationsTypeOK /\ AttemptsBounded /\ SendsRecorded) /\ SentOnce
=============================================================================
