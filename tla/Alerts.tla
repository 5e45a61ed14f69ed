------------------------------- MODULE Alerts -------------------------------
(***************************************************************************)
(* The collector's alerts: a leader evaluates local rules over the         *)
(* inventory, opens an alert object for each finding and announces it, and *)
(* resolves the open alerts no finding supports any more.                  *)
(***************************************************************************)
EXTENDS Naturals, FiniteSets

CONSTANTS
    Host, Resource,    \* ids of the inventory
    HostDoc,           \* host documents that occur: enabled, state, memory, disk
    ResourceDoc,       \* resource documents that occur: state, health, restarts
    Collector,         \* processes that run the collector
    ObjectLimit,             \* objects a query lists, newest first (2000)
    MaxInventoryChanges,        \* bound: changes of the inventory
    MaxCollectorFaults          \* bound: failed ticks, failed reads and lost leader locks

ASSUME AlertsAssumption ==
    /\ IsFiniteSet(Host) /\ IsFiniteSet(Resource) /\ IsFiniteSet(Collector)
    /\ {MaxInventoryChanges, MaxCollectorFaults} \subseteq Nat /\ ObjectLimit \in Nat \ {0}
    /\ \A d \in HostDoc : d.enabled \in BOOLEAN /\ d.used \in Nat /\ d.total \in Nat /\ d.disk \in Nat
    /\ \A d \in ResourceDoc : d.restarts \in Nat

VARIABLES
    host, resource,   \* the inventory
    alert,            \* alert objects: status, and rank in order of creation
    created,          \* alert objects created
    aTick,             \* each collector's Tick
    aLock,             \* holder of the advisory lock
    openings, announced,  \* history per alert: times opened, events alert.created
    misread,          \* history per alert: reads of it that failed while it was open
    aChanges, aFaults, aLost

aVars == <<host, resource, alert, created, aTick, aLock, openings, announced, aChanges, aFaults, aLost, misread>>
inventory == <<host, resource, aChanges>>

HostRule == {"host-offline", "host-memory", "host-disk"}
ResourceRule == {"resource", "restart-loop"}
Key == (HostRule \X Host) \cup (ResourceRule \X Resource)
NoKey == <<"", "">>
NoCollection == [at |-> "idle", active |-> {}, todo |-> {}, key |-> NoKey]

AlertsTypeOK ==
    /\ host \in [Host -> HostDoc] /\ resource \in [Resource -> ResourceDoc]
    /\ alert \in [Key -> [status : {"none", "open", "resolved"}, rank : 0..Cardinality(Key)]]
    /\ created \in 0..Cardinality(Key)
    /\ aTick \in [Collector -> [at : {"idle", "evaluate", "open", "save", "announce", "list", "resolve"},
                               active : SUBSET Key, todo : SUBSET Key, key : Key \cup {NoKey}]]
    /\ aLock \subseteq Collector
    /\ openings \in [Key -> Nat] /\ announced \in [Key -> Nat] /\ misread \in [Key -> Nat]
    /\ aChanges \in 0..MaxInventoryChanges /\ aFaults \in 0..MaxCollectorFaults /\ aLost \in 0..aFaults

AlertsInit ==
    /\ host \in [Host -> HostDoc] /\ resource \in [Resource -> ResourceDoc]
    /\ alert = [k \in Key |-> [status |-> "none", rank |-> 0]]
    /\ created = 0
    /\ aTick = [c \in Collector |-> NoCollection]
    /\ aLock = {}
    /\ openings = [k \in Key |-> 0] /\ announced = [k \in Key |-> 0] /\ misread = [k \in Key |-> 0]
    /\ aChanges = 0 /\ aFaults = 0 /\ aLost = 0

-----------------------------------------------------------------------------
(* Evaluate. *)

BadState == {"failed", "fatal", "exited", "dead", "stopped", "crashloopbackoff", "error", "errored"}

\* Of enabled hosts: offline, memory used above 90%, a filesystem at 90%.
HostFinding(kind, d) == d.enabled /\
    CASE kind = "host-offline" -> d.state = "offline"
      [] kind = "host-memory"  -> d.total > 0 /\ 10 * d.used > 9 * d.total
      [] kind = "host-disk"    -> d.disk >= 90

ResourceFinding(kind, d) ==
    CASE kind = "resource"     -> d.health = "unhealthy" \/ d.state \in BadState
      [] kind = "restart-loop" -> d.restarts >= 5

Evaluate ==
    {k \in HostRule \X Host : HostFinding(k[1], host[k[2]])}
    \cup {k \in ResourceRule \X Resource : ResourceFinding(k[1], resource[k[2]])}

-----------------------------------------------------------------------------
(* The inventory, as discoveries and administrators change it. *)

InventoryChanges ==
    /\ aChanges < MaxInventoryChanges
    /\ aChanges' = aChanges + 1
    /\ \/ \E h \in Host, d \in HostDoc : host' = [host EXCEPT ![h] = d] /\ UNCHANGED resource
       \/ \E r \in Resource, d \in ResourceDoc : resource' = [resource EXCEPT ![r] = d] /\ UNCHANGED host
    /\ UNCHANGED <<alert, created, aTick, aLock, openings, announced, aFaults, aLost, misread>>

-----------------------------------------------------------------------------
(* Tick. *)

\* pg_try_advisory_lock; the discoveries of the due hosts are Change steps.
CollectStart(c) ==
    /\ aTick[c].at = "idle" /\ aLock = {}
    /\ aLock' = {c}
    /\ aTick' = [aTick EXCEPT ![c].at = "evaluate"]
    /\ UNCHANGED <<inventory, alert, created, openings, announced, aFaults, aLost, misread>>

EvaluateAll(c) ==
    /\ aTick[c].at = "evaluate"
    /\ aTick' = [aTick EXCEPT ![c] =
         [at |-> IF Evaluate = {} THEN "list" ELSE "open",
          active |-> Evaluate, todo |-> Evaluate, key |-> NoKey]]
    /\ UNCHANGED <<inventory, alert, created, aLock, openings, announced, aFaults, aLost, misread>>

\* The next finding, or what follows the last one.
After(c, k, next) ==
    LET todo == aTick[c].todo \ {k} IN
    aTick' = [aTick EXCEPT ![c].at = IF todo = {} THEN next ELSE "open", ![c].todo = todo, ![c].key = NoKey]

Known_Never(k) == FALSE
Known_Any(k) == alert[k].status # "none"

\* The alert exists and is open: nothing to do.
Known(k) == alert[k].status = "open"

Skip(c, k) ==
    /\ aTick[c].at = "open" /\ k \in aTick[c].todo
    /\ Known(k)
    /\ After(c, k, "list")
    /\ UNCHANGED <<inventory, alert, created, aLock, openings, announced, aFaults, aLost, misread>>

\* No such alert, or a resolved one.
ReadUnknown(c, k) ==
    /\ aTick[c].at = "open" /\ k \in aTick[c].todo
    /\ ~Known(k)
    /\ aTick' = [aTick EXCEPT ![c].at = "save", ![c].key = k]
    /\ UNCHANGED <<inventory, alert, created, aLock, openings, announced, aFaults, aLost, misread>>

\* The read of an open alert fails: the error is taken for the absence of the
\* alert, which is saved and announced again.
ReadFails(c, k) ==
    /\ aTick[c].at = "open" /\ k \in aTick[c].todo
    /\ Known(k) /\ aFaults < MaxCollectorFaults
    /\ aFaults' = aFaults + 1
    /\ misread' = [misread EXCEPT ![k] = @ + 1]
    /\ aTick' = [aTick EXCEPT ![c].at = "save", ![c].key = k]
    /\ UNCHANGED <<inventory, alert, created, aLock, openings, announced, aLost>>

Saved_New(k) == [status |-> "new", rank |-> IF alert[k].rank = 0 THEN created + 1 ELSE alert[k].rank]

\* SaveObject of an open alert: created_at is set once, by the first insert.
Saved(k) == [status |-> "open", rank |-> IF alert[k].rank = 0 THEN created + 1 ELSE alert[k].rank]

AfterSave_First(c) == IF alert[aTick[c].key].rank = 0 THEN "announce" ELSE "announced"

\* Every alert that was saved is announced, in a transaction of its own.
AfterSave(c) == "announce"

Save(c) ==
    /\ aTick[c].at = "save"
    /\ LET k == aTick[c].key IN
         /\ alert' = [alert EXCEPT ![k] = Saved(k)]
         /\ created' = IF alert[k].rank = 0 THEN created + 1 ELSE created
         /\ openings' = [openings EXCEPT ![k] = IF alert[k].status = "open" THEN @ ELSE @ + 1]
    /\ IF AfterSave(c) = "announce"
       THEN aTick' = [aTick EXCEPT ![c].at = "announce"]
       ELSE After(c, aTick[c].key, "list")
    /\ UNCHANGED <<inventory, aLock, announced, aFaults, aLost, misread>>

Announce(c) ==
    /\ aTick[c].at = "announce"
    /\ announced' = [announced EXCEPT ![aTick[c].key] = @ + 1]
    /\ After(c, aTick[c].key, "list")
    /\ UNCHANGED <<inventory, alert, created, aLock, openings, aFaults, aLost, misread>>

\* Objects: ORDER BY created_at DESC LIMIT 2000.
Listed == {k \in Key : alert[k].rank > 0 /\ alert[k].rank + ObjectLimit > created}

\* The open alerts on the list that no finding supports; the tick ends here if
\* there is none.
List(c) ==
    /\ aTick[c].at = "list"
    /\ LET gone == {k \in Listed : alert[k].status = "open"} \ aTick[c].active IN
         IF gone = {}
         THEN aTick' = [aTick EXCEPT ![c] = NoCollection] /\ aLock' = aLock \ {c}
         ELSE aTick' = [aTick EXCEPT ![c].at = "resolve", ![c].todo = gone] /\ aLock' = aLock
    /\ UNCHANGED <<inventory, alert, created, openings, announced, aFaults, aLost, misread>>

Resolve(c, k) ==
    /\ aTick[c].at = "resolve" /\ k \in aTick[c].todo
    /\ alert' = [alert EXCEPT ![k].status = "resolved"]
    /\ IF aTick[c].todo = {k}
       THEN aTick' = [aTick EXCEPT ![c] = NoCollection] /\ aLock' = aLock \ {c}
       ELSE aTick' = [aTick EXCEPT ![c].todo = @ \ {k}] /\ aLock' = aLock
    /\ UNCHANGED <<inventory, created, openings, announced, aFaults, aLost, misread>>

\* A database error or the end of the process.
CollectorFails(c) ==
    /\ aTick[c].at # "idle" /\ aFaults < MaxCollectorFaults
    /\ aFaults' = aFaults + 1
    /\ aTick' = [aTick EXCEPT ![c] = NoCollection]
    /\ aLock' = aLock \ {c}
    /\ UNCHANGED <<inventory, alert, created, openings, announced, aLost, misread>>

\* The connection that holds the session lock breaks; the tick goes on.
CollectorLockLost(c) ==
    /\ c \in aLock /\ aFaults < MaxCollectorFaults
    /\ aFaults' = aFaults + 1 /\ aLost' = aLost + 1
    /\ aLock' = {}
    /\ UNCHANGED <<inventory, alert, created, aTick, openings, announced, misread>>

-----------------------------------------------------------------------------
CollectStep(c) ==
    \/ EvaluateAll(c) \/ Save(c) \/ Announce(c) \/ List(c)
    \/ \E k \in Key : Skip(c, k) \/ ReadUnknown(c, k) \/ Resolve(c, k)
AlertsNext ==
    \/ InventoryChanges
    \/ \E c \in Collector : CollectStart(c) \/ CollectStep(c) \/ CollectorFails(c) \/ CollectorLockLost(c)
    \/ \E c \in Collector, k \in Key : ReadFails(c, k)

\* Some process ticks every minute, and its statements end.
AlertsFairness ==
    /\ WF_aVars(\E c \in Collector : CollectStart(c))
    /\ \A c \in Collector : WF_aVars(CollectStep(c))

AlertsSpec == AlertsInit /\ [][AlertsNext]_aVars /\ AlertsFairness

-----------------------------------------------------------------------------
(* Properties. *)

\* "Alertas são persistidos e resolvidos quando a condição observada
\* desaparece": once the inventory rests, exactly the conditions it shows have
\* open alerts, whatever ticks failed or overlapped before.
AlertsConverge == <>[](\A k \in Key : alert[k].status = "open" <=> k \in Evaluate)

Announcing(k) == Cardinality({c \in Collector : aTick[c].at = "announce" /\ aTick[c].key = k})

\* Every time an alert opens, also again, subscribers get an event for it; only
\* a tick that failed, between the two transactions, owes one. A lost lock or a
\* failing read never swallows an announcement.
OpeningAnnounced ==
    \A k \in Key : openings[k] <= announced[k] + Announcing(k) + (aFaults - aLost - misread[k])

\* An alert that stays open is announced once, not on every tick: each repetition
\* is the work of a leader that lost its lock, or of a read of this alert that
\* failed while it was open.
AnnouncedOnce == \A k \in Key : announced[k] <= openings[k] + aLost + misread[k]

\* Announcements as a whole: every opening is announced, and once.
AlertsSafe == AlertsTypeOK /\ OpeningAnnounced /\ AnnouncedOnce
=============================================================================
