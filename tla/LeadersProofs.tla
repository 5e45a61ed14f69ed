---------------------------- MODULE LeadersProofs ----------------------------
(***************************************************************************)
(* Proofs about the collector's alerts, the agent monitor and the          *)
(* notification dispatcher. All lead by an advisory lock whose session can *)
(* break while the tick goes on, so that several ticks run at once: one    *)
(* that holds the lock and, for each loss, at most one that no longer      *)
(* does. The properties bound what such ticks do twice, so the inductive   *)
(* invariants count them.                                                  *)
(***************************************************************************)
EXTENDS Alerts, AgentMonitor, Notifications, FiniteSetTheorems, NaturalsInduction,
        WellFoundedInduction, TLAPS

\* A finite set that gains at most one element.
LEMMA CardinalityGrows ==
    ASSUME NEW S, IsFiniteSet(S), NEW x, NEW T, T \subseteq S \cup {x}
    PROVE  IsFiniteSet(T) /\ Cardinality(T) \in Nat /\ Cardinality(T) <= Cardinality(S) + 1
<1>1. /\ IsFiniteSet(S \cup {x}) /\ Cardinality(S) \in Nat
      /\ Cardinality(S \cup {x}) = IF x \in S THEN Cardinality(S) ELSE Cardinality(S) + 1
  BY FS_AddElement, FS_CardinalityType
<1>2. IsFiniteSet(T) /\ Cardinality(T) <= Cardinality(S \cup {x})
  BY <1>1, FS_Subset
<1>3. Cardinality(T) \in Nat
  BY <1>2, FS_CardinalityType
<1> QED
  BY <1>1, <1>2, <1>3

\* A finite set that gains none, or loses one.
LEMMA CardinalityShrinks ==
    ASSUME NEW S, IsFiniteSet(S), NEW T, T \subseteq S
    PROVE  /\ IsFiniteSet(T) /\ Cardinality(T) \in Nat /\ Cardinality(S) \in Nat
           /\ Cardinality(T) <= Cardinality(S)
           /\ T # S => Cardinality(T) + 1 <= Cardinality(S)
<1>1. /\ IsFiniteSet(T) /\ Cardinality(T) <= Cardinality(S)
      /\ Cardinality(S) = Cardinality(T) => S = T
  BY FS_Subset
<1>2. Cardinality(T) \in Nat /\ Cardinality(S) \in Nat
  BY <1>1, FS_CardinalityType
<1> QED
  BY <1>1, <1>2

-----------------------------------------------------------------------------
(***************************************************************************)
(* Alerts. An announcement is repeated only by a tick without the lock, by *)
(* the leader after such a tick opened the alert between its read and its  *)
(* save, or after a failed read. Owes says which ticks may still announce  *)
(* a key beyond its openings; each loss of the lock and each failed read   *)
(* pays for one.                                                           *)
(***************************************************************************)

Collection == [at : {"idle", "evaluate", "open", "save", "announce", "list", "resolve"},
               active : SUBSET Key, todo : SUBSET Key, key : Key \cup {NoKey}]

\* The session lock has one holder.
OneCollector == \A c, d \in aLock : c = d

\* The alert that is being saved or announced is one of the tick's findings.
KeyPending == \A c \in Collector : aTick[c].at \in {"save", "announce"} => aTick[c].key \in aTick[c].todo

\* created counts the alert objects there are.
CreatedCounts == Cardinality({k \in Key : alert[k].rank > 0}) = created

\* Tick c announces k in its next step, or lost the lock and may still come to
\* k, or is the leader about to save an alert another tick has opened.
Owes(c, k) ==
    \/ aTick[c].at = "announce" /\ aTick[c].key = k
    \/ c \notin aLock /\ aTick[c].at = "evaluate"
    \/ c \notin aLock /\ aTick[c].at \in {"open", "save", "announce"} /\ k \in aTick[c].todo
    \/ c \in aLock /\ aTick[c].at = "save" /\ aTick[c].key = k /\ alert[k].status = "open"

Owing(k) == {c \in Collector : Owes(c, k)}
Announcers(k) == {c \in Collector : aTick[c].at = "announce" /\ aTick[c].key = k}

\* Announcements made and owed exceed the openings by lost locks and failed reads
\* only.
AnnouncementsOwed == \A k \in Key : announced[k] + Cardinality(Owing(k)) <= openings[k] + aLost + misread[k]

\* The inductive invariant.
AlertsInv ==
    /\ AlertsTypeOK
    /\ OneCollector /\ KeyPending /\ CreatedCounts
    /\ OpeningAnnounced /\ AnnouncementsOwed

LEMMA KeyFinite == IsFiniteSet(Key) /\ Cardinality(Key) \in Nat
<1>1. IsFiniteSet(HostRule) /\ IsFiniteSet(ResourceRule)
  <2>1. HostRule = ({} \cup {"host-offline"} \cup {"host-memory"}) \cup {"host-disk"}
    BY DEF HostRule
  <2>2. ResourceRule = ({} \cup {"resource"}) \cup {"restart-loop"}
    BY DEF ResourceRule
  <2>3. \A S, x : IsFiniteSet(S) => IsFiniteSet(S \cup {x})
    BY FS_AddElement
  <2>4. IsFiniteSet({})
    BY FS_EmptySet
  <2> QED
    BY <2>1, <2>2, <2>3, <2>4
<1>2. IsFiniteSet(HostRule \X Host) /\ IsFiniteSet(ResourceRule \X Resource)
  BY <1>1, FS_Product, AlertsAssumption
<1>3. IsFiniteSet(Key)
  BY <1>2, FS_Union DEF Key
<1> QED
  BY <1>3, FS_CardinalityType

\* The counts are of finite sets.
LEMMA CollectorsFinite ==
    ASSUME NEW k
    PROVE  /\ IsFiniteSet(Owing(k)) /\ IsFiniteSet(Announcers(k)) /\ IsFiniteSet(Owing(k)') /\ IsFiniteSet(Announcers(k)')
           /\ Cardinality(Owing(k)) \in Nat /\ Cardinality(Announcers(k)) \in Nat
           /\ Announcing(k) = Cardinality(Announcers(k)) /\ Announcing(k)' = Cardinality(Announcers(k)')
<1>1. Owing(k) \subseteq Collector /\ Announcers(k) \subseteq Collector
  BY DEF Owing, Announcers
<1>2. Owing(k)' \subseteq Collector /\ Announcers(k)' \subseteq Collector
  BY DEF Owing, Announcers
<1>3. IsFiniteSet(Owing(k)) /\ IsFiniteSet(Announcers(k)) /\ IsFiniteSet(Owing(k)') /\ IsFiniteSet(Announcers(k)')
  BY <1>1, <1>2, AlertsAssumption, CardinalityShrinks
<1>4. Announcing(k) = Cardinality(Announcers(k)) /\ Announcing(k)' = Cardinality(Announcers(k)')
  BY DEF Announcing, Announcers
<1> QED
  BY <1>3, <1>4, FS_CardinalityType

\* A step after which nobody owes more, and no announcement was dropped.
LEMMA QuietStep ==
    ASSUME AlertsInv, UNCHANGED <<openings, announced, aFaults, aLost, misread>>,
           \A k \in Key : Owing(k)' \subseteq Owing(k),
           \A k \in Key : Announcers(k) \subseteq Announcers(k)'
    PROVE  OpeningAnnounced' /\ AnnouncementsOwed'
<1>1. ASSUME NEW k \in Key
      PROVE  /\ openings'[k] <= announced'[k] + Announcing(k)' + (aFaults' - aLost' - misread'[k])
             /\ announced'[k] + Cardinality(Owing(k)') <= openings'[k] + aLost' + misread'[k]
  <2>1. /\ openings[k] \in Nat /\ announced[k] \in Nat /\ aFaults \in Nat /\ aLost \in Nat /\ misread[k] \in Nat
        /\ openings[k] <= announced[k] + Announcing(k) + (aFaults - aLost - misread[k])
        /\ announced[k] + Cardinality(Owing(k)) <= openings[k] + aLost + misread[k]
    BY AlertsAssumption DEF AlertsInv, AlertsTypeOK, OpeningAnnounced, AnnouncementsOwed
  <2>2. Cardinality(Owing(k)') <= Cardinality(Owing(k)) /\ Cardinality(Owing(k)') \in Nat
    BY CollectorsFinite, CardinalityShrinks
  <2>3. Cardinality(Announcers(k)) <= Cardinality(Announcers(k)') /\ Cardinality(Announcers(k)') \in Nat
    BY CollectorsFinite, CardinalityShrinks
  <2>4. Cardinality(Owing(k)) \in Nat /\ Cardinality(Announcers(k)) \in Nat
        /\ Announcing(k) = Cardinality(Announcers(k)) /\ Announcing(k)' = Cardinality(Announcers(k)')
    BY CollectorsFinite
  <2> QED
    BY <2>1, <2>2, <2>3, <2>4
<1> QED
  BY <1>1 DEF OpeningAnnounced, AnnouncementsOwed
\* Where the ticks are, for use in the steps.
LEMMA TickShape ==
    ASSUME AlertsInv
    PROVE  aTick \in [Collector -> Collection] /\ aLock \subseteq Collector
  BY DEF AlertsInv, AlertsTypeOK, Collection

\* A step of one tick that only moves that tick.
LEMMA TickMoves ==
    ASSUME AlertsInv, NEW c \in Collector, NEW t \in Collection,
           aTick' = [aTick EXCEPT ![c] = t],
           aLock' \in {aLock, aLock \ {c}} \/ (aLock = {} /\ aLock' = {c}),
           UNCHANGED <<inventory, alert, created, openings, announced, aFaults, aLost, misread>>,
           t.at \in {"save", "announce"} => t.key \in t.todo,
           aTick[c].at # "announce" /\ t.at # "announce",
           \A k \in Key : c \notin aLock' =>
               ((t.at = "evaluate" \/ (t.at \in {"open", "save"} /\ k \in t.todo)) => Owes(c, k)),
           t.at = "save" /\ c \in aLock' => alert[t.key].status # "open"
    PROVE  AlertsInv'
<1>1. aTick \in [Collector -> Collection] /\ aLock \subseteq Collector
  BY TickShape
<1>2. aTick'[c] = t /\ \A d \in Collector \ {c} : aTick'[d] = aTick[d]
  BY <1>1
<1>3. AlertsTypeOK'
  BY <1>1 DEF AlertsInv, AlertsTypeOK, Collection, inventory
<1>4. OneCollector' /\ CreatedCounts'
  BY DEF AlertsInv, OneCollector, CreatedCounts
<1>5. KeyPending'
  BY <1>2 DEF AlertsInv, KeyPending
<1>6. ASSUME NEW k \in Key PROVE Owing(k)' \subseteq Owing(k) /\ Announcers(k) \subseteq Announcers(k)'
  <2>1. ASSUME NEW d \in Collector, Owes(d, k)' PROVE Owes(d, k)
    <3>1. CASE d = c
      <4>1. t.at # "announce" /\ ~(c \in aLock' /\ t.at = "save" /\ t.key = k /\ alert'[k].status = "open")
        OBVIOUS
      <4>2. c \notin aLock' /\ (t.at = "evaluate" \/ (t.at \in {"open", "save"} /\ k \in t.todo))
        BY <1>2, <2>1, <3>1, <4>1 DEF Owes
      <4> QED
        BY <3>1, <4>2
    <3>2. CASE d # c
      <4>1. aTick'[d] = aTick[d] /\ (d \in aLock' <=> d \in aLock)
        BY <1>2, <3>2
      <4> QED
        BY <2>1, <4>1 DEF Owes
    <3> QED
      BY <3>1, <3>2
  <2>2. Owing(k)' \subseteq Owing(k)
    BY <2>1 DEF Owing
  <2>3. Announcers(k) \subseteq Announcers(k)'
    BY <1>2 DEF Announcers
  <2> QED
    BY <2>2, <2>3
<1>7. OpeningAnnounced' /\ AnnouncementsOwed'
  BY <1>6, QuietStep
<1> QED
  BY <1>3, <1>4, <1>5, <1>7 DEF AlertsInv

\* A collector takes the lock and starts.
LEMMA CollectStartInv ==
    ASSUME AlertsInv, NEW c \in Collector, CollectStart(c)
    PROVE  AlertsInv'
<1> DEFINE t == [aTick[c] EXCEPT !.at = "evaluate"]
<1>1. aTick \in [Collector -> Collection]
  BY TickShape
<1>2. t \in Collection /\ t.at = "evaluate" /\ aTick' = [aTick EXCEPT ![c] = t]
  BY <1>1 DEF CollectStart, Collection
<1> HIDE DEF t
<1> QED
  BY <1>2, TickMoves DEF CollectStart

\* The rules are evaluated.
LEMMA EvaluateInv ==
    ASSUME AlertsInv, NEW c \in Collector, EvaluateAll(c)
    PROVE  AlertsInv'
<1> DEFINE t == [at |-> IF Evaluate = {} THEN "list" ELSE "open",
                 active |-> Evaluate, todo |-> Evaluate, key |-> NoKey]
<1>1. Evaluate \subseteq Key
  BY DEF Evaluate, Key
<1>2. t \in Collection /\ t.at \in {"list", "open"} /\ t.todo = Evaluate
  BY <1>1 DEF Collection
<1>3. aTick' = [aTick EXCEPT ![c] = t] /\ aTick[c].at = "evaluate"
  BY DEF EvaluateAll
<1>4. \A k \in Key : c \notin aLock => Owes(c, k)
  BY <1>3 DEF Owes
<1> HIDE DEF t
<1> QED
  BY <1>2, <1>3, <1>4, TickMoves DEF EvaluateAll

\* A finding is passed over, or read for saving.
LEMMA OpenInv ==
    ASSUME AlertsInv, NEW c \in Collector, NEW k \in Key, Skip(c, k) \/ ReadUnknown(c, k)
    PROVE  AlertsInv'
<1>1. aTick[c] \in Collection /\ aTick \in [Collector -> Collection]
  BY TickShape
<1>2. aTick[c].at = "open" /\ k \in aTick[c].todo
  BY DEF Skip, ReadUnknown
<1>3. \A j \in aTick[c].todo : c \notin aLock => Owes(c, j)
  BY <1>2 DEF Owes
<1>4. CASE Skip(c, k)
  <2> DEFINE todo == aTick[c].todo \ {k}
             t == [aTick[c] EXCEPT !.at = IF todo = {} THEN "list" ELSE "open", !.todo = todo, !.key = NoKey]
  <2>1. t \in Collection /\ t.at \in {"list", "open"} /\ t.todo = todo
    BY <1>1 DEF Collection
  <2>2. aTick' = [aTick EXCEPT ![c] = t]
    BY <1>1, <1>4 DEF Skip, After
  <2> HIDE DEF t
  <2> QED
    BY <1>2, <1>3, <1>4, <2>1, <2>2, TickMoves DEF Skip
<1>5. CASE ReadUnknown(c, k)
  <2> DEFINE t == [aTick[c] EXCEPT !.at = "save", !.key = k]
  <2>1. t \in Collection /\ t.at = "save" /\ t.key = k /\ t.todo = aTick[c].todo
    BY <1>1 DEF Collection
  <2>2. aTick' = [aTick EXCEPT ![c] = t] /\ alert[k].status # "open"
    BY <1>1, <1>5 DEF ReadUnknown, Known
  <2> HIDE DEF t
  <2> QED
    BY <1>2, <1>3, <1>5, <2>1, <2>2, TickMoves DEF ReadUnknown
<1> QED
  BY <1>4, <1>5

\* The alerts are listed.
LEMMA ListInv ==
    ASSUME AlertsInv, NEW c \in Collector, List(c)
    PROVE  AlertsInv'
<1> DEFINE gone == {k \in Listed : alert[k].status = "open"} \ aTick[c].active
           u == [aTick[c] EXCEPT !.at = "resolve", !.todo = gone]
<1>1. aTick[c] \in Collection /\ aTick \in [Collector -> Collection]
  BY TickShape
<1>2. NoCollection \in Collection /\ NoCollection.at = "idle"
  BY DEF NoCollection, Collection
<1>3. gone \subseteq Key
  BY DEF Listed
<1>4. u \in Collection /\ u.at = "resolve"
  BY <1>1, <1>3 DEF Collection
<1>5. \/ aTick' = [aTick EXCEPT ![c] = NoCollection] /\ aLock' = aLock \ {c}
      \/ aTick' = [aTick EXCEPT ![c] = u] /\ aLock' = aLock
  BY <1>1 DEF List
<1>6. aTick[c].at = "list" /\ UNCHANGED <<inventory, alert, created, openings, announced, aFaults, aLost, misread>>
  BY DEF List
<1> HIDE DEF u
<1> QED
  BY <1>2, <1>4, <1>5, <1>6, TickMoves
\* The counters of one key, whose sets are about to change.
LEMMA AlertCounters ==
    ASSUME AlertsInv, NEW k \in Key
    PROVE  /\ openings[k] \in Nat /\ announced[k] \in Nat /\ aFaults \in Nat /\ aLost \in Nat /\ misread[k] \in Nat
           /\ openings[k] <= announced[k] + Cardinality(Announcers(k)) + (aFaults - aLost - misread[k])
           /\ announced[k] + Cardinality(Owing(k)) <= openings[k] + aLost + misread[k]
           /\ Cardinality(Owing(k)) \in Nat /\ Cardinality(Announcers(k)) \in Nat
           /\ Cardinality(Owing(k)') \in Nat /\ Cardinality(Announcers(k)') \in Nat
<1>1. /\ openings[k] \in Nat /\ announced[k] \in Nat /\ aFaults \in Nat /\ aLost \in Nat /\ misread[k] \in Nat
      /\ openings[k] <= announced[k] + Announcing(k) + (aFaults - aLost - misread[k])
      /\ announced[k] + Cardinality(Owing(k)) <= openings[k] + aLost + misread[k]
  BY AlertsAssumption DEF AlertsInv, AlertsTypeOK, OpeningAnnounced, AnnouncementsOwed
<1>2. Cardinality(Owing(k)') \in Nat /\ Cardinality(Announcers(k)') \in Nat
  BY CollectorsFinite, FS_CardinalityType
<1> QED
  BY <1>1, <1>2, CollectorsFinite

\* The two counting invariants in the next state, key by key.
LEMMA CountersKept ==
    ASSUME \A k \in Key :
             /\ openings'[k] <= announced'[k] + Cardinality(Announcers(k)') + (aFaults' - aLost' - misread'[k])
             /\ announced'[k] + Cardinality(Owing(k)') <= openings'[k] + aLost' + misread'[k]
    PROVE  OpeningAnnounced' /\ AnnouncementsOwed'
<1>1. \A k \in Key : Announcing(k)' = Cardinality(Announcers(k)')
  BY CollectorsFinite
<1> QED
  BY <1>1 DEF OpeningAnnounced, AnnouncementsOwed

\* An alert is resolved: a leader about to save it again will open it.
LEMMA ResolveInv ==
    ASSUME AlertsInv, NEW c \in Collector, NEW k \in Key, Resolve(c, k)
    PROVE  AlertsInv'
<1> DEFINE t == [aTick[c] EXCEPT !.todo = @ \ {k}]
<1>1. aTick[c] \in Collection /\ aTick \in [Collector -> Collection] /\ aLock \subseteq Collector
  BY TickShape
<1>2. NoCollection \in Collection /\ NoCollection.at = "idle"
  BY DEF NoCollection, Collection
<1>3. t \in Collection /\ t.at = "resolve" /\ aTick[c].at = "resolve"
  BY <1>1 DEF Collection, Resolve
<1>4. PICK u \in {t, NoCollection} :
        aTick' = [aTick EXCEPT ![c] = u] /\ aLock' \in {aLock, aLock \ {c}}
  BY <1>1 DEF Resolve
<1>5. u \in Collection /\ u.at \in {"idle", "resolve"}
  BY <1>2, <1>3
<1> HIDE DEF t
<1>6. aTick'[c] = u /\ \A d \in Collector \ {c} : aTick'[d] = aTick[d]
  BY <1>1, <1>4
<1>7. /\ alert' \in [Key -> [status : {"none", "open", "resolved"}, rank : 0..Cardinality(Key)]]
      /\ \A j \in Key : alert'[j].rank = alert[j].rank /\ (alert'[j].status = "open" => alert[j].status = "open")
  BY DEF Resolve, AlertsInv, AlertsTypeOK
<1>8. UNCHANGED <<host, resource, aChanges, created, openings, announced, aFaults, aLost, misread>>
  BY DEF Resolve, inventory
<1>9. AlertsTypeOK'
  BY <1>1, <1>4, <1>5, <1>7, <1>8 DEF AlertsInv, AlertsTypeOK, Collection
<1>10. OneCollector' /\ KeyPending'
  BY <1>4, <1>5, <1>6 DEF AlertsInv, OneCollector, KeyPending
<1>11. CreatedCounts'
  <2>1. {j \in Key : alert'[j].rank > 0} = {j \in Key : alert[j].rank > 0}
    BY <1>7
  <2> QED
    BY <1>8, <2>1 DEF AlertsInv, CreatedCounts
<1>12. ASSUME NEW j \in Key PROVE Owing(j)' \subseteq Owing(j) /\ Announcers(j) \subseteq Announcers(j)'
  <2>1. ASSUME NEW d \in Collector, Owes(d, j)' PROVE Owes(d, j)
    <3>1. d # c
      BY <1>5, <1>6, <2>1 DEF Owes
    <3>2. aTick'[d] = aTick[d] /\ (d \in aLock' <=> d \in aLock)
      BY <1>4, <1>6, <3>1
    <3> QED
      BY <1>7, <2>1, <3>2 DEF Owes
  <2>2. Owing(j)' \subseteq Owing(j)
    BY <2>1 DEF Owing
  <2>3. Announcers(j) \subseteq Announcers(j)'
    BY <1>3, <1>6 DEF Announcers
  <2> QED
    BY <2>2, <2>3
<1>13. OpeningAnnounced' /\ AnnouncementsOwed'
  BY <1>8, <1>12, QuietStep
<1> QED
  BY <1>9, <1>10, <1>11, <1>13 DEF AlertsInv

\* The announcement: what was owed is made.
LEMMA AnnounceInv ==
    ASSUME AlertsInv, NEW c \in Collector, Announce(c)
    PROVE  AlertsInv'
<1> DEFINE k == aTick[c].key
           todo == aTick[c].todo \ {k}
           t == [aTick[c] EXCEPT !.at = IF todo = {} THEN "list" ELSE "open", !.todo = todo, !.key = NoKey]
<1>1. aTick[c] \in Collection /\ aTick \in [Collector -> Collection]
  BY TickShape
<1>2. aTick[c].at = "announce" /\ k \in aTick[c].todo /\ k \in Key
  BY <1>1 DEF Announce, AlertsInv, KeyPending, Collection
<1>3. t \in Collection /\ t.at \in {"list", "open"} /\ t.todo = todo
  BY <1>1 DEF Collection
<1>4. aTick' = [aTick EXCEPT ![c] = t]
  BY <1>1 DEF Announce, After
<1> HIDE DEF t
<1>5. aTick'[c] = t /\ \A d \in Collector \ {c} : aTick'[d] = aTick[d]
  BY <1>1, <1>4
<1>6. /\ UNCHANGED <<host, resource, aChanges, alert, created, aLock, openings, aFaults, aLost, misread>>
      /\ announced' = [announced EXCEPT ![k] = @ + 1]
  BY DEF Announce, inventory
<1>7. announced' \in [Key -> Nat] /\ announced'[k] = announced[k] + 1
      /\ \A j \in Key \ {k} : announced'[j] = announced[j]
  BY <1>2, <1>6 DEF AlertsInv, AlertsTypeOK
<1>8. AlertsTypeOK'
  BY <1>1, <1>3, <1>4, <1>6, <1>7 DEF AlertsInv, AlertsTypeOK, Collection
<1>9. OneCollector' /\ CreatedCounts' /\ KeyPending'
  BY <1>3, <1>5, <1>6 DEF AlertsInv, OneCollector, CreatedCounts, KeyPending
<1>10. ASSUME NEW j \in Key
       PROVE  /\ openings'[j] <= announced'[j] + Cardinality(Announcers(j)') + (aFaults' - aLost' - misread'[j])
              /\ announced'[j] + Cardinality(Owing(j)') <= openings'[j] + aLost' + misread'[j]
  <2>1. ASSUME NEW d \in Collector, Owes(d, j)' PROVE Owes(d, j) /\ ~(d = c /\ j = k)
    <3>1. CASE d = c
      BY <1>2, <1>3, <1>5, <1>6, <2>1, <3>1 DEF Owes
    <3>2. CASE d # c
      BY <1>5, <1>6, <2>1, <3>2 DEF Owes
    <3> QED
      BY <3>1, <3>2
  <2>2. c \in Owing(k)
    BY <1>2 DEF Owing, Owes
  <2>3. Owing(j)' \subseteq Owing(j) /\ (j = k => Owing(j)' # Owing(j))
    BY <2>1, <2>2 DEF Owing
  <2>4. Announcers(j) \subseteq Announcers(j)' \cup {c} /\ (j # k => Announcers(j) \subseteq Announcers(j)')
    BY <1>2, <1>5 DEF Announcers
  <2>5. /\ Cardinality(Owing(j)') <= Cardinality(Owing(j))
        /\ j = k => Cardinality(Owing(j)') + 1 <= Cardinality(Owing(j))
    BY <2>3, CollectorsFinite, CardinalityShrinks
  <2>6. Cardinality(Announcers(j)) <= Cardinality(Announcers(j)') + 1
    BY <2>4, CollectorsFinite, CardinalityGrows
  <2>7. j # k => Cardinality(Announcers(j)) <= Cardinality(Announcers(j)')
    BY <2>4, CollectorsFinite, CardinalityShrinks
  <2> HIDE DEF k
  <2> QED
    BY <1>6, <1>7, <2>5, <2>6, <2>7, AlertCounters
<1>11. OpeningAnnounced' /\ AnnouncementsOwed'
  BY <1>10, CountersKept
<1> QED
  BY <1>8, <1>9, <1>11 DEF AlertsInv

\* A tick fails: the announcement it was about to make is lost with it.
LEMMA CollectorFailsInv ==
    ASSUME AlertsInv, NEW c \in Collector, CollectorFails(c)
    PROVE  AlertsInv'
<1>1. aTick \in [Collector -> Collection] /\ aLock \subseteq Collector
  BY TickShape
<1>2. NoCollection \in Collection /\ NoCollection.at = "idle"
  BY DEF NoCollection, Collection
<1>3. aTick'[c] = NoCollection /\ \A d \in Collector \ {c} : aTick'[d] = aTick[d]
  BY <1>1 DEF CollectorFails
<1>4. /\ UNCHANGED <<host, resource, aChanges, alert, created, openings, announced, aLost, misread>>
      /\ aFaults' = aFaults + 1 /\ aLock' = aLock \ {c} /\ aTick' = [aTick EXCEPT ![c] = NoCollection]
      /\ aFaults < MaxCollectorFaults
  BY DEF CollectorFails, inventory
<1>5. AlertsTypeOK'
  BY <1>1, <1>2, <1>4, AlertsAssumption DEF AlertsInv, AlertsTypeOK, Collection
<1>6. OneCollector' /\ CreatedCounts' /\ KeyPending'
  BY <1>2, <1>3, <1>4 DEF AlertsInv, OneCollector, CreatedCounts, KeyPending
<1>7. ASSUME NEW j \in Key
      PROVE  /\ openings'[j] <= announced'[j] + Cardinality(Announcers(j)') + (aFaults' - aLost' - misread'[j])
             /\ announced'[j] + Cardinality(Owing(j)') <= openings'[j] + aLost' + misread'[j]
  <2>1. ASSUME NEW d \in Collector, Owes(d, j)' PROVE Owes(d, j)
    <3>1. d # c
      BY <1>2, <1>3, <2>1 DEF Owes
    <3> QED
      BY <1>3, <1>4, <2>1, <3>1 DEF Owes
  <2>2. Owing(j)' \subseteq Owing(j) /\ Announcers(j) \subseteq Announcers(j)' \cup {c}
    BY <1>3, <2>1 DEF Owing, Announcers
  <2>3. Cardinality(Owing(j)') <= Cardinality(Owing(j))
    BY <2>2, CollectorsFinite, CardinalityShrinks
  <2>4. Cardinality(Announcers(j)) <= Cardinality(Announcers(j)') + 1
    BY <2>2, CollectorsFinite, CardinalityGrows
  <2> QED
    BY <1>4, <2>3, <2>4, AlertCounters
<1>8. OpeningAnnounced' /\ AnnouncementsOwed'
  BY <1>7, CountersKept
<1> QED
  BY <1>5, <1>6, <1>8 DEF AlertsInv
\* The alert objects after a save: their number, and the ranks.
LEMMA SaveRanks ==
    ASSUME AlertsInv, NEW k \in Key,
           alert' = [alert EXCEPT ![k] = Saved(k)],
           created' = IF alert[k].rank = 0 THEN created + 1 ELSE created
    PROVE  /\ alert' \in [Key -> [status : {"none", "open", "resolved"}, rank : 0..Cardinality(Key)]]
           /\ created' \in 0..Cardinality(Key) /\ CreatedCounts'
<1> DEFINE R == {j \in Key : alert[j].rank > 0}
           S == {j \in Key : alert'[j].rank > 0}
           n == IF alert[k].rank = 0 THEN created + 1 ELSE alert[k].rank
<1>1. /\ alert \in [Key -> [status : {"none", "open", "resolved"}, rank : 0..Cardinality(Key)]]
      /\ created \in 0..Cardinality(Key) /\ Cardinality(R) = created
  BY DEF AlertsInv, AlertsTypeOK, CreatedCounts
<1>2. Cardinality(Key) \in Nat /\ IsFiniteSet(Key)
  BY KeyFinite
<1>3. created \in Nat /\ alert[k].rank \in 0..Cardinality(Key) /\ alert[k].rank \in Nat
  BY <1>1, <1>2
<1>4. n \in Nat /\ n > 0
  BY <1>3
<1>5. Saved(k) = [status |-> "open", rank |-> n]
  BY DEF Saved
<1> HIDE DEF n
<1>6. alert'[k].rank = n /\ \A j \in Key \ {k} : alert'[j] = alert[j]
  BY <1>1, <1>5
<1>7. S = R \cup {k} /\ R \subseteq Key /\ S \subseteq Key
  BY <1>4, <1>6
<1>8. k \in R <=> alert[k].rank # 0
  BY <1>3
<1> HIDE DEF R, S
<1>9. IsFiniteSet(R) /\ IsFiniteSet(S) /\ Cardinality(S) <= Cardinality(Key)
  BY <1>2, <1>7, FS_Subset
<1>10. Cardinality(S) = IF k \in R THEN Cardinality(R) ELSE Cardinality(R) + 1
  BY <1>7, <1>9, FS_AddElement
<1>11. created' = Cardinality(S)
  BY <1>1, <1>8, <1>10
<1>12. created' \in 0..Cardinality(Key)
  BY <1>2, <1>3, <1>9, <1>11
<1>13. n \in 0..Cardinality(Key)
  BY <1>3, <1>12, <1>2 DEF n
<1>14. alert' \in [Key -> [status : {"none", "open", "resolved"}, rank : 0..Cardinality(Key)]]
  BY <1>1, <1>5, <1>13
<1> QED
  BY <1>11, <1>12, <1>14 DEF CreatedCounts, S

\* An alert is saved: opened, by one tick, or once more what another has opened.
LEMMA SaveInv ==
    ASSUME AlertsInv, NEW c \in Collector, Save(c)
    PROVE  AlertsInv'
<1> DEFINE k == aTick[c].key
           t == [aTick[c] EXCEPT !.at = "announce"]
<1>1. aTick[c] \in Collection /\ aTick \in [Collector -> Collection] /\ aLock \subseteq Collector
  BY TickShape
<1>2. aTick[c].at = "save" /\ k \in aTick[c].todo /\ k \in Key
  BY <1>1 DEF Save, AlertsInv, KeyPending, Collection
<1>3. t \in Collection /\ t.at = "announce" /\ t.todo = aTick[c].todo /\ t.key = k
  BY <1>1 DEF Collection
<1>4. aTick' = [aTick EXCEPT ![c] = t]
  BY <1>1 DEF Save, AfterSave
<1> HIDE DEF t
<1>5. aTick'[c] = t /\ \A d \in Collector \ {c} : aTick'[d] = aTick[d]
  BY <1>1, <1>4
<1>6. /\ UNCHANGED <<host, resource, aChanges, aLock, announced, aFaults, aLost, misread>>
      /\ alert' = [alert EXCEPT ![k] = Saved(k)]
      /\ created' = IF alert[k].rank = 0 THEN created + 1 ELSE created
      /\ openings' = [openings EXCEPT ![k] = IF alert[k].status = "open" THEN @ ELSE @ + 1]
  BY DEF Save, inventory
<1>7. /\ openings' \in [Key -> Nat] /\ \A j \in Key \ {k} : openings'[j] = openings[j]
      /\ openings'[k] = IF alert[k].status = "open" THEN openings[k] ELSE openings[k] + 1
  BY <1>2, <1>6 DEF AlertsInv, AlertsTypeOK
<1>8. /\ alert' \in [Key -> [status : {"none", "open", "resolved"}, rank : 0..Cardinality(Key)]]
      /\ created' \in 0..Cardinality(Key) /\ CreatedCounts'
  BY <1>2, <1>6, SaveRanks
<1>9. AlertsTypeOK'
  BY <1>1, <1>3, <1>4, <1>6, <1>7, <1>8 DEF AlertsInv, AlertsTypeOK, Collection
<1>10. OneCollector' /\ KeyPending'
  BY <1>2, <1>3, <1>5, <1>6 DEF AlertsInv, OneCollector, KeyPending
<1>11. \A j \in Key \ {k} : alert'[j] = alert[j]
  BY <1>6 DEF AlertsInv, AlertsTypeOK
<1>12. ASSUME NEW j \in Key
       PROVE  /\ openings'[j] <= announced'[j] + Cardinality(Announcers(j)') + (aFaults' - aLost' - misread'[j])
              /\ announced'[j] + Cardinality(Owing(j)') <= openings'[j] + aLost' + misread'[j]
  <2>1. CASE j # k
    <3>1. ASSUME NEW d \in Collector, Owes(d, j)' PROVE Owes(d, j)
      <4>1. CASE d = c
        BY <1>2, <1>3, <1>5, <1>6, <2>1, <3>1, <4>1 DEF Owes
      <4>2. CASE d # c
        BY <1>5, <1>6, <1>11, <2>1, <3>1, <4>2 DEF Owes
      <4> QED
        BY <4>1, <4>2
    <3>2. Owing(j)' \subseteq Owing(j) /\ Announcers(j) \subseteq Announcers(j)'
      BY <1>2, <1>5, <3>1 DEF Owing, Announcers
    <3>3. Cardinality(Owing(j)') <= Cardinality(Owing(j))
          /\ Cardinality(Announcers(j)) <= Cardinality(Announcers(j)')
      BY <3>2, CollectorsFinite, CardinalityShrinks
    <3> QED
      BY <1>6, <1>7, <2>1, <3>3, AlertCounters
  <2>2. CASE j = k
    <3>1. Owes(c, j) \/ (c \in aLock /\ alert[j].status # "open")
      BY <2>2, <1>2 DEF Owes
    <3>2. ASSUME NEW d \in Collector, d # c, Owes(d, j)'
          PROVE  Owes(d, j) \/ (d \in aLock /\ alert[j].status # "open")
      BY <2>2, <1>5, <1>6, <3>2 DEF Owes
    <3>3. alert[j].status = "open" => Owing(j)' \subseteq Owing(j)
      BY <3>1, <3>2 DEF Owing
    <3>4. PICK x : Owing(j)' \subseteq Owing(j) \cup {x}
      <4>1. \A d, e \in aLock : d = e
        BY DEF AlertsInv, OneCollector
      <4>2. \A d \in Owing(j)' : d \in Owing(j) \/ d \in aLock
        BY <3>1, <3>2 DEF Owing
      <4>3. CASE aLock = {}
        BY <4>2, <4>3
      <4>4. ASSUME NEW x \in aLock PROVE Owing(j)' \subseteq Owing(j) \cup {x}
        BY <4>1, <4>2
      <4> QED
        BY <4>3, <4>4
    <3>5. Announcers(j) \subseteq Announcers(j)' /\ Announcers(j) # Announcers(j)'
      BY <2>2, <1>2, <1>3, <1>5 DEF Announcers
    <3>6. Cardinality(Owing(j)') <= Cardinality(Owing(j)) + 1
      BY <3>4, CollectorsFinite, CardinalityGrows
    <3>7. alert[j].status = "open" => Cardinality(Owing(j)') <= Cardinality(Owing(j))
      BY <3>3, CollectorsFinite, CardinalityShrinks
    <3>8. Cardinality(Announcers(j)) + 1 <= Cardinality(Announcers(j)')
      BY <3>5, CollectorsFinite, CardinalityShrinks
    <3> HIDE DEF k
    <3> QED
      BY <1>6, <1>7, <2>2, <3>6, <3>7, <3>8, AlertCounters
  <2> QED
    BY <2>1, <2>2
<1>13. OpeningAnnounced' /\ AnnouncementsOwed'
  BY <1>12, CountersKept
<1> QED
  BY <1>8, <1>9, <1>10, <1>13 DEF AlertsInv

\* The lock is lost: from here on its tick may repeat one announcement of each key.
LEMMA CollectorLockLostInv ==
    ASSUME AlertsInv, NEW c \in Collector, CollectorLockLost(c)
    PROVE  AlertsInv'
<1>1. /\ UNCHANGED <<host, resource, aChanges, alert, created, aTick, openings, announced, misread>>
      /\ aFaults' = aFaults + 1 /\ aLost' = aLost + 1 /\ aLock' = {} /\ c \in aLock
      /\ aFaults < MaxCollectorFaults
  BY DEF CollectorLockLost, inventory
<1>2. AlertsTypeOK'
  BY <1>1, AlertsAssumption DEF AlertsInv, AlertsTypeOK
<1>3. OneCollector' /\ CreatedCounts' /\ KeyPending'
  BY <1>1 DEF AlertsInv, OneCollector, CreatedCounts, KeyPending
<1>4. ASSUME NEW j \in Key
      PROVE  /\ openings'[j] <= announced'[j] + Cardinality(Announcers(j)') + (aFaults' - aLost' - misread'[j])
             /\ announced'[j] + Cardinality(Owing(j)') <= openings'[j] + aLost' + misread'[j]
  <2>1. ASSUME NEW d \in Collector, d # c, Owes(d, j)' PROVE Owes(d, j)
    <3>1. d \notin aLock
      BY <1>1, <2>1 DEF AlertsInv, OneCollector
    <3> QED
      BY <1>1, <2>1, <3>1 DEF Owes
  <2>2. Owing(j)' \subseteq Owing(j) \cup {c} /\ Announcers(j)' = Announcers(j)
    BY <1>1, <2>1 DEF Owing, Announcers
  <2>3. Cardinality(Owing(j)') <= Cardinality(Owing(j)) + 1
    BY <2>2, CollectorsFinite, CardinalityGrows
  <2> QED
    BY <1>1, <2>2, <2>3, AlertCounters
<1>5. OpeningAnnounced' /\ AnnouncementsOwed'
  BY <1>4, CountersKept
<1> QED
  BY <1>2, <1>3, <1>5 DEF AlertsInv

\* A failed read of an open alert: its announcement is paid for by the failure.
LEMMA ReadFailsInv ==
    ASSUME AlertsInv, NEW c \in Collector, NEW k \in Key, ReadFails(c, k)
    PROVE  AlertsInv'
<1> DEFINE t == [aTick[c] EXCEPT !.at = "save", !.key = k]
<1>1. aTick \in [Collector -> Collection] /\ aTick[c] \in Collection
  BY TickShape
<1>2. aTick[c].at = "open" /\ k \in aTick[c].todo
  BY DEF ReadFails
<1>3. t \in Collection /\ t.at = "save" /\ t.key = k /\ t.todo = aTick[c].todo
  BY <1>1 DEF Collection
<1>4. aTick' = [aTick EXCEPT ![c] = t]
  BY <1>1 DEF ReadFails
<1> HIDE DEF t
<1>5. aTick'[c] = t /\ \A d \in Collector \ {c} : aTick'[d] = aTick[d]
  BY <1>1, <1>4
<1>6. /\ UNCHANGED <<host, resource, aChanges, alert, created, aLock, openings, announced, aLost>>
      /\ aFaults' = aFaults + 1 /\ aFaults < MaxCollectorFaults
      /\ misread' = [misread EXCEPT ![k] = @ + 1]
  BY DEF ReadFails, inventory
<1>7. misread' \in [Key -> Nat] /\ misread'[k] = misread[k] + 1
      /\ \A j \in Key \ {k} : misread'[j] = misread[j]
  BY <1>6 DEF AlertsInv, AlertsTypeOK
<1>8. AlertsTypeOK'
  BY <1>1, <1>3, <1>4, <1>6, <1>7, AlertsAssumption DEF AlertsInv, AlertsTypeOK, Collection
<1>9. OneCollector' /\ CreatedCounts' /\ KeyPending'
  BY <1>2, <1>3, <1>5, <1>6 DEF AlertsInv, OneCollector, CreatedCounts, KeyPending
<1>10. ASSUME NEW j \in Key
       PROVE  /\ openings'[j] <= announced'[j] + Cardinality(Announcers(j)') + (aFaults' - aLost' - misread'[j])
              /\ announced'[j] + Cardinality(Owing(j)') <= openings'[j] + aLost' + misread'[j]
  <2>1. ASSUME NEW d \in Collector, Owes(d, j)', d # c \/ j # k PROVE Owes(d, j)
    <3>1. CASE d = c
      BY <1>2, <1>3, <1>5, <1>6, <2>1, <3>1 DEF Owes
    <3>2. CASE d # c
      BY <1>5, <1>6, <2>1, <3>2 DEF Owes
    <3> QED
      BY <3>1, <3>2
  <2>2. Announcers(j)' = Announcers(j)
    BY <1>2, <1>3, <1>5 DEF Announcers
  <2>3. CASE j = k
    <3>1. Owing(j)' \subseteq Owing(j) \cup {c}
      BY <2>1 DEF Owing
    <3>2. Cardinality(Owing(j)') <= Cardinality(Owing(j)) + 1
      BY <3>1, CollectorsFinite, CardinalityGrows
    <3> QED
      BY <1>6, <1>7, <2>2, <2>3, <3>2, AlertCounters
  <2>4. CASE j # k
    <3>1. Owing(j)' \subseteq Owing(j)
      BY <2>1, <2>4 DEF Owing
    <3>2. Cardinality(Owing(j)') <= Cardinality(Owing(j))
      BY <3>1, CollectorsFinite, CardinalityShrinks
    <3> QED
      BY <1>6, <1>7, <2>2, <2>4, <3>2, AlertCounters
  <2> QED
    BY <2>3, <2>4
<1>11. OpeningAnnounced' /\ AnnouncementsOwed'
  BY <1>10, CountersKept
<1> QED
  BY <1>8, <1>9, <1>11 DEF AlertsInv

\* Changes of the inventory do not touch the alerts; nor does a stuttering step.
LEMMA InventoryInv ==
    ASSUME AlertsInv, InventoryChanges \/ UNCHANGED aVars
    PROVE  AlertsInv'
<1>1. UNCHANGED <<alert, created, aTick, aLock, openings, announced, aFaults, aLost, misread>>
  BY DEF InventoryChanges, aVars
<1>2. /\ host' \in [Host -> HostDoc] /\ resource' \in [Resource -> ResourceDoc]
      /\ aChanges' \in 0..MaxInventoryChanges
  <2>1. CASE InventoryChanges
    <3>1. /\ host \in [Host -> HostDoc] /\ resource \in [Resource -> ResourceDoc]
          /\ aChanges \in 0..MaxInventoryChanges /\ MaxInventoryChanges \in Nat
      BY AlertsAssumption DEF AlertsInv, AlertsTypeOK
    <3>2. aChanges < MaxInventoryChanges /\ aChanges' = aChanges + 1
      BY <2>1 DEF InventoryChanges
    <3>3. host' \in [Host -> HostDoc] /\ resource' \in [Resource -> ResourceDoc]
      BY <2>1, <3>1 DEF InventoryChanges
    <3> QED
      BY <3>1, <3>2, <3>3
  <2>2. CASE UNCHANGED aVars
    BY <2>2 DEF aVars, AlertsInv, AlertsTypeOK
  <2> QED
    BY <2>1, <2>2
<1>3. AlertsTypeOK'
  BY <1>1, <1>2 DEF AlertsInv, AlertsTypeOK
<1>4. OneCollector' /\ CreatedCounts' /\ KeyPending'
  BY <1>1 DEF AlertsInv, OneCollector, CreatedCounts, KeyPending
<1>5. \A j \in Key : Owing(j)' = Owing(j) /\ Announcers(j)' = Announcers(j)
  BY <1>1 DEF Owing, Owes, Announcers
<1>6. OpeningAnnounced' /\ AnnouncementsOwed'
  BY <1>1, <1>5, QuietStep
<1> QED
  BY <1>3, <1>4, <1>6 DEF AlertsInv

\* At the start there is no alert and no tick.
LEMMA AlertsInitInv == AlertsInit => AlertsInv
<1> SUFFICES ASSUME AlertsInit PROVE AlertsInv
  OBVIOUS
<1>1. Cardinality(Key) \in Nat
  BY KeyFinite
<1>2. NoCollection \in Collection /\ NoCollection.at = "idle"
  BY DEF NoCollection, Collection
<1>3. AlertsTypeOK
  BY <1>1, <1>2, AlertsAssumption DEF AlertsInit, AlertsTypeOK, Collection
<1>4. OneCollector /\ KeyPending
  BY <1>2 DEF AlertsInit, OneCollector, KeyPending
<1>5. CreatedCounts
  <2>1. {k \in Key : alert[k].rank > 0} = {}
    BY DEF AlertsInit
  <2> QED
    BY <2>1, FS_EmptySet DEF CreatedCounts, AlertsInit
<1>6. \A k \in Key : Announcing(k) = 0 /\ Cardinality(Owing(k)) = 0
  <2>1. \A k \in Key : Owing(k) = {} /\ Announcers(k) = {}
    BY <1>2 DEF AlertsInit, Owing, Owes, Announcers
  <2> QED
    BY <2>1, CollectorsFinite, FS_EmptySet
<1>7. OpeningAnnounced /\ AnnouncementsOwed
  BY <1>6 DEF AlertsInit, OpeningAnnounced, AnnouncementsOwed
<1> QED
  BY <1>3, <1>4, <1>5, <1>7 DEF AlertsInv

\* Announcements made and owed balance the openings, for any inventory and any
\* number of collectors, failures and lost locks.
THEOREM AlertsInvariant == AlertsSpec => []AlertsInv
<1>1. AlertsInv /\ [AlertsNext]_aVars => AlertsInv'
  <2> SUFFICES ASSUME AlertsInv, [AlertsNext]_aVars PROVE AlertsInv'
    OBVIOUS
  <2>1. CASE InventoryChanges \/ UNCHANGED aVars
    BY <2>1, InventoryInv
  <2>2. ASSUME NEW c \in Collector, CollectStart(c) \/ CollectorFails(c) \/ CollectorLockLost(c) PROVE AlertsInv'
    BY <2>2, CollectStartInv, CollectorFailsInv, CollectorLockLostInv
  <2>3. ASSUME NEW c \in Collector, CollectStep(c) PROVE AlertsInv'
    <3>1. CASE EvaluateAll(c) \/ Save(c) \/ Announce(c) \/ List(c)
      BY <3>1, EvaluateInv, SaveInv, AnnounceInv, ListInv
    <3>2. ASSUME NEW k \in Key, Skip(c, k) \/ ReadUnknown(c, k) \/ Resolve(c, k) PROVE AlertsInv'
      BY <3>2, OpenInv, ResolveInv
    <3> QED
      BY <2>3, <3>1, <3>2 DEF CollectStep
  <2>4. ASSUME NEW c \in Collector, NEW k \in Key, ReadFails(c, k) PROVE AlertsInv'
    BY <2>4, ReadFailsInv
  <2> QED
    BY <2>1, <2>2, <2>3, <2>4 DEF AlertsNext
<1> QED
  BY <1>1, AlertsInitInv, PTL DEF AlertsSpec

\* Every opening of an alert is announced, and once: what a failed tick dropped,
\* and what a tick without the lock or with a failed read repeated, are the only
\* exceptions.
THEOREM AlertsAreSafe == AlertsSpec => []AlertsSafe
<1>1. AlertsInv => AlertsSafe
  <2> SUFFICES ASSUME AlertsInv PROVE AnnouncedOnce
    BY DEF AlertsInv, AlertsSafe
  <2>1. \A k \in Key : announced[k] <= openings[k] + aLost + misread[k]
    BY AlertCounters
  <2> QED
    BY <2>1 DEF AnnouncedOnce
<1> QED
  BY <1>1, AlertsInvariant, PTL
-----------------------------------------------------------------------------
(***************************************************************************)
(* The agent monitor. The count of a resource's operations is taken before *)
(* the submission, so it can be stale only by what other ticks submit in   *)
(* between, and there is at most one other tick for each lost lock. A      *)
(* monitor that was switched off acts only in a tick that read it before,  *)
(* unless a tick has put its old copy back.                                *)
(***************************************************************************)

Automated == "AUTOMATED_POLICY_CONTROLLED"
MonitorList == UNION {[D -> MonitorObject] : D \in SUBSET Monitor}
MonitorTick == [at : {"idle", "monitor", "analyze", "count", "submit"}, began : Nat, list : MonitorList,
                sick : SUBSET Watched, todo : SUBSET Watched, rec : Rec \cup {0},
                p : Account]
First(list) == CHOOSE m \in DOMAIN list : TRUE

\* Types of what MonitorTypeOK leaves open; stamps number the edits.
MonitorShape ==
    /\ mTick \in [Worker -> MonitorTick]
    /\ chosen \in [Monitor -> [on : BOOLEAN, at : Nat]]
    /\ stamp = mEdits

\* The session lock has one holder; every other tick under way lost it.
OneLeader == \A v, w \in mLock : v = w
Zombies == {w \in Worker \ mLock : mTick[w].at # "idle"}
ZombiesPaid == Cardinality(Zombies) <= mLost

\* Ticks that counted the operations of r and are about to submit one.
Submitting(r) == {w \in Worker : mTick[w].at = "submit" /\ rec[mTick[w].rec].of = r}
SubmissionsOwed == \A r \in Watched : recent[r].monitor + Cardinality(Submitting(r)) <= MaxActions + mLost

\* What the place of tick t says about its monitor and its recommendation.
PlaceOK(t) ==
    /\ t.began <= stamp
    /\ t.at # "idle" => DOMAIN t.list # {}
    /\ t.at \in {"analyze", "count", "submit"} => t.list[First(t.list)].enabled
    /\ t.at \in {"count", "submit"} =>
         t.list[First(t.list)].mode = Automated /\ t.rec \in Rec /\ rec[t.rec].made
Places == \A w \in Worker : PlaceOK(mTick[w])

\* An object nobody overwrote acts only if an administrator chose so.
SettingsChosen == \A m \in Monitor \ overwritten :
    monitor[m].there /\ monitor[m].enabled /\ monitor[m].mode = Automated => chosen[m].on

\* So does a tick's copy, unless the choice is younger than the tick.
ListChosen == \A w \in Worker : \A m \in DOMAIN mTick[w].list :
    m \notin overwritten /\ chosen[m].at <= mTick[w].began
        /\ mTick[w].list[m].enabled /\ mTick[w].list[m].mode = Automated => chosen[m].on

\* The inductive invariant.
MonitorInv ==
    /\ MonitorTypeOK /\ MonitorShape
    /\ OneLeader /\ ZombiesPaid /\ SubmissionsOwed
    /\ Places /\ SettingsChosen /\ ListChosen /\ SwitchedOffStaysOff

\* The parts of a tick.
LEMMA MonitorTickParts ==
    ASSUME NEW t \in MonitorTick
    PROVE  /\ DOMAIN t.list \subseteq Monitor /\ \A m \in DOMAIN t.list : t.list[m] \in MonitorObject
           /\ t.at \in {"idle", "monitor", "analyze", "count", "submit"} /\ t.began \in Nat
           /\ t.sick \subseteq Watched /\ t.todo \subseteq Watched /\ t.rec \in Rec \cup {0} /\ t.p \in Account
           /\ t.list \in MonitorList
<1>1. /\ t.at \in {"idle", "monitor", "analyze", "count", "submit"} /\ t.began \in Nat
      /\ t.sick \subseteq Watched /\ t.todo \subseteq Watched /\ t.rec \in Rec \cup {0} /\ t.p \in Account
      /\ t.list \in MonitorList
  BY DEF MonitorTick
<1>2. PICK D \in SUBSET Monitor : t.list \in [D -> MonitorObject]
  BY <1>1 DEF MonitorList
<1>3. DOMAIN t.list = D /\ \A m \in D : t.list[m] \in MonitorObject
  BY <1>2
<1> QED
  BY <1>1, <1>3

LEMMA NoTickShape == NoMonitorTick \in MonitorTick /\ NoMonitorTick.at = "idle" /\ NoMonitorTick.began = 0
                     /\ DOMAIN NoMonitorTick.list = {}
<1> DEFINE e == [m \in {} |-> 0]
<1>1. e \in [{} -> MonitorObject]
  OBVIOUS
<1>2. e \in MonitorList
  BY <1>1 DEF MonitorList
<1> HIDE DEF e
<1>3. NoMonitorTick = [at |-> "idle", began |-> 0, list |-> e, sick |-> {}, todo |-> {}, rec |-> 0,
                       p |-> "able"]
  BY DEF NoMonitorTick, e
<1>4. NoMonitorTick \in MonitorTick /\ NoMonitorTick.at = "idle" /\ NoMonitorTick.began = 0 /\ NoMonitorTick.list = e
  BY <1>2, <1>3 DEF MonitorTick, Account
<1> QED
  BY <1>4 DEF e

\* The workers are finitely many, so are the sets the invariant counts.
LEMMA WorkersFinite ==
    ASSUME NEW r
    PROVE  /\ IsFiniteSet(Zombies) /\ IsFiniteSet(Zombies') /\ IsFiniteSet(Submitting(r)) /\ IsFiniteSet(Submitting(r)')
           /\ Cardinality(Zombies) \in Nat /\ Cardinality(Zombies') \in Nat
           /\ Cardinality(Submitting(r)) \in Nat /\ Cardinality(Submitting(r)') \in Nat
<1>1. Zombies \subseteq Worker /\ Submitting(r) \subseteq Worker
  BY DEF Zombies, Submitting
<1>2. Zombies' \subseteq Worker /\ Submitting(r)' \subseteq Worker
  BY DEF Zombies, Submitting
<1> QED
  BY <1>1, <1>2, MonitorAssumption, CardinalityShrinks
\* Recommendations as they are stored.
Recommendations == [Rec -> [of : Watched, tool : {"none", "restart"}, made : BOOLEAN]]

\* The tick of w goes on as t, or ends and gives up the lock.
Follows(w, t) ==
    /\ t \in MonitorTick /\ mTick' = [mTick EXCEPT ![w] = t]
    /\ \/ t = NoMonitorTick /\ mLock' = mLock \ {w}
       \/ /\ mLock' = mLock /\ t.at # "idle" /\ t.began = mTick[w].began
          /\ DOMAIN t.list # {} /\ DOMAIN t.list \subseteq DOMAIN mTick[w].list
          /\ \A m \in DOMAIN t.list : t.list[m] = mTick[w].list[m]
          /\ t.at \in {"analyze", "count", "submit"} => t.list[First(t.list)].enabled
          /\ t.at \in {"count", "submit"} =>
               t.list[First(t.list)].mode = Automated /\ t.rec \in Rec /\ rec'[t.rec].made

\* What every step of a tick leaves in order.
LEMMA FollowsKeeps ==
    ASSUME MonitorInv, NEW w \in Worker, mTick[w].at # "idle", NEW t, Follows(w, t),
           UNCHANGED <<chosen, stamp, mEdits, mLost>>,
           \A i \in Rec : rec[i].made => rec'[i] = rec[i],
           overwritten \subseteq overwritten'
    PROVE  /\ MonitorShape' /\ OneLeader' /\ ZombiesPaid' /\ Places' /\ ListChosen'
           /\ mLock' \subseteq Worker
           /\ mTick'[w] = t /\ \A v \in Worker \ {w} : mTick'[v] = mTick[v]
<1>1. mTick \in [Worker -> MonitorTick] /\ mLock \subseteq Worker /\ stamp \in Nat
  BY MonitorAssumption DEF MonitorInv, MonitorShape, MonitorTypeOK
<1>2. /\ t \in MonitorTick /\ mTick' = [mTick EXCEPT ![w] = t]
      /\ mTick'[w] = t /\ \A v \in Worker \ {w} : mTick'[v] = mTick[v]
      /\ mLock' \subseteq mLock /\ (t.at # "idle" => mLock' = mLock) /\ mLock \subseteq mLock' \cup {w}
  BY <1>1, NoTickShape DEF Follows
<1>3. MonitorShape'
  BY <1>1, <1>2 DEF MonitorInv, MonitorShape
<1>4. OneLeader' /\ mLock' \subseteq Worker
  BY <1>1, <1>2 DEF MonitorInv, OneLeader
<1>5. ZombiesPaid'
  <2>1. Zombies' \subseteq Zombies
    BY <1>2 DEF Zombies
  <2>2. Cardinality(Zombies') <= Cardinality(Zombies) /\ Cardinality(Zombies') \in Nat /\ Cardinality(Zombies) \in Nat
    BY <2>1, WorkersFinite, CardinalityShrinks
  <2>3. Cardinality(Zombies) <= mLost /\ mLost \in Nat
    BY MonitorAssumption DEF MonitorInv, ZombiesPaid, MonitorTypeOK
  <2> QED
    BY <2>2, <2>3 DEF ZombiesPaid
<1>6. PlaceOK(t)'
  <2>1. PlaceOK(mTick[w])
    BY DEF MonitorInv, Places
  <2>2. CASE t = NoMonitorTick
    BY <1>1, <2>2, NoTickShape DEF PlaceOK
  <2>3. CASE t # NoMonitorTick
    BY <2>1, <2>3 DEF PlaceOK, Follows
  <2> QED
    BY <2>2, <2>3
<1>7. ASSUME NEW v \in Worker \ {w} PROVE PlaceOK(mTick[v])'
  <2>1. PlaceOK(mTick[v]) /\ mTick'[v] = mTick[v]
    BY <1>2 DEF MonitorInv, Places
  <2> QED
    BY <2>1 DEF PlaceOK
<1>8. Places'
  <2>1. ASSUME NEW v \in Worker PROVE PlaceOK(mTick[v])'
    <3>1. CASE v = w
      BY <1>2, <1>6, <3>1 DEF PlaceOK
    <3> QED
      BY <1>7, <3>1
  <2> QED
    BY <2>1 DEF Places
<1>9. ListChosen'
  <2> SUFFICES ASSUME NEW v \in Worker, NEW m \in DOMAIN mTick'[v].list,
                      m \notin overwritten', chosen[m].at <= mTick'[v].began,
                      mTick'[v].list[m].enabled, mTick'[v].list[m].mode = Automated
               PROVE  chosen[m].on
    BY DEF ListChosen
  <2>1. m \in DOMAIN mTick[v].list /\ mTick'[v].list[m] = mTick[v].list[m] /\ mTick'[v].began = mTick[v].began
    <3>1. CASE v = w
      BY <1>2, <3>1, NoTickShape DEF Follows
    <3>2. CASE v # w
      BY <1>2, <3>2
    <3> QED
      BY <3>1, <3>2
  <2> QED
    BY <2>1 DEF MonitorInv, ListChosen
<1> QED
  BY <1>2, <1>3, <1>4, <1>5, <1>8, <1>9

\* Whatever does not start a submission, or does not record one, keeps the count.
LEMMA SubmissionsKept ==
    ASSUME MonitorInv, NEW r \in Watched, NEW n \in Nat, n <= recent[r].monitor,
           Submitting(r)' \subseteq Submitting(r), mLost' = mLost
    PROVE  n + Cardinality(Submitting(r)') <= MaxActions + mLost'
<1>1. /\ recent[r].monitor \in Nat /\ mLost \in Nat /\ MaxActions \in Nat
      /\ recent[r].monitor + Cardinality(Submitting(r)) <= MaxActions + mLost
  BY MonitorAssumption DEF MonitorInv, MonitorTypeOK, SubmissionsOwed
<1>2. /\ Cardinality(Submitting(r)') <= Cardinality(Submitting(r))
      /\ Cardinality(Submitting(r)') \in Nat /\ Cardinality(Submitting(r)) \in Nat
  BY WorkersFinite, CardinalityShrinks
<1> QED
  BY <1>1, <1>2

\* A tick that submits holds a recommendation that is made, so a later one does
\* not change what it is for.
LEMMA SubmittersStay ==
    ASSUME MonitorInv, NEW w \in Worker, NEW t, t.at # "submit",
           mTick'[w] = t, \A v \in Worker \ {w} : mTick'[v] = mTick[v],
           \A i \in Rec : rec[i].made => rec'[i] = rec[i], NEW r
    PROVE  Submitting(r)' \subseteq Submitting(r)
<1> SUFFICES ASSUME NEW v \in Worker, mTick'[v].at = "submit", rec'[mTick'[v].rec].of = r
             PROVE  mTick[v].at = "submit" /\ rec[mTick[v].rec].of = r
  BY DEF Submitting
<1>1. v # w /\ mTick'[v] = mTick[v]
  OBVIOUS
<1>2. mTick[v].rec \in Rec /\ rec[mTick[v].rec].made
  BY <1>1 DEF MonitorInv, Places, PlaceOK
<1> QED
  BY <1>1, <1>2

\* The types after a step, with those of the ticks from MonitorShape.
LEMMA MonitorTypes ==
    ASSUME MonitorShape',
           monitor' \in [Monitor -> MonitorObject], unhealthy' \subseteq Watched, rec' \in Recommendations,
           op' \subseteq {"monitor", "recommendation"} \X Rec,
           recent' \in [Watched -> [monitor : Nat, person : Nat]],
           mLock' \subseteq Worker, betrayed' \subseteq Monitor, overwritten' \subseteq Monitor,
           mEdits' \in 0..MaxMonitorEdits, mChanges' \in 0..MaxHealthChanges,
           mFaults' \in 0..MaxMonitorFaults, mLost' \in 0..mFaults'
    PROVE  MonitorTypeOK'
<1>1. \A w \in Worker : mTick'[w] \in MonitorTick
  BY DEF MonitorShape
<1>2. \A w \in Worker : LET t == mTick'[w] IN
         /\ t.at \in {"idle", "monitor", "analyze", "count", "submit"}
         /\ DOMAIN t.list \subseteq Monitor /\ \A m \in DOMAIN t.list : t.list[m] \in MonitorObject
         /\ t.sick \subseteq Watched /\ t.todo \subseteq Watched
         /\ t.rec \in Rec \cup {0} /\ t.p \in Account
  BY <1>1, MonitorTickParts
<1> QED
  BY <1>2 DEF MonitorTypeOK, Recommendations

\* The types in the present state.
LEMMA MonitorFacts ==
    ASSUME MonitorInv
    PROVE  /\ MonitorShape
           /\ monitor \in [Monitor -> MonitorObject] /\ unhealthy \subseteq Watched /\ rec \in Recommendations
           /\ op \subseteq {"monitor", "recommendation"} \X Rec
           /\ recent \in [Watched -> [monitor : Nat, person : Nat]]
           /\ mLock \subseteq Worker /\ betrayed \subseteq Monitor /\ overwritten \subseteq Monitor
           /\ mEdits \in 0..MaxMonitorEdits /\ mChanges \in 0..MaxHealthChanges
           /\ mFaults \in 0..MaxMonitorFaults /\ mLost \in 0..mFaults
  BY DEF MonitorInv, MonitorTypeOK, Recommendations
\* A step of a tick that submits nothing.
LEMMA TickGoesOn ==
    ASSUME MonitorInv, NEW w \in Worker, mTick[w].at # "idle", NEW t, Follows(w, t), t.at # "submit",
           UNCHANGED <<chosen, stamp, mEdits, mChanges, mLost, unhealthy, op, recent, betrayed>>,
           rec' \in Recommendations, \A i \in Rec : rec[i].made => rec'[i] = rec[i],
           monitor' \in [Monitor -> MonitorObject], overwritten' \subseteq Monitor,
           overwritten \subseteq overwritten', SettingsChosen',
           mFaults' \in mFaults..MaxMonitorFaults
    PROVE  MonitorInv'
<1>1. /\ MonitorShape' /\ OneLeader' /\ ZombiesPaid' /\ Places' /\ ListChosen'
      /\ mLock' \subseteq Worker
      /\ mTick'[w] = t /\ \A v \in Worker \ {w} : mTick'[v] = mTick[v]
  BY FollowsKeeps
<1>2. MonitorTypeOK'
  <2>1. mFaults' \in 0..MaxMonitorFaults /\ mLost' \in 0..mFaults'
    BY MonitorFacts, MonitorAssumption
  <2> QED
    BY <1>1, <2>1, MonitorFacts, MonitorTypes
<1>3. SubmissionsOwed'
  <2> SUFFICES ASSUME NEW r \in Watched
               PROVE  recent'[r].monitor + Cardinality(Submitting(r)') <= MaxActions + mLost'
    BY DEF SubmissionsOwed
  <2>1. Submitting(r)' \subseteq Submitting(r)
    BY <1>1, SubmittersStay
  <2>2. recent'[r] = recent[r] /\ recent[r].monitor \in Nat
    BY MonitorFacts
  <2> QED
    BY <2>1, <2>2, SubmissionsKept
<1>4. SwitchedOffStaysOff'
  BY DEF MonitorInv, SwitchedOffStaysOff
<1> QED
  BY <1>1, <1>2, <1>3, <1>4 DEF MonitorInv

\* The rest of a list is a list.
LEMMA RestOfList ==
    ASSUME NEW l \in MonitorList, NEW m
    PROVE  /\ Without(l, m) \in MonitorList /\ DOMAIN Without(l, m) = DOMAIN l \ {m}
           /\ \A n \in DOMAIN Without(l, m) : Without(l, m)[n] = l[n]
<1>1. PICK D \in SUBSET Monitor : l \in [D -> MonitorObject]
  BY DEF MonitorList
<1>2. Without(l, m) \in [D \ {m} -> MonitorObject] /\ D \ {m} \in SUBSET Monitor
  BY <1>1 DEF Without
<1>3. Without(l, m) \in MonitorList
  BY <1>2 DEF MonitorList
<1> QED
  BY <1>1, <1>3 DEF Without

\* The next monitor of the list, or the end.
LEMMA NextMonitorFollows ==
    ASSUME MonitorInv, NEW w \in Worker, mTick[w].at # "idle", NextMonitor(w)
    PROVE  \E t : Follows(w, t) /\ t.at \in {"idle", "monitor"}
<1> DEFINE x == mTick[w]
           rest == Without(x.list, CurrentMonitor(w))
           t == [x EXCEPT !.at = "monitor", !.list = rest, !.todo = {}, !.rec = 0]
<1>1. mTick \in [Worker -> MonitorTick] /\ x \in MonitorTick
  BY MonitorFacts DEF MonitorShape
<1>2. /\ rest \in MonitorList /\ DOMAIN rest \subseteq DOMAIN x.list
      /\ \A n \in DOMAIN rest : rest[n] = x.list[n]
  <2>1. x.list \in MonitorList
    BY <1>1, MonitorTickParts
  <2>2. DOMAIN rest = DOMAIN x.list \ {CurrentMonitor(w)}
    BY <2>1, RestOfList
  <2> QED
    BY <2>1, <2>2, RestOfList
<1>3. CASE DOMAIN rest = {}
  BY <1>3, NoTickShape DEF NextMonitor, Follows
<1>4. CASE DOMAIN rest # {}
  <2>1. mTick' = [mTick EXCEPT ![w] = t] /\ mLock' = mLock
    BY <1>1, <1>4 DEF NextMonitor
  <2> HIDE DEF rest
  <2>2. t \in MonitorTick /\ t.at = "monitor" /\ t.list = rest /\ t.began = x.began
    BY <1>1, <1>2 DEF MonitorTick
  <2> HIDE DEF t
  <2>3. Follows(w, t)
    BY <1>2, <1>4, <2>1, <2>2 DEF Follows
  <2> QED
    BY <2>2, <2>3
<1> QED
  BY <1>3, <1>4

\* The next resource of the monitor, or the next monitor.
LEMMA NextResourceFollows ==
    ASSUME MonitorInv, NEW w \in Worker, mTick[w].at \in {"analyze", "count", "submit"},
           NEW r, NextResource(w, r)
    PROVE  \E t : Follows(w, t) /\ t.at \in {"idle", "monitor", "analyze"}
<1> DEFINE x == mTick[w]
           t == [x EXCEPT !.at = "analyze", !.todo = @ \ {r}, !.rec = 0]
<1>1. mTick \in [Worker -> MonitorTick] /\ x \in MonitorTick
  BY MonitorFacts DEF MonitorShape
<1>2. x.list[First(x.list)].enabled /\ DOMAIN x.list # {}
  BY DEF MonitorInv, Places, PlaceOK
<1>3. CASE x.todo = {r}
  BY <1>3, NextMonitorFollows DEF NextResource
<1>4. CASE x.todo # {r}
  <2>1. mTick' = [mTick EXCEPT ![w] = t] /\ mLock' = mLock
    BY <1>1, <1>4 DEF NextResource
  <2>2. t \in MonitorTick /\ t.at = "analyze" /\ t.list = x.list /\ t.began = x.began
    BY <1>1 DEF MonitorTick
  <2> HIDE DEF t
  <2>3. Follows(w, t)
    BY <1>2, <2>1, <2>2 DEF Follows
  <2> QED
    BY <2>2, <2>3
<1> QED
  BY <1>3, <1>4
\* A monitor that is not due or not on.
LEMMA PassOverInv ==
    ASSUME MonitorInv, NEW w \in Worker, PassOver(w)
    PROVE  MonitorInv'
<1>1. mTick[w].at # "idle"
  BY DEF PassOver
<1>2. PICK t : Follows(w, t) /\ t.at \in {"idle", "monitor"}
  BY <1>1, NextMonitorFollows DEF PassOver
<1>3. UNCHANGED <<monitor, unhealthy, rec, op, recent, chosen, stamp, betrayed, overwritten, mEdits, mChanges, mFaults, mLost>>
  BY DEF PassOver, history, bounds
<1>4. SettingsChosen' /\ mFaults' \in mFaults..MaxMonitorFaults
  BY <1>3, MonitorFacts, MonitorAssumption DEF MonitorInv, SettingsChosen
<1> QED
  BY <1>1, <1>2, <1>3, <1>4, MonitorFacts, TickGoesOn

\* last_run is saved: the object becomes the tick's copy again. Whether the account
\* is then usable decides where the tick goes.
LEMMA TouchInv ==
    ASSUME MonitorInv, account \in Account, NEW w \in Worker, Touch(w) \/ AccountUnread(w)
    PROVE  MonitorInv'
<1> DEFINE x == mTick[w]
           m == CurrentMonitor(w)
           u == [x EXCEPT !.at = "analyze", !.todo = x.sick, !.p = account]
<1>1. /\ x.at = "monitor" /\ Active(x.list[m]) /\ monitor' = [monitor EXCEPT ![m] = Touched(x.list[m])]
      /\ overwritten' = overwritten \cup {n \in {m} : Setting(monitor[n]) # Setting(x.list[n])}
      /\ UNCHANGED <<unhealthy, rec, op, recent, chosen, stamp, betrayed, mEdits, mChanges, mLost>>
      /\ mFaults' = mFaults \/ (mFaults < MaxMonitorFaults /\ mFaults' = mFaults + 1)
  BY DEF Touch, AccountUnread, SaveLastRun
<1>2. mTick \in [Worker -> MonitorTick] /\ x \in MonitorTick /\ DOMAIN x.list # {}
  BY <1>1, MonitorFacts DEF MonitorShape, MonitorInv, Places, PlaceOK
<1>3. m = First(x.list) /\ m \in DOMAIN x.list
  BY <1>2 DEF First, CurrentMonitor
<1>4. m \in Monitor /\ x.list[m] \in MonitorObject
  BY <1>2, <1>3, MonitorTickParts
<1>5. \E t : Follows(w, t) /\ t.at # "submit"
  <2>1. CASE NextMonitor(w)
    <3>1. \E t : Follows(w, t) /\ t.at \in {"idle", "monitor"}
      BY <1>1, <2>1, NextMonitorFollows
    <3> QED
      BY <3>1
  <2>2. CASE ~NextMonitor(w)
    <3>1. mTick' = [mTick EXCEPT ![w] = u] /\ mLock' = mLock
      BY <1>2, <2>2 DEF Touch, AccountUnread
    <3>2. u \in MonitorTick /\ u.at = "analyze" /\ u.list = x.list /\ u.began = x.began
      BY <1>2 DEF MonitorTick
    <3>3. u.list[First(u.list)].enabled
      BY <1>1, <1>3, <3>2 DEF Active
    <3> HIDE DEF u
    <3>4. Follows(w, u)
      BY <1>2, <3>1, <3>2, <3>3 DEF Follows
    <3> QED
      BY <3>2, <3>4
  <2> QED
    BY <2>1, <2>2
<1>6. Touched(x.list[m]) \in MonitorObject /\ Setting(Touched(x.list[m])) = Setting(x.list[m])
  BY <1>4 DEF Touched, Setting, MonitorObject
<1>7. monitor' \in [Monitor -> MonitorObject] /\ overwritten' \subseteq Monitor
      /\ monitor'[m] = Touched(x.list[m]) /\ \A n \in Monitor \ {m} : monitor'[n] = monitor[n]
  BY <1>1, <1>4, <1>6, MonitorFacts
<1>8. SettingsChosen'
  <2> SUFFICES ASSUME NEW n \in Monitor \ overwritten',
                      monitor'[n].there, monitor'[n].enabled, monitor'[n].mode = Automated
               PROVE  chosen'[n].on
    BY DEF SettingsChosen
  <2>1. Setting(monitor'[n]) = Setting(monitor[n])
    BY <1>1, <1>6, <1>7
  <2>2. monitor[n].there /\ monitor[n].enabled /\ monitor[n].mode = Automated
    BY <2>1 DEF Setting
  <2> QED
    BY <1>1, <2>2 DEF MonitorInv, SettingsChosen
<1>9. mFaults' \in mFaults..MaxMonitorFaults /\ overwritten \subseteq overwritten' /\ x.at # "idle"
  BY <1>1, MonitorFacts, MonitorAssumption
<1> QED
  BY <1>1, <1>5, <1>7, <1>8, <1>9, MonitorFacts, TickGoesOn

\* A recommendation is made; the automated mode goes on to count. One beyond the
\* bound leads to the next resource.
LEMMA AnalyzeInv ==
    ASSUME MonitorInv, NEW w \in Worker, NEW r \in Watched, Analyze(w, r)
    PROVE  MonitorInv'
<1> DEFINE x == mTick[w]
           Stored(i, tool) ==
             /\ Made = 1..(i - 1)
             /\ rec' = [rec EXCEPT ![i] = [of |-> r, tool |-> tool, made |-> TRUE]]
             /\ IF tool = "restart" /\ x.list[CurrentMonitor(w)].mode = Automated
                THEN mTick' = [mTick EXCEPT ![w].at = "count", ![w].rec = i] /\ mLock' = mLock
                ELSE NextResource(w, r)
<1>1. /\ x.at = "analyze"
      /\ UNCHANGED <<monitor, unhealthy, op, recent, chosen, stamp, betrayed, overwritten, mEdits, mChanges, mFaults, mLost>>
  BY DEF Analyze, InTurn, history, bounds
<1>2. \/ \E i \in Rec, tool \in Suggestions(r) : Stored(i, tool)
      \/ UNCHANGED rec /\ NextResource(w, r)
  BY DEF Analyze, Automated
<1>3. SettingsChosen' /\ mFaults' \in mFaults..MaxMonitorFaults
  BY <1>1, MonitorFacts, MonitorAssumption DEF MonitorInv, SettingsChosen
<1>4. ASSUME NextResource(w, r) PROVE \E t : Follows(w, t) /\ t.at # "submit"
  <2>1. \E t : Follows(w, t) /\ t.at \in {"idle", "monitor", "analyze"}
    BY <1>1, <1>4, NextResourceFollows
  <2> QED
    BY <2>1
<1>5. ASSUME NEW i \in Rec, NEW tool \in Suggestions(r), Stored(i, tool)
      PROVE  MonitorInv'
  <2>1. i \notin Made /\ ~rec[i].made
    BY <1>5, MonitorAssumption DEF Rec, Made
  <2>2. /\ rec' \in Recommendations /\ rec'[i].made
        /\ \A j \in Rec : rec[j].made => rec'[j] = rec[j]
    BY <1>5, <2>1, MonitorFacts DEF Recommendations, Suggestions
  <2>3. /\ mTick \in [Worker -> MonitorTick] /\ x \in MonitorTick /\ DOMAIN x.list # {}
        /\ x.list[First(x.list)].enabled
    BY <1>1, MonitorFacts DEF MonitorShape, MonitorInv, Places, PlaceOK
  <2>4. \E t : Follows(w, t) /\ t.at # "submit"
    <3> DEFINE u == [x EXCEPT !.at = "count", !.rec = i]
    <3>1. CASE tool = "restart" /\ x.list[CurrentMonitor(w)].mode = Automated
      <4>1. mTick' = [mTick EXCEPT ![w] = u] /\ mLock' = mLock
        BY <1>5, <2>3, <3>1
      <4>2. u \in MonitorTick /\ u.at = "count" /\ u.list = x.list /\ u.began = x.began /\ u.rec = i
        BY <2>3 DEF MonitorTick
      <4>3. u.list[First(u.list)].enabled /\ u.list[First(u.list)].mode = Automated
        BY <2>3, <3>1, <4>2 DEF First, CurrentMonitor
      <4> HIDE DEF u
      <4>4. Follows(w, u)
        BY <2>2, <2>3, <4>1, <4>2, <4>3 DEF Follows
      <4> QED
        BY <4>2, <4>4
    <3>2. CASE ~(tool = "restart" /\ x.list[CurrentMonitor(w)].mode = Automated)
      BY <1>4, <1>5, <3>2
    <3> QED
      BY <3>1, <3>2
  <2> QED
    BY <1>1, <1>3, <2>2, <2>4, MonitorFacts, TickGoesOn
<1>6. CASE UNCHANGED rec /\ NextResource(w, r)
  BY <1>1, <1>3, <1>4, <1>6, MonitorFacts, TickGoesOn
<1> QED
  BY <1>2, <1>5, <1>6

\* An analysis fails or is refused.
LEMMA AnalyzeFailsInv ==
    ASSUME MonitorInv, NEW w \in Worker, NEW r \in Watched, AnalyzeFails(w, r) \/ AnalyzeRefused(w, r)
    PROVE  MonitorInv'
<1>1. /\ mTick[w].at = "analyze"
      /\ UNCHANGED <<monitor, unhealthy, rec, op, recent, chosen, stamp, betrayed, overwritten, mEdits, mChanges, mLost>>
  BY DEF AnalyzeFails, AnalyzeRefused, InTurn, history, bounds
<1>2. PICK t : Follows(w, t) /\ t.at \in {"idle", "monitor", "analyze"}
  BY <1>1, NextResourceFollows DEF AnalyzeFails, AnalyzeRefused
<1>3. mFaults' = mFaults \/ (mFaults < MaxMonitorFaults /\ mFaults' = mFaults + 1)
  BY DEF AnalyzeFails, AnalyzeRefused, bounds
<1>4. SettingsChosen' /\ mFaults' \in mFaults..MaxMonitorFaults
  BY <1>1, <1>3, MonitorFacts, MonitorAssumption DEF MonitorInv, SettingsChosen
<1> QED
  BY <1>1, <1>2, <1>4, MonitorFacts, TickGoesOn

\* A tick fails as a whole.
LEMMA MonitorFailsInv ==
    ASSUME MonitorInv, NEW w \in Worker, MonitorFails(w)
    PROVE  MonitorInv'
<1>1. /\ mTick[w].at # "idle" /\ mFaults < MaxMonitorFaults /\ mFaults' = mFaults + 1
      /\ UNCHANGED <<monitor, unhealthy, rec, op, recent, chosen, stamp, betrayed, overwritten, mEdits, mChanges, mLost>>
  BY DEF MonitorFails, history
<1>2. Follows(w, NoMonitorTick) /\ NoMonitorTick.at # "submit"
  BY NoTickShape DEF MonitorFails, Follows
<1>3. SettingsChosen' /\ mFaults' \in mFaults..MaxMonitorFaults
  BY <1>1, MonitorFacts, MonitorAssumption DEF MonitorInv, SettingsChosen
<1> QED
  BY <1>1, <1>2, <1>3, MonitorFacts, TickGoesOn
\* Everyone who submits has the lock or is one of those who lost it.
LEMMA SubmittersFew ==
    ASSUME MonitorInv, OneLeader', ZombiesPaid', NEW r, mLost' \in Nat
    PROVE  Cardinality(Submitting(r)') <= mLost' + 1
<1>1. \A v \in Submitting(r)' : v \in Zombies' \/ v \in mLock'
  BY DEF Submitting, Zombies
<1>2. PICK x : Submitting(r)' \subseteq Zombies' \cup {x}
  <2>1. CASE mLock' = {}
    BY <1>1, <2>1
  <2>2. ASSUME NEW x \in mLock' PROVE Submitting(r)' \subseteq Zombies' \cup {x}
    BY <1>1 DEF OneLeader
  <2> QED
    BY <2>1, <2>2
<1>3. Cardinality(Submitting(r)') <= Cardinality(Zombies') + 1
  BY <1>2, WorkersFinite, CardinalityGrows
<1> QED
  BY <1>3, WorkersFinite DEF ZombiesPaid

\* The operations of the last hour are counted.
LEMMA CountInv ==
    ASSUME MonitorInv, NEW w \in Worker, Count(w)
    PROVE  MonitorInv'
<1> DEFINE x == mTick[w]
           u == [x EXCEPT !.at = "submit"]
<1>1. /\ x.at = "count"
      /\ UNCHANGED <<monitor, unhealthy, rec, op, recent, chosen, stamp, betrayed, overwritten, mEdits, mChanges, mFaults, mLost>>
  BY DEF Count, history, bounds
<1>2. /\ mTick \in [Worker -> MonitorTick] /\ x \in MonitorTick /\ DOMAIN x.list # {}
      /\ x.list[First(x.list)].enabled /\ x.list[First(x.list)].mode = Automated
      /\ x.rec \in Rec /\ rec[x.rec].made
  BY <1>1, MonitorFacts DEF MonitorShape, MonitorInv, Places, PlaceOK
<1>3. PICK o : o = rec[x.rec].of
  OBVIOUS
<1>4. o \in Watched
  BY <1>2, <1>3, MonitorFacts DEF Recommendations
<1>5. SettingsChosen' /\ mFaults' \in mFaults..MaxMonitorFaults /\ rec' \in Recommendations
      /\ monitor' \in [Monitor -> MonitorObject] /\ overwritten' \subseteq Monitor
  BY <1>1, MonitorFacts, MonitorAssumption DEF MonitorInv, SettingsChosen
<1>6. CASE ~Allowed(o)
  <2>1. NextResource(w, o)
    BY <1>3, <1>6 DEF Count
  <2>2. PICK t : Follows(w, t) /\ t.at \in {"idle", "monitor", "analyze"}
    BY <1>1, <2>1, NextResourceFollows
  <2> QED
    BY <1>1, <1>5, <2>2, TickGoesOn
<1>7. CASE Allowed(o)
  <2>1. mTick' = [mTick EXCEPT ![w] = u] /\ mLock' = mLock
    BY <1>2, <1>3, <1>7 DEF Count
  <2>2. u \in MonitorTick /\ u.at = "submit" /\ u.list = x.list /\ u.began = x.began /\ u.rec = x.rec
    BY <1>2 DEF MonitorTick
  <2> HIDE DEF u
  <2>3. Follows(w, u)
    BY <1>1, <1>2, <2>1, <2>2 DEF Follows
  <2>4. /\ MonitorShape' /\ OneLeader' /\ ZombiesPaid' /\ Places' /\ ListChosen' /\ mLock' \subseteq Worker
        /\ mTick'[w] = u /\ \A v \in Worker \ {w} : mTick'[v] = mTick[v]
    BY <1>1, <2>3, FollowsKeeps
  <2>5. MonitorTypeOK'
    BY <1>1, <2>4, MonitorFacts, MonitorTypes
  <2>6. ASSUME NEW r \in Watched
        PROVE  recent'[r].monitor + Cardinality(Submitting(r)') <= MaxActions + mLost'
    <3>1. /\ recent'[r] = recent[r] /\ recent[r].monitor \in Nat /\ recent[r].person \in Nat
          /\ mLost' = mLost /\ mLost \in Nat /\ MaxActions \in Nat
      BY <1>1, MonitorFacts, MonitorAssumption
    <3>2. CASE r = o
      <4>1. recent[r].monitor + 1 <= MaxActions
        BY <1>7, <3>1, <3>2 DEF Allowed
      <4>2. Cardinality(Submitting(r)') <= mLost' + 1 /\ Cardinality(Submitting(r)') \in Nat
        BY <2>4, <3>1, SubmittersFew, WorkersFinite
      <4> QED
        BY <3>1, <4>1, <4>2
    <3>3. CASE r # o
      <4>1. Submitting(r)' \subseteq Submitting(r)
        BY <1>1, <1>3, <2>2, <2>4, <3>3 DEF Submitting
      <4> QED
        BY <3>1, <4>1, SubmissionsKept
    <3> QED
      BY <3>2, <3>3
  <2>7. SubmissionsOwed' /\ SwitchedOffStaysOff'
    BY <1>1, <2>6 DEF SubmissionsOwed, MonitorInv, SwitchedOffStaysOff
  <2> QED
    BY <1>5, <2>4, <2>5, <2>7 DEF MonitorInv
<1> QED
  BY <1>6, <1>7

\* The operation is submitted, or denied.
LEMMA SubmitActionInv ==
    ASSUME MonitorInv, NEW w \in Worker, SubmitAction(w)
    PROVE  MonitorInv'
<1> DEFINE x == mTick[w]
           m == CurrentMonitor(w)
<1>1. /\ x.at = "submit"
      /\ UNCHANGED <<monitor, unhealthy, rec, chosen, stamp, overwritten, mEdits, mChanges, mFaults, mLost>>
  BY DEF SubmitAction, bounds
<1>2. /\ x \in MonitorTick /\ DOMAIN x.list # {}
      /\ x.list[First(x.list)].enabled /\ x.list[First(x.list)].mode = Automated
      /\ x.rec \in Rec
  BY <1>1, MonitorFacts DEF MonitorShape, MonitorInv, Places, PlaceOK
<1>3. PICK o : o = rec[x.rec].of
  OBVIOUS
<1>4. o \in Watched
  BY <1>2, <1>3, MonitorFacts DEF Recommendations
<1>5. /\ op' \in {op, op \cup {<<"monitor", x.rec>>}}
      /\ recent' \in {recent, [recent EXCEPT ![o].monitor = @ + 1]}
      /\ betrayed' \in {betrayed, betrayed \cup {n \in {m} : ~chosen[n].on /\ chosen[n].at \in 1..x.began}}
      /\ NextResource(w, o)
  BY <1>3 DEF SubmitAction
<1>6. PICK t : Follows(w, t) /\ t.at \in {"idle", "monitor", "analyze"}
  BY <1>1, <1>5, NextResourceFollows
<1>7. /\ MonitorShape' /\ OneLeader' /\ ZombiesPaid' /\ Places' /\ ListChosen' /\ mLock' \subseteq Worker
      /\ mTick'[w] = t /\ \A v \in Worker \ {w} : mTick'[v] = mTick[v]
  BY <1>1, <1>6, FollowsKeeps
<1>8. m \in DOMAIN x.list /\ m = First(x.list) /\ m \in Monitor
  BY <1>2, MonitorTickParts DEF First, CurrentMonitor
<1>9. /\ recent' \in [Watched -> [monitor : Nat, person : Nat]]
      /\ \A r \in Watched \ {o} : recent'[r] = recent[r]
      /\ recent'[o].monitor \in Nat /\ recent'[o].monitor <= recent[o].monitor + 1
  <2>1. recent \in [Watched -> [monitor : Nat, person : Nat]]
    BY MonitorFacts
  <2>2. CASE recent' = recent
    BY <1>4, <2>1, <2>2
  <2>3. CASE recent' = [recent EXCEPT ![o].monitor = @ + 1]
    BY <1>4, <2>1, <2>3
  <2> QED
    BY <1>5, <2>2, <2>3
<1>10. MonitorTypeOK'
  <2>1. op' \subseteq {"monitor", "recommendation"} \X Rec /\ betrayed' \subseteq Monitor
    BY <1>2, <1>5, <1>8, MonitorFacts
  <2> QED
    BY <1>1, <1>7, <1>9, <2>1, MonitorFacts, MonitorTypes
<1>11. ASSUME NEW r \in Watched
       PROVE  recent'[r].monitor + Cardinality(Submitting(r)') <= MaxActions + mLost'
  <2>1. Submitting(r)' \subseteq Submitting(r)
    BY <1>1, <1>6, <1>7, SubmittersStay
  <2>2. CASE r # o
    <3>1. recent'[r].monitor = recent[r].monitor /\ recent[r].monitor \in Nat
      BY <1>9, <2>2, MonitorFacts
    <3> QED
      BY <1>1, <2>1, <3>1, SubmissionsKept
  <2>3. CASE r = o
    <3>1. w \in Submitting(r)
      BY <1>1, <1>3, <2>3 DEF Submitting
    <3>2. w \notin Submitting(r)'
      BY <1>6, <1>7 DEF Submitting
    <3>3. Cardinality(Submitting(r)') + 1 <= Cardinality(Submitting(r))
      BY <2>1, <3>1, <3>2, WorkersFinite, CardinalityShrinks
    <3>4. /\ recent[r].monitor + Cardinality(Submitting(r)) <= MaxActions + mLost
          /\ recent[r].monitor \in Nat /\ mLost \in Nat /\ MaxActions \in Nat
      BY MonitorFacts, MonitorAssumption DEF MonitorInv, SubmissionsOwed
    <3>5. recent'[r].monitor \in Nat /\ recent'[r].monitor <= recent[r].monitor + 1 /\ mLost' = mLost
      BY <1>1, <1>9, <2>3
    <3>6. Cardinality(Submitting(r)') \in Nat /\ Cardinality(Submitting(r)) \in Nat
      BY WorkersFinite
    <3> QED
      BY <3>3, <3>4, <3>5, <3>6
  <2> QED
    BY <2>2, <2>3
<1>12. SwitchedOffStaysOff'
  <2>1. ~chosen[m].on /\ chosen[m].at \in 1..x.began => m \in overwritten
    <3>1. x.began \in Nat /\ chosen[m].at \in Nat
      BY <1>2, <1>8, MonitorFacts, MonitorTickParts DEF MonitorShape
    <3>2. chosen[m].at \in 1..x.began => chosen[m].at <= x.began
      BY <3>1
    <3>3. m \notin overwritten /\ chosen[m].at <= x.began => chosen[m].on
      BY <1>2, <1>8 DEF MonitorInv, ListChosen
    <3> QED
      BY <3>2, <3>3
  <2> QED
    BY <1>1, <1>5, <2>1 DEF MonitorInv, SwitchedOffStaysOff
<1>13. SubmissionsOwed' /\ SettingsChosen'
  BY <1>1, <1>11 DEF SubmissionsOwed, MonitorInv, SettingsChosen
<1> QED
  BY <1>7, <1>10, <1>12, <1>13 DEF MonitorInv
\* A tick starts: it reads the monitors and the unhealthy resources.
LEMMA MonitorTickStartInv ==
    ASSUME MonitorInv, NEW w \in Worker, MonitorTickStart(w)
    PROVE  MonitorInv'
<1> DEFINE D == {n \in Monitor : monitor[n].there}
           l == [n \in D |-> monitor[n]]
           new == [NoMonitorTick EXCEPT !.at = "monitor", !.began = stamp, !.sick = unhealthy, !.list = l]
<1> PICK t : t = new
  OBVIOUS
<1>1. /\ mLock = {} /\ mLock' = {w} /\ mTick' = [mTick EXCEPT ![w] = t] /\ D # {}
      /\ UNCHANGED <<monitor, unhealthy, rec, op, recent, chosen, stamp, betrayed, overwritten, mEdits, mChanges, mFaults, mLost>>
  BY DEF MonitorTickStart, history, bounds
<1>2. l \in MonitorList /\ DOMAIN l = D /\ \A n \in D : l[n] = monitor[n] /\ monitor[n].there
  <2>1. l \in [D -> MonitorObject] /\ D \in SUBSET Monitor
    BY MonitorFacts
  <2>2. l \in MonitorList
    BY <2>1 DEF MonitorList
  <2> QED
    BY <2>2
<1> HIDE DEF D, l
<1>3. /\ mTick \in [Worker -> MonitorTick] /\ stamp = mEdits /\ stamp \in Nat /\ unhealthy \subseteq Watched
      /\ chosen \in [Monitor -> [on : BOOLEAN, at : Nat]]
  BY MonitorFacts, MonitorAssumption DEF MonitorShape
<1>4. t \in MonitorTick /\ t.at = "monitor" /\ t.began = stamp /\ t.list = l
  BY <1>2, <1>3, NoTickShape DEF MonitorTick
<1> HIDE DEF new
<1>5. mTick'[w] = t /\ \A v \in Worker \ {w} : mTick'[v] = mTick[v]
  BY <1>1, <1>3
<1>6. MonitorShape'
  BY <1>1, <1>3, <1>4 DEF MonitorShape
<1>7. MonitorTypeOK'
  BY <1>1, <1>6, MonitorFacts, MonitorTypes
<1>8. OneLeader' /\ SwitchedOffStaysOff' /\ SettingsChosen'
  BY <1>1 DEF MonitorInv, OneLeader, SwitchedOffStaysOff, SettingsChosen
<1>9. ZombiesPaid'
  <2>1. Zombies' \subseteq Zombies
    BY <1>1, <1>5 DEF Zombies
  <2>2. Cardinality(Zombies') <= Cardinality(Zombies) /\ Cardinality(Zombies') \in Nat /\ Cardinality(Zombies) \in Nat
    BY <2>1, WorkersFinite, CardinalityShrinks
  <2>3. Cardinality(Zombies) <= mLost /\ mLost \in Nat /\ mLost' = mLost
    BY <1>1, MonitorFacts, MonitorAssumption DEF MonitorInv, ZombiesPaid
  <2> QED
    BY <2>2, <2>3 DEF ZombiesPaid
<1>10. SubmissionsOwed'
  <2> SUFFICES ASSUME NEW r \in Watched
               PROVE  recent'[r].monitor + Cardinality(Submitting(r)') <= MaxActions + mLost'
    BY DEF SubmissionsOwed
  <2>1. Submitting(r)' \subseteq Submitting(r)
    BY <1>1, <1>4, <1>5, SubmittersStay
  <2>2. recent'[r] = recent[r] /\ recent[r].monitor \in Nat
    BY <1>1, MonitorFacts
  <2> QED
    BY <1>1, <2>1, <2>2, SubmissionsKept
<1>11. Places'
  <2>1. PlaceOK(t)'
    BY <1>1, <1>2, <1>3, <1>4 DEF PlaceOK
  <2>2. ASSUME NEW v \in Worker PROVE PlaceOK(mTick[v])'
    <3>1. CASE v = w
      BY <1>5, <2>1, <3>1 DEF PlaceOK
    <3>2. CASE v # w
      <4>1. PlaceOK(mTick[v]) /\ mTick'[v] = mTick[v]
        BY <1>5, <3>2 DEF MonitorInv, Places
      <4> QED
        BY <1>1, <4>1 DEF PlaceOK
    <3> QED
      BY <3>1, <3>2
  <2> QED
    BY <2>2 DEF Places
<1>12. ListChosen'
  <2> SUFFICES ASSUME NEW v \in Worker, NEW m \in DOMAIN mTick'[v].list,
                      m \notin overwritten, chosen[m].at <= mTick'[v].began,
                      mTick'[v].list[m].enabled, mTick'[v].list[m].mode = Automated
               PROVE  chosen[m].on
    BY <1>1 DEF ListChosen
  <2>1. CASE v = w
    <3>1. m \in D /\ mTick'[v].list[m] = monitor[m] /\ monitor[m].there
      BY <1>2, <1>4, <1>5, <2>1
    <3>2. m \in Monitor
      BY <3>1 DEF D
    <3> QED
      BY <3>1, <3>2 DEF MonitorInv, SettingsChosen
  <2>2. CASE v # w
    BY <1>5, <2>2 DEF MonitorInv, ListChosen
  <2> QED
    BY <2>1, <2>2
<1> QED
  BY <1>6, <1>7, <1>8, <1>9, <1>10, <1>11, <1>12 DEF MonitorInv

\* The lock is lost: one more tick goes on without it.
LEMMA MonitorLockLostInv ==
    ASSUME MonitorInv, NEW w \in Worker, MonitorLockLost(w)
    PROVE  MonitorInv'
<1>1. /\ w \in mLock /\ mLock' = {} /\ mFaults < MaxMonitorFaults /\ mFaults' = mFaults + 1 /\ mLost' = mLost + 1
      /\ UNCHANGED <<monitor, unhealthy, rec, op, recent, mTick, chosen, stamp, betrayed, overwritten, mEdits, mChanges>>
  BY DEF MonitorLockLost, history
<1>2. mLost \in Nat /\ mFaults \in Nat /\ MaxActions \in Nat
  BY MonitorFacts, MonitorAssumption
<1>3. MonitorShape' /\ Places' /\ SettingsChosen' /\ ListChosen' /\ SwitchedOffStaysOff'
  BY <1>1 DEF MonitorInv, MonitorShape, Places, PlaceOK, SettingsChosen, ListChosen, SwitchedOffStaysOff
<1>4. MonitorTypeOK'
  <2>1. mFaults' \in 0..MaxMonitorFaults /\ mLost' \in 0..mFaults'
    BY <1>1, MonitorFacts, MonitorAssumption
  <2> QED
    BY <1>1, <1>3, <2>1, MonitorFacts, MonitorTypes
<1>5. OneLeader'
  BY <1>1 DEF OneLeader
<1>6. ZombiesPaid'
  <2>1. Zombies' \subseteq Zombies \cup {w}
    BY <1>1 DEF Zombies, MonitorInv, OneLeader
  <2>2. Cardinality(Zombies') <= Cardinality(Zombies) + 1
    BY <2>1, WorkersFinite, CardinalityGrows
  <2>3. Cardinality(Zombies) <= mLost
    BY DEF MonitorInv, ZombiesPaid
  <2> QED
    BY <1>1, <1>2, <2>2, <2>3, WorkersFinite DEF ZombiesPaid
<1>7. SubmissionsOwed'
  <2> SUFFICES ASSUME NEW r \in Watched
               PROVE  recent'[r].monitor + Cardinality(Submitting(r)') <= MaxActions + mLost'
    BY DEF SubmissionsOwed
  <2>1. Submitting(r)' = Submitting(r) /\ recent'[r] = recent[r] /\ recent[r].monitor \in Nat
    BY <1>1, MonitorFacts DEF Submitting
  <2>2. recent[r].monitor + Cardinality(Submitting(r)) <= MaxActions + mLost
    BY DEF MonitorInv, SubmissionsOwed
  <2> QED
    BY <1>1, <1>2, <2>1, <2>2, WorkersFinite
<1> QED
  BY <1>3, <1>4, <1>5, <1>6, <1>7 DEF MonitorInv
\* A step beside the ticks.
LEMMA BesideTicks ==
    ASSUME MonitorInv, UNCHANGED <<mTick, mLock, rec, betrayed, mFaults, mLost, overwritten>>,
           chosen' \in [Monitor -> [on : BOOLEAN, at : Nat]], stamp' = mEdits', mEdits' \in mEdits..MaxMonitorEdits,
           monitor' \in [Monitor -> MonitorObject], unhealthy' \subseteq Watched,
           op' \subseteq {"monitor", "recommendation"} \X Rec,
           recent' \in [Watched -> [monitor : Nat, person : Nat]],
           mChanges' \in 0..MaxHealthChanges,
           \A r \in Watched : recent'[r].monitor <= recent[r].monitor,
           SettingsChosen', ListChosen'
    PROVE  MonitorInv'
<1>1. mEdits \in Nat /\ mEdits' \in 0..MaxMonitorEdits /\ mEdits' >= mEdits /\ stamp = mEdits
  BY MonitorFacts, MonitorAssumption DEF MonitorShape
<1>2. MonitorShape'
  BY MonitorFacts DEF MonitorShape
<1>3. MonitorTypeOK'
  BY <1>1, <1>2, MonitorFacts, MonitorTypes
<1>4. OneLeader' /\ ZombiesPaid' /\ SwitchedOffStaysOff'
  BY DEF MonitorInv, OneLeader, ZombiesPaid, Zombies, SwitchedOffStaysOff
<1>5. Places'
  <2> SUFFICES ASSUME NEW w \in Worker PROVE PlaceOK(mTick[w])'
    BY DEF Places
  <2>1. PlaceOK(mTick[w]) /\ mTick[w].began \in Nat
    BY MonitorFacts, MonitorTickParts DEF MonitorInv, Places, MonitorShape
  <2> QED
    BY <1>1, <2>1 DEF PlaceOK
<1>6. SubmissionsOwed'
  <2> SUFFICES ASSUME NEW r \in Watched
               PROVE  recent'[r].monitor + Cardinality(Submitting(r)') <= MaxActions + mLost'
    BY DEF SubmissionsOwed
  <2>1. Submitting(r)' = Submitting(r)
    BY DEF Submitting
  <2>2. recent'[r].monitor \in Nat
    OBVIOUS
  <2> QED
    BY <2>1, <2>2, SubmissionsKept
<1> QED
  BY <1>2, <1>3, <1>4, <1>5, <1>6 DEF MonitorInv

\* An administrator saves or deletes a monitoring object: the choice is younger
\* than every tick.
LEMMA EditMonitorInv ==
    ASSUME MonitorInv, NEW m \in Monitor, EditMonitor(m)
    PROVE  MonitorInv'
<1>1. /\ mEdits < MaxMonitorEdits /\ mEdits' = mEdits + 1 /\ stamp' = mEdits'
      /\ UNCHANGED <<unhealthy, rec, op, recent, mTick, mLock, betrayed, mChanges, mFaults, mLost, overwritten>>
  BY DEF EditMonitor
<1>2. PICK x \in MonitorObject, on \in BOOLEAN :
        /\ monitor' = [monitor EXCEPT ![m] = x]
        /\ chosen' = [chosen EXCEPT ![m] = [on |-> on, at |-> stamp']]
        /\ x.there /\ x.enabled /\ x.mode = Automated => on
  <2>1. monitor[m] \in MonitorObject
    BY MonitorFacts
  <2>2. ASSUME NEW enabled \in BOOLEAN, NEW mode \in Mode,
               monitor' = [monitor EXCEPT ![m] = [there |-> TRUE, enabled |-> enabled, mode |-> mode, due |-> TRUE]],
               chosen' = [chosen EXCEPT ![m] =
                 [on |-> enabled /\ mode = "AUTOMATED_POLICY_CONTROLLED", at |-> stamp']]
        PROVE  \E x \in MonitorObject, on \in BOOLEAN :
                 /\ monitor' = [monitor EXCEPT ![m] = x]
                 /\ chosen' = [chosen EXCEPT ![m] = [on |-> on, at |-> stamp']]
                 /\ x.there /\ x.enabled /\ x.mode = Automated => on
    <3> DEFINE x == [there |-> TRUE, enabled |-> enabled, mode |-> mode, due |-> TRUE]
               on == enabled /\ mode = "AUTOMATED_POLICY_CONTROLLED"
    <3>1. x \in MonitorObject /\ on \in BOOLEAN /\ (x.enabled /\ x.mode = Automated => on)
      BY DEF MonitorObject, Automated
    <3> QED
      BY <2>2, <3>1
  <2>3. ASSUME monitor' = [monitor EXCEPT ![m].there = FALSE],
               chosen' = [chosen EXCEPT ![m] = [on |-> FALSE, at |-> stamp']]
        PROVE  \E x \in MonitorObject, on \in BOOLEAN :
                 /\ monitor' = [monitor EXCEPT ![m] = x]
                 /\ chosen' = [chosen EXCEPT ![m] = [on |-> on, at |-> stamp']]
                 /\ x.there /\ x.enabled /\ x.mode = Automated => on
    <3> DEFINE x == [monitor[m] EXCEPT !.there = FALSE]
    <3>1. x \in MonitorObject /\ ~x.there /\ monitor' = [monitor EXCEPT ![m] = x]
      BY <2>1, <2>3, MonitorFacts DEF MonitorObject
    <3> HIDE DEF x
    <3> QED
      BY <2>3, <3>1
  <2> QED
    BY <2>2, <2>3 DEF EditMonitor
<1>3. /\ chosen \in [Monitor -> [on : BOOLEAN, at : Nat]] /\ monitor \in [Monitor -> MonitorObject]
      /\ mEdits \in Nat /\ stamp = mEdits /\ mTick \in [Worker -> MonitorTick]
  BY MonitorFacts, MonitorAssumption DEF MonitorShape
<1>4. /\ monitor' \in [Monitor -> MonitorObject] /\ monitor'[m] = x
      /\ chosen' \in [Monitor -> [on : BOOLEAN, at : Nat]] /\ chosen'[m].on = on /\ chosen'[m].at = mEdits + 1
      /\ \A n \in Monitor \ {m} : monitor'[n] = monitor[n] /\ chosen'[n] = chosen[n]
  BY <1>1, <1>2, <1>3
<1>5. SettingsChosen'
  BY <1>1, <1>2, <1>4 DEF MonitorInv, SettingsChosen
<1>6. ListChosen'
  <2> SUFFICES ASSUME NEW w \in Worker, NEW n \in DOMAIN mTick[w].list,
                      n \notin overwritten, chosen'[n].at <= mTick[w].began,
                      mTick[w].list[n].enabled, mTick[w].list[n].mode = Automated
               PROVE  chosen'[n].on
    BY <1>1 DEF ListChosen
  <2>1. mTick[w].began \in Nat /\ mTick[w].began <= mEdits /\ n \in Monitor
    BY <1>3, MonitorTickParts DEF MonitorInv, Places, PlaceOK
  <2>2. n # m
    BY <1>3, <1>4, <2>1
  <2> QED
    BY <1>4, <2>1, <2>2 DEF MonitorInv, ListChosen
<1>7. mEdits' \in mEdits..MaxMonitorEdits
  BY <1>1, <1>3, MonitorAssumption
<1>8. \A r \in Watched : recent'[r].monitor <= recent[r].monitor
  BY <1>1, MonitorFacts
<1> QED
  BY <1>1, <1>4, <1>5, <1>6, <1>7, <1>8, MonitorFacts, BesideTicks

\* The service account is changed: the stamp grows, nothing else of the monitors.
LEMMA EditAccountInv ==
    ASSUME MonitorInv, NEW a, EditAccount(a)
    PROVE  MonitorInv'
<1>1. /\ mEdits < MaxMonitorEdits /\ mEdits' = mEdits + 1 /\ stamp' = mEdits'
      /\ UNCHANGED <<monitor, unhealthy, rec, op, recent, mTick, mLock, chosen, betrayed, overwritten,
                     mChanges, mFaults, mLost>>
  BY DEF EditAccount
<1>2. SettingsChosen' /\ ListChosen'
  BY <1>1 DEF MonitorInv, SettingsChosen, ListChosen
<1>3. mEdits' \in mEdits..MaxMonitorEdits
  BY <1>1, MonitorFacts, MonitorAssumption
<1>4. /\ \A r \in Watched : recent'[r].monitor <= recent[r].monitor
      /\ chosen' \in [Monitor -> [on : BOOLEAN, at : Nat]]
  BY <1>1, MonitorFacts DEF MonitorShape
<1> QED
  BY <1>1, <1>2, <1>3, <1>4, MonitorFacts, BesideTicks

\* Health, intervals, hours, people and stuttering.
LEMMA AroundMonitorInv ==
    ASSUME MonitorInv,
           \/ \E m \in Monitor : IntervalEnds(m)
           \/ \E r \in Watched : HealthChanges(r) \/ HourEnds(r)
           \/ \E i \in Rec : Tool(i)
           \/ LimitResets
           \/ UNCHANGED mVars
    PROVE  MonitorInv'
<1>1. /\ UNCHANGED <<rec, mTick, mLock, betrayed, mFaults, mLost, overwritten, chosen, stamp, mEdits>>
      /\ mChanges' \in 0..MaxHealthChanges /\ unhealthy' \subseteq Watched
  <2>1. /\ unhealthy \subseteq Watched /\ mChanges \in 0..MaxHealthChanges /\ MaxHealthChanges \in Nat
    BY MonitorFacts, MonitorAssumption
  <2>2. ASSUME NEW r \in Watched, HealthChanges(r)
        PROVE  /\ UNCHANGED <<rec, mTick, mLock, betrayed, mFaults, mLost, overwritten, chosen, stamp, mEdits>>
               /\ mChanges' \in 0..MaxHealthChanges /\ unhealthy' \subseteq Watched
    BY <2>1, <2>2 DEF HealthChanges, history
  <2>3. ASSUME NEW r \in Watched, HourEnds(r)
        PROVE  /\ UNCHANGED <<rec, mTick, mLock, betrayed, mFaults, mLost, overwritten, chosen, stamp, mEdits>>
               /\ mChanges' \in 0..MaxHealthChanges /\ unhealthy' \subseteq Watched
    BY <2>1, <2>3 DEF HourEnds, history, bounds
  <2>4. ASSUME NEW m \in Monitor, IntervalEnds(m)
        PROVE  /\ UNCHANGED <<rec, mTick, mLock, betrayed, mFaults, mLost, overwritten, chosen, stamp, mEdits>>
               /\ mChanges' \in 0..MaxHealthChanges /\ unhealthy' \subseteq Watched
    BY <2>1, <2>4 DEF IntervalEnds, history, bounds
  <2>5. ASSUME NEW i \in Rec, Tool(i)
        PROVE  /\ UNCHANGED <<rec, mTick, mLock, betrayed, mFaults, mLost, overwritten, chosen, stamp, mEdits>>
               /\ mChanges' \in 0..MaxHealthChanges /\ unhealthy' \subseteq Watched
    BY <2>1, <2>5 DEF Tool, history, bounds
  <2>6. CASE UNCHANGED mVars
    BY <2>1, <2>6 DEF mVars
  <2>7. CASE LimitResets
    BY <2>1, <2>7 DEF LimitResets, history, bounds
  <2> QED
    BY <2>2, <2>3, <2>4, <2>5, <2>6, <2>7
<1>2. /\ chosen' \in [Monitor -> [on : BOOLEAN, at : Nat]] /\ stamp' = mEdits'
      /\ mEdits' \in mEdits..MaxMonitorEdits
  BY <1>1, MonitorFacts, MonitorAssumption DEF MonitorShape
<1>3. /\ monitor' \in [Monitor -> MonitorObject]
      /\ \A n \in Monitor : monitor'[n].there = monitor[n].there /\ monitor'[n].enabled = monitor[n].enabled
                            /\ monitor'[n].mode = monitor[n].mode
  <2>1. ASSUME NEW m \in Monitor, IntervalEnds(m)
        PROVE  /\ monitor' \in [Monitor -> MonitorObject]
               /\ \A n \in Monitor : monitor'[n].there = monitor[n].there /\ monitor'[n].enabled = monitor[n].enabled
                                     /\ monitor'[n].mode = monitor[n].mode
    BY <2>1, MonitorFacts DEF IntervalEnds, MonitorObject
  <2>2. CASE UNCHANGED monitor
    BY <2>2, MonitorFacts
  <2> QED
    BY <2>1, <2>2 DEF HealthChanges, HourEnds, Tool, LimitResets, mVars
<1>4. /\ recent' \in [Watched -> [monitor : Nat, person : Nat]]
      /\ \A r \in Watched : recent'[r].monitor <= recent[r].monitor
      /\ op' \subseteq {"monitor", "recommendation"} \X Rec
  <2>1. recent \in [Watched -> [monitor : Nat, person : Nat]] /\ rec \in Recommendations
    BY MonitorFacts
  <2>2. ASSUME NEW r \in Watched, HourEnds(r)
        PROVE  recent' \in [Watched -> [monitor : Nat, person : Nat]] /\ \A q \in Watched : recent'[q].monitor <= recent[q].monitor
    <3>1. CASE recent[r].monitor > 0 /\ recent' = [recent EXCEPT ![r].monitor = @ - 1]
      BY <2>1, <3>1
    <3>2. CASE recent[r].person > 0 /\ recent' = [recent EXCEPT ![r].person = @ - 1]
      BY <2>1, <3>2
    <3>3. \E who \in {"monitor", "person"} : recent[r][who] > 0 /\ recent' = [recent EXCEPT ![r][who] = @ - 1]
      BY <2>2 DEF HourEnds
    <3> QED
      BY <3>1, <3>2, <3>3
  <2>3. ASSUME NEW i \in Rec, Tool(i)
        PROVE  recent' \in [Watched -> [monitor : Nat, person : Nat]] /\ \A q \in Watched : recent'[q].monitor <= recent[q].monitor
    <3>1. PICK o \in Watched : o = rec[i].of
      BY <2>1 DEF Recommendations
    <3>2. recent' = [recent EXCEPT ![o].person = @ + 1]
      BY <2>3, <3>1 DEF Tool
    <3> QED
      BY <2>1, <3>2
  <2>4. ASSUME UNCHANGED recent
        PROVE  recent' \in [Watched -> [monitor : Nat, person : Nat]] /\ \A q \in Watched : recent'[q].monitor <= recent[q].monitor
    BY <2>1, <2>4
  <2>5. op' \subseteq {"monitor", "recommendation"} \X Rec
    <3>1. op \subseteq {"monitor", "recommendation"} \X Rec
      BY MonitorFacts
    <3>2. ASSUME NEW i \in Rec, Tool(i) PROVE op' \subseteq {"monitor", "recommendation"} \X Rec
      BY <3>1, <3>2 DEF Tool
    <3>3. CASE UNCHANGED op
      BY <3>1, <3>3
    <3> QED
      BY <3>2, <3>3 DEF IntervalEnds, HealthChanges, HourEnds, LimitResets, mVars
  <2>6. (\E m \in Monitor : IntervalEnds(m)) \/ (\E r \in Watched : HealthChanges(r))
          \/ LimitResets \/ UNCHANGED mVars => UNCHANGED recent
    BY DEF IntervalEnds, HealthChanges, LimitResets, mVars
  <2> QED
    BY <2>2, <2>3, <2>4, <2>5, <2>6
<1>5. SettingsChosen' /\ ListChosen'
  BY <1>1, <1>3 DEF MonitorInv, SettingsChosen, ListChosen
<1> QED
  BY <1>1, <1>2, <1>3, <1>4, <1>5, BesideTicks

\* At the start no tick runs and every monitor is as it was chosen.
LEMMA MonitorInitInv == MonitorInit => MonitorInv
<1> SUFFICES ASSUME MonitorInit PROVE MonitorInv
  OBVIOUS
<1>1. monitor \in [Monitor -> MonitorObject] /\ \A m \in Monitor : monitor[m].mode = Automated => chosen[m].on
  <2> DEFINE S == {[there |-> TRUE, enabled |-> TRUE, mode |-> mode, due |-> TRUE] : mode \in Mode \ {"DISABLED"}}
  <2>1. S \subseteq MonitorObject
    <3>1. \A mode \in Mode : [there |-> TRUE, enabled |-> TRUE, mode |-> mode, due |-> TRUE] \in MonitorObject
      BY DEF MonitorObject
    <3> QED
      BY <3>1
  <2>2. monitor \in [Monitor -> S]
    BY DEF MonitorInit
  <2> HIDE DEF S
  <2> QED
    BY <2>1, <2>2 DEF MonitorInit, Automated
<1>2. NoRec.of \in Watched /\ NoRec \in [of : Watched, tool : {"none", "restart"}, made : BOOLEAN]
  BY MonitorAssumption DEF NoRec
<1>3. MonitorShape
  <2>1. mTick \in [Worker -> MonitorTick]
    BY NoTickShape DEF MonitorInit
  <2>2. chosen \in [Monitor -> [on : BOOLEAN, at : Nat]]
    BY DEF MonitorInit
  <2> QED
    BY <2>1, <2>2 DEF MonitorInit, MonitorShape
<1>4. \A w \in Worker : mTick[w] = NoMonitorTick /\ mTick[w] \in MonitorTick
  BY NoTickShape DEF MonitorInit
<1>5. MonitorTypeOK
  <2>1. \A w \in Worker : LET t == mTick[w] IN
         /\ t.at \in {"idle", "monitor", "analyze", "count", "submit"}
         /\ DOMAIN t.list \subseteq Monitor /\ \A m \in DOMAIN t.list : t.list[m] \in MonitorObject
         /\ t.sick \subseteq Watched /\ t.todo \subseteq Watched
         /\ t.rec \in Rec \cup {0} /\ t.p \in Account
    BY <1>4, MonitorTickParts
  <2>2. /\ rec \in [Rec -> [of : Watched, tool : {"none", "restart"}, made : BOOLEAN]]
        /\ recent \in [Watched -> [monitor : Nat, person : Nat]]
    BY <1>2 DEF MonitorInit
  <2>3. unhealthy \subseteq Watched /\ op \subseteq {"monitor", "recommendation"} \X Rec
        /\ mLock \subseteq Worker /\ betrayed \subseteq Monitor /\ overwritten \subseteq Monitor
    BY DEF MonitorInit
  <2>4. /\ mEdits \in 0..MaxMonitorEdits /\ mChanges \in 0..MaxHealthChanges
        /\ mFaults \in 0..MaxMonitorFaults /\ mLost \in 0..mFaults
    BY MonitorAssumption DEF MonitorInit
  <2> QED
    BY <1>1, <2>1, <2>2, <2>3, <2>4 DEF MonitorTypeOK
<1>6. OneLeader /\ SwitchedOffStaysOff /\ SettingsChosen
  BY <1>1 DEF MonitorInit, OneLeader, SwitchedOffStaysOff, SettingsChosen
<1>7. Places /\ ListChosen
  BY <1>4, NoTickShape DEF MonitorInit, Places, PlaceOK, ListChosen
<1>8. ZombiesPaid /\ SubmissionsOwed
  <2>1. Zombies = {} /\ \A r \in Watched : Submitting(r) = {}
    BY <1>4, NoTickShape DEF Zombies, Submitting
  <2>2. Cardinality(Zombies) = 0 /\ \A r \in Watched : Cardinality(Submitting(r)) = 0
    BY <2>1, FS_EmptySet
  <2>3. \A r \in Watched : recent[r].monitor = 0
    BY DEF MonitorInit
  <2>4. mLost = 0 /\ MaxActions \in Nat
    BY MonitorAssumption DEF MonitorInit
  <2> QED
    BY <2>2, <2>3, <2>4 DEF ZombiesPaid, SubmissionsOwed
<1> QED
  BY <1>3, <1>5, <1>6, <1>7, <1>8 DEF MonitorInv

\* The account's calls stay within the limit.
LEMMA DiagnosisStep ==
    ASSUME DiagnosisOK, [MonitorNext]_mVars
    PROVE  DiagnosisOK'
<1>1. account \in Account /\ calls \in 0..MaxCalls /\ analyzed \subseteq Watched /\ MaxCalls \in Nat
  BY MonitorAssumption DEF DiagnosisOK
<1>2. ASSUME UNCHANGED diagnosis PROVE DiagnosisOK'
  BY <1>2 DEF DiagnosisOK, diagnosis
<1>3. ASSUME NEW a \in Account, EditAccount(a) PROVE DiagnosisOK'
  BY <1>1, <1>3 DEF EditAccount, DiagnosisOK
<1>4. CASE LimitResets
  BY <1>1, <1>4 DEF LimitResets, DiagnosisOK
<1>5. ASSUME NEW m \in Monitor, EditMonitor(m) \/ IntervalEnds(m) PROVE DiagnosisOK'
  BY <1>2, <1>5 DEF EditMonitor, IntervalEnds
<1>6. ASSUME NEW r \in Watched, HealthChanges(r) PROVE DiagnosisOK'
  BY <1>1, <1>6 DEF HealthChanges, DiagnosisOK
<1>7. ASSUME NEW r \in Watched, HourEnds(r) PROVE DiagnosisOK'
  BY <1>2, <1>7 DEF HourEnds
<1>8. ASSUME NEW i \in Rec, Tool(i) PROVE DiagnosisOK'
  BY <1>2, <1>8 DEF Tool
<1>9. ASSUME NEW w \in Worker, \/ MonitorTickStart(w) \/ MonitorFails(w) \/ MonitorLockLost(w) \/ AccountUnread(w)
                               \/ PassOver(w) \/ Touch(w) \/ Count(w) \/ SubmitAction(w)
                               \/ \E r \in Watched : AnalyzeRefused(w, r)
      PROVE  DiagnosisOK'
  <2>1. UNCHANGED diagnosis
    BY <1>9 DEF MonitorTickStart, MonitorFails, MonitorLockLost, AccountUnread, PassOver, Touch, SaveLastRun,
                Count, SubmitAction, AnalyzeRefused
  <2> QED
    BY <1>2, <2>1
<1>10. ASSUME NEW w \in Worker, NEW r \in Watched, Analyze(w, r) PROVE DiagnosisOK'
  <2>1. calls < MaxCalls /\ calls' = calls + 1 /\ analyzed' = analyzed \cup {r} /\ account' = account
    BY <1>10 DEF Analyze, WithinLimit
  <2> QED
    BY <1>1, <2>1 DEF DiagnosisOK
<1>11. ASSUME NEW w \in Worker, NEW r \in Watched, AnalyzeFails(w, r) PROVE DiagnosisOK'
  <2>1. /\ calls' \in {calls, IF calls < MaxCalls THEN calls + 1 ELSE calls}
        /\ UNCHANGED <<analyzed, account>>
    BY <1>11 DEF AnalyzeFails, WithinLimit
  <2> QED
    BY <1>1, <2>1 DEF DiagnosisOK
<1>12. CASE UNCHANGED mVars
  BY <1>2, <1>12 DEF mVars, diagnosis
<1> QED
  BY <1>3, <1>4, <1>5, <1>6, <1>7, <1>8, <1>9, <1>10, <1>11, <1>12 DEF MonitorNext, MonitorTickStep

\* At most one tick has the lock and every other one cost a lock; what they count,
\* hold and submit stays in proportion, for any number of workers and monitors.
THEOREM MonitorInvariant == MonitorSpec => [](MonitorInv /\ DiagnosisOK)
<1>1. MonitorInv /\ DiagnosisOK /\ [MonitorNext]_mVars => MonitorInv' /\ DiagnosisOK'
  <2> SUFFICES ASSUME MonitorInv, DiagnosisOK, [MonitorNext]_mVars PROVE MonitorInv'
    BY DiagnosisStep
  <2>1. ASSUME NEW m \in Monitor, EditMonitor(m) PROVE MonitorInv'
    BY <2>1, EditMonitorInv
  <2>2. CASE \/ \E m \in Monitor : IntervalEnds(m)
             \/ \E r \in Watched : HealthChanges(r) \/ HourEnds(r)
             \/ \E i \in Rec : Tool(i)
             \/ LimitResets
             \/ UNCHANGED mVars
    BY <2>2, AroundMonitorInv
  <2>3. ASSUME NEW a \in Account, EditAccount(a) PROVE MonitorInv'
    BY <2>3, EditAccountInv
  <2>4. ASSUME NEW w \in Worker,
               MonitorTickStart(w) \/ MonitorFails(w) \/ MonitorLockLost(w) \/ \E r \in Watched : AnalyzeFails(w, r)
        PROVE  MonitorInv'
    BY <2>4, MonitorTickStartInv, MonitorFailsInv, MonitorLockLostInv, AnalyzeFailsInv
  <2>5. account \in Account
    BY DEF DiagnosisOK
  <2>6. ASSUME NEW w \in Worker, Touch(w) \/ AccountUnread(w) PROVE MonitorInv'
    BY <2>5, <2>6, TouchInv
  <2>7. ASSUME NEW w \in Worker, NEW r \in Watched, Analyze(w, r) \/ AnalyzeRefused(w, r) PROVE MonitorInv'
    BY <2>7, AnalyzeInv, AnalyzeFailsInv
  <2>8. ASSUME NEW w \in Worker, PassOver(w) \/ Count(w) \/ SubmitAction(w) PROVE MonitorInv'
    BY <2>8, PassOverInv, CountInv, SubmitActionInv
  <2> QED
    BY <2>1, <2>2, <2>3, <2>4, <2>6, <2>7, <2>8 DEF MonitorNext, MonitorTickStep
<1>2. MonitorInit => DiagnosisOK
  BY MonitorAssumption DEF MonitorInit, DiagnosisOK, Account
<1> QED
  BY <1>1, <1>2, MonitorInitInv, PTL DEF MonitorSpec

\* The monitor starts at most MaxActions operations on a resource in an hour and
\* one more for each lost lock, and nothing for a monitor that was switched off.
THEOREM MonitorIsSafe == MonitorSpec => []MonitorSafe
<1>1. MonitorInv /\ DiagnosisOK => MonitorSafe
  <2> SUFFICES ASSUME MonitorInv, DiagnosisOK PROVE ActionsBounded
    BY DEF MonitorInv, MonitorSafe
  <2> SUFFICES ASSUME NEW r \in Watched PROVE recent[r].monitor <= MaxActions + mLost
    BY DEF ActionsBounded
  <2>1. /\ recent[r].monitor \in Nat /\ mLost \in Nat /\ MaxActions \in Nat
        /\ recent[r].monitor + Cardinality(Submitting(r)) <= MaxActions + mLost
    BY MonitorFacts, MonitorAssumption DEF MonitorInv, SubmissionsOwed
  <2>2. Cardinality(Submitting(r)) \in Nat
    BY WorkersFinite
  <2> QED
    BY <2>1, <2>2
<1> QED
  BY <1>1, MonitorInvariant, PTL

-----------------------------------------------------------------------------
(***************************************************************************)
(* Notifications. Attempts and calls of Send are bounded by counting the   *)
(* ticks that still have a delivery among their items, and the ticks that  *)
(* wait for the answer of a call: a leader that lost its lock is one more  *)
(* of each.                                                                *)
(***************************************************************************)

Item == [id : Provider, object : ProviderObject]
DispatchTick == [at : {"idle", "provider", "send", "record"}, todo : SUBSET Item,
                 items : SUBSET Time, outcome : {"sent", "pending"}]
Delivery == [status : {"none", "pending", "sent"}, attempts : Nat, due : BOOLEAN]

\* The provider at which a tick with this list is.
Latest(todo) == CHOOSE o \in todo : \A u \in todo : u.object.created <= o.object.created

\* A tick has a provider, and one that sends has deliveries.
TickSound(t) ==
    /\ t \in DispatchTick
    /\ t.at # "idle" => t.todo # {}
    /\ t.at \in {"send", "record"} => t.items # {}

\* The tick has the delivery of event e to provider p before it; it waits for
\* the answer of its call.
Before(t, e, p) == t.at \in {"send", "record"} /\ e \in t.items /\ Latest(t.todo).id = p
Calling(t, e, p) == t.at = "record" /\ Latest(t.todo).id = p /\ Min(t.items) = e

Dispatching == {d \in Dispatcher : nTick[d].at # "idle"}
Holding(e, p) == {d \in Dispatcher : Before(nTick[d], e, p)}
Waiting(e, p) == {d \in Dispatcher : Calling(nTick[d], e, p)}

Tried(e, p) == row[e][p].attempts

\* The administrators' objects and the events.
ObjectsTyped ==
    /\ instant \in 0..MaxInstant
    /\ open \subseteq Time /\ events \subseteq Time
    /\ provider \in [Provider -> ProviderObject]
    /\ secrets \subseteq Secret
    /\ request \in [Admin -> [at : {"idle", "edit", "delete", "secret"}, of : Provider, secret : Secret]]
    /\ nEdits \in 0..MaxProviderEdits

TicksSound == nTick \in [Dispatcher -> DispatchTick] /\ \A d \in Dispatcher : TickSound(nTick[d])

RowsTyped == row \in [Time -> [Provider -> Delivery]] /\ sends \in [Time -> [Provider -> Nat]]

LockHolder == nLock = {} \/ \E d \in Dispatcher : nLock = {d}

FaultsCounted == nFaults \in 0..MaxDispatcherFaults /\ nLost \in 0..nFaults

\* Beside the holder of the lock only ticks that lost it go on.
DispatchersFew == Cardinality(Dispatching) <= Cardinality(nLock) + nLost

\* What ticks have before them is within the attempts that are left.
AttemptsLeft == \A e \in Time, p \in Provider :
    Tried(e, p) + Cardinality(Holding(e, p)) <= MaxAttempts + nLost

\* While no lock was lost the only tick is the holder's, and what it has before
\* it was not sent.
OnlyPending == nLost = 0 => \A d \in Dispatcher : nTick[d].at # "idle" =>
    /\ d \in nLock
    /\ \A e \in Time, p \in Provider : Before(nTick[d], e, p) => row[e][p].status = "pending"

DispatchInv ==
    /\ TicksSound /\ RowsTyped /\ LockHolder /\ FaultsCounted
    /\ DispatchersFew /\ AttemptsLeft /\ SendsRecorded /\ OnlyPending

NotificationsInv == ObjectsTyped /\ DispatchInv

LEMMA NotificationsLimits ==
    /\ MaxInstant \in Nat /\ MaxProviderEdits \in Nat /\ MaxDispatcherFaults \in Nat
    /\ MaxAttempts \in Nat /\ MaxAttempts > 0 /\ SendLimit \in Nat /\ SendLimit > 0
    /\ IsFiniteSet(Provider) /\ Provider # {} /\ IsFiniteSet(Dispatcher)
    /\ Cardinality(Provider) \in Nat /\ Cardinality(Provider) <= MaxInstant
<1>1. Cardinality(Provider) \in Nat
  BY NotificationsAssumption, FS_CardinalityType
<1> QED
  BY <1>1, NotificationsAssumption

\* A set of naturals that is not empty has a smallest member.
LEMMA Smallest ==
    ASSUME NEW S, S # {}, \A x \in S : x \in Nat
    PROVE  \E m \in S : \A x \in S : m <= x
<1>1. S \subseteq Nat
  OBVIOUS
<1>2. PICK m \in S : \A x \in S : <<x, m>> \notin OpToRel(<, Nat)
  BY <1>1, NatLessThanWellFounded, WFMin
<1>3. ASSUME NEW x \in S PROVE m <= x
  <2>1. ~(x < m)
    BY <1>2 DEF OpToRel
  <2> QED
    BY <2>1
<1> QED
  BY <1>3

\* The next delivery is one of the items.
LEMMA MinMember ==
    ASSUME NEW items \in SUBSET Time, items # {}
    PROVE  Min(items) \in items /\ Min(items) \in Time
<1>1. \A x \in items : x \in Nat
  BY DEF Time
<1>2. \E m \in items : \A x \in items : m <= x
  BY <1>1, Smallest
<1> QED
  BY <1>2 DEF Min

\* The newest provider of a list is one of the list.
LEMMA LatestMember ==
    ASSUME NEW todo \in SUBSET Item, todo # {}
    PROVE  Latest(todo) \in todo /\ Latest(todo).id \in Provider /\ Latest(todo).object \in ProviderObject
<1> DEFINE ages == {MaxInstant - o.object.created : o \in todo}
<1>1. \A o \in todo : o.object.created \in 0..MaxInstant
  BY DEF Item, ProviderObject
<1>2. ages # {} /\ \A x \in ages : x \in Nat
  BY <1>1, NotificationsLimits
<1>3. PICK m \in ages : \A x \in ages : m <= x
  <2> HIDE DEF ages
  <2> QED
    BY <1>2, Smallest
<1>4. PICK o \in todo : m = MaxInstant - o.object.created
  BY <1>3
<1>5. \A u \in todo : u.object.created <= o.object.created
  BY <1>1, <1>3, <1>4, NotificationsLimits
<1>6. Latest(todo) \in todo
  BY <1>5 DEF Latest
<1> QED
  BY <1>6 DEF Item

LEMMA CurrentIs == \A d : CurrentProvider(d) = Latest(nTick[d].todo)
BY DEF CurrentProvider, Latest

LEMMA InFlightIs == \A e, p : InFlight(e, p) = Cardinality(Waiting(e, p))
BY CurrentIs DEF InFlight, Waiting, Calling

-----------------------------------------------------------------------------
LEMMA AroundMember ==
    ASSUME NEW S, IsFiniteSet(S), NEW c
    PROVE  /\ IsFiniteSet(S \ {c}) /\ Cardinality(S \ {c}) \in Nat
           /\ Cardinality(S) = Cardinality(S \ {c}) + (IF c \in S THEN 1 ELSE 0)
<1>1. CASE c \in S
  <2>1. IsFiniteSet(S \ {c}) /\ Cardinality(S \ {c}) = Cardinality(S) - 1
    BY <1>1, FS_RemoveElement
  <2>2. Cardinality(S) \in Nat /\ Cardinality(S \ {c}) \in Nat
    BY <2>1, FS_CardinalityType
  <2> QED
    BY <1>1, <2>1, <2>2
<1>2. CASE c \notin S
  <2>1. S \ {c} = S
    BY <1>2
  <2>2. Cardinality(S) \in Nat
    BY FS_CardinalityType
  <2>3. Cardinality(S) = Cardinality(S) + 0
    BY <2>2
  <2>4. IsFiniteSet(S \ {c}) /\ Cardinality(S \ {c}) = Cardinality(S)
    BY <2>1
  <2> QED
    BY <1>2, <2>2, <2>3, <2>4
<1> QED
  BY <1>1, <1>2

\* Two finite sets that differ in one element at most.
LEMMA OneApart ==
    ASSUME NEW A, NEW B, NEW s, IsFiniteSet(A), IsFiniteSet(B), A \ {s} = B \ {s}
    PROVE  \E n \in Nat : /\ Cardinality(A) = n + (IF s \in A THEN 1 ELSE 0)
                          /\ Cardinality(B) = n + (IF s \in B THEN 1 ELSE 0)
<1>1. Cardinality(A) = Cardinality(A \ {s}) + (IF s \in A THEN 1 ELSE 0) /\ Cardinality(A \ {s}) \in Nat
  BY AroundMember
<1>2. Cardinality(B) = Cardinality(A \ {s}) + (IF s \in B THEN 1 ELSE 0)
  BY AroundMember
<1> QED
  BY <1>1, <1>2

\* One tick moves, the others stay: how many dispatch, hold a delivery, wait.
LEMMA DispatcherMoves ==
    ASSUME DispatchInv, NEW d \in Dispatcher, NEW t, TickSound(t), nTick' = [nTick EXCEPT ![d] = t]
    PROVE  /\ TicksSound'
           /\ nTick'[d] = t /\ \A q \in Dispatcher : q # d => nTick'[q] = nTick[q]
<1>1. nTick \in [Dispatcher -> DispatchTick] /\ \A q \in Dispatcher : TickSound(nTick[q])
  BY DEF DispatchInv, TicksSound
<1>2. nTick'[d] = t /\ \A q \in Dispatcher : q # d => nTick'[q] = nTick[q]
  BY <1>1
<1> QED
  BY <1>1, <1>2 DEF TicksSound, TickSound

LEMMA DispatchingMoves ==
    ASSUME DispatchInv, NEW d \in Dispatcher, NEW t, TickSound(t), nTick' = [nTick EXCEPT ![d] = t]
    PROVE  \E n \in Nat : /\ Cardinality(Dispatching) = n + (IF nTick[d].at # "idle" THEN 1 ELSE 0)
                          /\ Cardinality(Dispatching') = n + (IF t.at # "idle" THEN 1 ELSE 0)
<1>1. nTick'[d] = t /\ \A q \in Dispatcher : q # d => nTick'[q] = nTick[q]
  BY DispatcherMoves
<1> DEFINE A == {q \in Dispatcher : nTick[q].at # "idle"}
           B == {q \in Dispatcher : nTick'[q].at # "idle"}
<1>2. IsFiniteSet(A) /\ IsFiniteSet(B)
  BY NotificationsLimits, FS_Subset
<1>3. A \ {d} = B \ {d} /\ (d \in A <=> nTick[d].at # "idle") /\ (d \in B <=> t.at # "idle")
  BY <1>1
<1>4. Dispatching = A /\ Dispatching' = B
  BY DEF Dispatching
<1> HIDE DEF A, B
<1> QED
  BY <1>2, <1>3, <1>4, OneApart

LEMMA HoldingMoves ==
    ASSUME DispatchInv, NEW d \in Dispatcher, NEW t, TickSound(t), nTick' = [nTick EXCEPT ![d] = t],
           NEW e, NEW p
    PROVE  \E n \in Nat : /\ Cardinality(Holding(e, p)) = n + (IF Before(nTick[d], e, p) THEN 1 ELSE 0)
                          /\ Cardinality(Holding(e, p)') = n + (IF Before(t, e, p) THEN 1 ELSE 0)
<1>1. nTick'[d] = t /\ \A q \in Dispatcher : q # d => nTick'[q] = nTick[q]
  BY DispatcherMoves
<1> DEFINE A == {q \in Dispatcher : Before(nTick[q], e, p)}
           B == {q \in Dispatcher : Before(nTick'[q], e, p)}
<1>2. IsFiniteSet(A) /\ IsFiniteSet(B)
  BY NotificationsLimits, FS_Subset
<1>3. A \ {d} = B \ {d} /\ (d \in A <=> Before(nTick[d], e, p)) /\ (d \in B <=> Before(t, e, p))
  BY <1>1
<1>4. Holding(e, p) = A /\ Holding(e, p)' = B
  BY DEF Holding, Before
<1> HIDE DEF A, B
<1> QED
  BY <1>2, <1>3, <1>4, OneApart

LEMMA WaitingMoves ==
    ASSUME DispatchInv, NEW d \in Dispatcher, NEW t, TickSound(t), nTick' = [nTick EXCEPT ![d] = t],
           NEW e, NEW p
    PROVE  \E n \in Nat : /\ Cardinality(Waiting(e, p)) = n + (IF Calling(nTick[d], e, p) THEN 1 ELSE 0)
                          /\ Cardinality(Waiting(e, p)') = n + (IF Calling(t, e, p) THEN 1 ELSE 0)
<1>1. nTick'[d] = t /\ \A q \in Dispatcher : q # d => nTick'[q] = nTick[q]
  BY DispatcherMoves
<1> DEFINE A == {q \in Dispatcher : Calling(nTick[q], e, p)}
           B == {q \in Dispatcher : Calling(nTick'[q], e, p)}
<1>2. IsFiniteSet(A) /\ IsFiniteSet(B)
  BY NotificationsLimits, FS_Subset
<1>3. A \ {d} = B \ {d} /\ (d \in A <=> Calling(nTick[d], e, p)) /\ (d \in B <=> Calling(t, e, p))
  BY <1>1
<1>4. Waiting(e, p) = A /\ Waiting(e, p)' = B
  BY DEF Waiting, Calling
<1> HIDE DEF A, B
<1> QED
  BY <1>2, <1>3, <1>4, OneApart

LEMMA DispatchFacts ==
    ASSUME DispatchInv
    PROVE  /\ nFaults \in Nat /\ nLost \in Nat /\ nLost <= nFaults /\ nFaults <= MaxDispatcherFaults
           /\ nLock \subseteq Dispatcher
           /\ Cardinality(nLock) = (IF nLock = {} THEN 0 ELSE 1)
           /\ \A c, d \in nLock : c = d
           /\ Cardinality(Dispatching) \in Nat
           /\ \A d \in Dispatcher : TickSound(nTick[d])
           /\ \A e \in Time, p \in Provider : row[e][p] \in Delivery /\ Tried(e, p) \in Nat /\ sends[e][p] \in Nat
<1>1. nFaults \in Nat /\ nLost \in Nat /\ nLost <= nFaults /\ nFaults <= MaxDispatcherFaults
  BY NotificationsLimits DEF DispatchInv, FaultsCounted
<1>2. nLock \subseteq Dispatcher /\ Cardinality(nLock) = (IF nLock = {} THEN 0 ELSE 1)
        /\ \A c, d \in nLock : c = d
  BY FS_EmptySet, FS_Singleton DEF DispatchInv, LockHolder
<1>3. Cardinality(Dispatching) \in Nat
  BY NotificationsLimits, FS_Subset, FS_CardinalityType DEF Dispatching
<1>4. \A d \in Dispatcher : TickSound(nTick[d])
  BY DEF DispatchInv, TicksSound
<1>5. \A e \in Time, p \in Provider : row[e][p] \in Delivery /\ Tried(e, p) \in Nat /\ sends[e][p] \in Nat
  BY DEF DispatchInv, RowsTyped, Tried, Delivery
<1> QED
  BY <1>1, <1>2, <1>3, <1>4, <1>5

LEMMA CountsAreNat ==
    ASSUME NEW e, NEW p
    PROVE  Cardinality(Holding(e, p)) \in Nat /\ Cardinality(Waiting(e, p)) \in Nat
<1>1. Holding(e, p) \subseteq Dispatcher /\ Waiting(e, p) \subseteq Dispatcher
  BY DEF Holding, Waiting
<1> QED
  BY <1>1, NotificationsLimits, FS_Subset, FS_CardinalityType

\* A tick goes on, ends and unlocks, or takes the free lock.
Advances(d, t) ==
    \/ nTick[d].at # "idle" /\ t.at # "idle" /\ nLock' = nLock
    \/ nTick[d].at # "idle" /\ t.at = "idle" /\ nLock' = nLock \ {d}
    \/ nTick[d].at = "idle" /\ t.at # "idle" /\ nLock = {} /\ nLock' = {d}

LEMMA AdvancesFew ==
    ASSUME DispatchInv, NEW d \in Dispatcher, NEW t, TickSound(t), nTick' = [nTick EXCEPT ![d] = t],
           Advances(d, t), nLost' = nLost
    PROVE  DispatchersFew' /\ LockHolder'
<1>1. PICK n \in Nat : /\ Cardinality(Dispatching) = n + (IF nTick[d].at # "idle" THEN 1 ELSE 0)
                       /\ Cardinality(Dispatching') = n + (IF t.at # "idle" THEN 1 ELSE 0)
  BY DispatchingMoves
<1>2. Cardinality(Dispatching) <= Cardinality(nLock) + nLost
  BY DEF DispatchInv, DispatchersFew
<1>3. CASE nTick[d].at # "idle" /\ t.at # "idle" /\ nLock' = nLock
  <2>1. Cardinality(Dispatching') = Cardinality(Dispatching)
    BY <1>1, <1>3
  <2> QED
    BY <1>2, <1>3, <2>1 DEF DispatchersFew, LockHolder, DispatchInv
<1>4. CASE nTick[d].at # "idle" /\ t.at = "idle" /\ nLock' = nLock \ {d}
  <2>1. Cardinality(Dispatching) = n + 1 /\ Cardinality(Dispatching') = n
    BY <1>1, <1>4
  <2>2. nLock' = {} \/ nLock' = nLock
    BY <1>4, DispatchFacts
  <2>3. LockHolder'
    BY <2>2 DEF LockHolder, DispatchInv
  <2>4. Cardinality(nLock') = (IF nLock' = {} THEN 0 ELSE 1)
    BY <2>2, DispatchFacts, FS_EmptySet
  <2>5. Cardinality(nLock') \in Nat /\ Cardinality(nLock) <= Cardinality(nLock') + 1
    BY <2>4, DispatchFacts
  <2>6. n <= Cardinality(nLock') + nLost
    BY <1>2, <2>1, <2>5, DispatchFacts
  <2> QED
    BY <2>1, <2>3, <2>6 DEF DispatchersFew
<1>5. CASE nTick[d].at = "idle" /\ t.at # "idle" /\ nLock = {} /\ nLock' = {d}
  <2>1. Cardinality(Dispatching) = n /\ Cardinality(Dispatching') = n + 1
    BY <1>1, <1>5
  <2>2. Cardinality(nLock) = 0 /\ Cardinality(nLock') = 1
    BY <1>5, FS_EmptySet, FS_Singleton
  <2> QED
    BY <1>2, <1>5, <2>1, <2>2, DispatchFacts DEF DispatchersFew, LockHolder
<1> QED
  BY <1>3, <1>4, <1>5 DEF Advances

LEMMA AdvancesPending ==
    ASSUME DispatchInv, NEW d \in Dispatcher, NEW t, TickSound(t), nTick' = [nTick EXCEPT ![d] = t],
           Advances(d, t), nLost' = nLost,
           nLost = 0 => \A e \in Time, p \in Provider : Before(t, e, p) => row'[e][p].status = "pending"
    PROVE  OnlyPending'
<1>1. nTick'[d] = t /\ \A q \in Dispatcher : q # d => nTick'[q] = nTick[q]
  BY DispatcherMoves
<1>2. SUFFICES ASSUME nLost = 0, NEW q \in Dispatcher, nTick'[q].at # "idle"
               PROVE  /\ q \in nLock'
                      /\ \A e \in Time, p \in Provider : Before(nTick'[q], e, p) => row'[e][p].status = "pending"
  BY DEF OnlyPending, Before
<1>3. \A c \in Dispatcher : nTick[c].at # "idle" => c \in nLock
  BY <1>2 DEF OnlyPending, DispatchInv
<1>4. q = d
  <2>1. CASE q # d
    <3>1. q \in nLock
      BY <1>1, <1>2, <1>3, <2>1
    <3>2. d \in nLock
      BY <1>3, <3>1 DEF Advances
    <3> QED
      BY <2>1, <3>1, <3>2, DispatchFacts
  <2> QED
    BY <2>1
<1>5. t.at # "idle"
  BY <1>1, <1>2, <1>4
<1>6. q \in nLock'
  BY <1>3, <1>4, <1>5 DEF Advances
<1> QED
  BY <1>1, <1>2, <1>4, <1>6

\* A delivery that was not attempted in this step and does not come before the tick.
LEMMA LeftKept ==
    ASSUME DispatchInv, NEW d \in Dispatcher, NEW t, TickSound(t), nTick' = [nTick EXCEPT ![d] = t],
           NEW e \in Time, NEW p \in Provider,
           Before(t, e, p) => Before(nTick[d], e, p), Tried(e, p)' = Tried(e, p), nLost' = nLost
    PROVE  Tried(e, p)' + Cardinality(Holding(e, p)') <= MaxAttempts + nLost'
<1>1. PICK n \in Nat : /\ Cardinality(Holding(e, p)) = n + (IF Before(nTick[d], e, p) THEN 1 ELSE 0)
                       /\ Cardinality(Holding(e, p)') = n + (IF Before(t, e, p) THEN 1 ELSE 0)
  BY HoldingMoves
<1>2. Tried(e, p) + Cardinality(Holding(e, p)) <= MaxAttempts + nLost
  BY DEF DispatchInv, AttemptsLeft
<1>3. Cardinality(Holding(e, p)') <= Cardinality(Holding(e, p)) /\ Cardinality(Holding(e, p)') \in Nat
        /\ Cardinality(Holding(e, p)) \in Nat
  BY <1>1
<1> QED
  BY <1>2, <1>3, DispatchFacts, NotificationsLimits

\* A delivery that was neither called nor recorded, by a tick that still waits if it did.
LEMMA CallsKept ==
    ASSUME DispatchInv, NEW d \in Dispatcher, NEW t, TickSound(t), nTick' = [nTick EXCEPT ![d] = t],
           NEW e \in Time, NEW p \in Provider,
           Calling(nTick[d], e, p) => Calling(t, e, p), Tried(e, p)' = Tried(e, p),
           sends'[e][p] = sends[e][p], nFaults' = nFaults
    PROVE  sends'[e][p] <= Tried(e, p)' + Cardinality(Waiting(e, p)') + nFaults'
<1>1. PICK n \in Nat : /\ Cardinality(Waiting(e, p)) = n + (IF Calling(nTick[d], e, p) THEN 1 ELSE 0)
                       /\ Cardinality(Waiting(e, p)') = n + (IF Calling(t, e, p) THEN 1 ELSE 0)
  BY WaitingMoves
<1>2. sends[e][p] <= Tried(e, p) + Cardinality(Waiting(e, p)) + nFaults
  BY InFlightIs DEF DispatchInv, SendsRecorded, Tried
<1>3. Cardinality(Waiting(e, p)) <= Cardinality(Waiting(e, p)') /\ Cardinality(Waiting(e, p)') \in Nat
        /\ Cardinality(Waiting(e, p)) \in Nat
  BY <1>1
<1> QED
  BY <1>2, <1>3, DispatchFacts

LEMMA InFlightNext ==
    ASSUME \A e \in Time, p \in Provider :
             sends'[e][p] <= Tried(e, p)' + Cardinality(Waiting(e, p)') + nFaults'
    PROVE  SendsRecorded'
<1>1. ASSUME NEW e, NEW p PROVE InFlight(e, p)' = Cardinality(Waiting(e, p)')
  BY CurrentIs DEF InFlight, Waiting, Calling, CurrentProvider, Latest
<1> QED
  BY <1>1 DEF SendsRecorded, Tried

\* A tick that has no delivery before it afterwards and waits for no answer now.
LEMMA DispatchQuiet ==
    ASSUME DispatchInv, NEW d \in Dispatcher, NEW t, TickSound(t), nTick' = [nTick EXCEPT ![d] = t],
           Advances(d, t), t.at \notin {"send", "record"}, nTick[d].at # "record",
           \A e \in Time, p \in Provider : Tried(e, p)' = Tried(e, p),
           RowsTyped', UNCHANGED <<sends, nFaults, nLost>>
    PROVE  DispatchInv'
<1>1. TicksSound'
  BY DispatcherMoves
<1>2. DispatchersFew' /\ LockHolder'
  BY AdvancesFew
<1>3. \A e, p : ~Before(t, e, p) /\ ~Calling(nTick[d], e, p)
  BY DEF Before, Calling
<1>4. OnlyPending'
  BY <1>3, AdvancesPending
<1>5. AttemptsLeft'
  <2>1. ASSUME NEW e \in Time, NEW p \in Provider
        PROVE  Tried(e, p)' + Cardinality(Holding(e, p)') <= MaxAttempts + nLost'
    BY <1>3, LeftKept
  <2> QED
    BY <2>1 DEF AttemptsLeft
<1>6. SendsRecorded'
  <2>1. ASSUME NEW e \in Time, NEW p \in Provider
        PROVE  sends'[e][p] <= Tried(e, p)' + Cardinality(Waiting(e, p)') + nFaults'
    BY <1>3, CallsKept
  <2> QED
    BY <2>1, InFlightNext
<1>7. FaultsCounted'
  BY DEF FaultsCounted, DispatchInv
<1> QED
  BY <1>1, <1>2, <1>4, <1>5, <1>6, <1>7 DEF DispatchInv

LEMMA IdleTick == TickSound(NoTick) /\ NoTick.at = "idle"
BY DEF TickSound, NoTick, DispatchTick

\* A tick at the first provider of a list.
LEMMA FreshTick ==
    ASSUME NEW todo \in SUBSET Item, todo # {}
    PROVE  LET t == [NoTick EXCEPT !.at = "provider", !.todo = todo]
           IN  TickSound(t) /\ t.at = "provider" /\ t.todo = todo
BY DEF TickSound, NoTick, DispatchTick

LEMMA DispatchStartInv ==
    ASSUME NotificationsInv, NEW d \in Dispatcher, DispatchStart(d)
    PROVE  NotificationsInv'
<1> DEFINE todo == {[id |-> p, object |-> provider[p]] :
                      p \in {q \in Provider : provider[q].there /\ provider[q].enabled}}
           t == [NoTick EXCEPT !.at = "provider", !.todo = todo]
<1>1. /\ nTick[d].at = "idle" /\ nLock = {} /\ todo # {} /\ nTick' = [nTick EXCEPT ![d] = t] /\ nLock' = {d}
      /\ UNCHANGED <<eventVars, adminVars, row, sends, nFaults, nLost>>
  BY DEF DispatchStart
<1>2. todo \in SUBSET Item
  BY DEF Item, NotificationsInv, ObjectsTyped
<1> HIDE DEF todo
<1>3. TickSound(t) /\ t.at = "provider"
  BY <1>1, <1>2, FreshTick
<1> HIDE DEF t
<1>4. Advances(d, t)
  BY <1>1, <1>3 DEF Advances
<1>5. RowsTyped' /\ \A e \in Time, p \in Provider : Tried(e, p)' = Tried(e, p)
  BY <1>1 DEF NotificationsInv, DispatchInv, RowsTyped, Tried
<1>6. DispatchInv'
  BY <1>1, <1>3, <1>4, <1>5, DispatchQuiet DEF NotificationsInv
<1>7. ObjectsTyped'
  BY <1>1 DEF NotificationsInv, ObjectsTyped, eventVars, adminVars
<1> QED
  BY <1>6, <1>7 DEF NotificationsInv

\* The INSERT adds rows without attempts and changes none.
LEMMA InsertedRows ==
    ASSUME DispatchInv, NEW o \in Item, row' = Inserted(o), sends' = sends
    PROVE  /\ RowsTyped'
           /\ \A e \in Time, p \in Provider : Tried(e, p)' = Tried(e, p)
           /\ \A e \in Time, p \in Provider : row[e][p].status = "pending" => row'[e][p].status = "pending"
<1> DEFINE new == [status |-> "pending", attempts |-> 0, due |-> TRUE]
<1>1. row \in [Time -> [Provider -> Delivery]] /\ sends \in [Time -> [Provider -> Nat]] /\ o.id \in Provider
  BY DEF DispatchInv, RowsTyped, Item
<1>2. new \in Delivery /\ NoRow.attempts = 0 /\ new.attempts = 0 /\ new.status = "pending"
  BY DEF Delivery, NoRow
<1>3. row' = [e \in Time |-> [row[e] EXCEPT ![o.id] =
                                IF e \in Wanted(o) /\ row[e][o.id] = NoRow THEN new ELSE row[e][o.id]]]
  BY DEF Inserted
<1> HIDE DEF new
<1>4. ASSUME NEW e \in Time, NEW p \in Provider
      PROVE  row'[e] \in [Provider -> Delivery]
             /\ (row'[e][p] = row[e][p] \/ (row[e][p] = NoRow /\ row'[e][p] = new))
  BY <1>1, <1>2, <1>3
<1>5. row' \in [Time -> [Provider -> Delivery]]
  BY <1>1, <1>3, <1>4, NotificationsLimits
<1>6. RowsTyped'
  BY <1>1, <1>5 DEF RowsTyped
<1> QED
  BY <1>2, <1>4, <1>6 DEF Tried

\* Proceed moves the tick to the rest of the list, or ends it.
LEMMA ProceedMoves ==
    ASSUME DispatchInv, NEW d \in Dispatcher, nTick[d].at # "idle", NEW todo \in SUBSET Item, Proceed(d, todo)
    PROVE  \E t : TickSound(t) /\ nTick' = [nTick EXCEPT ![d] = t] /\ Advances(d, t)
                  /\ t.at \notin {"send", "record"}
<1>1. CASE todo = {}
  BY <1>1, IdleTick DEF Proceed, Advances
<1>2. CASE todo # {}
  <2> DEFINE t == [NoTick EXCEPT !.at = "provider", !.todo = todo]
  <2>1. TickSound(t) /\ t.at = "provider"
    BY <1>2, FreshTick
  <2>2. nTick' = [nTick EXCEPT ![d] = t] /\ nLock' = nLock
    BY <1>2 DEF Proceed
  <2> HIDE DEF t
  <2>3. Advances(d, t)
    BY <2>1, <2>2 DEF Advances
  <2> QED
    BY <2>1, <2>2, <2>3
<1> QED
  BY <1>1, <1>2

\* The provider at which a tick is.
LEMMA AtProvider ==
    ASSUME DispatchInv, NEW d \in Dispatcher, nTick[d].at # "idle"
    PROVE  /\ CurrentProvider(d) = Latest(nTick[d].todo) /\ CurrentProvider(d) \in Item
           /\ CurrentProvider(d).id \in Provider /\ nTick[d].todo \ {CurrentProvider(d)} \in SUBSET Item
           /\ nTick[d].todo \in SUBSET Item /\ nTick[d].todo # {} /\ nTick[d].items \in SUBSET Time
<1>1. TickSound(nTick[d])
  BY DispatchFacts
<1>2. nTick[d].todo \in SUBSET Item /\ nTick[d].todo # {} /\ nTick[d].items \in SUBSET Time
  BY <1>1 DEF TickSound, DispatchTick
<1>3. Latest(nTick[d].todo) \in nTick[d].todo /\ Latest(nTick[d].todo).id \in Provider
  BY <1>2, LatestMember
<1> QED
  BY <1>2, <1>3, CurrentIs

\* Deliveries that are due have attempts left, also beside every tick that holds them.
LEMMA PrepareInv ==
    ASSUME NotificationsInv, NEW d \in Dispatcher, Prepare(d)
    PROVE  NotificationsInv'
<1> DEFINE o == CurrentProvider(d)
           due == {e \in Time : Due(Inserted(o)[e][o.id])}
           items == {e \in due : Cardinality({f \in due : f < e}) < SendLimit}
<1>1. /\ nTick[d].at = "provider" /\ row' = Inserted(o)
      /\ UNCHANGED <<eventVars, adminVars, sends, nFaults, nLost>>
      /\ \/ nTick' = [nTick EXCEPT ![d] = NoTick] /\ nLock' = nLock \ {d}
         \/ Proceed(d, nTick[d].todo \ {o})
         \/ items # {} /\ nTick' = [nTick EXCEPT ![d].at = "send", ![d].items = items] /\ nLock' = nLock
  BY DEF Prepare
<1>2. DispatchInv
  BY DEF NotificationsInv
<1>3. o = Latest(nTick[d].todo) /\ o \in Item /\ o.id \in Provider /\ nTick[d].todo \ {o} \in SUBSET Item
        /\ nTick[d].todo # {}
  BY <1>1, <1>2, AtProvider
<1>4. items \in SUBSET Time /\ \A e \in items : Due(row'[e][o.id])
  BY <1>1
<1> HIDE DEF due, items, o
<1>5. /\ RowsTyped'
      /\ \A e \in Time, p \in Provider : Tried(e, p)' = Tried(e, p)
      /\ \A e \in Time, p \in Provider : row[e][p].status = "pending" => row'[e][p].status = "pending"
  BY <1>1, <1>2, <1>3, InsertedRows
<1>6. ObjectsTyped'
  BY <1>1 DEF NotificationsInv, ObjectsTyped, eventVars, adminVars
<1>7. CASE nTick' = [nTick EXCEPT ![d] = NoTick] /\ nLock' = nLock \ {d}
  <2>1. Advances(d, NoTick)
    BY <1>1, <1>7, IdleTick DEF Advances
  <2> QED
    BY <1>1, <1>2, <1>5, <1>6, <1>7, <2>1, IdleTick, DispatchQuiet DEF NotificationsInv
<1>8. CASE Proceed(d, nTick[d].todo \ {o})
  <2>1. PICK t : TickSound(t) /\ nTick' = [nTick EXCEPT ![d] = t] /\ Advances(d, t)
                  /\ t.at \notin {"send", "record"}
    BY <1>1, <1>2, <1>3, <1>8, ProceedMoves
  <2> QED
    BY <1>1, <1>2, <1>5, <1>6, <2>1, DispatchQuiet DEF NotificationsInv
<1>9. CASE items # {} /\ nTick' = [nTick EXCEPT ![d].at = "send", ![d].items = items] /\ nLock' = nLock
  <2> DEFINE t == [nTick[d] EXCEPT !.at = "send", !.items = items]
  <2>1. nTick \in [Dispatcher -> DispatchTick] /\ nTick[d] \in DispatchTick
    BY <1>2 DEF DispatchInv, TicksSound
  <2>2. nTick' = [nTick EXCEPT ![d] = t]
    BY <1>9, <2>1
  <2>3. t \in DispatchTick /\ t.at = "send" /\ t.items = items /\ t.todo = nTick[d].todo
    BY <1>4, <2>1 DEF DispatchTick
  <2> HIDE DEF t
  <2>4. TickSound(t) /\ Advances(d, t)
    BY <1>1, <1>3, <1>9, <2>3 DEF TickSound, Advances
  <2>5. TicksSound' /\ DispatchersFew' /\ LockHolder'
    BY <1>1, <1>2, <2>2, <2>4, DispatcherMoves, AdvancesFew
  <2>6. \A e, p : /\ ~Before(nTick[d], e, p) /\ ~Calling(nTick[d], e, p) /\ ~Calling(t, e, p)
                  /\ (Before(t, e, p) <=> e \in items /\ p = o.id)
    BY <1>1, <1>3, <2>3 DEF Before, Calling
  <2>7. OnlyPending'
    <3>1. \A e \in Time, p \in Provider : Before(t, e, p) => row'[e][p].status = "pending"
      BY <1>4, <2>6 DEF Due
    <3> QED
      BY <1>1, <1>2, <2>2, <2>4, <3>1, AdvancesPending
  <2>8. AttemptsLeft'
    <3>1. ASSUME NEW e \in Time, NEW p \in Provider
          PROVE  Tried(e, p)' + Cardinality(Holding(e, p)') <= MaxAttempts + nLost'
      <4>1. CASE ~Before(t, e, p)
        BY <1>1, <1>2, <1>5, <2>2, <2>4, <4>1, LeftKept
      <4>2. CASE Before(t, e, p)
        <5>1. Tried(e, p)' < MaxAttempts /\ Tried(e, p)' \in Nat
          <6>1. Tried(e, p)' \in Nat
            BY <1>2, <1>5, DispatchFacts
          <6> QED
            BY <1>4, <2>6, <4>2, <6>1 DEF Due, Tried
        <5>2. Holding(e, p)' \subseteq Dispatching' /\ IsFiniteSet(Dispatching')
          <6>1. Dispatching' \subseteq Dispatcher
            BY DEF Dispatching
          <6>2. IsFiniteSet(Dispatching')
            BY <6>1, NotificationsLimits, FS_Subset
          <6> QED
            BY <6>2 DEF Holding, Dispatching, Before
        <5>3. Cardinality(Holding(e, p)') \in Nat /\ Cardinality(Dispatching') \in Nat
                /\ Cardinality(Holding(e, p)') <= Cardinality(Dispatching')
          BY <5>2, FS_Subset, FS_CardinalityType
        <5>4. Cardinality(Dispatching') <= Cardinality(nLock') + nLost'
          BY <2>5 DEF DispatchersFew
        <5>5. Cardinality(nLock') <= 1 /\ Cardinality(nLock') \in Nat /\ nLost' \in Nat
          BY <1>1, <1>2, <1>9, DispatchFacts
        <5> QED
          BY <5>1, <5>3, <5>4, <5>5, NotificationsLimits
      <4> QED
        BY <4>1, <4>2
    <3> QED
      BY <3>1 DEF AttemptsLeft
  <2>9. SendsRecorded'
    <3>1. ASSUME NEW e \in Time, NEW p \in Provider
          PROVE  sends'[e][p] <= Tried(e, p)' + Cardinality(Waiting(e, p)') + nFaults'
      BY <1>1, <1>2, <1>5, <2>2, <2>4, <2>6, CallsKept
    <3> QED
      BY <3>1, InFlightNext
  <2>10. FaultsCounted'
    BY <1>1, <1>2 DEF FaultsCounted, DispatchInv
  <2> QED
    BY <1>5, <1>6, <2>5, <2>7, <2>8, <2>9, <2>10 DEF NotificationsInv, DispatchInv
<1> QED
  BY <1>1, <1>7, <1>8, <1>9

\* A tick that is done with a delivery, that has called it, or that no longer waits.
LEMMA HoldingEnds ==
    ASSUME DispatchInv, NEW d \in Dispatcher, NEW t, TickSound(t), nTick' = [nTick EXCEPT ![d] = t],
           NEW e, NEW p, Before(nTick[d], e, p), ~Before(t, e, p)
    PROVE  Cardinality(Holding(e, p)) = Cardinality(Holding(e, p)') + 1 /\ Cardinality(Holding(e, p)') \in Nat
<1>1. PICK n \in Nat : /\ Cardinality(Holding(e, p)) = n + (IF Before(nTick[d], e, p) THEN 1 ELSE 0)
                       /\ Cardinality(Holding(e, p)') = n + (IF Before(t, e, p) THEN 1 ELSE 0)
  BY HoldingMoves
<1> QED
  BY <1>1

LEMMA WaitingBegins ==
    ASSUME DispatchInv, NEW d \in Dispatcher, NEW t, TickSound(t), nTick' = [nTick EXCEPT ![d] = t],
           NEW e, NEW p, ~Calling(nTick[d], e, p), Calling(t, e, p)
    PROVE  Cardinality(Waiting(e, p)') = Cardinality(Waiting(e, p)) + 1 /\ Cardinality(Waiting(e, p)) \in Nat
<1>1. PICK n \in Nat : /\ Cardinality(Waiting(e, p)) = n + (IF Calling(nTick[d], e, p) THEN 1 ELSE 0)
                       /\ Cardinality(Waiting(e, p)') = n + (IF Calling(t, e, p) THEN 1 ELSE 0)
  BY WaitingMoves
<1> QED
  BY <1>1

LEMMA WaitingEnds ==
    ASSUME DispatchInv, NEW d \in Dispatcher, NEW t, TickSound(t), nTick' = [nTick EXCEPT ![d] = t],
           NEW e, NEW p, ~Calling(t, e, p)
    PROVE  /\ Cardinality(Waiting(e, p)) <= Cardinality(Waiting(e, p)') + 1
           /\ Cardinality(Waiting(e, p)') \in Nat /\ Cardinality(Waiting(e, p)) \in Nat
<1>1. nTick'[d] = t /\ \A q \in Dispatcher : q # d => nTick'[q] = nTick[q]
  BY DispatcherMoves
<1> DEFINE A == {q \in Dispatcher : Calling(nTick[q], e, p)}
           B == {q \in Dispatcher : Calling(nTick'[q], e, p)}
<1>2. IsFiniteSet(A) /\ IsFiniteSet(B)
  BY NotificationsLimits, FS_Subset
<1>3. A \subseteq B \cup {d}
  BY <1>1
<1>4. Waiting(e, p) = A /\ Waiting(e, p)' = B
  BY DEF Waiting, Calling
<1> HIDE DEF A, B
<1>5. Cardinality(A) \in Nat /\ Cardinality(A) <= Cardinality(B) + 1 /\ Cardinality(B) \in Nat
  BY <1>2, <1>3, CardinalityGrows, FS_CardinalityType
<1> QED
  BY <1>4, <1>5

\* A call: the tick waits for its answer.
LEMMA SendInv ==
    ASSUME NotificationsInv, NEW d \in Dispatcher, Send(d)
    PROVE  NotificationsInv'
<1>1. DispatchInv
  BY DEF NotificationsInv
<1>2. nTick[d].at = "send" /\ UNCHANGED <<eventVars, adminVars, row, nLock, nFaults, nLost>>
  BY DEF Send
<1>3. PICK outcome \in {"sent", "pending"} : nTick' = [nTick EXCEPT ![d].at = "record", ![d].outcome = outcome]
  BY DEF Send
<1>4. PICK m, o : m = Min(nTick[d].items) /\ o = Latest(nTick[d].todo)
  OBVIOUS
<1>5. TickSound(nTick[d]) /\ nTick[d] \in DispatchTick /\ nTick \in [Dispatcher -> DispatchTick]
        /\ nTick[d].items # {}
  BY <1>1, <1>2 DEF DispatchInv, TicksSound, TickSound
<1>6. m \in Time /\ m \in nTick[d].items
  BY <1>4, <1>5, MinMember DEF DispatchTick
<1>7. o.id \in Provider /\ nTick[d].todo # {}
  BY <1>1, <1>2, <1>4, AtProvider
<1>8. sends' = [sends EXCEPT ![m][o.id] = sends[m][o.id] + 1] /\ sends \in [Time -> [Provider -> Nat]]
  BY <1>1, <1>4, CurrentIs DEF Send, DispatchInv, RowsTyped
<1>9. /\ sends' \in [Time -> [Provider -> Nat]]
      /\ \A e \in Time, p \in Provider :
           sends'[e][p] = IF e = m /\ p = o.id THEN sends[e][p] + 1 ELSE sends[e][p]
  BY <1>6, <1>7, <1>8
<1> DEFINE t == [nTick[d] EXCEPT !.at = "record", !.outcome = outcome]
<1>10. nTick' = [nTick EXCEPT ![d] = t]
  BY <1>3, <1>5
<1>11. t \in DispatchTick /\ t.at = "record" /\ t.items = nTick[d].items /\ t.todo = nTick[d].todo
  BY <1>5 DEF DispatchTick
<1> HIDE DEF t
<1>12. TickSound(t) /\ Advances(d, t)
  BY <1>2, <1>5, <1>7, <1>11 DEF TickSound, Advances
<1>13. TicksSound' /\ DispatchersFew' /\ LockHolder'
  BY <1>1, <1>2, <1>10, <1>12, DispatcherMoves, AdvancesFew
<1>14. \A e, p : /\ Before(t, e, p) <=> Before(nTick[d], e, p)
                 /\ ~Calling(nTick[d], e, p)
                 /\ Calling(t, e, p) <=> (e = m /\ p = o.id)
  BY <1>2, <1>4, <1>11 DEF Before, Calling
<1>15. RowsTyped' /\ \A e \in Time, p \in Provider : Tried(e, p)' = Tried(e, p)
  BY <1>1, <1>2, <1>9 DEF DispatchInv, RowsTyped, Tried
<1>16. OnlyPending'
  <2>1. nLost = 0 => \A e \in Time, p \in Provider : Before(t, e, p) => row'[e][p].status = "pending"
    BY <1>1, <1>2, <1>14 DEF OnlyPending, DispatchInv
  <2> QED
    BY <1>1, <1>2, <1>10, <1>12, <2>1, AdvancesPending
<1>17. AttemptsLeft'
  <2>1. ASSUME NEW e \in Time, NEW p \in Provider
        PROVE  Tried(e, p)' + Cardinality(Holding(e, p)') <= MaxAttempts + nLost'
    BY <1>1, <1>2, <1>10, <1>12, <1>14, <1>15, LeftKept
  <2> QED
    BY <2>1 DEF AttemptsLeft
<1>18. SendsRecorded'
  <2>1. ASSUME NEW e \in Time, NEW p \in Provider
        PROVE  sends'[e][p] <= Tried(e, p)' + Cardinality(Waiting(e, p)') + nFaults'
    <3>1. CASE ~(e = m /\ p = o.id)
      <4>1. sends'[e][p] = sends[e][p]
        BY <1>9, <3>1
      <4> QED
        BY <1>1, <1>2, <1>10, <1>12, <1>14, <1>15, <4>1, CallsKept
    <3>2. CASE e = m /\ p = o.id
      <4>1. ~Calling(nTick[d], e, p) /\ Calling(t, e, p)
        BY <1>14, <3>2
      <4>2. Cardinality(Waiting(e, p)') = Cardinality(Waiting(e, p)) + 1 /\ Cardinality(Waiting(e, p)) \in Nat
        BY <1>1, <1>10, <1>12, <4>1, WaitingBegins
      <4>3. sends'[e][p] = sends[e][p] + 1
        BY <1>9, <3>2
      <4>4. sends[e][p] <= Tried(e, p) + Cardinality(Waiting(e, p)) + nFaults
        BY <1>1, InFlightIs DEF DispatchInv, SendsRecorded, Tried
      <4>5. Tried(e, p) \in Nat /\ sends[e][p] \in Nat /\ nFaults \in Nat
        BY <1>1, DispatchFacts
      <4> QED
        BY <1>2, <1>15, <4>2, <4>3, <4>4, <4>5
    <3> QED
      BY <3>1, <3>2
  <2> QED
    BY <2>1, InFlightNext
<1>19. FaultsCounted' /\ ObjectsTyped'
  BY <1>1, <1>2 DEF FaultsCounted, DispatchInv, NotificationsInv, ObjectsTyped, eventVars, adminVars
<1> QED
  BY <1>13, <1>15, <1>16, <1>17, <1>18, <1>19 DEF NotificationsInv, DispatchInv

\* The record of an attempt: the delivery is no longer before the tick.
LEMMA RecordAttemptInv ==
    ASSUME NotificationsInv, NEW d \in Dispatcher, RecordAttempt(d)
    PROVE  NotificationsInv'
<1>1. DispatchInv
  BY DEF NotificationsInv
<1>2. nTick[d].at = "record" /\ UNCHANGED <<eventVars, adminVars, sends, nFaults, nLost>>
  BY DEF RecordAttempt
<1>3. PICK m, o : m = Min(nTick[d].items) /\ o = CurrentProvider(d)
  OBVIOUS
<1>4. TickSound(nTick[d]) /\ nTick[d] \in DispatchTick /\ nTick \in [Dispatcher -> DispatchTick]
        /\ nTick[d].items # {} /\ nTick[d].outcome \in {"sent", "pending"}
  BY <1>1, <1>2 DEF DispatchInv, TicksSound, TickSound, DispatchTick
<1>5. m \in Time /\ m \in nTick[d].items
  BY <1>3, <1>4, MinMember DEF DispatchTick
<1>6. o = Latest(nTick[d].todo) /\ o.id \in Provider /\ nTick[d].todo # {} /\ nTick[d].todo \ {o} \in SUBSET Item
  BY <1>1, <1>2, <1>3, AtProvider
<1>7. row' = [row EXCEPT ![m][o.id] = Attempted(row[m][o.id], nTick[d].outcome)]
        /\ row \in [Time -> [Provider -> Delivery]]
  BY <1>1, <1>3 DEF RecordAttempt, DispatchInv, RowsTyped
<1>8. PICK r : r = Attempted(row[m][o.id], nTick[d].outcome)
  OBVIOUS
<1>9. r \in Delivery /\ r.attempts = row[m][o.id].attempts + 1
  <2>1. row[m][o.id] \in Delivery
    BY <1>5, <1>6, <1>7
  <2> QED
    BY <1>4, <1>8, <2>1 DEF Attempted, Delivery
<1>10. /\ row' \in [Time -> [Provider -> Delivery]]
       /\ \A e \in Time, p \in Provider : row'[e][p] = IF e = m /\ p = o.id THEN r ELSE row[e][p]
  BY <1>5, <1>6, <1>7, <1>8, <1>9
<1>11. PICK t : /\ TickSound(t) /\ nTick' = [nTick EXCEPT ![d] = t] /\ Advances(d, t) /\ t.at # "record"
                /\ \/ t.at \notin {"send", "record"}
                   \/ t.items = nTick[d].items \ {m} /\ t.todo = nTick[d].todo
  <2>1. CASE nTick[d].items # {m} /\ nTick' = [nTick EXCEPT ![d].at = "send", ![d].items = nTick[d].items \ {m}]
               /\ nLock' = nLock
    <3> DEFINE t == [nTick[d] EXCEPT !.at = "send", !.items = nTick[d].items \ {m}]
    <3>1. nTick' = [nTick EXCEPT ![d] = t]
      BY <1>4, <2>1
    <3>2. t \in DispatchTick /\ t.at = "send" /\ t.items = nTick[d].items \ {m} /\ t.todo = nTick[d].todo
      BY <1>4 DEF DispatchTick
    <3> HIDE DEF t
    <3>3. t.items # {}
      BY <1>5, <2>1, <3>2
    <3>4. TickSound(t) /\ Advances(d, t)
      BY <1>2, <1>6, <2>1, <3>2, <3>3 DEF TickSound, Advances
    <3> QED
      BY <3>1, <3>2, <3>4
  <2>2. CASE Proceed(d, nTick[d].todo \ {o})
    BY <1>1, <1>2, <1>6, <2>2, ProceedMoves
  <2> QED
    BY <1>3, <2>1, <2>2 DEF RecordAttempt
<1>12. TicksSound' /\ DispatchersFew' /\ LockHolder'
  BY <1>1, <1>2, <1>11, DispatcherMoves, AdvancesFew
<1>13. \A e, p : /\ Before(t, e, p) => Before(nTick[d], e, p) /\ ~(e = m /\ p = o.id)
                 /\ Calling(nTick[d], e, p) <=> (e = m /\ p = o.id)
                 /\ ~Calling(t, e, p)
  BY <1>2, <1>3, <1>6, <1>11 DEF Before, Calling
<1>14. Before(nTick[d], m, o.id)
  BY <1>2, <1>5, <1>6 DEF Before
<1>15. RowsTyped'
  BY <1>1, <1>2, <1>10 DEF DispatchInv, RowsTyped
<1>16. \A e \in Time, p \in Provider : Tried(e, p)' = IF e = m /\ p = o.id THEN Tried(e, p) + 1 ELSE Tried(e, p)
  BY <1>9, <1>10 DEF Tried
<1>17. OnlyPending'
  <2>1. nLost = 0 => \A e \in Time, p \in Provider : Before(t, e, p) => row'[e][p].status = "pending"
    BY <1>1, <1>2, <1>10, <1>13 DEF OnlyPending, DispatchInv
  <2> QED
    BY <1>1, <1>2, <1>11, <2>1, AdvancesPending
<1>18. AttemptsLeft'
  <2>1. ASSUME NEW e \in Time, NEW p \in Provider
        PROVE  Tried(e, p)' + Cardinality(Holding(e, p)') <= MaxAttempts + nLost'
    <3>1. CASE ~(e = m /\ p = o.id)
      <4>1. Tried(e, p)' = Tried(e, p)
        BY <1>16, <3>1
      <4> QED
        BY <1>1, <1>2, <1>11, <1>13, <4>1, LeftKept
    <3>2. CASE e = m /\ p = o.id
      <4>1. Before(nTick[d], e, p) /\ ~Before(t, e, p)
        BY <1>13, <1>14, <3>2
      <4>2. Cardinality(Holding(e, p)) = Cardinality(Holding(e, p)') + 1 /\ Cardinality(Holding(e, p)') \in Nat
        BY <1>1, <1>11, <4>1, HoldingEnds
      <4>3. Tried(e, p)' = Tried(e, p) + 1
        BY <1>16, <3>2
      <4>4. Tried(e, p) + Cardinality(Holding(e, p)) <= MaxAttempts + nLost
        BY <1>1 DEF DispatchInv, AttemptsLeft
      <4>5. Tried(e, p) \in Nat /\ nLost \in Nat
        BY <1>1, DispatchFacts
      <4> QED
        BY <1>2, <4>2, <4>3, <4>4, <4>5, NotificationsLimits
    <3> QED
      BY <3>1, <3>2
  <2> QED
    BY <2>1 DEF AttemptsLeft
<1>19. SendsRecorded'
  <2>1. ASSUME NEW e \in Time, NEW p \in Provider
        PROVE  sends'[e][p] <= Tried(e, p)' + Cardinality(Waiting(e, p)') + nFaults'
    <3>1. CASE ~(e = m /\ p = o.id)
      <4>1. Tried(e, p)' = Tried(e, p) /\ ~Calling(nTick[d], e, p) /\ sends'[e][p] = sends[e][p]
        BY <1>2, <1>13, <1>16, <3>1
      <4> QED
        BY <1>1, <1>2, <1>11, <4>1, CallsKept
    <3>2. CASE e = m /\ p = o.id
      <4>1. ~Calling(t, e, p)
        BY <1>13
      <4>2. /\ Cardinality(Waiting(e, p)) <= Cardinality(Waiting(e, p)') + 1
            /\ Cardinality(Waiting(e, p)') \in Nat /\ Cardinality(Waiting(e, p)) \in Nat
        BY <1>1, <1>11, <4>1, WaitingEnds
      <4>3. Tried(e, p)' = Tried(e, p) + 1
        BY <1>16, <3>2
      <4>4. sends[e][p] <= Tried(e, p) + Cardinality(Waiting(e, p)) + nFaults
        BY <1>1, InFlightIs DEF DispatchInv, SendsRecorded, Tried
      <4>5. Tried(e, p) \in Nat /\ sends[e][p] \in Nat /\ nFaults \in Nat
        BY <1>1, DispatchFacts
      <4> QED
        BY <1>2, <4>2, <4>3, <4>4, <4>5
    <3> QED
      BY <3>1, <3>2
  <2> QED
    BY <2>1, InFlightNext
<1>20. FaultsCounted' /\ ObjectsTyped'
  BY <1>1, <1>2 DEF FaultsCounted, DispatchInv, NotificationsInv, ObjectsTyped, eventVars, adminVars
<1> QED
  BY <1>12, <1>15, <1>17, <1>18, <1>19, <1>20 DEF NotificationsInv, DispatchInv

\* A tick fails: the call whose answer it waited for counts as a fault.
LEMMA DispatcherFailsInv ==
    ASSUME NotificationsInv, NEW d \in Dispatcher, DispatcherFails(d)
    PROVE  NotificationsInv'
<1>1. DispatchInv
  BY DEF NotificationsInv
<1>2. /\ nTick[d].at # "idle" /\ nFaults < MaxDispatcherFaults /\ nFaults' = nFaults + 1
      /\ nTick' = [nTick EXCEPT ![d] = NoTick] /\ nLock' = nLock \ {d}
      /\ UNCHANGED <<eventVars, adminVars, row, sends, nLost>>
  BY DEF DispatcherFails
<1>3. Advances(d, NoTick)
  BY <1>2, IdleTick DEF Advances
<1>4. TicksSound' /\ DispatchersFew' /\ LockHolder'
  BY <1>1, <1>2, <1>3, IdleTick, DispatcherMoves, AdvancesFew
<1>5. \A e, p : ~Before(NoTick, e, p) /\ ~Calling(NoTick, e, p)
  BY IdleTick DEF Before, Calling
<1>6. OnlyPending'
  BY <1>1, <1>2, <1>3, <1>5, IdleTick, AdvancesPending
<1>7. RowsTyped' /\ \A e \in Time, p \in Provider : Tried(e, p)' = Tried(e, p)
  BY <1>1, <1>2 DEF DispatchInv, RowsTyped, Tried
<1>8. AttemptsLeft'
  <2>1. ASSUME NEW e \in Time, NEW p \in Provider
        PROVE  Tried(e, p)' + Cardinality(Holding(e, p)') <= MaxAttempts + nLost'
    BY <1>1, <1>2, <1>5, <1>7, IdleTick, LeftKept
  <2> QED
    BY <2>1 DEF AttemptsLeft
<1>9. SendsRecorded'
  <2>1. ASSUME NEW e \in Time, NEW p \in Provider
        PROVE  sends'[e][p] <= Tried(e, p)' + Cardinality(Waiting(e, p)') + nFaults'
    <3>1. ~Calling(NoTick, e, p)
      BY <1>5
    <3>2. /\ Cardinality(Waiting(e, p)) <= Cardinality(Waiting(e, p)') + 1
          /\ Cardinality(Waiting(e, p)') \in Nat /\ Cardinality(Waiting(e, p)) \in Nat
      BY <1>1, <1>2, <3>1, IdleTick, WaitingEnds
    <3>3. sends[e][p] <= Tried(e, p) + Cardinality(Waiting(e, p)) + nFaults
      BY <1>1, InFlightIs DEF DispatchInv, SendsRecorded, Tried
    <3>4. Tried(e, p) \in Nat /\ sends[e][p] \in Nat /\ nFaults \in Nat
      BY <1>1, DispatchFacts
    <3> QED
      BY <1>2, <1>7, <3>2, <3>3, <3>4
  <2> QED
    BY <2>1, InFlightNext
<1>10. FaultsCounted'
  BY <1>1, <1>2, DispatchFacts, NotificationsLimits DEF FaultsCounted
<1>11. ObjectsTyped'
  BY <1>2 DEF NotificationsInv, ObjectsTyped, eventVars, adminVars
<1> QED
  BY <1>4, <1>6, <1>7, <1>8, <1>9, <1>10, <1>11 DEF NotificationsInv, DispatchInv

\* The lock is lost: the tick goes on, and the loss pays for it.
LEMMA DispatcherLockLostInv ==
    ASSUME NotificationsInv, NEW d \in Dispatcher, DispatcherLockLost(d)
    PROVE  NotificationsInv'
<1>1. DispatchInv
  BY DEF NotificationsInv
<1>2. /\ d \in nLock /\ nFaults < MaxDispatcherFaults /\ nFaults' = nFaults + 1 /\ nLost' = nLost + 1
      /\ nLock' = {}
      /\ UNCHANGED <<eventVars, adminVars, row, nTick, sends>>
  BY DEF DispatcherLockLost
<1>3. Cardinality(nLock) = 1 /\ Cardinality(nLock') = 0
  BY <1>1, <1>2, DispatchFacts, FS_EmptySet
<1>4. Dispatching' = Dispatching /\ \A e, p : Tried(e, p)' = Tried(e, p)
  BY <1>2 DEF Dispatching, Tried
<1>5. ASSUME NEW e, NEW p PROVE Holding(e, p)' = Holding(e, p) /\ Waiting(e, p)' = Waiting(e, p)
  BY <1>2 DEF Holding, Waiting, Before, Calling
<1>6. DispatchersFew'
  BY <1>1, <1>2, <1>3, <1>4, DispatchFacts DEF DispatchersFew, DispatchInv
<1>7. AttemptsLeft'
  <2>1. ASSUME NEW e \in Time, NEW p \in Provider
        PROVE  Tried(e, p)' + Cardinality(Holding(e, p)') <= MaxAttempts + nLost'
    <3>1. Tried(e, p) + Cardinality(Holding(e, p)) <= MaxAttempts + nLost
      BY <1>1 DEF DispatchInv, AttemptsLeft
    <3>2. Tried(e, p) \in Nat /\ nLost \in Nat /\ Cardinality(Holding(e, p)) \in Nat
      BY <1>1, DispatchFacts, CountsAreNat
    <3> QED
      BY <1>2, <1>4, <1>5, <3>1, <3>2, NotificationsLimits
  <2> QED
    BY <2>1 DEF AttemptsLeft
<1>8. SendsRecorded'
  <2>1. ASSUME NEW e \in Time, NEW p \in Provider
        PROVE  sends'[e][p] <= Tried(e, p)' + Cardinality(Waiting(e, p)') + nFaults'
    <3>1. sends[e][p] <= Tried(e, p) + Cardinality(Waiting(e, p)) + nFaults
      BY <1>1, InFlightIs DEF DispatchInv, SendsRecorded, Tried
    <3>2. Tried(e, p) \in Nat /\ sends[e][p] \in Nat /\ nFaults \in Nat /\ Cardinality(Waiting(e, p)) \in Nat
      BY <1>1, DispatchFacts, CountsAreNat
    <3> QED
      BY <1>2, <1>4, <1>5, <3>1, <3>2
  <2> QED
    BY <2>1, InFlightNext
<1>9. FaultsCounted' /\ OnlyPending' /\ LockHolder'
  BY <1>1, <1>2, DispatchFacts, NotificationsLimits DEF FaultsCounted, OnlyPending, LockHolder
<1>10. TicksSound' /\ RowsTyped'
  BY <1>1, <1>2 DEF TicksSound, RowsTyped, DispatchInv
<1>11. ObjectsTyped'
  BY <1>2 DEF NotificationsInv, ObjectsTyped, eventVars, adminVars
<1> QED
  BY <1>6, <1>7, <1>8, <1>9, <1>10, <1>11 DEF NotificationsInv, DispatchInv

\* What no tick does and no attempt or status.
LEMMA BesideDispatch ==
    ASSUME DispatchInv, UNCHANGED <<nLock, nTick, sends, nFaults, nLost>>, RowsTyped',
           \A e \in Time, p \in Provider : /\ row'[e][p].attempts = row[e][p].attempts
                                           /\ row'[e][p].status = row[e][p].status
    PROVE  DispatchInv'
<1>1. Dispatching' = Dispatching /\ \A e \in Time, p \in Provider : Tried(e, p)' = Tried(e, p)
  BY DEF Dispatching, Tried
<1>2. ASSUME NEW e, NEW p PROVE Holding(e, p)' = Holding(e, p) /\ Waiting(e, p)' = Waiting(e, p)
  BY DEF Holding, Waiting, Before, Calling
<1>3. DispatchersFew' /\ FaultsCounted' /\ LockHolder' /\ TicksSound'
  BY <1>1 DEF DispatchersFew, FaultsCounted, LockHolder, TicksSound, DispatchInv
<1>4. AttemptsLeft'
  BY <1>1, <1>2 DEF AttemptsLeft, DispatchInv
<1>5. SendsRecorded'
  <2>1. ASSUME NEW e \in Time, NEW p \in Provider
        PROVE  sends'[e][p] <= Tried(e, p)' + Cardinality(Waiting(e, p)') + nFaults'
    <3>1. sends[e][p] <= Tried(e, p) + Cardinality(Waiting(e, p)) + nFaults
      BY InFlightIs DEF DispatchInv, SendsRecorded, Tried
    <3> QED
      BY <1>1, <1>2, <3>1
  <2> QED
    BY <2>1, InFlightNext
<1>6. OnlyPending'
  BY DEF OnlyPending, Before, DispatchInv
<1> QED
  BY <1>3, <1>4, <1>5, <1>6 DEF DispatchInv

LEMMA BackoffEndsInv ==
    ASSUME NotificationsInv, NEW e \in Time, NEW p \in Provider, BackoffEnds(e, p)
    PROVE  NotificationsInv'
<1>1. row' = [row EXCEPT ![e][p].due = TRUE] /\ row \in [Time -> [Provider -> Delivery]]
        /\ UNCHANGED <<eventVars, adminVars, nLock, nTick, sends, nFaults, nLost>>
  BY DEF BackoffEnds, NotificationsInv, DispatchInv, RowsTyped
<1>2. /\ row' \in [Time -> [Provider -> Delivery]]
      /\ \A f \in Time, q \in Provider : /\ row'[f][q].attempts = row[f][q].attempts
                                         /\ row'[f][q].status = row[f][q].status
  <2>0. PICK r : r = [row[e][p] EXCEPT !.due = TRUE]
    OBVIOUS
  <2>1. row[e][p] \in Delivery
    BY <1>1
  <2>2. r \in Delivery /\ r.attempts = row[e][p].attempts /\ r.status = row[e][p].status
    BY <2>0, <2>1 DEF Delivery
  <2>3. row' = [row EXCEPT ![e][p] = r]
    BY <1>1, <2>0
  <2>4. row' \in [Time -> [Provider -> Delivery]]
          /\ \A f \in Time, q \in Provider : row'[f][q] = IF f = e /\ q = p THEN r ELSE row[f][q]
    <3>1. row \in [Time -> [Provider -> Delivery]]
      BY <1>1
    <3> QED
      BY <2>2, <2>3, <3>1
  <2> QED
    BY <2>2, <2>4
<1>3. RowsTyped'
  BY <1>1, <1>2 DEF NotificationsInv, DispatchInv, RowsTyped
<1>4. DispatchInv'
  BY <1>1, <1>2, <1>3, BesideDispatch DEF NotificationsInv
<1>5. ObjectsTyped'
  BY <1>1 DEF NotificationsInv, ObjectsTyped, eventVars, adminVars
<1> QED
  BY <1>4, <1>5 DEF NotificationsInv

\* Events and administrators.
LEMMA ObjectsInv ==
    ASSUME NotificationsInv,
           \/ Emit \/ \E e \in Time : CommitEvent(e)
           \/ \E a \in Admin : AdminStep(a)
           \/ UNCHANGED nVars
    PROVE  NotificationsInv'
<1>1. ObjectsTyped /\ DispatchInv
  BY DEF NotificationsInv
<1>2. UNCHANGED <<row, nLock, nTick, sends, nFaults, nLost>>
  BY DEF Emit, CommitEvent, AdminStep, ReadForEdit, ReadForDelete, ReadObject, SaveObject, DeleteObject,
         DeleteSecret, nVars
<1>3. RowsTyped'
  BY <1>1, <1>2 DEF DispatchInv, RowsTyped
<1>4. DispatchInv'
  BY <1>1, <1>2, <1>3, BesideDispatch
<1> DEFINE Request == [at : {"idle", "edit", "delete", "secret"}, of : Provider, secret : Secret]
<1>5. NoRequest \in Request /\ NoObject \in ProviderObject
  <2>1. 0 \in Secret /\ 0 \in 0..MaxInstant /\ (CHOOSE p \in Provider : TRUE) \in Provider
    BY NotificationsLimits DEF Secret
  <2> QED
    BY <2>1 DEF NoRequest, NoObject, ProviderObject
<1>6. ASSUME Emit PROVE ObjectsTyped'
  <2>1. instant' \in 0..MaxInstant /\ instant' \in Time
    BY <1>1, <1>6, NotificationsLimits DEF Emit, ObjectsTyped, Time
  <2>2. open' \subseteq Time
    BY <1>1, <1>6, <2>1 DEF Emit, ObjectsTyped
  <2> QED
    BY <1>1, <1>6, <2>1, <2>2 DEF Emit, ObjectsTyped, adminVars
<1>7. ASSUME NEW e \in Time, CommitEvent(e) PROVE ObjectsTyped'
  BY <1>1, <1>7 DEF CommitEvent, ObjectsTyped, adminVars
<1>8. ASSUME NEW a \in Admin, AdminStep(a) PROVE ObjectsTyped'
  <2>1. request \in [Admin -> Request] /\ request[a] \in Request /\ request[a].of \in Provider
          /\ request[a].secret \in Secret /\ provider \in [Provider -> ProviderObject]
    BY <1>1 DEF ObjectsTyped
  <2>2. ASSUME NEW p \in Provider, NEW what \in {"edit", "delete"}, ReadObject(a, p, what) PROVE ObjectsTyped'
    <3>1. provider[p].secret \in Secret
      BY <2>1 DEF ProviderObject
    <3>2. request' = [request EXCEPT ![a] = [at |-> what, of |-> p, secret |-> provider[p].secret]]
      BY <2>2 DEF ReadObject
    <3>3. request' \in [Admin -> Request]
      BY <2>1, <3>1, <3>2
    <3>4. nEdits' \in 0..MaxProviderEdits
      BY <1>1, <2>2, NotificationsLimits DEF ReadObject, ObjectsTyped
    <3> QED
      BY <1>1, <2>2, <3>3, <3>4 DEF ReadObject, ObjectsTyped, eventVars
  <2>3. CASE SaveObject(a)
    <3>1. request' = [request EXCEPT ![a] = NoRequest] /\ UNCHANGED <<open, events, nEdits>>
      BY <2>3 DEF SaveObject
    <3>2. request' \in [Admin -> Request]
      BY <1>5, <2>1, <3>1
    <3>3. PICK p \in Provider, enabled \in BOOLEAN, secret \in {request[a].secret, Cardinality(Provider) + nEdits} :
            /\ secrets' = IF secret = request[a].secret THEN secrets ELSE secrets \cup {secret}
            /\ \/ /\ provider[p].there
                  /\ provider' = [provider EXCEPT ![p].enabled = enabled, ![p].secret = secret]
                  /\ instant' = instant
               \/ /\ ~provider[p].there /\ instant < MaxInstant
                  /\ instant' = instant + 1
                  /\ provider' = [provider EXCEPT ![p] = [there |-> TRUE, enabled |-> enabled,
                                                          secret |-> secret, created |-> instant']]
      BY <2>1, <2>3 DEF SaveObject
    <3>4. secret \in Secret
      <4>1. Cardinality(Provider) + nEdits \in Secret
        BY <1>1, NotificationsLimits DEF ObjectsTyped, Secret
      <4> QED
        BY <2>1, <4>1
    <3>5. instant' \in 0..MaxInstant
      BY <1>1, <3>3, NotificationsLimits DEF ObjectsTyped
    <3>6. provider' \in [Provider -> ProviderObject]
      <4>1. CASE provider' = [provider EXCEPT ![p].enabled = enabled, ![p].secret = secret]
        <5> DEFINE x == [provider[p] EXCEPT !.enabled = enabled, !.secret = secret]
        <5>1. provider' = [provider EXCEPT ![p] = x]
          BY <2>1, <4>1
        <5>2. x \in ProviderObject
          BY <2>1, <3>4 DEF ProviderObject
        <5> HIDE DEF x
        <5> QED
          BY <2>1, <5>1, <5>2
      <4>2. CASE provider' = [provider EXCEPT ![p] = [there |-> TRUE, enabled |-> enabled,
                                                      secret |-> secret, created |-> instant']]
        BY <2>1, <3>4, <3>5, <4>2 DEF ProviderObject
      <4> QED
        BY <3>3, <4>1, <4>2
    <3>7. secrets' \subseteq Secret
      BY <1>1, <3>3, <3>4 DEF ObjectsTyped
    <3> QED
      BY <1>1, <3>1, <3>2, <3>5, <3>6, <3>7 DEF ObjectsTyped
  <2>4. CASE DeleteObject(a)
    <3>1. request' = [request EXCEPT ![a].at = "secret"] /\ provider' = [provider EXCEPT ![request[a].of] = NoObject]
            /\ UNCHANGED <<eventVars, secrets, nEdits>>
      BY <2>4 DEF DeleteObject
    <3>2. request' \in [Admin -> Request]
      BY <2>1, <3>1
    <3>3. provider' \in [Provider -> ProviderObject]
      BY <1>5, <2>1, <3>1
    <3> QED
      BY <1>1, <3>1, <3>2, <3>3 DEF ObjectsTyped, eventVars
  <2>5. CASE DeleteSecret(a)
    <3>1. request' = [request EXCEPT ![a] = NoRequest] /\ secrets' \subseteq secrets
            /\ UNCHANGED <<eventVars, provider, nEdits>>
      BY <2>5 DEF DeleteSecret
    <3>2. request' \in [Admin -> Request]
      BY <1>5, <2>1, <3>1
    <3> QED
      BY <1>1, <3>1, <3>2 DEF ObjectsTyped, eventVars
  <2> QED
    BY <1>8, <2>2, <2>3, <2>4, <2>5 DEF AdminStep, ReadForEdit, ReadForDelete
<1>9. ASSUME UNCHANGED nVars PROVE ObjectsTyped'
  BY <1>1, <1>9 DEF nVars, ObjectsTyped
<1> QED
  BY <1>4, <1>6, <1>7, <1>8, <1>9 DEF NotificationsInv

LEMMA NotificationsInitInv == NotificationsInit => NotificationsInv
<1> SUFFICES ASSUME NotificationsInit PROVE NotificationsInv
  OBVIOUS
<1> DEFINE n == Cardinality(Provider)
           Ages == {f \in [Provider -> 1..n] : \A p, q \in Provider : f[p] = f[q] => p = q}
<1>1. n \in Nat /\ n <= MaxInstant
  BY NotificationsLimits
<1>2. PICK g : g \in Ages
  <2>1. IsFiniteSet(1..n) /\ Cardinality(1..n) = n
    BY <1>1, FS_Interval
  <2>2. ExistsBijection(Provider, 1..n)
    BY <2>1, NotificationsLimits, FS_SameCardinalityBij
  <2>3. PICK f : f \in Bijection(Provider, 1..n)
    BY <2>2 DEF ExistsBijection
  <2>4. f \in [Provider -> 1..n] /\ \A p, q \in Provider : f[p] = f[q] => p = q
    BY <2>3 DEF Bijection, Injection, IsInjective
  <2> QED
    BY <2>4
<1> DEFINE age == CHOOSE f \in [Provider -> 1..n] : \A p, q \in Provider : f[p] = f[q] => p = q
<1>3. age \in [Provider -> 1..n]
  BY <1>2
<1>4. provider = [p \in Provider |-> [there |-> TRUE, enabled |-> TRUE, secret |-> age[p], created |-> age[p]]]
        /\ instant = n /\ secrets = 1..n /\ open = {} /\ events = {} /\ request = [a \in Admin |-> NoRequest]
        /\ nEdits = 0
  BY DEF NotificationsInit
<1> HIDE DEF age, n
<1>5. ObjectsTyped
  <2>1. \A p \in Provider : age[p] \in Secret /\ age[p] \in 0..MaxInstant
    BY <1>1, <1>3, NotificationsLimits DEF Secret, n
  <2>2. provider \in [Provider -> ProviderObject]
    BY <1>4, <2>1 DEF ProviderObject
  <2>3. NoRequest \in [at : {"idle", "edit", "delete", "secret"}, of : Provider, secret : Secret]
    BY NotificationsLimits DEF NoRequest, Secret
  <2>4. secrets \subseteq Secret
    BY <1>1, <1>4, NotificationsLimits DEF Secret, n
  <2> QED
    BY <1>1, <1>4, <2>2, <2>3, <2>4, NotificationsLimits DEF ObjectsTyped
<1>6. \A d \in Dispatcher : nTick[d] = NoTick
  BY DEF NotificationsInit
<1>7. TicksSound
  BY <1>6, IdleTick DEF NotificationsInit, TicksSound, TickSound
<1>8. NoRow \in Delivery /\ NoRow.attempts = 0
  BY DEF NoRow, Delivery
<1>9. RowsTyped
  BY <1>8 DEF NotificationsInit, RowsTyped
<1>10. LockHolder /\ FaultsCounted
  BY NotificationsLimits DEF NotificationsInit, LockHolder, FaultsCounted
<1>11. Dispatching = {} /\ \A e, p : Holding(e, p) = {} /\ Waiting(e, p) = {}
  BY <1>6, IdleTick DEF Dispatching, Holding, Waiting, Before, Calling
<1>12. Cardinality({}) = 0
  BY FS_EmptySet
<1>13. nLock = {} /\ nLost = 0 /\ nFaults = 0
        /\ \A e \in Time, p \in Provider : row[e][p] = NoRow /\ sends[e][p] = 0
  BY DEF NotificationsInit
<1>14. DispatchersFew /\ AttemptsLeft
  <2>1. Cardinality(Dispatching) = 0 /\ Cardinality(nLock) = 0
    BY <1>11, <1>12, <1>13
  <2>2. ASSUME NEW e \in Time, NEW p \in Provider PROVE Tried(e, p) = 0 /\ Cardinality(Holding(e, p)) = 0
    BY <1>8, <1>11, <1>12, <1>13 DEF Tried
  <2> QED
    BY <1>13, <2>1, <2>2, NotificationsLimits DEF DispatchersFew, AttemptsLeft
<1>15. SendsRecorded
  <2>1. ASSUME NEW e \in Time, NEW p \in Provider
        PROVE  sends[e][p] = 0 /\ row[e][p].attempts = 0 /\ InFlight(e, p) = 0
    BY <1>8, <1>11, <1>12, <1>13, InFlightIs
  <2> QED
    BY <1>13, <2>1 DEF SendsRecorded
<1>16. OnlyPending
  BY <1>6, IdleTick DEF OnlyPending
<1> QED
  BY <1>5, <1>7, <1>9, <1>10, <1>14, <1>15, <1>16 DEF NotificationsInv, DispatchInv

\* Ticks of leaders, lost locks, failures, edits of the providers and late
\* events: what every tick has before it is within the attempts that are left.
THEOREM NotificationsInvariant == NotificationsSpec => []NotificationsInv
<1>1. NotificationsInv /\ [NotificationsNext]_nVars => NotificationsInv'
  <2> SUFFICES ASSUME NotificationsInv, [NotificationsNext]_nVars PROVE NotificationsInv'
    OBVIOUS
  <2>1. ASSUME NEW d \in Dispatcher, DispatchStep(d) \/ DispatcherFails(d) \/ DispatcherLockLost(d)
        PROVE  NotificationsInv'
    BY <2>1, DispatchStartInv, PrepareInv, SendInv, RecordAttemptInv, DispatcherFailsInv,
       DispatcherLockLostInv DEF DispatchStep
  <2>2. CASE Backoff
    BY <2>2, BackoffEndsInv DEF Backoff
  <2> QED
    BY <2>1, <2>2, ObjectsInv DEF NotificationsNext
<1> QED
  BY <1>1, NotificationsInitInv, PTL DEF NotificationsSpec

\* Deliveries are attempted a bounded number of times, every call is accounted
\* for, and none is repeated after success, for any number of dispatchers,
\* providers, administrators and events.
THEOREM NotificationsAreSafe == NotificationsSpec => NotificationsSafe
<1>1. NotificationsInv => NotificationsTypeOK /\ AttemptsBounded /\ SendsRecorded
  <2> SUFFICES ASSUME NotificationsInv PROVE NotificationsTypeOK /\ AttemptsBounded /\ SendsRecorded
    OBVIOUS
  <2>1. DispatchInv /\ ObjectsTyped
    BY DEF NotificationsInv
  <2>2. AttemptsBounded
    <3>1. ASSUME NEW e \in Time, NEW p \in Provider PROVE row[e][p].attempts <= MaxAttempts + nLost
      <4>1. Tried(e, p) + Cardinality(Holding(e, p)) <= MaxAttempts + nLost
        BY <2>1 DEF DispatchInv, AttemptsLeft
      <4>2. Tried(e, p) \in Nat /\ Cardinality(Holding(e, p)) \in Nat /\ nLost \in Nat
        BY <2>1, DispatchFacts, CountsAreNat
      <4> QED
        BY <4>1, <4>2, NotificationsLimits DEF Tried
    <3> QED
      BY <3>1 DEF AttemptsBounded
  <2>3. NotificationsTypeOK
    <3> DEFINE Bounded == [status : {"none", "pending", "sent"},
                           attempts : 0..(MaxAttempts + MaxDispatcherFaults), due : BOOLEAN]
    <3>1. ASSUME NEW e \in Time, NEW p \in Provider PROVE row[e][p] \in Bounded
      <4>1. row[e][p] \in Delivery /\ row[e][p].attempts \in Nat
              /\ row[e][p].attempts <= MaxAttempts + nLost
        BY <2>1, <2>2, DispatchFacts DEF AttemptsBounded, Delivery
      <4>2. row[e][p].attempts \in 0..(MaxAttempts + MaxDispatcherFaults)
        BY <2>1, <4>1, DispatchFacts, NotificationsLimits
      <4> QED
        BY <4>1, <4>2 DEF Delivery
    <3>2. row \in [Time -> [Provider -> Bounded]]
      BY <2>1, <3>1 DEF DispatchInv, RowsTyped
    <3>3. nLock \in SUBSET Dispatcher /\ Cardinality(nLock) <= 1
      BY <2>1, DispatchFacts
    <3>4. \A d \in Dispatcher :
            /\ nTick[d].at \in {"idle", "provider", "send", "record"}
            /\ \A o \in nTick[d].todo : o.id \in Provider /\ o.object \in ProviderObject
            /\ nTick[d].items \subseteq Time
            /\ nTick[d].outcome \in {"sent", "pending"}
      <4>1. \A d \in Dispatcher : nTick[d] \in DispatchTick
        BY <2>1 DEF DispatchInv, TicksSound
      <4> QED
        BY <4>1 DEF DispatchTick, Item
    <3> HIDE DEF Bounded
    <3>5. sends \in [Time -> [Provider -> Nat]] /\ nFaults \in 0..MaxDispatcherFaults /\ nLost \in 0..nFaults
      BY <2>1 DEF DispatchInv, RowsTyped, FaultsCounted
    <3> QED
      BY <2>1, <3>2, <3>3, <3>4, <3>5 DEF NotificationsTypeOK, ObjectsTyped, Bounded
  <2> QED
    BY <2>1, <2>2, <2>3 DEF DispatchInv
<1>2. NotificationsInv /\ [NotificationsNext]_nVars =>
        [\A e \in Time, p \in Provider :
            nLost = 0 /\ row[e][p].status = "sent" => sends'[e][p] = sends[e][p]]_nVars
  <2> SUFFICES ASSUME NotificationsInv, NotificationsNext,
                      NEW e \in Time, NEW p \in Provider, nLost = 0, row[e][p].status = "sent"
               PROVE  sends'[e][p] = sends[e][p]
    OBVIOUS
  <2>1. ASSUME NEW d \in Dispatcher, Send(d) PROVE sends'[e][p] = sends[e][p]
    <3>1. nTick[d].at = "send" /\ DispatchInv
      BY <2>1 DEF Send, NotificationsInv
    <3>2. PICK m, o : m = Min(nTick[d].items) /\ o = Latest(nTick[d].todo)
      OBVIOUS
    <3>3. nTick[d].items \in SUBSET Time /\ nTick[d].items # {} /\ o.id \in Provider
      BY <3>1, <3>2, AtProvider, DispatchFacts DEF TickSound
    <3>4. m \in Time /\ m \in nTick[d].items
      BY <3>2, <3>3, MinMember
    <3>5. row[m][o.id].status = "pending"
      BY <3>1, <3>2, <3>3, <3>4 DEF OnlyPending, DispatchInv, Before
    <3>6. sends' = [sends EXCEPT ![m][o.id] = sends[m][o.id] + 1] /\ sends \in [Time -> [Provider -> Nat]]
      BY <2>1, <3>1, <3>2, CurrentIs DEF Send, DispatchInv, RowsTyped
    <3>7. ~(m = e /\ o.id = p)
      BY <3>5
    <3> QED
      BY <3>3, <3>4, <3>6, <3>7
  <2>2. CASE ~\E d \in Dispatcher : Send(d)
    <3>1. sends' = sends
      BY <2>2 DEF NotificationsNext, Emit, CommitEvent, AdminStep, ReadForEdit, ReadForDelete, ReadObject,
         SaveObject, DeleteObject, DeleteSecret, DispatchStep, DispatchStart, Prepare, RecordAttempt,
         DispatcherFails, DispatcherLockLost, Backoff, BackoffEnds
    <3> QED
      BY <3>1
  <2> QED
    BY <2>1, <2>2
<1> QED
  BY <1>1, <1>2, NotificationsInvariant, PTL DEF NotificationsSpec, NotificationsSafe, SentOnce
=============================================================================
