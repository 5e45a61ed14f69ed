----------------------------- MODULE AgentMonitor -----------------------------
(***************************************************************************)
(* The periodic agent monitor and the recommendations it shares with       *)
(* people. A leader goes through the monitoring objects that are due, asks *)
(* the model about each unhealthy resource, and in the automated mode      *)
(* submits the suggested restart, at most MaxActions per resource and      *)
(* hour. People submit the same tool from a recommendation. The objects    *)
(* are edited and deleted by administrators meanwhile. The analyses run as *)
(* one service account, whose calls of the model are limited per hour.     *)
(***************************************************************************)
EXTENDS Naturals, FiniteSets

CONSTANTS
    Monitor,      \* ids of monitoring objects
    Watched,      \* resources, by their place in the order of names
    Covered,      \* resources whose provider one of the structured tools covers
    Worker,       \* processes that run the monitor
    MaxActions,   \* agent operations per resource and hour (3)
    MaxCalls,     \* calls of the model per account and hour (10)
    MaxRecs,      \* bound: recommendations that are kept
    MaxMonitorEdits,     \* bound: requests of administrators
    MaxHealthChanges,   \* bound: changes of a resource's health
    MaxMonitorFaults     \* bound: failed ticks, failed analyses and lost leader locks

ASSUME MonitorAssumption ==
    /\ Covered \subseteq Watched /\ Watched # {} /\ Watched \subseteq Nat
    /\ IsFiniteSet(Worker)
    /\ MaxCalls \in Nat \ {0}
    /\ {MaxActions, MaxRecs, MaxMonitorEdits, MaxHealthChanges, MaxMonitorFaults} \subseteq Nat

VARIABLES
    monitor,     \* the monitoring objects
    chosen,     \* history: what an administrator last saved, and a stamp
    unhealthy,  \* resources with health unhealthy
    account,    \* the service account: able, without llm.use, or missing or disabled
    calls,      \* its calls of the model in the window of auth_limits
    analyzed,   \* history: unhealthy resources analyzed since they became so
    rec,        \* recommendations: resource, suggested tool
    op,         \* agent operations: the key of each and the resource
    recent,     \* those created within the last hour, by who asked
    mTick,       \* each worker's monitorTick
    mLock,       \* holder of the advisory lock
    stamp,      \* history: saves of administrators and starts of ticks, ordered
    betrayed,   \* history: monitors a tick acted for after they were switched off
    overwritten, \* history: monitors whose edit a tick undid by saving its own copy
    mEdits, mChanges, mFaults, mLost

mVars == <<monitor, unhealthy, account, calls, analyzed, rec, op, recent, mTick, mLock, chosen, stamp, betrayed, overwritten,
          mEdits, mChanges, mFaults, mLost>>
diagnosis == <<account, calls, analyzed>>
history == <<chosen, stamp, betrayed, overwritten>>
bounds == <<mEdits, mChanges, mFaults, mLost>>

\* ADVISORY stands for ASSISTED too, which the monitor treats alike.
Mode == {"DISABLED", "ADVISORY", "AUTOMATED_POLICY_CONTROLLED"}
Account == {"able", "barred", "off"}
MonitorObject == [there : BOOLEAN, enabled : BOOLEAN, mode : Mode, due : BOOLEAN]
Rec == 1..MaxRecs
NoRec == [of |-> CHOOSE r \in Watched : TRUE, tool |-> "none", made |-> FALSE]
NoMonitorTick == [at |-> "idle", began |-> 0, list |-> [m \in {} |-> 0], sick |-> {}, todo |-> {}, rec |-> 0,
                  p |-> "able"]
CurrentMonitor(w) == CHOOSE m \in DOMAIN mTick[w].list : TRUE

MonitorTypeOK ==
    /\ monitor \in [Monitor -> MonitorObject]
    /\ unhealthy \subseteq Watched
    /\ rec \in [Rec -> [of : Watched, tool : {"none", "restart"}, made : BOOLEAN]]
    /\ op \subseteq {"monitor", "recommendation"} \X Rec
    /\ recent \in [Watched -> [monitor : Nat, person : Nat]]
    /\ \A w \in Worker : LET t == mTick[w] IN
         /\ t.at \in {"idle", "monitor", "analyze", "count", "submit"}
         /\ DOMAIN t.list \subseteq Monitor /\ \A m \in DOMAIN t.list : t.list[m] \in MonitorObject
         /\ t.sick \subseteq Watched /\ t.todo \subseteq Watched
         /\ t.rec \in Rec \cup {0} /\ t.p \in Account
    /\ mLock \subseteq Worker
    /\ betrayed \subseteq Monitor /\ overwritten \subseteq Monitor
    /\ mEdits \in 0..MaxMonitorEdits /\ mChanges \in 0..MaxHealthChanges
    /\ mFaults \in 0..MaxMonitorFaults /\ mLost \in 0..mFaults

\* The account, and its calls within the limit.
DiagnosisOK == account \in Account /\ calls \in 0..MaxCalls /\ analyzed \subseteq Watched

MonitorInit ==
    /\ monitor \in [Monitor -> {[there |-> TRUE, enabled |-> TRUE, mode |-> mode, due |-> TRUE] :
                                 mode \in Mode \ {"DISABLED"}}]
    /\ chosen = [m \in Monitor |-> [on |-> monitor[m].mode = "AUTOMATED_POLICY_CONTROLLED", at |-> 0]]
    /\ unhealthy = Watched
    /\ account = "able" /\ calls = 0 /\ analyzed = {}
    /\ rec = [i \in Rec |-> NoRec]
    /\ op = {}
    /\ recent = [r \in Watched |-> [monitor |-> 0, person |-> 0]]
    /\ mTick = [w \in Worker |-> NoMonitorTick]
    /\ mLock = {} /\ stamp = 0 /\ betrayed = {} /\ overwritten = {}
    /\ mEdits = 0 /\ mChanges = 0 /\ mFaults = 0 /\ mLost = 0

-----------------------------------------------------------------------------
(* Around the monitor. *)

\* saveObject and deleteObject of kind "monitoring".
EditMonitor(m) ==
    /\ monitor[m].there /\ mEdits < MaxMonitorEdits
    /\ mEdits' = mEdits + 1 /\ stamp' = mEdits'
    /\ \/ \E enabled \in BOOLEAN, mode \in Mode :
            /\ monitor' = [monitor EXCEPT ![m] = [there |-> TRUE, enabled |-> enabled, mode |-> mode, due |-> TRUE]]
            /\ chosen' = [chosen EXCEPT ![m] =
                 [on |-> enabled /\ mode = "AUTOMATED_POLICY_CONTROLLED", at |-> stamp']]
       \/ /\ monitor' = [monitor EXCEPT ![m].there = FALSE]
          /\ chosen' = [chosen EXCEPT ![m] = [on |-> FALSE, at |-> stamp']]
    /\ UNCHANGED <<diagnosis, unhealthy, rec, op, recent, mTick, mLock, betrayed, mChanges, mFaults, mLost, overwritten>>

\* updateUser and deleteUser on the service account, or a change of its role.
EditAccount(a) ==
    /\ a # account /\ mEdits < MaxMonitorEdits
    /\ mEdits' = mEdits + 1 /\ stamp' = mEdits'
    /\ account' = a
    /\ UNCHANGED <<monitor, unhealthy, calls, analyzed, rec, op, recent, mTick, mLock, chosen, betrayed,
                   overwritten, mChanges, mFaults, mLost>>

\* reset_at of auth_limits passes.
LimitResets ==
    /\ calls > 0
    /\ calls' = 0
    /\ UNCHANGED <<monitor, unhealthy, account, analyzed, rec, op, recent, mTick, mLock, history, bounds>>

HealthChanges(r) ==
    /\ mChanges < MaxHealthChanges
    /\ mChanges' = mChanges + 1
    /\ unhealthy' = IF r \in unhealthy THEN unhealthy \ {r} ELSE unhealthy \cup {r}
    /\ analyzed' = analyzed \ {r}
    /\ UNCHANGED <<monitor, account, calls, rec, op, recent, mTick, mLock, mEdits, mFaults, mLost, history>>

\* The interval of a monitor passes.
IntervalEnds(m) ==
    /\ monitor[m].there /\ ~monitor[m].due
    /\ monitor' = [monitor EXCEPT ![m].due = TRUE]
    /\ UNCHANGED <<diagnosis, unhealthy, rec, op, recent, mTick, mLock, history, bounds>>

\* An operation turns an hour old.
HourEnds(r) ==
    /\ \E who \in {"monitor", "person"} :
         /\ recent[r][who] > 0
         /\ recent' = [recent EXCEPT ![r][who] = @ - 1]
    /\ UNCHANGED <<diagnosis, monitor, unhealthy, rec, op, mTick, mLock, history, bounds>>

-----------------------------------------------------------------------------
(* monitorTick. *)

\* The monitors and the resources are read once.
MonitorTickStart(w) ==
    /\ mTick[w].at = "idle" /\ mLock = {}
    /\ \E m \in Monitor : monitor[m].there
    /\ mLock' = {w}
    /\ mTick' = [mTick EXCEPT ![w] =
         [NoMonitorTick EXCEPT !.at = "monitor", !.began = stamp, !.sick = unhealthy,
                      !.list = [m \in {n \in Monitor : monitor[n].there} |-> monitor[m]]]]
    /\ UNCHANGED <<diagnosis, monitor, unhealthy, rec, op, recent, history, bounds>>

Without(f, m) == [n \in DOMAIN f \ {m} |-> f[n]]

\* The next monitor, or the end of the tick.
NextMonitor(w) ==
    LET rest == Without(mTick[w].list, CurrentMonitor(w)) IN
    IF DOMAIN rest = {} THEN mTick' = [mTick EXCEPT ![w] = NoMonitorTick] /\ mLock' = mLock \ {w}
    ELSE /\ mTick' = [mTick EXCEPT ![w].at = "monitor", ![w].list = rest, ![w].todo = {}, ![w].rec = 0]
         /\ mLock' = mLock

\* The next resource of this monitor.
NextResource(w, r) ==
    IF mTick[w].todo = {r} THEN NextMonitor(w)
    ELSE mTick' = [mTick EXCEPT ![w].at = "analyze", ![w].todo = @ \ {r}, ![w].rec = 0] /\ mLock' = mLock

Active_Automated(x) == x.enabled /\ x.mode = "AUTOMATED_POLICY_CONTROLLED" /\ x.due

Active_Disabled(x) == x.mode # "DISABLED" /\ x.due

Active(x) == x.enabled /\ x.mode # "DISABLED" /\ x.due

PassOver(w) ==
    /\ mTick[w].at = "monitor"
    /\ ~Active(mTick[w].list[CurrentMonitor(w)])
    /\ NextMonitor(w)
    /\ UNCHANGED <<diagnosis, monitor, unhealthy, rec, op, recent, history, bounds>>

\* last_run is saved with the rest of the object as the tick read it.
Touched(x) == [x EXCEPT !.due = FALSE]

\* The fields of a monitor that only an administrator changes.
Setting(x) == <<x.there, x.enabled, x.mode>>

SaveLastRun(w) ==
    /\ mTick[w].at = "monitor"
    /\ LET m == CurrentMonitor(w) IN
         /\ Active(mTick[w].list[m])
         /\ monitor' = [monitor EXCEPT ![m] = Touched(mTick[w].list[m])]
         /\ overwritten' = overwritten \cup {n \in {m} : Setting(monitor[n]) # Setting(mTick[w].list[n])}
    /\ UNCHANGED <<diagnosis, unhealthy, rec, op, recent, chosen, stamp, betrayed, mEdits, mChanges, mLost>>

\* Then the service account is read: nothing is analyzed if it is missing or
\* disabled. The filters of the monitor admit every resource.
Touch(w) ==
    /\ SaveLastRun(w)
    /\ IF mTick[w].sick = {} \/ account = "off" THEN NextMonitor(w)
       ELSE /\ mTick' = [mTick EXCEPT ![w].at = "analyze", ![w].todo = mTick[w].sick, ![w].p = account]
            /\ mLock' = mLock
    /\ UNCHANGED mFaults

\* The account cannot be read: the monitor is passed over until its next interval.
AccountUnread(w) ==
    /\ SaveLastRun(w)
    /\ mFaults < MaxMonitorFaults /\ mFaults' = mFaults + 1
    /\ NextMonitor(w)

Suggestions_Unchecked(r) == {"none", "restart", "other"}

\* ValidateDiagnosis: a suggested tool covers the provider of the resource.
Suggestions(r) == {"none"} \cup {t \in {"restart"} : r \in Covered}

Made == {i \in Rec : rec[i].made}

\* Resources: ORDER BY name.
InTurn(w, r) ==
    mTick[w].at = "analyze" /\ r \in mTick[w].todo /\ \A x \in mTick[w].todo : r <= x

WithinLimit_Strict == calls + 1 < MaxCalls

\* RateLimit("llm:"+user): the account's first MaxCalls calls of a window.
WithinLimit == calls < MaxCalls

\* Analyze stores a recommendation. Only the automated mode goes on with it. One
\* beyond the bound is made without a tool, and left out.
Analyze(w, r) ==
    /\ InTurn(w, r)
    /\ mTick[w].p = "able" /\ WithinLimit
    /\ calls' = calls + 1
    /\ analyzed' = analyzed \cup {r}
    /\ \/ \E i \in Rec, tool \in Suggestions(r) :
            /\ Made = 1..(i - 1)
            /\ rec' = [rec EXCEPT ![i] = [of |-> r, tool |-> tool, made |-> TRUE]]
            /\ IF tool = "restart" /\ mTick[w].list[CurrentMonitor(w)].mode = "AUTOMATED_POLICY_CONTROLLED"
               THEN mTick' = [mTick EXCEPT ![w].at = "count", ![w].rec = i] /\ mLock' = mLock
               ELSE NextResource(w, r)
       \/ Made = Rec /\ UNCHANGED rec /\ NextResource(w, r)
    /\ UNCHANGED <<monitor, unhealthy, account, op, recent, history, bounds>>

\* The account has no llm.use, or the hour's calls are used up.
AnalyzeRefused(w, r) ==
    /\ InTurn(w, r)
    /\ mTick[w].p = "barred" \/ ~WithinLimit
    /\ NextResource(w, r)
    /\ UNCHANGED <<diagnosis, monitor, unhealthy, rec, op, recent, history, bounds>>

\* A failed query, or a provider without an answer or a valid diagnosis, which
\* has cost a call.
AnalyzeFails(w, r) ==
    /\ InTurn(w, r)
    /\ mFaults < MaxMonitorFaults /\ mFaults' = mFaults + 1
    /\ calls' \in {calls, IF WithinLimit THEN calls + 1 ELSE calls}
    /\ NextResource(w, r)
    /\ UNCHANGED <<monitor, unhealthy, account, analyzed, rec, op, recent, mEdits, mChanges, mLost, history>>

Allowed_Plus(r) == recent[r].monitor + recent[r].person <= MaxActions

\* SELECT count(*) ... agent=true AND created_at>now()-interval '1 hour'.
Allowed(r) == recent[r].monitor + recent[r].person < MaxActions

Count(w) ==
    /\ mTick[w].at = "count"
    /\ LET r == rec[mTick[w].rec].of IN
         IF Allowed(r) THEN mTick' = [mTick EXCEPT ![w].at = "submit"] /\ mLock' = mLock
         ELSE NextResource(w, r)
    /\ UNCHANGED <<diagnosis, monitor, unhealthy, rec, op, recent, history, bounds>>

\* Submit with key "monitor:"+rec; the engine may also deny.
SubmitAction(w) ==
    /\ mTick[w].at = "submit"
    /\ LET r == rec[mTick[w].rec].of
           m == CurrentMonitor(w)
       IN
         /\ \/ /\ op' = op \cup {<<"monitor", mTick[w].rec>>}
               /\ recent' = [recent EXCEPT ![r].monitor = @ + 1]
               /\ betrayed' = betrayed \cup
                    {n \in {m} : ~chosen[n].on /\ chosen[n].at \in 1..mTick[w].began}
            \/ UNCHANGED <<op, recent, betrayed>>
         /\ NextResource(w, r)
    /\ UNCHANGED <<diagnosis, monitor, chosen, unhealthy, rec, stamp, overwritten, bounds>>

\* Tool: a person submits what a recommendation suggests; repeated, it is
\* answered with the first operation.
Tool(i) ==
    /\ rec[i].made /\ rec[i].tool = "restart"
    /\ <<"recommendation", i>> \notin op
    /\ op' = op \cup {<<"recommendation", i>>}
    /\ recent' = [recent EXCEPT ![rec[i].of].person = @ + 1]
    /\ UNCHANGED <<diagnosis, monitor, unhealthy, rec, mTick, mLock, history, bounds>>

MonitorFails(w) ==
    /\ mTick[w].at # "idle" /\ mFaults < MaxMonitorFaults
    /\ mFaults' = mFaults + 1
    /\ mTick' = [mTick EXCEPT ![w] = NoMonitorTick]
    /\ mLock' = mLock \ {w}
    /\ UNCHANGED <<diagnosis, monitor, unhealthy, rec, op, recent, mEdits, mChanges, mLost, history>>

MonitorLockLost(w) ==
    /\ w \in mLock /\ mFaults < MaxMonitorFaults
    /\ mFaults' = mFaults + 1 /\ mLost' = mLost + 1
    /\ mLock' = {}
    /\ UNCHANGED <<diagnosis, monitor, unhealthy, rec, op, recent, mTick, mEdits, mChanges, history>>

-----------------------------------------------------------------------------
MonitorTickStep(w) ==
    \/ PassOver(w) \/ Touch(w) \/ Count(w) \/ SubmitAction(w)
    \/ \E r \in Watched : Analyze(w, r) \/ AnalyzeRefused(w, r)
MonitorNext ==
    \/ \E a \in Account : EditAccount(a)
    \/ LimitResets
    \/ \E m \in Monitor : EditMonitor(m) \/ IntervalEnds(m)
    \/ \E r \in Watched : HealthChanges(r) \/ HourEnds(r)
    \/ \E i \in Rec : Tool(i)
    \/ \E w \in Worker :
         \/ MonitorTickStart(w) \/ MonitorTickStep(w) \/ MonitorFails(w) \/ MonitorLockLost(w) \/ AccountUnread(w)
         \/ \E r \in Watched : AnalyzeFails(w, r)

\* Ticks recur, their statements and calls end, intervals and hours pass.
MonitorFairness ==
    /\ WF_mVars(\E w \in Worker : MonitorTickStart(w))
    /\ \A w \in Worker : WF_mVars(MonitorTickStep(w))
    /\ \A m \in Monitor : WF_mVars(IntervalEnds(m))
    /\ WF_mVars(LimitResets)

MonitorSpec == MonitorInit /\ [][MonitorNext]_mVars /\ MonitorFairness

-----------------------------------------------------------------------------
(* Properties. *)

\* The monitor starts at most MaxActions operations on a resource in an hour,
\* whatever number of monitors cover it and people act beside it; a leader that
\* lost its lock can add one.
ActionsBounded == \A r \in Watched : recent[r].monitor <= MaxActions + mLost

\* Resource r is unhealthy under a monitor that is on, with an account that may
\* ask, and the unhealthy resources are no more than an hour's calls.
Watching(m, r) ==
    /\ r \in unhealthy /\ Cardinality(unhealthy) <= MaxCalls
    /\ monitor[m].there /\ monitor[m].enabled /\ monitor[m].mode # "DISABLED"
    /\ account = "able"

\* Such a resource is analyzed each time it becomes unhealthy: a tick that failed
\* after it saved last_run costs one interval, not the analysis, and the calls
\* spent in every interval on the names before it do not starve it. With more
\* unhealthy resources than calls they would, and nothing is promised.
AnomalyAnalyzed == \A r \in Watched, m \in Monitor :
    Watching(m, r) ~> (r \in analyzed \/ ~Watching(m, r))

\* "ADVISORY/DISABLED nunca podem mutar": no tick that begins after an
\* administrator switched a monitor off, or out of the automated mode, submits
\* an operation for it, unless a tick that was under way undid the switch by
\* saving the whole object as it had read it.
SwitchedOffStaysOff == betrayed \subseteq overwritten

\* The automated mode as a whole: bounded, and off when switched off.
MonitorSafe == MonitorTypeOK /\ DiagnosisOK /\ ActionsBounded /\ SwitchedOffStaysOff
=============================================================================
