------------------------------- MODULE Scheduler -------------------------------
(***************************************************************************)
(* Scheduled operations. Every process ticks; the one that gets the        *)
(* advisory lock reads all schedules once, and for each that is due        *)
(* reserves the instant in schedule_runs, submits the operation under a    *)
(* key made of the schedule and the instant, and records the outcome. The  *)
(* lock belongs to a database session: when that session is lost, another  *)
(* process may lead while the first is still at work. Time is in minutes.  *)
(***************************************************************************)
EXTENDS Naturals, FiniteSets

CONSTANTS
    Process,   \* processes with a scheduler
    Cron,      \* schedules with a cron expression
    Once,      \* schedules with an instant
    Matches,   \* the minutes the cron expressions match
    Instant,   \* the instant of the others
    Owner,     \* users a schedule may run as
    MaxTime,   \* bound: clock
    MaxSchedulerFaults, \* bound: lost processes and lost database sessions
    MaxScheduleEdits,  \* bound: edits of schedules
    None

ASSUME SchedulerAssumption ==
    /\ Cron \cap Once = {}
    /\ {MaxTime, MaxSchedulerFaults, MaxScheduleEdits} \subseteq Nat
    /\ Matches \subseteq 0..MaxTime /\ Instant \in 0..MaxTime

VARIABLES
    schedules,  \* the stored schedules: enabled, and whom they run as
    runs,       \* schedule_runs: "reserved", "submitted" or "refused" per schedule and instant
    operations, \* operations created: <<owner, schedule, instant>>
    processes,  \* where each tick stands
    sLock,       \* session that holds advisory lock 7189942
    now, sFaults, sEdits,
    broken,     \* history: reservations whose process failed before recording
    stale       \* history: an operation of a schedule that was off during its whole tick

sVars == <<schedules, runs, operations, processes, sLock, now, sFaults, sEdits, broken, stale>>

Schedule == Cron \cup Once
Run == Schedule \X (0..MaxTime)
Row == [enabled : BOOLEAN, owner : Owner]
Idle == [at |-> "idle"]

\* todo: schedules of the list still to do; copy: the list; on: history, the
\* schedules that were enabled at some instant of the tick; job: <<schedule, instant>>.
Tick == [at : {"loop", "submit", "record"}, todo : SUBSET Schedule, copy : [Schedule -> Row],
         on : SUBSET Schedule, job : Run \cup {<<>>}, result : {"submitted", "refused"}]

SchedulerTypeOK ==
    /\ schedules \in [Schedule -> Row]
    /\ \A r \in DOMAIN runs : r \in Run /\ runs[r] \in {"reserved", "submitted", "refused"}
    /\ operations \subseteq Owner \X Schedule \X (0..MaxTime)
    /\ processes \in [Process -> Tick \cup {Idle}]
    /\ sLock \in Process \cup {None}
    /\ now \in 0..MaxTime /\ sFaults \in 0..MaxSchedulerFaults /\ sEdits \in 0..MaxScheduleEdits
    /\ broken \subseteq Run
    /\ stale \in BOOLEAN

SchedulerInit ==
    /\ schedules \in [Schedule -> [enabled : {TRUE}, owner : Owner]]
    /\ runs = <<>>
    /\ operations = {}
    /\ processes = [p \in Process |-> Idle]
    /\ sLock = None
    /\ now = 0 /\ sFaults = 0 /\ sEdits = 0
    /\ broken = {} /\ stale = FALSE

Goes(p, state) == processes' = [processes EXCEPT ![p] = state]

-----------------------------------------------------------------------------
(* Tick. *)

\* pg_try_advisory_lock, then the list.
Lead(p) ==
    /\ processes[p] = Idle
    /\ sLock = None
    /\ sLock' = p
    /\ Goes(p, [at |-> "loop", todo |-> Schedule, copy |-> schedules,
                on |-> {s \in Schedule : schedules[s].enabled}, job |-> <<>>, result |-> "refused"])
    /\ UNCHANGED <<schedules, runs, operations, now, sFaults, sEdits, broken, stale>>

DueAt_Disabled(s, row) == IF s \in Once THEN {Instant} \cap 0..now ELSE {now} \cap Matches

DueAt_InMinute(s, row) == IF row.enabled THEN {now} \cap (IF s \in Once THEN {Instant} ELSE Matches) ELSE {}
DueAt_Next(s, row) == IF row.enabled THEN {now + 1} ELSE {}

\* Due: a cron schedule only in the minute itself, an instant ever after.
DueAt(s, row) ==
    IF ~row.enabled THEN {}
    ELSE IF s \in Once THEN {Instant} \cap 0..now
    ELSE {now} \cap Matches

Reserved_Ignored(r) == FALSE

\* INSERT INTO schedule_runs ... ON CONFLICT DO NOTHING affects no row.
Reserved(r) == r \in DOMAIN runs

\* The next schedule of the list: not due, reserved before, or reserved now.
Reserve(p, s) ==
    /\ processes[p].at = "loop"
    /\ s \in processes[p].todo
    /\ LET left == [processes[p] EXCEPT !.todo = @ \ {s}]
           due == {t \in DueAt(s, processes[p].copy[s]) : ~Reserved(<<s, t>>)}
       IN IF due = {}
          THEN Goes(p, left) /\ UNCHANGED runs
          ELSE \E t \in due :
                 /\ runs' = [r \in DOMAIN runs \cup {<<s, t>>} |->
                                IF r = <<s, t>> THEN "reserved" ELSE runs[r]]
                 /\ Goes(p, [left EXCEPT !.at = "submit", !.job = <<s, t>>])
    /\ UNCHANGED <<schedules, operations, sLock, now, sFaults, sEdits, broken, stale>>

\* The owner's row and Engine.Submit, idempotent in owner, schedule and instant;
\* refused: the owner is gone, lost a permission, or a policy denies it.
SubmitRun(p, result) ==
    /\ processes[p].at = "submit"
    /\ LET s == processes[p].job[1] IN
         IF result = "submitted"
         THEN /\ operations' = operations \cup
                    {<<processes[p].copy[s].owner, s, processes[p].job[2]>>}
              /\ stale' = (stale \/ s \notin processes[p].on)
         ELSE UNCHANGED <<operations, stale>>
    /\ Goes(p, [processes[p] EXCEPT !.at = "record", !.result = result])
    /\ UNCHANGED <<schedules, runs, sLock, now, sFaults, sEdits, broken>>

RunRecorded_OnlySuccess(p) == processes[p].result = "submitted"

\* The outcome is written for a failed Submit as well.
RunRecorded(p) == TRUE

\* UPDATE schedule_runs, and the audit record; then the next schedule.
RecordRun(p) ==
    /\ processes[p].at = "record"
    /\ runs' = IF RunRecorded(p) THEN [runs EXCEPT ![processes[p].job] = processes[p].result] ELSE runs
    /\ Goes(p, [processes[p] EXCEPT !.at = "loop", !.job = <<>>])
    /\ UNCHANGED <<schedules, operations, sLock, now, sFaults, sEdits, broken, stale>>

\* The list is done: the lock is released.
Finish(p) ==
    /\ processes[p].at = "loop" /\ processes[p].todo = {}
    /\ Goes(p, Idle)
    /\ sLock' = IF sLock = p THEN None ELSE sLock
    /\ UNCHANGED <<schedules, runs, operations, now, sFaults, sEdits, broken, stale>>

-----------------------------------------------------------------------------
(* Faults, administrators and the clock. *)

Fault == sFaults < MaxSchedulerFaults /\ sFaults' = sFaults + 1

\* A statement fails or the process dies: the tick ends where it stands.
SchedulerFails(p) ==
    /\ processes[p] # Idle
    /\ Fault
    /\ broken' = broken \cup (IF processes[p].at \in {"submit", "record"} THEN {processes[p].job} ELSE {})
    /\ Goes(p, Idle)
    /\ sLock' = IF sLock = p THEN None ELSE sLock
    /\ UNCHANGED <<schedules, runs, operations, now, sEdits, stale>>

\* The session that holds the lock is lost; the tick goes on over the pool.
SessionLost ==
    /\ sLock # None
    /\ Fault
    /\ sLock' = None
    /\ UNCHANGED <<schedules, runs, operations, processes, now, sEdits, broken, stale>>

\* saveObject: enabled, disabled, or taken over by another user.
EditSchedule(s, row) ==
    /\ sEdits < MaxScheduleEdits
    /\ sEdits' = sEdits + 1
    /\ row # schedules[s]
    /\ schedules' = [schedules EXCEPT ![s] = row]
    /\ processes' = [p \in Process |->
            IF processes[p] = Idle \/ ~row.enabled THEN processes[p]
            ELSE [processes[p] EXCEPT !.on = @ \cup {s}]]
    /\ UNCHANGED <<runs, operations, sLock, now, sFaults, broken, stale>>

Clock ==
    /\ now < MaxTime
    /\ now' = now + 1
    /\ UNCHANGED <<schedules, runs, operations, processes, sLock, sFaults, sEdits, broken, stale>>

Step(p) ==
    \/ Lead(p)
    \/ \E s \in Schedule : Reserve(p, s)
    \/ \E result \in {"submitted", "refused"} : SubmitRun(p, result)
    \/ RecordRun(p) \/ Finish(p)

SchedulerNext ==
    \/ \E p \in Process : Step(p) \/ SchedulerFails(p)
    \/ \E s \in Schedule, row \in Row : EditSchedule(s, row)
    \/ SessionLost \/ Clock

\* Run ticks every ten seconds in every process, and the clock advances. The
\* try-lock is not queued: no process is promised the lead for itself.
SchedulerFairness == WF_sVars(Clock) /\ \A p \in Process : WF_sVars(Step(p))

SchedulerSpec == SchedulerInit /\ [][SchedulerNext]_sVars /\ SchedulerFairness

-----------------------------------------------------------------------------
(* Properties. *)

\* One instant of a schedule yields at most one operation: with two leaders,
\* with a tick repeated after a failure, and even if the schedule changed hands
\* in between, so that Submit's own key would not recognise the second.
OncePerInstant == \A x, y \in operations : x[2] = y[2] /\ x[3] = y[3] => x = y

\* A reservation is left without an outcome only while a tick works on it, or
\* if that tick failed before recording: no refusal is dropped silently.
OutcomeRecorded == \A r \in DOMAIN runs : runs[r] = "reserved" =>
    r \in broken \/ \E p \in Process : processes[p] # Idle /\ processes[p].job = r

\* A schedule that was disabled during a whole tick is not triggered by it.
TriggeredWhileEnabled == ~stale

\* The instant was dealt with: an operation exists, or its refusal is on record.
InstantSettled(r) ==
    \/ r \in DOMAIN runs /\ runs[r] \in {"submitted", "refused"}
    \/ \E x \in operations : x[2] = r[1] /\ x[3] = r[2]

\* A schedule with an instant that stays enabled is submitted, or its refusal
\* recorded, however late: lost leadership, a clock that moved on and ticks that
\* failed elsewhere do not lose it. Only a tick that stopped after the reservation
\* of this very instant, and before its outcome was recorded, does
\* (SCHEDULER.md: "pode exigir reconciliação do schedule_run").
InstantServed == \A s \in Once :
    \/ []<>(~schedules[s].enabled)
    \/ <>(InstantSettled(<<s, Instant>>) \/ <<s, Instant>> \in broken)

\* A tick as a whole: one operation per instant, its outcome on record, and
\* nothing from a schedule that was off.
SchedulerSafe == SchedulerTypeOK /\ OncePerInstant /\ OutcomeRecorded /\ TriggeredWhileEnabled
=============================================================================
