--------------------------- MODULE SchedulerProofs ---------------------------
(***************************************************************************)
(* SchedulerSafe for any number of processes, schedules and owners. That   *)
(* an instant yields one operation is not inductive: two leaders may work  *)
(* at once, and a process that is about to submit holds nothing but its    *)
(* reservation. SchedulerInv says what a reservation means: it is          *)
(* never held by two ticks, it precedes every operation of its instant,    *)
(* and the tick that holds it has not submitted yet.                       *)
(***************************************************************************)
EXTENDS Scheduler, TLAPS

\* The tick is between its reservation and the record of the outcome.
Working(p) == processes[p].at \in {"submit", "record"}

\* A tick works on a reserved instant, and on none between two schedules.
JobReserved == \A p \in Process :
    /\ Working(p) => processes[p].job \in DOMAIN runs
    /\ processes[p].at = "loop" => processes[p].job = <<>>

\* No two ticks work on one instant.
JobsDistinct == \A p, q \in Process :
    Working(p) /\ Working(q) /\ processes[p].job = processes[q].job => p = q

\* An operation was reserved first.
OperationsReserved == \A x \in operations : <<x[2], x[3]>> \in DOMAIN runs

\* What a tick is about to submit was not submitted before.
NotYetSubmitted == \A p \in Process : processes[p].at = "submit" =>
    \A x \in operations : <<x[2], x[3]>> # processes[p].job

\* A schedule the list shows enabled was enabled at some instant of the tick,
\* and the job's was.
ListEnabled == \A p \in Process : processes[p] # Idle =>
    /\ \A s \in Schedule : processes[p].copy[s].enabled => s \in processes[p].on
    /\ processes[p].at = "submit" => processes[p].job[1] \in processes[p].on

\* The inductive invariant: SchedulerSafe and what a reservation means.
SchedulerInv ==
    /\ SchedulerSafe
    /\ JobReserved /\ JobsDistinct
    /\ OperationsReserved /\ NotYetSubmitted /\ ListEnabled

-----------------------------------------------------------------------------
\* A tick in progress has the fields of one.
LEMMA Ticking ==
    ASSUME SchedulerTypeOK, NEW p \in Process
    PROVE  /\ processes[p] \in Tick \cup {Idle}
           /\ processes[p] # Idle => /\ processes[p] \in Tick
                                     /\ processes[p].at \in {"loop", "submit", "record"}
           /\ processes[p].at # "idle" => processes[p] # Idle
           /\ processes[p] # Idle => processes[p].at # "idle"
  BY DEF SchedulerTypeOK, Tick, Idle

\* A step of one process leaves the others where they were.
LEMMA Moves ==
    ASSUME SchedulerTypeOK, NEW p \in Process, NEW t \in Tick \cup {Idle}, Goes(p, t)
    PROVE  /\ processes' \in [Process -> Tick \cup {Idle}]
           /\ processes'[p] = t
           /\ \A q \in Process : q # p => processes'[q] = processes[q]
  BY DEF SchedulerTypeOK, Goes

\* A reservation names a schedule and an instant.
LEMMA JobShape ==
    ASSUME SchedulerInv, NEW p \in Process, Working(p)
    PROVE  /\ processes[p] \in Tick /\ processes[p] # Idle
           /\ processes[p].job \in Run /\ processes[p].job \in DOMAIN runs
           /\ processes[p].job[1] \in Schedule /\ processes[p].job[2] \in 0..MaxTime
           /\ processes[p].job = <<processes[p].job[1], processes[p].job[2]>>
<1>1. processes[p] \in Tick /\ processes[p] # Idle
  BY Ticking DEF Working, SchedulerInv, SchedulerSafe
<1>2. processes[p].job \in Run /\ processes[p].job \in DOMAIN runs
  BY DEF SchedulerInv, SchedulerSafe, SchedulerTypeOK, JobReserved
<1> QED
  BY <1>1, <1>2 DEF Run

\* The empty job is no reservation.
LEMMA NoJobNoRun == <<>> \notin Run
<1> SUFFICES ASSUME <<>> \in Run PROVE FALSE
  OBVIOUS
<1>1. PICK s \in Schedule, t \in 0..MaxTime : <<>> = <<s, t>>
  BY DEF Run
<1> QED
  BY <1>1

-----------------------------------------------------------------------------
\* At the start nothing is reserved.
LEMMA InitInv == SchedulerInit => SchedulerInv
<1> SUFFICES ASSUME SchedulerInit PROVE SchedulerInv
  OBVIOUS
<1>1. DOMAIN runs = {}
  BY DEF SchedulerInit
<1>2. \A p \in Process : processes[p] = Idle /\ processes[p].at = "idle"
  BY DEF SchedulerInit, Idle
<1>3. SchedulerTypeOK
  <2>1. schedules \in [Schedule -> Row]
    BY DEF SchedulerInit, Row
  <2>2. processes \in [Process -> Tick \cup {Idle}]
    BY DEF SchedulerInit
  <2>3. now \in 0..MaxTime /\ sFaults \in 0..MaxSchedulerFaults /\ sEdits \in 0..MaxScheduleEdits
    BY SchedulerAssumption DEF SchedulerInit
  <2>4. operations \subseteq Owner \X Schedule \X (0..MaxTime) /\ broken \subseteq Run
    BY DEF SchedulerInit
  <2>5. sLock \in Process \cup {None} /\ stale \in BOOLEAN
    BY DEF SchedulerInit
  <2> QED
    BY <1>1, <2>1, <2>2, <2>3, <2>4, <2>5 DEF SchedulerTypeOK
<1>4. OncePerInstant /\ OutcomeRecorded /\ TriggeredWhileEnabled /\ OperationsReserved
  BY <1>1 DEF SchedulerInit, OncePerInstant, OutcomeRecorded, TriggeredWhileEnabled, OperationsReserved
<1>5. JobReserved /\ JobsDistinct /\ NotYetSubmitted /\ ListEnabled
  BY <1>2 DEF JobReserved, JobsDistinct, NotYetSubmitted, ListEnabled, Working
<1> QED
  BY <1>3, <1>4, <1>5 DEF SchedulerInv, SchedulerSafe

\* The list is read while the schedules are as it shows them.
LEMMA LeadInv ==
    ASSUME SchedulerInv, NEW p \in Process, Lead(p)
    PROVE  SchedulerInv'
<1> DEFINE t == [at |-> "loop", todo |-> Schedule, copy |-> schedules,
                 on |-> {s \in Schedule : schedules[s].enabled}, job |-> <<>>, result |-> "refused"]
<1>1. t \in Tick /\ t # Idle /\ t.at = "loop"
  BY DEF SchedulerInv, SchedulerSafe, SchedulerTypeOK, Tick, Idle
<1>2. /\ processes' \in [Process -> Tick \cup {Idle}]
      /\ processes'[p] = t
      /\ \A q \in Process : q # p => processes'[q] = processes[q]
  BY <1>1, Moves DEF Lead, SchedulerInv, SchedulerSafe
<1>3. processes[p] = Idle
  BY DEF Lead
<1>4. SchedulerTypeOK'
  BY <1>2 DEF SchedulerInv, SchedulerSafe, SchedulerTypeOK, Lead
<1>5. OncePerInstant' /\ TriggeredWhileEnabled' /\ OperationsReserved'
  BY DEF SchedulerInv, SchedulerSafe, OncePerInstant, TriggeredWhileEnabled, OperationsReserved, Lead
<1>6. OutcomeRecorded'
  BY <1>2, <1>3 DEF SchedulerInv, SchedulerSafe, OutcomeRecorded, Lead
<1>7. JobReserved' /\ JobsDistinct' /\ NotYetSubmitted'
  BY <1>1, <1>2 DEF SchedulerInv, JobReserved, JobsDistinct, NotYetSubmitted, Working, Lead
<1>8. ListEnabled'
  BY <1>1, <1>2 DEF SchedulerInv, ListEnabled, Lead
<1> QED
  BY <1>4, <1>5, <1>6, <1>7, <1>8 DEF SchedulerInv, SchedulerSafe

\* What is due lies within the clock, and its schedule is enabled in the list.
LEMMA DueBounds ==
    ASSUME SchedulerTypeOK, NEW s \in Schedule, NEW row, NEW t \in DueAt(s, row)
    PROVE  row.enabled /\ t \in 0..MaxTime
  BY SchedulerAssumption DEF DueAt, SchedulerTypeOK

\* The unique row of schedule_runs gives the instant to one tick only.
LEMMA ReserveInv ==
    ASSUME SchedulerInv, NEW p \in Process, NEW s \in Schedule, Reserve(p, s)
    PROVE  SchedulerInv'
<1> DEFINE left == [processes[p] EXCEPT !.todo = @ \ {s}]
           due == {u \in DueAt(s, processes[p].copy[s]) : ~Reserved(<<s, u>>)}
<1>1. processes[p] \in Tick /\ processes[p].at = "loop" /\ processes[p] # Idle
  BY Ticking DEF Reserve, SchedulerInv, SchedulerSafe
<1>2. left \in Tick /\ left # Idle /\ left.at = "loop" /\ left.job = processes[p].job
      /\ left.copy = processes[p].copy /\ left.on = processes[p].on
  BY <1>1 DEF Tick, Idle
<1>3. CASE due = {}
  <2>1. Goes(p, left) /\ UNCHANGED <<schedules, runs, operations, sLock, now, sFaults, sEdits, broken, stale>>
    BY <1>3 DEF Reserve
  <2>2. /\ processes' \in [Process -> Tick \cup {Idle}]
        /\ processes'[p] = left
        /\ \A q \in Process : q # p => processes'[q] = processes[q]
    BY <1>2, <2>1, Moves DEF SchedulerInv, SchedulerSafe
  <2> HIDE DEF left
  <2>3. SchedulerTypeOK'
    BY <2>1, <2>2 DEF SchedulerInv, SchedulerSafe, SchedulerTypeOK
  <2>4. OncePerInstant' /\ TriggeredWhileEnabled' /\ OperationsReserved'
    BY <2>1 DEF SchedulerInv, SchedulerSafe, OncePerInstant, TriggeredWhileEnabled, OperationsReserved
  <2>5. OutcomeRecorded'
    BY <1>1, <1>2, <2>1, <2>2 DEF SchedulerInv, SchedulerSafe, OutcomeRecorded
  <2>6. JobReserved' /\ JobsDistinct' /\ NotYetSubmitted'
    BY <1>1, <1>2, <2>1, <2>2 DEF SchedulerInv, JobReserved, JobsDistinct, NotYetSubmitted, Working
  <2>7. ListEnabled'
    BY <1>1, <1>2, <2>1, <2>2 DEF SchedulerInv, ListEnabled
  <2> QED
    BY <2>3, <2>4, <2>5, <2>6, <2>7 DEF SchedulerInv, SchedulerSafe
<1>4. CASE due # {}
  <2>1. PICK u \in due : /\ runs' = [r \in DOMAIN runs \cup {<<s, u>>} |->
                                        IF r = <<s, u>> THEN "reserved" ELSE runs[r]]
                         /\ Goes(p, [left EXCEPT !.at = "submit", !.job = <<s, u>>])
    BY <1>4 DEF Reserve
  <2> DEFINE job == <<s, u>>
             t == [left EXCEPT !.at = "submit", !.job = job]
  <2>2. processes[p].copy[s].enabled /\ u \in 0..MaxTime /\ job \in Run /\ job \notin DOMAIN runs
    BY DueBounds DEF Reserved, Run, SchedulerInv, SchedulerSafe
  <2>3. t \in Tick /\ t # Idle /\ t.at = "submit" /\ t.job = job /\ t.job[1] = s
        /\ t.copy = processes[p].copy /\ t.on = processes[p].on
    BY <1>1, <1>2, <2>2 DEF Tick, Idle
  <2>4. /\ processes' \in [Process -> Tick \cup {Idle}]
        /\ processes'[p] = t
        /\ \A q \in Process : q # p => processes'[q] = processes[q]
    BY <2>1, <2>3, Moves DEF SchedulerInv, SchedulerSafe
  <2> HIDE DEF left, t
  <2>5. /\ DOMAIN runs' = DOMAIN runs \cup {job}
        /\ runs'[job] = "reserved"
        /\ \A r \in DOMAIN runs : runs'[r] = runs[r]
    BY <2>1, <2>2
  <2>6. UNCHANGED <<schedules, operations, sLock, now, sFaults, sEdits, broken, stale>>
    BY DEF Reserve
  <2> HIDE DEF job
  <2>7. SchedulerTypeOK'
    BY <2>2, <2>4, <2>5, <2>6 DEF SchedulerInv, SchedulerSafe, SchedulerTypeOK
  <2>8. OncePerInstant' /\ TriggeredWhileEnabled' /\ OperationsReserved'
    BY <2>5, <2>6 DEF SchedulerInv, SchedulerSafe, OncePerInstant, TriggeredWhileEnabled, OperationsReserved
  <2>9. OutcomeRecorded'
    <3> SUFFICES ASSUME NEW r \in DOMAIN runs', runs'[r] = "reserved", r \notin broken
                 PROVE  \E q \in Process : processes'[q] # Idle /\ processes'[q].job = r
      BY <2>6 DEF OutcomeRecorded
    <3>1. CASE r = job
      BY <2>3, <2>4, <3>1
    <3>2. CASE r # job
      <4>1. r \in DOMAIN runs /\ runs[r] = "reserved"
        BY <2>5, <3>2
      <4>2. PICK q \in Process : processes[q] # Idle /\ processes[q].job = r
        BY <4>1 DEF SchedulerInv, SchedulerSafe, OutcomeRecorded
      <4>3. r \in Run /\ processes[p].job = <<>>
        BY <1>1, <4>1 DEF SchedulerInv, SchedulerSafe, SchedulerTypeOK, JobReserved
      <4> QED
        BY <2>4, <4>2, <4>3, NoJobNoRun
    <3> QED
      BY <3>1, <3>2
  <2>10. JobReserved'
    BY <2>3, <2>4, <2>5 DEF SchedulerInv, JobReserved, Working
  <2>11. JobsDistinct'
    BY <2>2, <2>3, <2>4 DEF SchedulerInv, JobReserved, JobsDistinct, Working
  <2>12. NotYetSubmitted'
    BY <2>2, <2>3, <2>4, <2>6 DEF SchedulerInv, OperationsReserved, NotYetSubmitted
  <2>13. ListEnabled'
    BY <1>1, <2>2, <2>3, <2>4 DEF SchedulerInv, ListEnabled
  <2> QED
    BY <2>7, <2>8, <2>9, <2>10, <2>11, <2>12, <2>13 DEF SchedulerInv, SchedulerSafe
<1> QED
  BY <1>3, <1>4

\* Only the tick that holds the reservation creates the operation.
LEMMA SubmitRunInv ==
    ASSUME SchedulerInv, NEW p \in Process, NEW result \in {"submitted", "refused"},
           SubmitRun(p, result)
    PROVE  SchedulerInv'
<1> DEFINE job == processes[p].job
           x == <<processes[p].copy[job[1]].owner, job[1], job[2]>>
           t == [processes[p] EXCEPT !.at = "record", !.result = result]
<1>1. /\ processes[p] \in Tick /\ processes[p] # Idle /\ processes[p].at = "submit"
      /\ job \in Run /\ job \in DOMAIN runs
      /\ job[1] \in Schedule /\ job[2] \in 0..MaxTime /\ job = <<job[1], job[2]>>
  BY JobShape DEF Working, SubmitRun
<1>2. t \in Tick /\ t # Idle /\ t.at = "record" /\ t.job = job
      /\ t.copy = processes[p].copy /\ t.on = processes[p].on
  BY <1>1 DEF Tick, Idle
<1>3. /\ processes' \in [Process -> Tick \cup {Idle}]
      /\ processes'[p] = t
      /\ \A q \in Process : q # p => processes'[q] = processes[q]
  BY <1>2, Moves DEF SubmitRun, SchedulerInv, SchedulerSafe
<1>4. x \in Owner \X Schedule \X (0..MaxTime) /\ x[2] = job[1] /\ x[3] = job[2] /\ <<x[2], x[3]>> = job
  BY <1>1 DEF Tick, Row
<1>5. job[1] \in processes[p].on
  BY <1>1 DEF SchedulerInv, ListEnabled
<1>6. /\ operations' \in {operations, operations \cup {x}}
      /\ UNCHANGED <<schedules, runs, sLock, now, sFaults, sEdits, broken>>
      /\ stale' = stale
  <2>1. ~stale
    BY DEF SchedulerInv, SchedulerSafe, TriggeredWhileEnabled
  <2>2. CASE result = "submitted"
    BY <1>5, <2>1, <2>2 DEF SubmitRun, SchedulerInv, SchedulerSafe, SchedulerTypeOK
  <2>3. CASE result = "refused"
    BY <2>3 DEF SubmitRun
  <2> QED
    BY <2>2, <2>3
<1>7. \A y \in operations : <<y[2], y[3]>> # job
  BY <1>1 DEF SchedulerInv, NotYetSubmitted
<1> HIDE DEF job, t, x
<1>8. SchedulerTypeOK'
  BY <1>3, <1>4, <1>6 DEF SchedulerInv, SchedulerSafe, SchedulerTypeOK
<1>9. OncePerInstant'
  <2>1. \A y \in operations : ~(y[2] = x[2] /\ y[3] = x[3])
    BY <1>4, <1>7
  <2> QED
    BY <1>6, <2>1 DEF SchedulerInv, SchedulerSafe, OncePerInstant
<1>10. TriggeredWhileEnabled' /\ OperationsReserved'
  BY <1>1, <1>4, <1>6 DEF SchedulerInv, SchedulerSafe, TriggeredWhileEnabled, OperationsReserved
<1>11. OutcomeRecorded'
  BY <1>1, <1>2, <1>3, <1>6 DEF SchedulerInv, SchedulerSafe, OutcomeRecorded, job
<1>12. JobReserved' /\ JobsDistinct'
  BY <1>1, <1>2, <1>3, <1>6 DEF SchedulerInv, JobReserved, JobsDistinct, Working, job
<1>13. NotYetSubmitted'
  <2> SUFFICES ASSUME NEW q \in Process, processes'[q].at = "submit", NEW y \in operations'
               PROVE  <<y[2], y[3]>> # processes'[q].job
    BY DEF NotYetSubmitted
  <2>1. q # p /\ processes'[q] = processes[q] /\ processes[q].at = "submit"
    BY <1>2, <1>3
  <2>2. processes[q].job # job
    BY <1>1, <2>1 DEF SchedulerInv, JobsDistinct, Working, job
  <2> QED
    BY <1>4, <1>6, <2>1, <2>2 DEF SchedulerInv, NotYetSubmitted
<1>14. ListEnabled'
  BY <1>1, <1>2, <1>3 DEF SchedulerInv, ListEnabled
<1> QED
  BY <1>8, <1>9, <1>10, <1>11, <1>12, <1>13, <1>14 DEF SchedulerInv, SchedulerSafe

\* The outcome is on record before the tick goes on.
LEMMA RecordRunInv ==
    ASSUME SchedulerInv, NEW p \in Process, RecordRun(p)
    PROVE  SchedulerInv'
<1> DEFINE job == processes[p].job
           t == [processes[p] EXCEPT !.at = "loop", !.job = <<>>]
<1>1. /\ processes[p] \in Tick /\ processes[p] # Idle /\ processes[p].at = "record"
      /\ job \in Run /\ job \in DOMAIN runs
  BY JobShape DEF Working, RecordRun
<1>2. t \in Tick /\ t # Idle /\ t.at = "loop" /\ t.job = <<>>
      /\ t.copy = processes[p].copy /\ t.on = processes[p].on
  BY <1>1 DEF Tick, Idle
<1>3. /\ processes' \in [Process -> Tick \cup {Idle}]
      /\ processes'[p] = t
      /\ \A q \in Process : q # p => processes'[q] = processes[q]
  BY <1>2, Moves DEF RecordRun, SchedulerInv, SchedulerSafe
<1>4. /\ DOMAIN runs' = DOMAIN runs
      /\ runs'[job] = processes[p].result /\ processes[p].result \in {"submitted", "refused"}
      /\ \A r \in DOMAIN runs : r # job => runs'[r] = runs[r]
  BY <1>1 DEF RecordRun, RunRecorded, Tick
<1>5. UNCHANGED <<schedules, operations, sLock, now, sFaults, sEdits, broken, stale>>
  BY DEF RecordRun
<1> HIDE DEF job, t
<1>6. SchedulerTypeOK'
  BY <1>3, <1>4, <1>5 DEF SchedulerInv, SchedulerSafe, SchedulerTypeOK
<1>7. OncePerInstant' /\ TriggeredWhileEnabled' /\ OperationsReserved'
  BY <1>4, <1>5 DEF SchedulerInv, SchedulerSafe, OncePerInstant, TriggeredWhileEnabled, OperationsReserved
<1>8. OutcomeRecorded'
  BY <1>1, <1>3, <1>4, <1>5 DEF SchedulerInv, SchedulerSafe, OutcomeRecorded, job
<1>9. JobReserved' /\ JobsDistinct' /\ NotYetSubmitted'
  BY <1>1, <1>2, <1>3, <1>4, <1>5 DEF SchedulerInv, JobReserved, JobsDistinct, NotYetSubmitted, Working
<1>10. ListEnabled'
  BY <1>1, <1>2, <1>3 DEF SchedulerInv, ListEnabled
<1> QED
  BY <1>6, <1>7, <1>8, <1>9, <1>10 DEF SchedulerInv, SchedulerSafe

\* A tick that ends, done or failed, leaves no reservation of its own behind
\* without an outcome, unless it is counted as broken.
LEMMA EndInv ==
    ASSUME SchedulerInv, NEW p \in Process, Goes(p, Idle), processes[p] # Idle,
           UNCHANGED <<schedules, runs, operations, now, sEdits, stale>>,
           sLock' \in Process \cup {None}, sFaults' \in 0..MaxSchedulerFaults,
           broken' = broken \cup (IF processes[p].at \in {"submit", "record"}
                                  THEN {processes[p].job} ELSE {})
    PROVE  SchedulerInv'
<1>1. processes[p] \in Tick /\ processes[p].at \in {"loop", "submit", "record"} /\ Idle.at = "idle"
  BY Ticking DEF Idle, SchedulerInv, SchedulerSafe
<1>2. /\ processes' \in [Process -> Tick \cup {Idle}]
      /\ processes'[p] = Idle
      /\ \A q \in Process : q # p => processes'[q] = processes[q]
  BY Moves DEF SchedulerInv, SchedulerSafe
<1>3. broken' \subseteq Run
  BY JobShape DEF Working, SchedulerInv, SchedulerSafe, SchedulerTypeOK
<1>4. SchedulerTypeOK'
  BY <1>2, <1>3 DEF SchedulerInv, SchedulerSafe, SchedulerTypeOK
<1>5. OncePerInstant' /\ TriggeredWhileEnabled' /\ OperationsReserved'
  BY DEF SchedulerInv, SchedulerSafe, OncePerInstant, TriggeredWhileEnabled, OperationsReserved
<1>6. OutcomeRecorded'
  <2> SUFFICES ASSUME NEW r \in DOMAIN runs, runs[r] = "reserved", r \notin broken'
               PROVE  \E q \in Process : processes'[q] # Idle /\ processes'[q].job = r
    BY DEF OutcomeRecorded
  <2>1. PICK q \in Process : processes[q] # Idle /\ processes[q].job = r
    BY DEF SchedulerInv, SchedulerSafe, OutcomeRecorded
  <2>2. r \in Run
    BY DEF SchedulerInv, SchedulerSafe, SchedulerTypeOK
  <2>3. q # p
    BY <1>1, <2>1, <2>2, NoJobNoRun DEF SchedulerInv, JobReserved
  <2> QED
    BY <1>2, <2>1, <2>3
<1>7. JobReserved' /\ JobsDistinct' /\ NotYetSubmitted'
  BY <1>1, <1>2 DEF SchedulerInv, JobReserved, JobsDistinct, NotYetSubmitted, Working
<1>8. ListEnabled'
  BY <1>2 DEF SchedulerInv, ListEnabled
<1> QED
  BY <1>4, <1>5, <1>6, <1>7, <1>8 DEF SchedulerInv, SchedulerSafe

\* The end of a list.
LEMMA FinishInv ==
    ASSUME SchedulerInv, NEW p \in Process, Finish(p)
    PROVE  SchedulerInv'
<1>1. processes[p] # Idle /\ processes[p].at = "loop"
  BY Ticking DEF Finish, SchedulerInv, SchedulerSafe
<1>2. sLock' \in Process \cup {None} /\ sFaults' \in 0..MaxSchedulerFaults
  BY DEF Finish, SchedulerInv, SchedulerSafe, SchedulerTypeOK
<1>3. broken' = broken \cup (IF processes[p].at \in {"submit", "record"}
                             THEN {processes[p].job} ELSE {})
  BY <1>1 DEF Finish
<1> QED
  BY <1>1, <1>2, <1>3, EndInv DEF Finish

\* A failed statement or a dead process.
LEMMA SchedulerFailsInv ==
    ASSUME SchedulerInv, NEW p \in Process, SchedulerFails(p)
    PROVE  SchedulerInv'
<1>1. sLock' \in Process \cup {None} /\ sFaults' \in 0..MaxSchedulerFaults
  BY SchedulerAssumption DEF SchedulerFails, Fault, SchedulerInv, SchedulerSafe, SchedulerTypeOK
<1> QED
  BY <1>1, EndInv DEF SchedulerFails

\* An edit enables a schedule in the history of every tick that is under way.
LEMMA EditScheduleInv ==
    ASSUME SchedulerInv, NEW s \in Schedule, NEW row \in Row, EditSchedule(s, row)
    PROVE  SchedulerInv'
<1>1. \A p \in Process : /\ processes[p] = Idle => processes'[p] = Idle
                         /\ processes[p] # Idle =>
                              /\ processes'[p] \in Tick /\ processes'[p] # Idle
                              /\ processes'[p].at = processes[p].at
                              /\ processes'[p].job = processes[p].job
                              /\ processes'[p].copy = processes[p].copy
                              /\ processes[p].on \subseteq processes'[p].on
  <2> SUFFICES ASSUME NEW p \in Process, processes[p] # Idle
               PROVE  /\ processes'[p] \in Tick /\ processes'[p] # Idle
                      /\ processes'[p].at = processes[p].at
                      /\ processes'[p].job = processes[p].job
                      /\ processes'[p].copy = processes[p].copy
                      /\ processes[p].on \subseteq processes'[p].on
    BY DEF EditSchedule
  <2>1. processes[p] \in Tick
    BY Ticking DEF SchedulerInv, SchedulerSafe
  <2>2. CASE row.enabled
    <3>1. processes'[p] = [processes[p] EXCEPT !.on = @ \cup {s}]
      BY <2>2 DEF EditSchedule
    <3> QED
      BY <2>1, <3>1 DEF Tick, Idle
  <2>3. CASE ~row.enabled
    BY <2>1, <2>3 DEF EditSchedule
  <2> QED
    BY <2>2, <2>3
<1>2. processes' \in [Process -> Tick \cup {Idle}]
  BY <1>1 DEF EditSchedule
<1>3. /\ schedules' \in [Schedule -> Row] /\ sEdits' \in 0..MaxScheduleEdits
      /\ UNCHANGED <<runs, operations, sLock, now, sFaults, broken, stale>>
  BY SchedulerAssumption DEF EditSchedule, SchedulerInv, SchedulerSafe, SchedulerTypeOK
<1>4. SchedulerTypeOK'
  BY <1>2, <1>3 DEF SchedulerInv, SchedulerSafe, SchedulerTypeOK
<1>5. OncePerInstant' /\ TriggeredWhileEnabled' /\ OperationsReserved'
  BY <1>3 DEF SchedulerInv, SchedulerSafe, OncePerInstant, TriggeredWhileEnabled, OperationsReserved
<1>6. OutcomeRecorded'
  BY <1>1, <1>3 DEF SchedulerInv, SchedulerSafe, OutcomeRecorded
<1>7. \A p \in Process : processes'[p].at = processes[p].at /\ (processes[p].at # "idle" =>
                         processes'[p].job = processes[p].job)
  BY <1>1, Ticking DEF SchedulerInv, SchedulerSafe
<1>8. JobReserved' /\ JobsDistinct' /\ NotYetSubmitted'
  BY <1>3, <1>7 DEF SchedulerInv, JobReserved, JobsDistinct, NotYetSubmitted, Working
<1>9. ListEnabled'
  BY <1>1 DEF SchedulerInv, ListEnabled
<1> QED
  BY <1>4, <1>5, <1>6, <1>8, <1>9 DEF SchedulerInv, SchedulerSafe

\* The clock and a lost session touch no tick.
LEMMA OutsideInv ==
    ASSUME SchedulerInv, SessionLost \/ Clock
    PROVE  SchedulerInv'
<1>1. /\ UNCHANGED <<schedules, runs, operations, processes, sEdits, broken, stale>>
      /\ now' \in 0..MaxTime /\ sFaults' \in 0..MaxSchedulerFaults /\ sLock' \in Process \cup {None}
  BY SchedulerAssumption DEF SessionLost, Clock, Fault, SchedulerInv, SchedulerSafe, SchedulerTypeOK
<1>2. SchedulerTypeOK'
  BY <1>1 DEF SchedulerInv, SchedulerSafe, SchedulerTypeOK
<1>3. OncePerInstant' /\ OutcomeRecorded' /\ TriggeredWhileEnabled' /\ OperationsReserved'
  BY <1>1 DEF SchedulerInv, SchedulerSafe, OncePerInstant, OutcomeRecorded, TriggeredWhileEnabled,
              OperationsReserved
<1>4. JobReserved' /\ JobsDistinct' /\ NotYetSubmitted' /\ ListEnabled'
  BY <1>1 DEF SchedulerInv, JobReserved, JobsDistinct, NotYetSubmitted, ListEnabled, Working
<1> QED
  BY <1>2, <1>3, <1>4 DEF SchedulerInv, SchedulerSafe

\* A step that changes nothing.
LEMMA StutterInv ==
    ASSUME SchedulerInv, UNCHANGED sVars
    PROVE  SchedulerInv'
<1>1. SchedulerTypeOK'
  BY DEF SchedulerInv, SchedulerSafe, SchedulerTypeOK, sVars
<1>2. OncePerInstant' /\ OutcomeRecorded' /\ TriggeredWhileEnabled' /\ OperationsReserved'
  BY DEF SchedulerInv, SchedulerSafe, OncePerInstant, OutcomeRecorded, TriggeredWhileEnabled,
         OperationsReserved, sVars
<1>3. JobReserved' /\ JobsDistinct' /\ NotYetSubmitted' /\ ListEnabled'
  BY DEF SchedulerInv, JobReserved, JobsDistinct, NotYetSubmitted, ListEnabled, Working, sVars
<1> QED
  BY <1>1, <1>2, <1>3 DEF SchedulerInv, SchedulerSafe

-----------------------------------------------------------------------------
\* A reservation is held by one tick, comes before the operation of its instant
\* and is held until the outcome is recorded, whoever holds the advisory lock.
THEOREM SchedulerInvariant == SchedulerSpec => []SchedulerInv
<1>1. SchedulerInv /\ [SchedulerNext]_sVars => SchedulerInv'
  <2> SUFFICES ASSUME SchedulerInv, [SchedulerNext]_sVars PROVE SchedulerInv'
    OBVIOUS
  <2>1. ASSUME NEW p \in Process, Step(p) PROVE SchedulerInv'
    BY <2>1, LeadInv, ReserveInv, SubmitRunInv, RecordRunInv, FinishInv DEF Step
  <2>2. ASSUME NEW p \in Process, SchedulerFails(p) PROVE SchedulerInv'
    BY <2>2, SchedulerFailsInv
  <2>3. ASSUME NEW s \in Schedule, NEW row \in Row, EditSchedule(s, row) PROVE SchedulerInv'
    BY <2>3, EditScheduleInv
  <2>4. CASE SessionLost \/ Clock
    BY <2>4, OutsideInv
  <2>5. CASE UNCHANGED sVars
    BY <2>5, StutterInv
  <2> QED
    BY <2>1, <2>2, <2>3, <2>4, <2>5 DEF SchedulerNext
<1> QED
  BY <1>1, InitInv, PTL DEF SchedulerSpec

\* An instant of a schedule yields one operation, no refusal is dropped, and
\* nothing is triggered by a schedule that was off during the whole tick: with
\* any number of processes that lead at once, fail and are lost (Scheduler.Tick).
THEOREM SchedulerIsSafe == SchedulerSpec => []SchedulerSafe
<1>1. SchedulerInv => SchedulerSafe
  BY DEF SchedulerInv
<1> QED
  BY <1>1, SchedulerInvariant, PTL
=============================================================================
