----------------------------- MODULE MCLeaders -----------------------------
(***************************************************************************)
(* The loops that every process runs and one of them leads at a time:      *)
(* scheduler, notification dispatcher, collector and monitor. Each has an  *)
(* advisory lock and tables of its own, so a behaviour moves one of them   *)
(* and the others stay where they begin: the states are the sum, not the   *)
(* product.                                                                *)
(***************************************************************************)
EXTENDS Scheduler, Notifications, Alerts, AgentMonitor, TLC

VARIABLE moving

\* The documents sit at the edges of the alert rules.
Healthy == [enabled |-> TRUE, state |-> "online", used |-> 9, total |-> 10, disk |-> 89]
HostDocs == {Healthy, [Healthy EXCEPT !.state = "offline"], [Healthy EXCEPT !.used = 10, !.disk = 90],
             [Healthy EXCEPT !.enabled = FALSE, !.state = "offline"]}
Running == [state |-> "running", health |-> "healthy", restarts |-> 4]
ResourceDocs == {Running, [Running EXCEPT !.state = "exited", !.restarts = 5]}

\* One beginning for each of the parts that do not move.
Still ==
    /\ moving # "scheduler" => \A s, t \in Schedule : schedules[s] = schedules[t]
    /\ moving # "alerts" => (\A h \in Host : host[h] = Healthy) /\ (\A r \in Resource : resource[r] = Running)
    /\ moving # "monitor" => \A m \in Monitor : monitor[m].mode = "ADVISORY"

LeadersInit ==
    /\ moving \in {"scheduler", "notifications", "alerts", "monitor"}
    /\ SchedulerInit /\ NotificationsInit /\ AlertsInit /\ MonitorInit
    /\ Still

LeadersNext ==
    /\ UNCHANGED moving
    /\ \/ moving = "scheduler" /\ SchedulerNext /\ UNCHANGED <<nVars, aVars, mVars>>
       \/ moving = "notifications" /\ NotificationsNext /\ UNCHANGED <<sVars, aVars, mVars>>
       \/ moving = "alerts" /\ AlertsNext /\ UNCHANGED <<sVars, nVars, mVars>>
       \/ moving = "monitor" /\ MonitorNext /\ UNCHANGED <<sVars, nVars, aVars>>

\* The loop that moves is as fair as its own specification says.
LeadersFairness ==
    \/ <>[](moving = "scheduler") /\ SchedulerFairness
    \/ <>[](moving = "notifications") /\ NotificationsFairness
    \/ <>[](moving = "alerts") /\ AlertsFairness
    \/ <>[](moving = "monitor") /\ MonitorFairness

LeadersSpec ==
    LeadersInit /\ [][LeadersNext]_<<moving, sVars, nVars, aVars, mVars>> /\ LeadersFairness

\* Processes are interchangeable in every loop, and so are the schedules' owners.
Symmetry == Permutations(Process) \cup Permutations(Owner)

-----------------------------------------------------------------------------
Elsewhere(part) == []<>(moving # part)

\* The loops do their work, though ticks fail, leaders change and a lost leader
\* goes on beside the new one. Scheduler.Tick: a one-shot schedule that stays
\* enabled is submitted or refused on record, also after its minute, unless its
\* tick stopped between the reservation and the record. Dispatcher.Tick: an event is sent
\* to every provider that wants it or its attempts are used up, as long as nobody
\* edits the providers. Collector.Tick: once the inventory is left alone the open
\* alerts are the findings, as long as one query lists them all. monitorTick: an
\* unhealthy resource under an active monitor is analyzed, provided the account
\* may ask and the unhealthy resources fit into its hourly calls.
LoopsServe ==
    /\ Elsewhere("scheduler") \/ InstantServed
    /\ Elsewhere("notifications") \/ Delivered
    /\ Elsewhere("alerts") \/ AlertsConverge
    /\ Elsewhere("monitor") \/ AnomalyAnalyzed
=============================================================================
