-------------------------- MODULE OperationLifecycle --------------------------
(***************************************************************************)
(* What the operation queue promises to its callers, without workers,      *)
(* leases that expire, heartbeats, crashes or lost replies: an operation   *)
(* is created once, decided once, begun at most once while it alone holds  *)
(* its resource, fires at most one remote command, and gets one verdict    *)
(* that never changes. Only a closed operation gives its resource back.    *)
(***************************************************************************)
EXTENDS Naturals

CONSTANTS Op, Resource, None

VARIABLES
    status,     \* the life-cycle state of each operation
    target,     \* the resource it acts on
    holder,     \* the operation holding each resource
    started,    \* operations that were begun
    fired       \* remote commands fired for each operation

vars == <<status, target, holder, started, fired>>

Verdicts == {"succeeded", "failed", "cancelled", "timeout", "rejected"}
Open == {"waiting_approval", "queued", "running"}

Init ==
    /\ status = [o \in Op |-> "absent"]
    /\ target = [o \in Op |-> None]
    /\ holder = [r \in Resource |-> None]
    /\ started = {}
    /\ fired = [o \in Op |-> 0]

Create(o) ==
    /\ status[o] = "absent"
    /\ \E s \in {"waiting_approval", "queued"} : status' = [status EXCEPT ![o] = s]
    /\ \E r \in Resource : target' = [target EXCEPT ![o] = r]
    /\ UNCHANGED <<holder, started, fired>>

\* Somebody approves or rejects the request.
Decide(o) ==
    /\ status[o] = "waiting_approval"
    /\ \E s \in {"queued", "rejected"} : status' = [status EXCEPT ![o] = s]
    /\ UNCHANGED <<target, holder, started, fired>>

Begin(o) ==
    /\ status[o] = "queued"
    /\ holder[target[o]] = None
    /\ status' = [status EXCEPT ![o] = "running"]
    /\ holder' = [holder EXCEPT ![target[o]] = o]
    /\ started' = started \cup {o}
    /\ UNCHANGED <<target, fired>>

\* The one remote command of an operation that was begun. Its verdict may have
\* been given meanwhile (a cancel, an expired lease).
Fire(o) ==
    /\ o \in started
    /\ fired[o] = 0
    /\ fired' = [fired EXCEPT ![o] = 1]
    /\ UNCHANGED <<status, target, holder, started>>

Withdraw(o) ==
    /\ status[o] \in Open
    /\ status' = [status EXCEPT ![o] = "cancelled"]
    /\ UNCHANGED <<target, holder, started, fired>>

\* The worker reports; it keeps the resource when the outcome is unknown.
Complete(o, v) ==
    /\ status[o] = "running"
    /\ status' = [status EXCEPT ![o] = v]
    /\ holder' = [holder EXCEPT ![target[o]] = IF v = "timeout" THEN @ ELSE None]
    /\ UNCHANGED <<target, started, fired>>

\* Operations nobody vouches for any more are closed, keeping their resources.
Orphan(S) ==
    /\ S # {}
    /\ \A o \in S : status[o] = "running"
    /\ status' = [o \in Op |-> IF o \in S THEN "timeout" ELSE status[o]]
    /\ UNCHANGED <<target, holder, started, fired>>

\* A closed operation gives its resource back.
Free(r) ==
    /\ holder[r] # None
    /\ status[holder[r]] \in Verdicts
    /\ holder' = [holder EXCEPT ![r] = None]
    /\ UNCHANGED <<status, target, started, fired>>

Next ==
    \/ \E o \in Op : Create(o) \/ Decide(o) \/ Begin(o) \/ Fire(o) \/ Withdraw(o)
    \/ \E o \in Op, v \in Verdicts : Complete(o, v)
    \/ \E S \in SUBSET Op : Orphan(S)
    \/ \E r \in Resource : Free(r)

Spec == Init /\ [][Next]_vars
=============================================================================
