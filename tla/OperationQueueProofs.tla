------------------------- MODULE OperationQueueProofs -------------------------
(***************************************************************************)
(* Proofs about OperationQueue for any number of operations, resources,    *)
(* users, workers and goroutines and any lease length.                     *)
(*                                                                         *)
(* QueueInv is the inductive invariant. RunningHoldsLease and              *)
(* ExclusiveExecution are not inductive by themselves: a late Finish       *)
(* deletes a lease, and it is harmless only because the goroutine's        *)
(* operation is its own (OneThreadPerOp), was claimed by its own worker    *)
(* (BusyThread) and is closed by the same transaction. AtMostOneEffect     *)
(* needs to know that an operation that was not claimed has no lease, no   *)
(* goroutine and no command yet (Untouched). AuditInv, a second layer,     *)
(* relates the audit log to the rows.                                      *)
(***************************************************************************)
EXTENDS OperationQueue, TLAPS

Unclaimed == {"absent", "waiting_approval", "queued"}

\* A row that exists names a resource.
RowHasResource == \A o \in Op : state[o] # "absent" => resource_id[o] \in Resource

\* Nothing happened yet for an operation that was not claimed.
Untouched ==
    \A o \in Op : state[o] \in Unclaimed =>
        /\ effects[o] = 0
        /\ \A t \in Thread : cur[t] # o
        /\ \A r \in Resource : leases[r] # o

\* A goroutine outside its idle loop holds a claimed operation of its worker.
BusyThread ==
    \A t \in Thread :
        /\ pc[t] = "idle" <=> cur[t] = None
        /\ pc[t] # "idle" => /\ state[cur[t]] \notin Unclaimed
                             /\ worker_id[cur[t]] = WorkerOf(t)
                             /\ "operation.started" \in audit[cur[t]]
        /\ pc[t] = "finishing" => outcome[t] \in Outcome

OneThreadPerOp ==
    \A t1, t2 \in Thread : cur[t1] = cur[t2] /\ cur[t1] # None => t1 = t2

\* A lease row is keyed by the resource of its operation.
LeaseOfResource == \A r \in Resource : leases[r] # None => resource_id[leases[r]] = r

\* A goroutine's operation keeps its lease unless an administrator took it.
ThreadHoldsLease ==
    \A t \in Thread :
        cur[t] # None => leases[resource_id[cur[t]]] = cur[t] \/ cur[t] \in reconciled

\* The command of an operation is not started before its goroutine is there.
EffectPending ==
    \A t \in Thread : pc[t] \in {"checking", "renewing", "ready"} => effects[cur[t]] = 0

QueueInv ==
    /\ TypeOK
    /\ RowHasResource
    /\ Untouched
    /\ BusyThread
    /\ OneThreadPerOp
    /\ LeaseOfResource
    /\ RunningHoldsLease
    /\ ThreadHoldsLease
    /\ EffectPending
    /\ AtMostOneEffect

-----------------------------------------------------------------------------
LEMMA WorkerOfThread == \A t \in Thread : WorkerOf(t) \in Worker
BY DEF Thread, WorkerOf

LEMMA NoneIsNoOp == None \notin Op
BY QueueAssumption

LEMMA SubmitInv ==
    ASSUME QueueInv, NEW o \in Op, NEW u \in User, NEW r \in Resource, NEW a \in BOOLEAN, Submit(o, u, r, a)
    PROVE  QueueInv'
BY QueueAssumption, WorkerOfThread, NoneIsNoOp
   DEF Submit, Record,
       QueueInv, TypeOK, RowHasResource, Untouched, BusyThread, OneThreadPerOp,
       LeaseOfResource, RunningHoldsLease, ThreadHoldsLease, EffectPending,
       AtMostOneEffect, Unclaimed, OpState, Terminal, Place, Outcome, AuditAction,
       vars, dbVars, rowVars, threadVars, hostVars, adminVars

LEMMA ApproveInv ==
    ASSUME QueueInv, NEW o \in Op, NEW u \in User, Approve(o, u)
    PROVE  QueueInv'
BY QueueAssumption, WorkerOfThread, NoneIsNoOp
   DEF Approve, MayApprove, Record,
       QueueInv, TypeOK, RowHasResource, Untouched, BusyThread, OneThreadPerOp,
       LeaseOfResource, RunningHoldsLease, ThreadHoldsLease, EffectPending,
       AtMostOneEffect, Unclaimed, OpState, Terminal, Place, Outcome, AuditAction,
       vars, dbVars, rowVars, threadVars, hostVars, adminVars

LEMMA RejectInv ==
    ASSUME QueueInv, NEW o \in Op, NEW u \in User, Reject(o, u)
    PROVE  QueueInv'
BY QueueAssumption, WorkerOfThread, NoneIsNoOp
   DEF Reject, MayApprove, Record,
       QueueInv, TypeOK, RowHasResource, Untouched, BusyThread, OneThreadPerOp,
       LeaseOfResource, RunningHoldsLease, ThreadHoldsLease, EffectPending,
       AtMostOneEffect, Unclaimed, OpState, Terminal, Place, Outcome, AuditAction,
       vars, dbVars, rowVars, threadVars, hostVars, adminVars

LEMMA CancelInv ==
    ASSUME QueueInv, NEW o \in Op, NEW u \in User, Cancel(o, u)
    PROVE  QueueInv'
BY QueueAssumption, WorkerOfThread, NoneIsNoOp
   DEF Cancel, LeasesAfterCancel, Record,
       QueueInv, TypeOK, RowHasResource, Untouched, BusyThread, OneThreadPerOp,
       LeaseOfResource, RunningHoldsLease, ThreadHoldsLease, EffectPending,
       AtMostOneEffect, Unclaimed, OpState, Terminal, Place, Outcome, AuditAction,
       vars, dbVars, rowVars, threadVars, hostVars, adminVars

LEMMA ReconcileInv ==
    ASSUME QueueInv, NEW r \in Resource, Reconcile(r)
    PROVE  QueueInv'
BY QueueAssumption, WorkerOfThread, NoneIsNoOp
   DEF Reconcile, Reconcilable,
       QueueInv, TypeOK, RowHasResource, Untouched, BusyThread, OneThreadPerOp,
       LeaseOfResource, RunningHoldsLease, ThreadHoldsLease, EffectPending,
       AtMostOneEffect, Unclaimed, OpState, Terminal, Place, Outcome, AuditAction,
       vars, dbVars, rowVars, threadVars, hostVars, adminVars

LEMMA ClaimInv ==
    ASSUME QueueInv, NEW t \in Thread, NEW o \in Op, Claim(t, o)
    PROVE  QueueInv'
BY QueueAssumption, WorkerOfThread, NoneIsNoOp
   DEF Claim, ClaimRow, Claimable, Record,
       QueueInv, TypeOK, RowHasResource, Untouched, BusyThread, OneThreadPerOp,
       LeaseOfResource, RunningHoldsLease, ThreadHoldsLease, EffectPending,
       AtMostOneEffect, Unclaimed, OpState, Terminal, Place, Outcome, AuditAction,
       vars, dbVars, rowVars, threadVars, hostVars, adminVars

LEMMA ClaimReplyLostInv ==
    ASSUME QueueInv, NEW t \in Thread, NEW o \in Op, ClaimReplyLost(t, o)
    PROVE  QueueInv'
BY QueueAssumption, WorkerOfThread, NoneIsNoOp
   DEF ClaimReplyLost, ClaimRow, Claimable, Record,
       QueueInv, TypeOK, RowHasResource, Untouched, BusyThread, OneThreadPerOp,
       LeaseOfResource, RunningHoldsLease, ThreadHoldsLease, EffectPending,
       AtMostOneEffect, Unclaimed, OpState, Terminal, Place, Outcome, AuditAction,
       vars, dbVars, rowVars, threadVars, hostVars, adminVars

LEMMA HeartbeatInv ==
    ASSUME QueueInv, NEW t \in Thread, Heartbeat(t)
    PROVE  QueueInv'
BY QueueAssumption, WorkerOfThread, NoneIsNoOp
   DEF Heartbeat, Renewable,
       QueueInv, TypeOK, RowHasResource, Untouched, BusyThread, OneThreadPerOp,
       LeaseOfResource, RunningHoldsLease, ThreadHoldsLease, EffectPending,
       AtMostOneEffect, Unclaimed, OpState, Terminal, Place, Outcome, AuditAction,
       vars, dbVars, rowVars, threadVars, hostVars, adminVars

LEMMA HeartbeatLostInv ==
    ASSUME QueueInv, NEW t \in Thread, HeartbeatLost(t)
    PROVE  QueueInv'
BY QueueAssumption, WorkerOfThread, NoneIsNoOp
   DEF HeartbeatLost,
       QueueInv, TypeOK, RowHasResource, Untouched, BusyThread, OneThreadPerOp,
       LeaseOfResource, RunningHoldsLease, ThreadHoldsLease, EffectPending,
       AtMostOneEffect, Unclaimed, OpState, Terminal, Place, Outcome, AuditAction,
       vars, dbVars, rowVars, threadVars, hostVars, adminVars

LEMMA FinishInv ==
    ASSUME QueueInv, NEW t \in Thread, Finish(t)
    PROVE  QueueInv'
<1> USE QueueAssumption, WorkerOfThread, NoneIsNoOp
      DEF QueueInv, TypeOK, Finish, RowMatches, ReleasesLease, GoIdle, Record, vars, dbVars, rowVars, threadVars, hostVars, adminVars
<1>1. TypeOK'
  <2>1. cur[t] \in Op /\ outcome[t] \in Outcome
    BY DEF BusyThread
  <2>2. outcome[t] \in OpState /\ FinishAudit[outcome[t]] \in AuditAction
    BY <2>1 DEF Outcome, OpState, Terminal, AuditAction, FinishAudit
  <2>3. state' \in [Op -> OpState] /\ audit' \in [Op -> SUBSET AuditAction]
    <3>1. CASE RowMatches(t)
      BY <2>1, <2>2, <3>1
    <3>2. CASE ~RowMatches(t)
      BY <3>2
    <3> QED
      BY <3>1, <3>2
  <2>4. leases' \in [Resource -> Op \cup {None}]
    OBVIOUS
  <2>5. ttl' \in [Op -> 0..LeaseTTL]
    <3>1. 0 \in 0..LeaseTTL
      BY QueueAssumption
    <3>2. ttl' = [ttl EXCEPT ![cur[t]] = IF outcome[t] # "timeout" THEN 0 ELSE ttl[cur[t]]]
      OBVIOUS
    <3> HIDE DEF Finish
    <3> QED
      BY <2>1, <3>1, <3>2
  <2>6. /\ pc' \in [Thread -> Place]
        /\ cur' \in [Thread -> Op \cup {None}]
        /\ outcome' \in [Thread -> Outcome \cup {None}]
        /\ cancelled' \in [Thread -> BOOLEAN]
    BY DEF Place
  <2> QED
    BY <2>3, <2>4, <2>5, <2>6
<1>2. RowHasResource'
  BY DEF RowHasResource, Untouched, BusyThread, OneThreadPerOp,
       LeaseOfResource, RunningHoldsLease, ThreadHoldsLease, EffectPending,
       AtMostOneEffect, Unclaimed, Terminal, Outcome
<1>3. Untouched'
  BY DEF RowHasResource, Untouched, BusyThread, OneThreadPerOp,
       LeaseOfResource, RunningHoldsLease, ThreadHoldsLease, EffectPending,
       AtMostOneEffect, Unclaimed, Terminal, Outcome
<1>4. BusyThread'
  BY DEF RowHasResource, Untouched, BusyThread, OneThreadPerOp,
       LeaseOfResource, RunningHoldsLease, ThreadHoldsLease, EffectPending,
       AtMostOneEffect, Unclaimed, Terminal, Outcome
<1>5. OneThreadPerOp'
  BY DEF RowHasResource, Untouched, BusyThread, OneThreadPerOp,
       LeaseOfResource, RunningHoldsLease, ThreadHoldsLease, EffectPending,
       AtMostOneEffect, Unclaimed, Terminal, Outcome
<1>6. LeaseOfResource'
  BY DEF RowHasResource, Untouched, BusyThread, OneThreadPerOp,
       LeaseOfResource, RunningHoldsLease, ThreadHoldsLease, EffectPending,
       AtMostOneEffect, Unclaimed, Terminal, Outcome
<1>7. RunningHoldsLease'
  BY DEF RowHasResource, Untouched, BusyThread, OneThreadPerOp,
       LeaseOfResource, RunningHoldsLease, ThreadHoldsLease, EffectPending,
       AtMostOneEffect, Unclaimed, Terminal, Outcome
<1>8. ThreadHoldsLease'
  BY DEF RowHasResource, Untouched, BusyThread, OneThreadPerOp,
       LeaseOfResource, RunningHoldsLease, ThreadHoldsLease, EffectPending,
       AtMostOneEffect, Unclaimed, Terminal, Outcome
<1>9. EffectPending'
  BY DEF RowHasResource, Untouched, BusyThread, OneThreadPerOp,
       LeaseOfResource, RunningHoldsLease, ThreadHoldsLease, EffectPending,
       AtMostOneEffect, Unclaimed, Terminal, Outcome
<1>10. AtMostOneEffect'
  BY DEF RowHasResource, Untouched, BusyThread, OneThreadPerOp,
       LeaseOfResource, RunningHoldsLease, ThreadHoldsLease, EffectPending,
       AtMostOneEffect, Unclaimed, Terminal, Outcome
<1> QED
  BY <1>1, <1>2, <1>3, <1>4, <1>5, <1>6, <1>7, <1>8, <1>9, <1>10

LEMMA FinishFailsInv ==
    ASSUME QueueInv, NEW t \in Thread, FinishFails(t)
    PROVE  QueueInv'
BY QueueAssumption, WorkerOfThread, NoneIsNoOp
   DEF FinishFails, GoIdle,
       QueueInv, TypeOK, RowHasResource, Untouched, BusyThread, OneThreadPerOp,
       LeaseOfResource, RunningHoldsLease, ThreadHoldsLease, EffectPending,
       AtMostOneEffect, Unclaimed, OpState, Terminal, Place, Outcome, AuditAction,
       vars, dbVars, rowVars, threadVars, hostVars, adminVars

LEMMA RecoverInv ==
    ASSUME QueueInv, Recover
    PROVE  QueueInv'
BY QueueAssumption, WorkerOfThread, NoneIsNoOp
   DEF Recover, Orphaned, OrphanState, LeasesAfterRecovery,
       QueueInv, TypeOK, RowHasResource, Untouched, BusyThread, OneThreadPerOp,
       LeaseOfResource, RunningHoldsLease, ThreadHoldsLease, EffectPending,
       AtMostOneEffect, Unclaimed, OpState, Terminal, Place, Outcome, AuditAction,
       vars, dbVars, rowVars, threadVars, hostVars, adminVars

LEMMA RecheckInv ==
    ASSUME QueueInv, NEW t \in Thread, Recheck(t) \/ RecheckDenied(t) \/ RecheckFails(t)
    PROVE  QueueInv'
BY QueueAssumption, WorkerOfThread, NoneIsNoOp
   DEF Recheck, RecheckDenied, RecheckFails, Advance, Conclude, ErrorOutcome,
       QueueInv, TypeOK, RowHasResource, Untouched, BusyThread, OneThreadPerOp,
       LeaseOfResource, RunningHoldsLease, ThreadHoldsLease, EffectPending,
       AtMostOneEffect, Unclaimed, OpState, Terminal, Place, Outcome, AuditAction,
       vars, dbVars, rowVars, threadVars, hostVars, adminVars

LEMMA RenewInv ==
    ASSUME QueueInv, NEW t \in Thread, RenewBeforeExecute(t) \/ RenewRefused(t)
    PROVE  QueueInv'
BY QueueAssumption, WorkerOfThread, NoneIsNoOp
   DEF RenewBeforeExecute, RenewRefused, PassesRenewal, Renewable, Advance,
       Conclude, ErrorOutcome,
       QueueInv, TypeOK, RowHasResource, Untouched, BusyThread, OneThreadPerOp,
       LeaseOfResource, RunningHoldsLease, ThreadHoldsLease, EffectPending,
       AtMostOneEffect, Unclaimed, OpState, Terminal, Place, Outcome, AuditAction,
       vars, dbVars, rowVars, threadVars, hostVars, adminVars

LEMMA PrepareFailsInv ==
    ASSUME QueueInv, NEW t \in Thread, PrepareFails(t)
    PROVE  QueueInv'
BY QueueAssumption, WorkerOfThread, NoneIsNoOp
   DEF PrepareFails, Conclude,
       QueueInv, TypeOK, RowHasResource, Untouched, BusyThread, OneThreadPerOp,
       LeaseOfResource, RunningHoldsLease, ThreadHoldsLease, EffectPending,
       AtMostOneEffect, Unclaimed, OpState, Terminal, Place, Outcome, AuditAction,
       vars, dbVars, rowVars, threadVars, hostVars, adminVars

LEMMA StartEffectInv ==
    ASSUME QueueInv, NEW t \in Thread, StartEffect(t)
    PROVE  QueueInv'
BY QueueAssumption, WorkerOfThread, NoneIsNoOp
   DEF StartEffect, Advance,
       QueueInv, TypeOK, RowHasResource, Untouched, BusyThread, OneThreadPerOp,
       LeaseOfResource, RunningHoldsLease, ThreadHoldsLease, EffectPending,
       AtMostOneEffect, Unclaimed, OpState, Terminal, Place, Outcome, AuditAction,
       vars, dbVars, rowVars, threadVars, hostVars, adminVars

LEMMA EffectReturnsInv ==
    ASSUME QueueInv, NEW t \in Thread, EffectReturns(t)
    PROVE  QueueInv'
BY QueueAssumption, WorkerOfThread, NoneIsNoOp
   DEF EffectReturns, Conclude,
       QueueInv, TypeOK, RowHasResource, Untouched, BusyThread, OneThreadPerOp,
       LeaseOfResource, RunningHoldsLease, ThreadHoldsLease, EffectPending,
       AtMostOneEffect, Unclaimed, OpState, Terminal, Place, Outcome, AuditAction,
       vars, dbVars, rowVars, threadVars, hostVars, adminVars

LEMMA EffectAbandonedInv ==
    ASSUME QueueInv, NEW t \in Thread, EffectAbandoned(t)
    PROVE  QueueInv'
BY QueueAssumption, WorkerOfThread, NoneIsNoOp
   DEF EffectAbandoned, Conclude,
       QueueInv, TypeOK, RowHasResource, Untouched, BusyThread, OneThreadPerOp,
       LeaseOfResource, RunningHoldsLease, ThreadHoldsLease, EffectPending,
       AtMostOneEffect, Unclaimed, OpState, Terminal, Place, Outcome, AuditAction,
       vars, dbVars, rowVars, threadVars, hostVars, adminVars

LEMMA SessionBrokenInv ==
    ASSUME QueueInv, NEW t \in Thread, SessionBroken(t)
    PROVE  QueueInv'
BY QueueAssumption, WorkerOfThread, NoneIsNoOp
   DEF SessionBroken, Conclude,
       QueueInv, TypeOK, RowHasResource, Untouched, BusyThread, OneThreadPerOp,
       LeaseOfResource, RunningHoldsLease, ThreadHoldsLease, EffectPending,
       AtMostOneEffect, Unclaimed, OpState, Terminal, Place, Outcome, AuditAction,
       vars, dbVars, rowVars, threadVars, hostVars, adminVars

LEMMA CrashInv ==
    ASSUME QueueInv, NEW w \in Worker, Crash(w)
    PROVE  QueueInv'
<1> USE QueueAssumption, WorkerOfThread, NoneIsNoOp
      DEF QueueInv, TypeOK, Crash, vars, dbVars, rowVars, threadVars, hostVars, adminVars
<1>1. TypeOK'
  BY DEF OpState, Terminal, Place, Outcome, AuditAction
<1>2. RowHasResource'
  BY DEF RowHasResource, Untouched, BusyThread, OneThreadPerOp,
       LeaseOfResource, RunningHoldsLease, ThreadHoldsLease, EffectPending,
       AtMostOneEffect, Unclaimed, Terminal, Outcome
<1>3. Untouched'
  BY DEF RowHasResource, Untouched, BusyThread, OneThreadPerOp,
       LeaseOfResource, RunningHoldsLease, ThreadHoldsLease, EffectPending,
       AtMostOneEffect, Unclaimed, Terminal, Outcome
<1>4. BusyThread'
  BY DEF RowHasResource, Untouched, BusyThread, OneThreadPerOp,
       LeaseOfResource, RunningHoldsLease, ThreadHoldsLease, EffectPending,
       AtMostOneEffect, Unclaimed, Terminal, Outcome
<1>5. OneThreadPerOp'
  BY DEF RowHasResource, Untouched, BusyThread, OneThreadPerOp,
       LeaseOfResource, RunningHoldsLease, ThreadHoldsLease, EffectPending,
       AtMostOneEffect, Unclaimed, Terminal, Outcome
<1>6. LeaseOfResource'
  BY DEF RowHasResource, Untouched, BusyThread, OneThreadPerOp,
       LeaseOfResource, RunningHoldsLease, ThreadHoldsLease, EffectPending,
       AtMostOneEffect, Unclaimed, Terminal, Outcome
<1>7. RunningHoldsLease'
  BY DEF RowHasResource, Untouched, BusyThread, OneThreadPerOp,
       LeaseOfResource, RunningHoldsLease, ThreadHoldsLease, EffectPending,
       AtMostOneEffect, Unclaimed, Terminal, Outcome
<1>8. ThreadHoldsLease'
  BY DEF RowHasResource, Untouched, BusyThread, OneThreadPerOp,
       LeaseOfResource, RunningHoldsLease, ThreadHoldsLease, EffectPending,
       AtMostOneEffect, Unclaimed, Terminal, Outcome
<1>9. EffectPending'
  BY DEF RowHasResource, Untouched, BusyThread, OneThreadPerOp,
       LeaseOfResource, RunningHoldsLease, ThreadHoldsLease, EffectPending,
       AtMostOneEffect, Unclaimed, Terminal, Outcome
<1>10. AtMostOneEffect'
  BY DEF RowHasResource, Untouched, BusyThread, OneThreadPerOp,
       LeaseOfResource, RunningHoldsLease, ThreadHoldsLease, EffectPending,
       AtMostOneEffect, Unclaimed, Terminal, Outcome
<1> QED
  BY <1>1, <1>2, <1>3, <1>4, <1>5, <1>6, <1>7, <1>8, <1>9, <1>10

LEMMA ShutdownInv ==
    ASSUME QueueInv, NEW w \in Worker, Shutdown(w)
    PROVE  QueueInv'
<1> USE QueueAssumption, WorkerOfThread, NoneIsNoOp
      DEF QueueInv, TypeOK, Shutdown, vars, dbVars, rowVars, threadVars, hostVars, adminVars
<1>1. TypeOK'
  BY DEF OpState, Terminal, Place, Outcome, AuditAction
<1>2. RowHasResource'
  BY DEF RowHasResource, Untouched, BusyThread, OneThreadPerOp,
       LeaseOfResource, RunningHoldsLease, ThreadHoldsLease, EffectPending,
       AtMostOneEffect, Unclaimed, Terminal, Outcome
<1>3. Untouched'
  BY DEF RowHasResource, Untouched, BusyThread, OneThreadPerOp,
       LeaseOfResource, RunningHoldsLease, ThreadHoldsLease, EffectPending,
       AtMostOneEffect, Unclaimed, Terminal, Outcome
<1>4. BusyThread'
  BY DEF RowHasResource, Untouched, BusyThread, OneThreadPerOp,
       LeaseOfResource, RunningHoldsLease, ThreadHoldsLease, EffectPending,
       AtMostOneEffect, Unclaimed, Terminal, Outcome
<1>5. OneThreadPerOp'
  BY DEF RowHasResource, Untouched, BusyThread, OneThreadPerOp,
       LeaseOfResource, RunningHoldsLease, ThreadHoldsLease, EffectPending,
       AtMostOneEffect, Unclaimed, Terminal, Outcome
<1>6. LeaseOfResource'
  BY DEF RowHasResource, Untouched, BusyThread, OneThreadPerOp,
       LeaseOfResource, RunningHoldsLease, ThreadHoldsLease, EffectPending,
       AtMostOneEffect, Unclaimed, Terminal, Outcome
<1>7. RunningHoldsLease'
  BY DEF RowHasResource, Untouched, BusyThread, OneThreadPerOp,
       LeaseOfResource, RunningHoldsLease, ThreadHoldsLease, EffectPending,
       AtMostOneEffect, Unclaimed, Terminal, Outcome
<1>8. ThreadHoldsLease'
  BY DEF RowHasResource, Untouched, BusyThread, OneThreadPerOp,
       LeaseOfResource, RunningHoldsLease, ThreadHoldsLease, EffectPending,
       AtMostOneEffect, Unclaimed, Terminal, Outcome
<1>9. EffectPending'
  BY DEF RowHasResource, Untouched, BusyThread, OneThreadPerOp,
       LeaseOfResource, RunningHoldsLease, ThreadHoldsLease, EffectPending,
       AtMostOneEffect, Unclaimed, Terminal, Outcome
<1>10. AtMostOneEffect'
  BY DEF RowHasResource, Untouched, BusyThread, OneThreadPerOp,
       LeaseOfResource, RunningHoldsLease, ThreadHoldsLease, EffectPending,
       AtMostOneEffect, Unclaimed, Terminal, Outcome
<1> QED
  BY <1>1, <1>2, <1>3, <1>4, <1>5, <1>6, <1>7, <1>8, <1>9, <1>10

LEMMA RestartInv ==
    ASSUME QueueInv, NEW w \in Worker, Restart(w)
    PROVE  QueueInv'
BY QueueAssumption, WorkerOfThread, NoneIsNoOp
   DEF Restart,
       QueueInv, TypeOK, RowHasResource, Untouched, BusyThread, OneThreadPerOp,
       LeaseOfResource, RunningHoldsLease, ThreadHoldsLease, EffectPending,
       AtMostOneEffect, Unclaimed, OpState, Terminal, Place, Outcome, AuditAction,
       vars, dbVars, rowVars, threadVars, hostVars, adminVars

LEMMA TickInv ==
    ASSUME QueueInv, Tick
    PROVE  QueueInv'
BY QueueAssumption, WorkerOfThread, NoneIsNoOp
   DEF Tick, Elapsed,
       QueueInv, TypeOK, RowHasResource, Untouched, BusyThread, OneThreadPerOp,
       LeaseOfResource, RunningHoldsLease, ThreadHoldsLease, EffectPending,
       AtMostOneEffect, Unclaimed, OpState, Terminal, Place, Outcome, AuditAction,
       vars, dbVars, rowVars, threadVars, hostVars, adminVars

LEMMA RemoteEndsInv ==
    ASSUME QueueInv, NEW o \in Op, RemoteEnds(o)
    PROVE  QueueInv'
BY QueueAssumption, WorkerOfThread, NoneIsNoOp
   DEF RemoteEnds,
       QueueInv, TypeOK, RowHasResource, Untouched, BusyThread, OneThreadPerOp,
       LeaseOfResource, RunningHoldsLease, ThreadHoldsLease, EffectPending,
       AtMostOneEffect, Unclaimed, OpState, Terminal, Place, Outcome, AuditAction,
       vars, dbVars, rowVars, threadVars, hostVars, adminVars

-----------------------------------------------------------------------------
LEMMA InitInv == Init => QueueInv
BY QueueAssumption, NoneIsNoOp
   DEF Init, QueueInv, TypeOK, RowHasResource, Untouched, BusyThread, OneThreadPerOp,
       LeaseOfResource, RunningHoldsLease, ThreadHoldsLease, EffectPending,
       AtMostOneEffect, Unclaimed, OpState, Place

LEMMA ApiStepInv == QueueInv /\ ApiStep => QueueInv'
BY SubmitInv, ApproveInv, RejectInv, CancelInv, ReconcileInv DEF ApiStep

LEMMA ThreadStepInv ==
    ASSUME QueueInv, NEW t \in Thread, ThreadStep(t)
    PROVE  QueueInv'
<1>1. CASE ExecuteStep(t)
  BY <1>1, RecheckInv, RenewInv, PrepareFailsInv, StartEffectInv, EffectReturnsInv,
     EffectAbandonedInv, SessionBrokenInv, FinishInv, FinishFailsInv DEF ExecuteStep
<1>2. CASE ~ExecuteStep(t)
  BY <1>2, ClaimInv, ClaimReplyLostInv, HeartbeatInv, HeartbeatLostInv DEF ThreadStep
<1> QED
  BY <1>1, <1>2

LEMMA EnvironmentStepInv == QueueInv /\ EnvironmentStep => QueueInv'
BY CrashInv, ShutdownInv, RestartInv, RemoteEndsInv, TickInv DEF EnvironmentStep

LEMMA StutterInv == QueueInv /\ UNCHANGED vars => QueueInv'
BY DEF QueueInv, TypeOK, RowHasResource, Untouched, BusyThread, OneThreadPerOp,
       LeaseOfResource, RunningHoldsLease, ThreadHoldsLease, EffectPending,
       AtMostOneEffect, vars, dbVars, rowVars, threadVars, hostVars, adminVars

\* The inductive invariant holds in every reachable state of the queue.
THEOREM QueueInvariant == Spec => []QueueInv
<1>1. QueueInv /\ [Next]_vars => QueueInv'
  BY ApiStepInv, ThreadStepInv, RecoverInv, EnvironmentStepInv, StutterInv DEF Next
<1> QED
  BY InitInv, <1>1, PTL DEF Spec

\* Every column and every goroutine variable keeps its type.
THEOREM TypeCorrect == Spec => []TypeOK
<1>1. QueueInv => TypeOK
  BY DEF QueueInv
<1> QED
  BY <1>1, QueueInvariant, PTL

\* A running operation always holds the lease of its resource.
THEOREM RunningIsLeased == Spec => []RunningHoldsLease
<1>1. QueueInv => RunningHoldsLease
  BY DEF QueueInv
<1> QED
  BY <1>1, QueueInvariant, PTL

\* No recovery, restart or late Finish makes an operation run twice.
THEOREM EffectOnce == Spec => []AtMostOneEffect
<1>1. QueueInv => AtMostOneEffect
  BY DEF QueueInv
<1> QED
  BY <1>1, QueueInvariant, PTL

\* Without a reconciliation two goroutines never run commands on one resource.
THEOREM ExecutionIsExclusive == Spec => []ExclusiveExecution
<1>1. QueueInv => ExclusiveExecution
  <2> SUFFICES ASSUME QueueInv,
                      NEW t1 \in Thread, NEW t2 \in Thread, t1 # t2,
                      pc[t1] = "executing", pc[t2] = "executing",
                      resource_id[cur[t1]] = resource_id[cur[t2]],
                      cur[t1] \notin reconciled, cur[t2] \notin reconciled
               PROVE  FALSE
    BY DEF ExclusiveExecution
  <2>1. cur[t1] # None /\ cur[t2] # None
    BY DEF QueueInv, BusyThread
  <2>2. cur[t1] # cur[t2]
    BY <2>1 DEF QueueInv, OneThreadPerOp
  <2>3. /\ leases[resource_id[cur[t1]]] = cur[t1]
        /\ leases[resource_id[cur[t2]]] = cur[t2]
    BY <2>1 DEF QueueInv, ThreadHoldsLease
  <2> QED
    BY <2>2, <2>3
<1> QED
  BY <1>1, QueueInvariant, PTL

-----------------------------------------------------------------------------
(* Approvals and the audit log. The audit log and the tables are written by *)
(* the same transactions, so AuditInv relates them; it is proved on top of  *)
(* QueueInv.                                                                *)

\* Nothing was recorded for a row that does not exist.
AbsentUnrecorded == \A o \in Op : state[o] = "absent" => audit[o] = {}

\* An operation for which an approval was requested is approved, by somebody who
\* may, or it was never claimed.
ApprovedOrUnclaimed ==
    \A o \in Op : "approval.requested" \in audit[o] =>
        \/ /\ approval_by[o] \in Approver \ {requester[o]}
           /\ "approval.approved" \in audit[o]
        \/ /\ state[o] \in {"waiting_approval", "cancelled", "rejected"}
           /\ effects[o] = 0
           /\ \A t \in Thread : cur[t] # o

AuditInv == AbsentUnrecorded /\ ApprovedOrUnclaimed /\ OneAuditedVerdict

\* The verdicts by name, and where each writer's entry belongs.
LEMMA VerdictNames ==
    /\ Verdict = {"operation.succeeded", "operation.failed", "operation.cancelled",
                  "operation.timeout", "operation.orphaned", "operation.rejected",
                  "approval.rejected"}
    /\ "operation.cancelled" \in VerdictFor["cancelled"]
    /\ "operation.orphaned" \in VerdictFor["timeout"]
    /\ "approval.rejected" \in VerdictFor["rejected"]
    /\ \A s \in Outcome : FinishAudit[s] \in VerdictFor[s] /\ FinishAudit[s] \in Verdict
<1>1. /\ VerdictFor["succeeded"] = {"operation.succeeded"}
      /\ VerdictFor["failed"] = {"operation.failed"}
      /\ VerdictFor["cancelled"] = {"operation.cancelled"}
      /\ VerdictFor["timeout"] = {"operation.timeout", "operation.orphaned"}
      /\ VerdictFor["rejected"] = {"operation.rejected", "approval.rejected"}
  BY DEF VerdictFor, Terminal
<1>2. Verdict = VerdictFor["succeeded"] \cup VerdictFor["failed"] \cup VerdictFor["cancelled"]
                 \cup VerdictFor["timeout"] \cup VerdictFor["rejected"]
  BY DEF Verdict, Terminal
<1>3. \A s \in Outcome : FinishAudit[s] \in VerdictFor[s]
  BY <1>1 DEF FinishAudit, Outcome
<1>4. \A s \in Outcome : FinishAudit[s] \in Verdict
  BY <1>2, <1>3 DEF Outcome
<1> QED
  BY <1>1, <1>2, <1>3, <1>4

\* A transaction that moves one open row and records it keeps row and log in step.
LEMMA VerdictRecorded ==
    ASSUME TypeOK, OneAuditedVerdict, NEW o \in Op, NEW s, NEW a,
           state[o] \notin Terminal,
           state' = [state EXCEPT ![o] = s], Record(o, a),
           IF s \in Terminal THEN a \in VerdictFor[s] \cap Verdict ELSE a \notin Verdict
    PROVE  OneAuditedVerdict'
<1>1. audit[o] \cap Verdict = {}
  BY DEF OneAuditedVerdict
<1>2. state'[o] = s /\ audit'[o] = audit[o] \cup {a}
  BY DEF Record, TypeOK
<1>3. ASSUME NEW x \in Op, x # o
      PROVE  state'[x] = state[x] /\ audit'[x] = audit[x]
  BY <1>3 DEF Record, TypeOK
<1>4. IF s \in Terminal THEN audit'[o] \cap Verdict = {a} ELSE audit'[o] \cap Verdict = {}
  BY <1>1, <1>2
<1> SUFFICES ASSUME NEW x \in Op
             PROVE  IF state'[x] \in Terminal
                    THEN \E v \in VerdictFor[state'[x]] : audit'[x] \cap Verdict = {v}
                    ELSE audit'[x] \cap Verdict = {}
  BY DEF OneAuditedVerdict
<1>5. CASE x = o
  BY <1>2, <1>4, <1>5
<1>6. CASE x # o
  BY <1>3, <1>6 DEF OneAuditedVerdict
<1> QED
  BY <1>5, <1>6

\* Steps that write no row: only a goroutine whose operation was approved, or
\* needed no approval, starts a command.
LEMMA RowsKeptAudit ==
    ASSUME QueueInv, AuditInv,
           UNCHANGED <<state, requester, approval_by, audit>>,
           \A o \in Op : effects'[o] = effects[o] \/ \E t \in Thread : cur[t] = o,
           \A t \in Thread : cur'[t] \in {cur[t], None}
    PROVE  AuditInv'
<1>1. AbsentUnrecorded' /\ OneAuditedVerdict'
  BY DEF AuditInv, AbsentUnrecorded, OneAuditedVerdict
<1>2. ApprovedOrUnclaimed'
  BY NoneIsNoOp DEF AuditInv, ApprovedOrUnclaimed, QueueInv, TypeOK
<1> QED
  BY <1>1, <1>2 DEF AuditInv

\* Steps that close operations or open them, and record it.
LEMMA SubmitAudit ==
    ASSUME QueueInv, AuditInv, NEW o \in Op, NEW u \in User, NEW r \in Resource,
           NEW a \in BOOLEAN, Submit(o, u, r, a)
    PROVE  AuditInv'
<1>1. audit[o] = {}
  BY DEF Submit, AuditInv, AbsentUnrecorded
<1>2. effects[o] = 0 /\ \A t \in Thread : cur[t] # o
  BY DEF Submit, QueueInv, Untouched, Unclaimed
<1>3. AbsentUnrecorded'
  BY DEF Submit, Record, AuditInv, AbsentUnrecorded, QueueInv, TypeOK
<1>4. ApprovedOrUnclaimed'
  BY <1>1, <1>2 DEF Submit, Record, AuditInv, ApprovedOrUnclaimed, QueueInv, TypeOK,
     threadVars, hostVars, adminVars
<1>5. OneAuditedVerdict'
  BY VerdictRecorded, VerdictNames DEF Submit, AuditInv, QueueInv, Terminal
<1> QED
  BY <1>3, <1>4, <1>5 DEF AuditInv

LEMMA DecideAudit ==
    ASSUME QueueInv, AuditInv, NEW o \in Op, NEW u \in User, Approve(o, u) \/ Reject(o, u)
    PROVE  AuditInv'
<1>1. u \in Approver \ {requester[o]}
  BY DEF Approve, Reject, MayApprove
<1>2. AbsentUnrecorded'
  BY DEF Approve, Reject, Record, AuditInv, AbsentUnrecorded, QueueInv, TypeOK
<1>3. ApprovedOrUnclaimed'
  BY <1>1 DEF Approve, Reject, Record, AuditInv, ApprovedOrUnclaimed, QueueInv, TypeOK,
     threadVars, hostVars, adminVars
<1>4. OneAuditedVerdict'
  <2>1. CASE Approve(o, u)
    BY <2>1, VerdictRecorded, VerdictNames DEF Approve, AuditInv, QueueInv, Terminal
  <2>2. CASE Reject(o, u)
    BY <2>2, VerdictRecorded, VerdictNames DEF Reject, AuditInv, QueueInv, Terminal
  <2> QED
    BY <2>1, <2>2
<1> QED
  BY <1>2, <1>3, <1>4 DEF AuditInv

LEMMA CancelAudit ==
    ASSUME QueueInv, AuditInv, NEW o \in Op, NEW u \in User, Cancel(o, u)
    PROVE  AuditInv'
<1>1. AbsentUnrecorded'
  BY DEF Cancel, LeasesAfterCancel, Record, AuditInv, AbsentUnrecorded, QueueInv, TypeOK
<1>2. ApprovedOrUnclaimed'
  BY DEF Cancel, LeasesAfterCancel, Record, AuditInv, ApprovedOrUnclaimed, QueueInv, TypeOK,
     threadVars, hostVars, adminVars
<1>3. OneAuditedVerdict'
  BY VerdictRecorded, VerdictNames DEF Cancel, LeasesAfterCancel, AuditInv, QueueInv, Terminal
<1> QED
  BY <1>1, <1>2, <1>3 DEF AuditInv

\* A claimed row was queued, so its approval is there.
LEMMA ClaimAudit ==
    ASSUME QueueInv, AuditInv, NEW o \in Op, NEW w \in Worker, ClaimRow(o, w),
           UNCHANGED effects, \A t \in Thread : cur'[t] \in {cur[t], o}
    PROVE  AuditInv'
<1>1. AbsentUnrecorded'
  BY DEF ClaimRow, Claimable, Record, AuditInv, AbsentUnrecorded, QueueInv, TypeOK
<1>2. ApprovedOrUnclaimed'
  BY DEF ClaimRow, Claimable, Record, AuditInv, ApprovedOrUnclaimed, QueueInv, TypeOK
<1>3. OneAuditedVerdict'
  BY VerdictRecorded, VerdictNames DEF ClaimRow, Claimable, AuditInv, QueueInv, Terminal
<1> QED
  BY <1>1, <1>2, <1>3 DEF AuditInv

\* A late Finish adds no verdict; one in time closes a row that has none.
LEMMA FinishAudits ==
    ASSUME QueueInv, AuditInv, NEW t \in Thread, Finish(t)
    PROVE  AuditInv'
<1> DEFINE o == cur[t]
<1>1. o \in Op /\ outcome[t] \in Outcome
  BY DEF Finish, QueueInv, BusyThread, TypeOK
<1>2. UNCHANGED <<requester, approval_by, effects>> /\ \A x \in Thread : cur'[x] \in {cur[x], None}
  BY DEF Finish, GoIdle, hostVars, adminVars, QueueInv, TypeOK
<1>3. CASE RowMatches(t)
  <2>1. state' = [state EXCEPT ![o] = outcome[t]]
    BY <1>3 DEF Finish
  <2>2. audit' = [audit EXCEPT ![o] = @ \cup {FinishAudit[outcome[t]]}]
    BY <1>3 DEF Finish, Record
  <2>3. state[o] = "running"
    BY <1>3 DEF RowMatches
  <2>4. AbsentUnrecorded'
    BY <1>1, <2>1, <2>2, <2>3 DEF Outcome, AuditInv, AbsentUnrecorded, QueueInv, TypeOK
  <2>5. ApprovedOrUnclaimed'
    <3>1. FinishAudit[outcome[t]] # "approval.requested"
      BY <1>1, VerdictNames
    <3> QED
      BY <1>1, <1>2, <2>1, <2>2, <2>3, <3>1, NoneIsNoOp
      DEF AuditInv, ApprovedOrUnclaimed, QueueInv, TypeOK
  <2>6. OneAuditedVerdict'
    <3>1. outcome[t] \in Terminal
      BY <1>1 DEF Outcome, Terminal
    <3>2. FinishAudit[outcome[t]] \in VerdictFor[outcome[t]] \cap Verdict
      BY <1>1, VerdictNames
    <3> QED
      BY <1>1, <2>1, <2>2, <2>3, <3>1, <3>2, VerdictRecorded
      DEF Record, AuditInv, QueueInv, Terminal
  <2> QED
    BY <2>4, <2>5, <2>6 DEF AuditInv
<1>4. CASE ~RowMatches(t)
  BY <1>2, <1>4, RowsKeptAudit DEF Finish
<1> QED
  BY <1>3, <1>4

LEMMA RecoverAudit ==
    ASSUME QueueInv, AuditInv, Recover
    PROVE  AuditInv'
<1> USE DEF Recover, Orphaned, OrphanState
<1>1. AbsentUnrecorded'
  BY DEF AuditInv, AbsentUnrecorded, QueueInv, TypeOK
<1>2. ApprovedOrUnclaimed'
  BY DEF AuditInv, ApprovedOrUnclaimed, QueueInv, TypeOK, threadVars, hostVars, adminVars
<1>3. OneAuditedVerdict'
  <2> SUFFICES ASSUME NEW o \in Op
               PROVE  IF state'[o] \in Terminal
                      THEN \E v \in VerdictFor[state'[o]] : audit'[o] \cap Verdict = {v}
                      ELSE audit'[o] \cap Verdict = {}
    BY DEF OneAuditedVerdict
  <2>1. CASE Orphaned(o)
    <3>1. state'[o] = "timeout" /\ audit'[o] = audit[o] \cup {"operation.orphaned"}
      BY <2>1
    <3>2. audit[o] \cap Verdict = {}
      BY <2>1 DEF AuditInv, OneAuditedVerdict, Terminal
    <3> QED
      BY <3>1, <3>2, VerdictNames DEF Terminal
  <2>2. CASE ~Orphaned(o)
    BY <2>2 DEF AuditInv, OneAuditedVerdict
  <2> QED
    BY <2>1, <2>2
<1> QED
  BY <1>1, <1>2, <1>3 DEF AuditInv

LEMMA ThreadStepAudit ==
    ASSUME QueueInv, AuditInv, NEW t \in Thread, ThreadStep(t)
    PROVE  AuditInv'
<1>1. ASSUME NEW o \in Op, Claim(t, o) \/ ClaimReplyLost(t, o)
      PROVE  AuditInv'
  <2>1. ClaimRow(o, WorkerOf(t)) /\ UNCHANGED effects
    BY <1>1 DEF Claim, ClaimReplyLost, hostVars, adminVars
  <2>2. \A x \in Thread : cur'[x] \in {cur[x], o}
    BY <1>1 DEF Claim, ClaimReplyLost, threadVars, QueueInv, TypeOK
  <2> QED
    BY <2>1, <2>2, ClaimAudit, WorkerOfThread
<1>2. CASE Finish(t)
  BY <1>2, FinishAudits
<1>3. CASE StartEffect(t)
  <2>1. UNCHANGED <<state, requester, approval_by, audit, cur>>
    BY <1>3 DEF StartEffect, dbVars, rowVars
  <2>2. \A o \in Op : effects'[o] = effects[o] \/ cur[t] = o
    BY <1>3 DEF StartEffect, QueueInv, TypeOK
  <2> QED
    BY <2>1, <2>2, RowsKeptAudit
<1>4. CASE \/ Heartbeat(t) \/ HeartbeatLost(t) \/ Recheck(t) \/ RecheckDenied(t)
           \/ RecheckFails(t) \/ RenewBeforeExecute(t) \/ RenewRefused(t)
           \/ PrepareFails(t) \/ EffectReturns(t) \/ EffectAbandoned(t)
           \/ SessionBroken(t) \/ FinishFails(t)
  <2>1. UNCHANGED <<state, requester, approval_by, audit, effects>>
    BY <1>4 DEF Heartbeat, HeartbeatLost, Recheck, RecheckDenied, RecheckFails,
                RenewBeforeExecute, RenewRefused, PrepareFails, EffectReturns,
                EffectAbandoned, SessionBroken, FinishFails, dbVars, rowVars, hostVars, adminVars
  <2>2. \A x \in Thread : cur'[x] \in {cur[x], None}
    BY <1>4 DEF Heartbeat, HeartbeatLost, Recheck, RecheckDenied, RecheckFails,
                RenewBeforeExecute, RenewRefused, PrepareFails, EffectReturns,
                EffectAbandoned, SessionBroken, FinishFails, GoIdle, threadVars,
                QueueInv, TypeOK
  <2> QED
    BY <2>1, <2>2, RowsKeptAudit
<1> QED
  BY <1>1, <1>2, <1>3, <1>4 DEF ThreadStep, ExecuteStep

LEMMA EnvironmentAudit ==
    ASSUME QueueInv, AuditInv, EnvironmentStep \/ (\E r \in Resource : Reconcile(r))
                                \/ UNCHANGED vars
    PROVE  AuditInv'
<1>1. UNCHANGED <<state, requester, approval_by, audit, effects>>
  BY DEF EnvironmentStep, Crash, Shutdown, Restart, RemoteEnds, Tick, Reconcile, vars,
     dbVars, rowVars, hostVars, adminVars
<1>2. \A x \in Thread : cur'[x] \in {cur[x], None}
  <2>1. ASSUME NEW w \in Worker, Crash(w)
        PROVE  \A x \in Thread : cur'[x] \in {cur[x], None}
    BY <2>1 DEF Crash
  <2>2. ASSUME UNCHANGED cur
        PROVE  \A x \in Thread : cur'[x] \in {cur[x], None}
    BY <2>2
  <2> QED
    BY <2>1, <2>2 DEF EnvironmentStep, Shutdown, Restart, RemoteEnds, Tick, Reconcile,
       vars, threadVars
<1> QED
  BY <1>1, <1>2, RowsKeptAudit

\* What the audit log says of every operation, in every reachable state.
THEOREM AuditInvariant == Spec => []AuditInv
<1>1. Init => AuditInv
  BY DEF Init, AuditInv, AbsentUnrecorded, ApprovedOrUnclaimed, OneAuditedVerdict, Terminal
<1>2. QueueInv /\ AuditInv /\ [Next]_vars => AuditInv'
  BY SubmitAudit, DecideAudit, CancelAudit, ThreadStepAudit, RecoverAudit, EnvironmentAudit
  DEF Next, ApiStep
<1> QED
  BY <1>1, <1>2, QueueInvariant, PTL DEF Spec

\* Four eyes: a command whose request asked for an approval was approved by
\* somebody else who may approve, before it started.
THEOREM EffectIsApproved == Spec => []EffectApproved
<1>1. AuditInv /\ QueueInv => EffectApproved
  BY DEF AuditInv, ApprovedOrUnclaimed, EffectApproved, QueueInv, TypeOK
<1> QED
  BY <1>1, AuditInvariant, QueueInvariant, PTL

\* The audit log and the row never contradict each other on how an operation ended.
THEOREM VerdictIsAuditedOnce == Spec => []OneAuditedVerdict
<1>1. AuditInv => OneAuditedVerdict
  BY DEF AuditInv
<1> QED
  BY <1>1, AuditInvariant, PTL

-----------------------------------------------------------------------------
(* What a step may never do. *)

\* A lease leaves the table by the Finish of its goroutine or by reconcile.
LEMMA LeaseLeaves ==
    ASSUME QueueInv, Next, NEW r \in Resource, leases[r] # None, leases'[r] # leases[r]
    PROVE  /\ leases'[r] = None
           /\ \/ \E t \in Thread : cur[t] = leases[r] /\ pc[t] = "finishing"
              \/ Reconcile(r)
<1> DEFINE A == /\ leases'[r] = None
                /\ \/ \E t \in Thread : cur[t] = leases[r] /\ pc[t] = "finishing"
                   \/ Reconcile(r)
<1>1. ASSUME NEW x \in Resource, Reconcile(x) PROVE A
  <2>1. x = r
    BY <1>1 DEF Reconcile, QueueInv, TypeOK
  <2> QED
    BY <1>1, <2>1 DEF Reconcile, QueueInv, TypeOK
<1>2. ASSUME NEW t \in Thread, Finish(t) PROVE A
  <2>1. cur[t] \in Op
    BY <1>2 DEF Finish, QueueInv, BusyThread, TypeOK
  <2>2. leases[resource_id[cur[t]]] = cur[t] /\ leases' = [leases EXCEPT ![resource_id[cur[t]]] = None]
    BY <1>2 DEF Finish
  <2>3. resource_id[cur[t]] = r
    BY <2>2 DEF QueueInv, TypeOK
  <2> QED
    BY <1>2, <2>2, <2>3 DEF Finish, QueueInv, TypeOK
<1>3. ASSUME NEW o \in Op, NEW w \in Worker, ClaimRow(o, w) PROVE A
  BY <1>3 DEF ClaimRow, Claimable, QueueInv, TypeOK
<1>4. ~UNCHANGED leases
  OBVIOUS
<1>5. CASE ApiStep
  BY <1>1, <1>4, <1>5 DEF ApiStep, Submit, Approve, Reject, Cancel, LeasesAfterCancel
<1>6. ASSUME NEW t \in Thread, ThreadStep(t) PROVE A
  <2>1. CASE ExecuteStep(t)
    BY <1>2, <1>4, <2>1 DEF ExecuteStep, Recheck, RecheckDenied, RecheckFails,
       RenewBeforeExecute, RenewRefused, PrepareFails, StartEffect, EffectReturns,
       EffectAbandoned, SessionBroken, FinishFails, dbVars
  <2>2. CASE ~ExecuteStep(t)
    BY <1>3, <1>4, <1>6, <2>2, WorkerOfThread DEF ThreadStep, Claim, ClaimReplyLost,
       Heartbeat, HeartbeatLost, dbVars
  <2> QED
    BY <2>1, <2>2
<1>7. CASE Recover
  BY <1>4, <1>7 DEF Recover, LeasesAfterRecovery
<1>8. CASE EnvironmentStep
  BY <1>4, <1>8 DEF EnvironmentStep, Crash, Shutdown, Restart, RemoteEnds, Tick, dbVars
<1> QED
  BY <1>5, <1>6, <1>7, <1>8 DEF Next

\* Leases leave the table through Finish of the holder or through reconcile.
THEOREM LeaseIsReleasedByHolder == Spec => LeaseReleasedByHolder
<1> DEFINE A == \A r \in Resource :
          leases[r] # None /\ leases'[r] # leases[r] =>
             /\ leases'[r] = None
             /\ \/ \E t \in Thread : cur[t] = leases[r] /\ pc[t] = "finishing"
                \/ leases[r] \in reconciled' /\ ttl[leases[r]] = 0
<1>1. QueueInv /\ [Next]_vars => [A]_vars
  <2> SUFFICES ASSUME QueueInv, Next, NEW r \in Resource, leases[r] # None, leases'[r] # leases[r]
               PROVE  /\ leases'[r] = None
                      /\ \/ \E t \in Thread : cur[t] = leases[r] /\ pc[t] = "finishing"
                         \/ leases[r] \in reconciled' /\ ttl[leases[r]] = 0
    OBVIOUS
  <2> QED
    BY LeaseLeaves DEF Reconcile, Reconcilable
<1> QED
  BY <1>1, QueueInvariant, PTL DEF Spec, LeaseReleasedByHolder

-----------------------------------------------------------------------------
(* The gap between the last renewal and the command. *)

\* A goroutine past its renewal was there before, or has just renewed.
LEMMA PastRenewalStep ==
    ASSUME QueueInv, Next, NEW t \in Thread, pc'[t] \in PastRenewal
    PROVE  RenewBeforeExecute(t) \/ (pc[t] \in PastRenewal /\ cur'[t] = cur[t])
<1> USE DEF PastRenewal
<1>1. CASE UNCHANGED <<pc, cur>>
  BY <1>1
<1>2. ASSUME NEW x \in Thread, ThreadStep(x)
      PROVE  RenewBeforeExecute(t) \/ (pc[t] \in PastRenewal /\ cur'[t] = cur[t])
  <2>1. CASE x # t
    BY <1>2, <2>1 DEF ThreadStep, ExecuteStep, Claim, ClaimReplyLost, Heartbeat,
       HeartbeatLost, Recheck, RecheckDenied, RecheckFails, RenewBeforeExecute,
       RenewRefused, PrepareFails, StartEffect, EffectReturns, EffectAbandoned,
       SessionBroken, Finish, FinishFails, GoIdle, Advance, Conclude, threadVars,
       QueueInv, TypeOK
  <2>2. CASE x = t
    BY <1>2, <2>2 DEF ThreadStep, ExecuteStep, Claim, ClaimReplyLost, Heartbeat,
       HeartbeatLost, Recheck, RecheckDenied, RecheckFails,
       RenewRefused, PrepareFails, StartEffect, EffectReturns, EffectAbandoned,
       SessionBroken, Finish, FinishFails, GoIdle, Advance, Conclude, threadVars,
       QueueInv, TypeOK
  <2> QED
    BY <2>1, <2>2
<1>3. CASE ApiStep \/ Recover
  BY <1>1, <1>3 DEF ApiStep, Submit, Approve, Reject, Cancel, Reconcile, Recover, threadVars
<1>4. CASE EnvironmentStep
  BY <1>4 DEF EnvironmentStep, Crash, Shutdown, Restart, RemoteEnds, Tick, threadVars
<1> QED
  BY <1>2, <1>3, <1>4 DEF Next

\* The resource of a claimed operation never changes.
LEMMA ResourceKept ==
    ASSUME QueueInv, Next, NEW o \in Op, state[o] # "absent"
    PROVE  resource_id'[o] = resource_id[o]
<1>1. ASSUME NEW x \in Op, NEW u \in User, NEW r \in Resource, NEW a \in BOOLEAN, Submit(x, u, r, a)
      PROVE  resource_id'[o] = resource_id[o]
  BY <1>1 DEF Submit, QueueInv, TypeOK
<1>2. CASE ApiStep
  BY <1>1, <1>2 DEF ApiStep, Approve, Reject, Cancel, Reconcile, rowVars
<1>3. CASE Recover \/ EnvironmentStep
  BY <1>3 DEF Recover, EnvironmentStep, Crash, Shutdown, Restart, RemoteEnds, Tick, dbVars, rowVars
<1>4. CASE \E t \in Thread : ThreadStep(t)
  BY <1>4 DEF ThreadStep, ExecuteStep, Claim, ClaimReplyLost, ClaimRow, Heartbeat,
       HeartbeatLost, Recheck, RecheckDenied, RecheckFails, RenewBeforeExecute,
       RenewRefused, PrepareFails, StartEffect, EffectReturns, EffectAbandoned,
       SessionBroken, Finish, FinishFails, dbVars, rowVars
<1> QED
  BY <1>2, <1>3, <1>4 DEF Next

LEMMA TornGrows == ASSUME Next PROVE torn \subseteq torn'
<1>1. CASE UNCHANGED torn
  BY <1>1
<1>2. CASE ApiStep
  BY <1>1, <1>2 DEF ApiStep, Submit, Approve, Reject, Cancel, Reconcile, adminVars
<1>3. CASE Recover \/ EnvironmentStep
  BY <1>1, <1>3 DEF Recover, EnvironmentStep, Crash, Shutdown, Restart, RemoteEnds, Tick, adminVars
<1>4. CASE \E t \in Thread : ThreadStep(t)
  BY <1>1, <1>4 DEF ThreadStep, ExecuteStep, Claim, ClaimReplyLost, ClaimRow, Heartbeat,
       HeartbeatLost, Recheck, RecheckDenied, RecheckFails, RenewBeforeExecute,
       RenewRefused, PrepareFails, StartEffect, EffectReturns, EffectAbandoned,
       SessionBroken, Finish, FinishFails, adminVars
<1> QED
  BY <1>2, <1>3, <1>4 DEF Next

\* A cancel, an expiry or a recovery in the gap between the last renewal and the
\* command leaves the resource locked for that command: only a reconciliation in
\* the gap itself does not.
THEOREM CommandIsUnderLease == Spec => []CommandUnderLease
<1>1. Init => CommandUnderLease
  BY DEF Init, CommandUnderLease, PastRenewal
<1>2. QueueInv /\ CommandUnderLease /\ UNCHANGED vars => CommandUnderLease'
  BY DEF CommandUnderLease, PastRenewal, vars, dbVars, rowVars, threadVars, adminVars
<1>3. ASSUME QueueInv, CommandUnderLease, Next PROVE CommandUnderLease'
  <2> SUFFICES ASSUME NEW t \in Thread, pc'[t] \in PastRenewal
               PROVE  leases'[resource_id'[cur'[t]]] = cur'[t] \/ cur'[t] \in torn'
    BY DEF CommandUnderLease
  <2>1. CASE RenewBeforeExecute(t)
    BY <2>1 DEF RenewBeforeExecute, PassesRenewal, Renewable, rowVars
  <2>2. CASE pc[t] \in PastRenewal /\ cur'[t] = cur[t]
    <3> DEFINE o == cur[t]
               r == resource_id[o]
    <3>1. o \in Op /\ o # None /\ state[o] # "absent" /\ r \in Resource
      BY <1>3, <2>2, NoneIsNoOp DEF PastRenewal, QueueInv, BusyThread, TypeOK, Unclaimed, RowHasResource
    <3>2. resource_id'[o] = r
      BY <1>3, <3>1, ResourceKept
    <3>3. torn \subseteq torn'
      BY <1>3, TornGrows
    <3>4. leases[r] = o \/ o \in torn
      BY <1>3, <2>2 DEF CommandUnderLease
    <3>5. CASE o \in torn \/ leases'[r] = o
      BY <2>2, <3>2, <3>3, <3>5
    <3>6. CASE leases[r] = o /\ leases'[r] # o
      <4>2. CASE \E x \in Thread : cur[x] = o /\ pc[x] = "finishing"
        <5>1. PICK x \in Thread : cur[x] = o /\ pc[x] = "finishing"
          BY <4>2
        <5>2. x = t
          BY <1>3, <3>1, <5>1 DEF QueueInv, OneThreadPerOp
        <5> QED
          BY <2>2, <5>1, <5>2 DEF PastRenewal
      <4>3. CASE ~\E x \in Thread : cur[x] = o /\ pc[x] = "finishing"
        <5>1. Reconcile(r)
          BY <1>3, <3>1, <3>6, <4>3, LeaseLeaves
        <5>2. o \in torn'
          BY <2>2, <3>6, <5>1 DEF Reconcile
        <5> QED
          BY <2>2, <5>2
      <4> QED
        BY <4>2, <4>3
    <3> QED
      BY <3>4, <3>5, <3>6
  <2> QED
    BY <1>3, <2>1, <2>2, PastRenewalStep
<1> QED
  BY <1>1, <1>2, <1>3, QueueInvariant, PTL DEF Spec

-----------------------------------------------------------------------------
(* The life cycle is implemented: every step of the queue is a step of      *)
(* OperationLifecycle or leaves its variables alone.                        *)

\* The operations that were begun, as OperationLifecycle sees them.
Begun == {o \in Op : "operation.started" \in audit[o]}

lifecycleVars == <<state, resource_id, leases, Begun, effects>>

LEMMA BegunUnchanged ==
    ASSUME TypeOK, NEW o \in Op, NEW a \in AuditAction, a # "operation.started",
           Record(o, a)
    PROVE  Begun' = Begun
BY DEF Begun, Record, TypeOK

LEMMA BegunGrows ==
    ASSUME TypeOK, NEW o \in Op, Record(o, "operation.started")
    PROVE  Begun' = Begun \cup {o}
BY DEF Begun, Record, TypeOK

LEMMA ApiRefines ==
    ASSUME QueueInv, ApiStep
    PROVE  Lifecycle!Next \/ UNCHANGED lifecycleVars
<1> USE DEF Lifecycle!Next
<1>1. ASSUME NEW o \in Op, NEW u \in User, NEW r \in Resource, NEW a \in BOOLEAN,
             Submit(o, u, r, a)
      PROVE  Lifecycle!Create(o)
  <2>1. Begun' = Begun
    BY <1>1, BegunUnchanged DEF Submit, QueueInv, AuditAction
  <2> QED
    BY <1>1, <2>1 DEF Submit, Begun, Lifecycle!Create, hostVars, adminVars
<1>2. ASSUME NEW o \in Op, NEW u \in User, Approve(o, u) \/ Reject(o, u)
      PROVE  Lifecycle!Decide(o)
  <2>1. Begun' = Begun
    BY <1>2, BegunUnchanged DEF Approve, Reject, QueueInv, AuditAction
  <2> QED
    BY <1>2, <2>1 DEF Approve, Reject, Begun, Lifecycle!Decide, hostVars, adminVars
<1>3. ASSUME NEW o \in Op, NEW u \in User, Cancel(o, u)
      PROVE  Lifecycle!Withdraw(o)
  <2>1. Begun' = Begun
    BY <1>3, BegunUnchanged DEF Cancel, LeasesAfterCancel, QueueInv, AuditAction
  <2> QED
    BY <1>3, <2>1 DEF Cancel, LeasesAfterCancel, Begun, Lifecycle!Withdraw, Lifecycle!Open, hostVars, adminVars
<1>4. ASSUME NEW r \in Resource, Reconcile(r)
      PROVE  Lifecycle!Free(r)
  <2>1. leases[r] \in Op /\ state[leases[r]] \in Terminal
    BY <1>4 DEF Reconcile, Reconcilable, QueueInv, TypeOK, Untouched, OpState, Unclaimed
  <2> QED
    BY <1>4, <2>1 DEF Reconcile, Reconcilable, Lifecycle!Free, Lifecycle!Verdicts,
                      Terminal, rowVars, hostVars, adminVars
<1> QED
  BY <1>1, <1>2, <1>3, <1>4 DEF ApiStep

LEMMA ClaimRefines ==
    ASSUME QueueInv, NEW o \in Op, NEW w \in Worker, ClaimRow(o, w), UNCHANGED effects
    PROVE  Lifecycle!Begin(o)
<1>1. Begun' = Begun \cup {o}
  BY BegunGrows DEF ClaimRow, QueueInv
<1> QED
  BY <1>1 DEF ClaimRow, Claimable, Begun, Lifecycle!Begin

LEMMA FinishRefines ==
    ASSUME QueueInv, NEW t \in Thread, Finish(t)
    PROVE  Lifecycle!Next \/ UNCHANGED lifecycleVars
<1> DEFINE o == cur[t]
           r == resource_id[o]
<1>1. /\ o \in Op
      /\ state[o] \notin Unclaimed
      /\ worker_id[o] = WorkerOf(t)
      /\ outcome[t] \in Outcome
      /\ r \in Resource
  BY DEF Finish, QueueInv, BusyThread, TypeOK, RowHasResource, Unclaimed
<1>2. CASE RowMatches(t)
  <2>1. state[o] = "running" /\ leases[r] = o
    BY <1>1, <1>2 DEF RowMatches, QueueInv, RunningHoldsLease
  <2>2. FinishAudit[outcome[t]] \in AuditAction \ {"operation.started"}
    BY <1>1 DEF FinishAudit, Outcome, AuditAction
  <2>3. Begun' = Begun
    BY <1>1, <1>2, <2>2, BegunUnchanged DEF Finish, QueueInv
  <2>4. leases' = [leases EXCEPT ![r] = IF outcome[t] = "timeout" THEN @ ELSE None]
    BY <1>1, <2>1 DEF Finish, ReleasesLease, QueueInv, TypeOK
  <2>5. Lifecycle!Complete(o, outcome[t])
    BY <1>1, <1>2, <2>1, <2>3, <2>4 DEF Finish, Begun, Lifecycle!Complete, hostVars, adminVars
  <2>6. outcome[t] \in Lifecycle!Verdicts
    BY <1>1 DEF Outcome, Lifecycle!Verdicts
  <2> QED
    BY <1>1, <2>5, <2>6 DEF Lifecycle!Next
<1>3. CASE ~RowMatches(t) /\ ReleasesLease(outcome[t]) /\ leases[r] = o
  <2>1. state[o] \in Terminal
    BY <1>1, <1>3 DEF RowMatches, QueueInv, TypeOK, OpState, Unclaimed
  <2>2. Lifecycle!Free(r)
    BY <1>1, <1>3, <2>1, NoneIsNoOp
    DEF Finish, Lifecycle!Free, Lifecycle!Verdicts, Terminal, hostVars, adminVars
  <2> QED
    BY <1>1, <2>2 DEF Lifecycle!Next
<1>4. CASE ~RowMatches(t) /\ ~(ReleasesLease(outcome[t]) /\ leases[r] = o)
  BY <1>4 DEF Finish, lifecycleVars, Begun, hostVars, adminVars
<1> QED
  BY <1>2, <1>3, <1>4

LEMMA ThreadRefines ==
    ASSUME QueueInv, NEW t \in Thread, ThreadStep(t)
    PROVE  Lifecycle!Next \/ UNCHANGED lifecycleVars
<1>1. ASSUME NEW o \in Op, Claim(t, o) \/ ClaimReplyLost(t, o)
      PROVE  Lifecycle!Next
  <2>1. Lifecycle!Begin(o)
    BY <1>1, ClaimRefines, WorkerOfThread DEF Claim, ClaimReplyLost, hostVars, adminVars
  <2> QED
    BY <2>1 DEF Lifecycle!Next
<1>2. CASE StartEffect(t)
  <2>1. cur[t] \in Op /\ effects[cur[t]] = 0 /\ "operation.started" \in audit[cur[t]]
    BY <1>2 DEF StartEffect, Advance, QueueInv, TypeOK, BusyThread, EffectPending
  <2>2. Lifecycle!Fire(cur[t])
    BY <1>2, <2>1 DEF StartEffect, QueueInv, TypeOK, Lifecycle!Fire, dbVars, rowVars
  <2> QED
    BY <2>1, <2>2 DEF Lifecycle!Next
<1>3. CASE Finish(t)
  BY <1>3, FinishRefines
<1>4. CASE \/ Heartbeat(t) \/ HeartbeatLost(t) \/ Recheck(t) \/ RecheckDenied(t)
           \/ RecheckFails(t) \/ RenewBeforeExecute(t) \/ RenewRefused(t)
           \/ PrepareFails(t) \/ EffectReturns(t) \/ EffectAbandoned(t)
           \/ SessionBroken(t) \/ FinishFails(t)
  BY <1>4 DEF Heartbeat, HeartbeatLost, Recheck, RecheckDenied, RecheckFails,
              RenewBeforeExecute, RenewRefused, PrepareFails, EffectReturns,
              EffectAbandoned, SessionBroken, FinishFails, lifecycleVars, Begun,
              dbVars, rowVars, hostVars, adminVars
<1> QED
  BY <1>1, <1>2, <1>3, <1>4 DEF ThreadStep, ExecuteStep

LEMMA RecoverRefines ==
    ASSUME QueueInv, Recover
    PROVE  Lifecycle!Next
<1> DEFINE S == {o \in Op : Orphaned(o)}
<1>1. Begun' = Begun
  BY DEF Recover, Begun
<1>2. Lifecycle!Orphan(S)
  BY <1>1 DEF Recover, Orphaned, OrphanState, LeasesAfterRecovery, Begun,
              Lifecycle!Orphan, hostVars, adminVars
<1> QED
  BY <1>2 DEF Lifecycle!Next

LEMMA EnvironmentRefines == EnvironmentStep => UNCHANGED lifecycleVars
BY DEF EnvironmentStep, Crash, Shutdown, Restart, RemoteEnds, Tick, lifecycleVars,
       Begun, dbVars, rowVars, hostVars, adminVars

\* The queue, with its crashes, lost replies, expiring leases and late finishes,
\* implements the abstract life cycle.
THEOREM QueueImplementsLifecycle == Spec => ImplementsLifecycle
<1>1. Init => Lifecycle!Init
  BY DEF Init, Lifecycle!Init
<1>2. QueueInv /\ [Next]_vars => [Lifecycle!Next]_(Lifecycle!vars)
  <2> SUFFICES ASSUME QueueInv, [Next]_vars
               PROVE  Lifecycle!Next \/ UNCHANGED lifecycleVars
    BY DEF lifecycleVars, Begun, Lifecycle!vars
  <2>1. CASE ApiStep
    BY <2>1, ApiRefines
  <2>2. CASE \E t \in Thread : ThreadStep(t)
    BY <2>2, ThreadRefines
  <2>3. CASE Recover
    BY <2>3, RecoverRefines
  <2>4. CASE EnvironmentStep
    BY <2>4, EnvironmentRefines
  <2>5. CASE UNCHANGED vars
    BY <2>5 DEF vars, dbVars, rowVars, hostVars, adminVars, lifecycleVars, Begun
  <2> QED
    BY <2>1, <2>2, <2>3, <2>4, <2>5 DEF Next
<1> QED
  BY <1>1, <1>2, QueueInvariant, PTL DEF Spec, ImplementsLifecycle, Lifecycle!Spec
=============================================================================
