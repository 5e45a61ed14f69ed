------------------------ MODULE ExecutionRecheckProofs ------------------------
(***************************************************************************)
(* Proofs about ExecutionRecheck, for any connection identities and any    *)
(* number of administrative changes.                                       *)
(*                                                                         *)
(* EffectAuthorized and EffectOnSubmittedHost are not inductive: they      *)
(* speak of the end of execute only. RecheckInv says what each read leaves *)
(* behind. A read that passed has seen its authority standing, so the      *)
(* authority is in held; a copy taken before it is judged (user, resource, *)
(* host) implies that its authority was standing when it was taken. Later  *)
(* changes cannot undo either, because held only grows after the claim.    *)
(***************************************************************************)
EXTENDS ExecutionRecheck, TLAPS

\* The places from which a given read lies in the past.
AfterTarget == {"policy", "approver", "renew", "connect", "sent"}
AfterHost == {"target"} \cup AfterTarget
AfterResource == {"host"} \cup AfterHost
AfterToken == {"resource"} \cup AfterResource
AfterUser == {"token"} \cup AfterToken

CopiesInv ==
    /\ place \in AfterUser /\ seen.user => "user" \in held
    /\ place \in AfterResource /\ seen.resource => "resource" \in held
    /\ place \in AfterHost /\ seen.enabled => "host" \in held
    /\ place \in AfterHost /\ seen.host = target[1] => "address" \in held

PassedInv ==
    /\ place \in AfterToken => "token" \in held
    /\ place \in AfterTarget => seen.host = target[1] /\ "bastion" \in held
    /\ place \in {"approver", "renew", "connect", "sent"} =>
          seen.user /\ seen.resource /\ seen.enabled /\ {"policy", "command"} \subseteq held
    /\ place \in {"renew", "connect", "sent"} => "approver" \in held

\* What stays true once a command was sent.
SentInv == used # NoConn =>
    /\ place \in Decided
    /\ held = Authority
    /\ used[1] = target[1]
    /\ place = "rejected" => erred

RecheckInv == RecheckTypeOK /\ CopiesInv /\ PassedInv /\ SentInv

\* TargetHash yields a target.
LEMMA TargetHashType ==
    ASSUME NEW h \in Conn, NEW b \in Jump
    PROVE  TargetHash(h, b) \in Target /\ TargetHash(h, b)[1] = h
BY DEF TargetHash, Target

\* The history variables stay sets of authorities.
LEMMA HistoryType ==
    ASSUME held \in SUBSET Authority, lost \in SUBSET Authority, Observe
    PROVE  held' \in SUBSET Authority /\ lost' \in SUBSET Authority
BY DEF Observe, Standing, Missing, Authority, Fact

\* After the claim nothing leaves held, and what stands now enters it.
LEMMA HeldGrows ==
    ASSUME Observe, place' \notin {"waiting", "queued"}
    PROVE  held \subseteq held' /\ Standing' \subseteq held'
BY DEF Observe

\* Every read, approval and administrative change keeps the operation, the rows
\* and the worker's copies in their types. That the dialled host is a host, not
\* an empty copy, needs PassedInv.
LEMMA TypeStep ==
    ASSUME RecheckTypeOK, PassedInv, [RecheckNext]_recheckVars
    PROVE  RecheckTypeOK'
<1>1. CASE Administer
  <2>1. held' \in SUBSET Authority /\ lost' \in SUBSET Authority
    BY <1>1, HistoryType DEF Administer, ToggleFact, ChangePolicy, ToggleApprover,
       EditHost, EditBastion, RecheckTypeOK
  <2>2. UNCHANGED <<target, approved, place, seen, used, erred>> /\ changes' \in 0..MaxChanges
    BY <1>1, RecheckAssumption DEF Administer, ToggleFact, ChangePolicy, ToggleApprover,
       EditHost, EditBastion, Change, RecheckTypeOK
  <2>3. /\ granted' \in [Fact -> BOOLEAN]
        /\ policy' \in {"allow", "approve", "deny"}
        /\ approver' \in BOOLEAN /\ host' \in Conn
        /\ bastion' \in Jump /\ jumpOn' \in BOOLEAN
    BY <1>1 DEF Administer, ToggleFact, ChangePolicy, ToggleApprover, EditHost,
       EditBastion, RecheckTypeOK
  <2> QED BY <2>1, <2>2, <2>3 DEF RecheckTypeOK
<1>2. CASE ApproveOperation \/ ClaimOperation
  <2>1. held' \in SUBSET Authority /\ lost' \in SUBSET Authority
    BY <1>2, HistoryType DEF ApproveOperation, ClaimOperation, RecheckTypeOK
  <2> QED BY <1>2, <2>1 DEF ApproveOperation, ClaimOperation, worldVars, RecheckTypeOK, Place
<1>3. CASE Execute
  <2>1. held' \in SUBSET Authority /\ lost' \in SUBSET Authority
    BY <1>3, HistoryType DEF Execute, ReadUser, ReadToken, ReadResource, ReadHost,
       ReadTarget, ReadPolicy, ReadApprover, Renew, Connect, ExecuteFails,
       CommandReturns, RecheckTypeOK
  <2>2. UNCHANGED <<worldVars, target, approved>>
    BY <1>3 DEF Execute, Read, ReadUser, ReadToken, ReadResource, ReadHost,
       ReadTarget, ReadPolicy, ReadApprover, Renew, Connect, ExecuteFails, CommandReturns, ErrorVerdict
  <2>3. place' \in Place
    BY <1>3 DEF Execute, Read, ReadUser, ReadToken, ReadResource, ReadHost,
       ReadTarget, ReadPolicy, ReadApprover, Renew, Connect, ExecuteFails, CommandReturns, ErrorVerdict, Place
  <2>4. seen' \in [user : BOOLEAN, resource : BOOLEAN, host : Conn \cup {NoConn},
                   enabled : BOOLEAN]
    <3>1. CASE ReadUser \/ ReadResource
      BY <3>1 DEF ReadUser, ReadResource, RecheckTypeOK, Fact
    <3>2. CASE ReadHost
      BY <3>2 DEF ReadHost, RecheckTypeOK, Fact
    <3>3. CASE UNCHANGED seen
      BY <3>3 DEF RecheckTypeOK
    <3> QED
      BY <1>3, <3>1, <3>2, <3>3 DEF Execute, ReadToken, ReadTarget, ReadPolicy,
         ReadApprover, Renew, Connect, ExecuteFails, CommandReturns, ErrorVerdict
  <2>5. used' \in Target \cup {NoConn}
    <3>1. CASE Connect
      <4>1. CASE UNCHANGED used
        BY <4>1 DEF RecheckTypeOK
      <4>2. CASE used' = TargetHash(HostDialled, bastion)
        <5>1. seen.host \in Conn /\ bastion \in Jump
          BY <3>1 DEF Connect, PassedInv, AfterTarget, RecheckTypeOK, Target
        <5> QED BY <4>2, <5>1, TargetHashType DEF HostDialled
      <4> QED BY <3>1, <4>1, <4>2 DEF Connect
    <3>2. CASE UNCHANGED used
      BY <3>2 DEF RecheckTypeOK
    <3> QED
      BY <1>3, <3>1, <3>2 DEF Execute, Read, ReadUser, ReadToken, ReadResource, ReadHost,
         ReadTarget, ReadPolicy, ReadApprover, Renew, ExecuteFails, CommandReturns
  <2>6. erred' = erred \/ erred' = TRUE
    BY <1>3 DEF Execute, Read, ReadUser, ReadToken, ReadResource, ReadHost, ReadTarget,
       ReadPolicy, ReadApprover, Renew, Connect, ExecuteFails, CommandReturns
  <2>7. erred' \in BOOLEAN
    BY <2>6 DEF RecheckTypeOK
  <2> QED BY <2>1, <2>2, <2>3, <2>4, <2>5, <2>7 DEF RecheckTypeOK, worldVars
<1>4. CASE UNCHANGED recheckVars
  BY <1>4 DEF recheckVars, worldVars, RecheckTypeOK
<1> QED BY <1>1, <1>2, <1>3, <1>4 DEF RecheckNext

\* A change by an administrator disturbs no copy and no authority already held.
LEMMA AdministerStep ==
    ASSUME RecheckInv, Administer
    PROVE  CopiesInv' /\ PassedInv'
<1>1. UNCHANGED <<target, approved, place, seen, used>> /\ Observe
  BY DEF Administer, ToggleFact, ChangePolicy, ToggleApprover, EditHost, EditBastion, Change
<1>2. CASE place \in {"waiting", "queued"}
  BY <1>1, <1>2 DEF CopiesInv, PassedInv, AfterUser, AfterToken, AfterResource, AfterHost,
     AfterTarget
<1>3. CASE place \notin {"waiting", "queued"}
  <2>1. held \subseteq held'
    BY <1>1, <1>3, HeldGrows
  <2> QED BY <1>1, <2>1 DEF RecheckInv, CopiesInv, PassedInv
<1> QED BY <1>2, <1>3

\* Each read of execute adds the authority it is about to held, if it passes.
LEMMA ExecuteStep ==
    ASSUME RecheckInv, Execute
    PROVE  CopiesInv' /\ PassedInv'
<1> USE DEF RecheckInv, AfterUser, AfterToken, AfterResource, AfterHost, AfterTarget
<1>1. /\ place' \notin {"waiting", "queued"}
      /\ UNCHANGED <<worldVars, target, approved>>
      /\ Observe
  BY DEF Execute, Read, ReadUser, ReadToken, ReadResource, ReadHost, ReadTarget,
     ReadPolicy, ReadApprover, Renew, Connect, ExecuteFails, CommandReturns, ErrorVerdict
<1>2. held \subseteq held' /\ Standing' \subseteq held'
  BY <1>1, HeldGrows
<1>3. Standing' = Standing
  BY <1>1 DEF Standing, worldVars
<1>4. Standing \subseteq held'
  BY <1>2, <1>3
<1>5. CASE ReadUser
  <2>1. granted["user"] => "user" \in held'
    BY <1>4 DEF Standing, Fact
  <2> QED BY <1>5, <2>1 DEF ReadUser, Read, CopiesInv, PassedInv, RecheckTypeOK
<1>6. CASE ReadToken
  <2>1. granted["token"] => "token" \in held'
    BY <1>4 DEF Standing, Fact
  <2> QED BY <1>6, <1>2, <2>1 DEF ReadToken, TokenUsable, Read, CopiesInv, PassedInv
<1>7. CASE ReadResource
  <2>1. granted["resource"] => "resource" \in held'
    BY <1>4 DEF Standing, Fact
  <2> QED BY <1>7, <1>2, <2>1 DEF ReadResource, Read, CopiesInv, PassedInv, RecheckTypeOK
<1>8. CASE ReadHost
  <2>1. /\ granted["host"] => "host" \in held'
        /\ host = target[1] => "address" \in held'
    BY <1>4 DEF Standing, Fact
  <2>2. seen' = [seen EXCEPT !.host = host, !.enabled = granted["host"]] /\ place' = "target"
    BY <1>8 DEF ReadHost, Read
  <2> QED BY <1>8, <1>1, <1>2, <2>1, <2>2 DEF ReadHost, Read, CopiesInv, PassedInv, RecheckTypeOK
<1>9. CASE ReadTarget
  <2>1. TargetUnchanged => seen.host = target[1] /\ "bastion" \in held'
    BY <1>4 DEF TargetUnchanged, TargetHash, Standing
  <2> QED BY <1>9, <1>2, <2>1 DEF ReadTarget, Read, CopiesInv, PassedInv
<1>10. CASE ReadPolicy
  <2>1. Authorized /\ ApprovalSatisfied => {"policy", "command"} \subseteq held'
    BY <1>4 DEF Authorized, ApprovalSatisfied, Standing, RecheckTypeOK, Fact
  <2>2. Authorized /\ policy # "approve" => "approver" \in held'
    BY <1>4 DEF Authorized, Standing, RecheckTypeOK
  <2> QED BY <1>10, <1>2, <2>1, <2>2 DEF ReadPolicy, Read, Authorized, CopiesInv, PassedInv
<1>11. CASE ReadApprover
  <2>1. approver => "approver" \in held'
    BY <1>4 DEF Standing
  <2> QED BY <1>11, <1>2, <2>1 DEF ReadApprover, Read, CopiesInv, PassedInv
<1>12. CASE Renew
  BY <1>12, <1>2 DEF Renew, Read, CopiesInv, PassedInv
<1>13. CASE Connect
  BY <1>13, <1>1, <1>2 DEF Connect, CopiesInv, PassedInv
<1>14. CASE ExecuteFails
  BY <1>14 DEF ExecuteFails, ErrorVerdict, CopiesInv, PassedInv
<1>15. CASE CommandReturns
  BY <1>15 DEF CommandReturns, ErrorVerdict, CopiesInv, PassedInv
<1> QED
  BY <1>5, <1>6, <1>7, <1>8, <1>9, <1>10, <1>11, <1>12, <1>13, <1>14, <1>15 DEF Execute

\* The dial comes after all the reads; afterwards only the verdict is written.
LEMMA SentStep ==
    ASSUME RecheckInv, [RecheckNext]_recheckVars
    PROVE  SentInv'
<1> USE DEF RecheckInv
<1>1. CASE Administer
  <2>1. UNCHANGED <<target, place, used>> /\ place \notin Decided
    BY <1>1 DEF Administer, ToggleFact, ChangePolicy, ToggleApprover, EditHost, EditBastion, Change
  <2> QED
    BY <2>1 DEF SentInv
<1>2. CASE ApproveOperation \/ ClaimOperation
  <2>1. UNCHANGED used /\ place \notin Decided
    BY <1>2 DEF ApproveOperation, ClaimOperation, Decided
  <2> QED
    BY <2>1 DEF SentInv
<1>3. CASE Connect
  <2>1. Observe /\ place' \notin {"waiting", "queued"} /\ UNCHANGED target
    BY <1>3 DEF Connect
  <2>2. held' \subseteq Authority /\ held \subseteq held'
    BY <2>1, HistoryType, HeldGrows DEF RecheckTypeOK
  <2>3. seen.host = target[1] /\ seen.user /\ seen.resource /\ seen.enabled
    BY <1>3 DEF Connect, PassedInv, AfterTarget
  <2>4. {"user", "resource", "host", "address"} \subseteq held
    BY <1>3, <2>3 DEF Connect, CopiesInv, AfterUser, AfterToken, AfterResource, AfterHost, AfterTarget
  <2>5. {"token", "bastion", "policy", "command", "approver"} \subseteq held
    BY <1>3 DEF Connect, PassedInv, AfterToken, AfterResource, AfterHost, AfterTarget
  <2>6. held' = Authority
    BY <2>2, <2>4, <2>5 DEF Authority, Fact
  <2>7. used = NoConn
    BY <1>3 DEF Connect, SentInv, Decided
  <2>8. used' # NoConn => place' = "sent" /\ used'[1] = seen.host
    BY <1>3, <2>7 DEF Connect, HostDialled, TargetHash
  <2> QED
    BY <2>1, <2>3, <2>6, <2>8 DEF SentInv, Decided
<1>4. CASE CommandReturns
  <2>1. /\ UNCHANGED <<used, target>> /\ Observe
        /\ place' \in {"succeeded", "failed", "rejected"} /\ (place' = "rejected" => erred')
    BY <1>4 DEF CommandReturns, ErrorVerdict
  <2>2. held' \subseteq Authority /\ held \subseteq held'
    BY <2>1, HistoryType, HeldGrows DEF RecheckTypeOK
  <2> QED
    BY <2>1, <2>2 DEF SentInv, Decided
<1>5. CASE Execute /\ ~Connect /\ ~CommandReturns
  <2>1. UNCHANGED used /\ place \notin Decided
    BY <1>5 DEF Execute, Read, ReadUser, ReadToken, ReadResource, ReadHost,
       ReadTarget, ReadPolicy, ReadApprover, Renew, ExecuteFails, Decided
  <2> QED
    BY <2>1 DEF SentInv
<1>6. CASE UNCHANGED recheckVars
  BY <1>6 DEF recheckVars, SentInv
<1> QED
  BY <1>1, <1>2, <1>3, <1>4, <1>5, <1>6 DEF RecheckNext, Execute

\* What the reads of Worker.execute leave behind, at every place.
THEOREM RecheckInvariant == RecheckSpec => []RecheckInv
<1>1. RecheckInit => RecheckInv
  <2> SUFFICES ASSUME RecheckInit PROVE RecheckInv
    OBVIOUS
  <2>1. target \in Target
    BY TargetHashType DEF RecheckInit
  <2>2. place \in {"waiting", "queued"}
    BY DEF RecheckInit
  <2>3. seen \in [user : BOOLEAN, resource : BOOLEAN, host : Conn \cup {NoConn},
                  enabled : BOOLEAN]
    BY DEF RecheckInit, Blank
  <2>4. RecheckTypeOK
    <3>1. changes \in 0..MaxChanges
      BY RecheckAssumption DEF RecheckInit
    <3>2. /\ policy \in {"allow", "approve", "deny"} /\ approver \in BOOLEAN
          /\ jumpOn \in BOOLEAN /\ approved \in BOOLEAN /\ erred \in BOOLEAN
          /\ place \in Place
      BY <2>2 DEF RecheckInit, Place
    <3>3. /\ granted \in [Fact -> BOOLEAN] /\ host \in Conn /\ bastion \in Jump
          /\ used \in Target \cup {NoConn}
          /\ held \in SUBSET Authority /\ lost \in SUBSET Authority
      BY DEF RecheckInit
    <3> QED BY <2>1, <2>3, <3>1, <3>2, <3>3 DEF RecheckTypeOK
  <2>5. CopiesInv /\ PassedInv
    BY <2>2 DEF CopiesInv, PassedInv, AfterUser, AfterToken, AfterResource, AfterHost,
       AfterTarget
  <2>6. SentInv
    BY DEF RecheckInit, SentInv
  <2> QED BY <2>4, <2>5, <2>6 DEF RecheckInv
<1>2. RecheckInv /\ [RecheckNext]_recheckVars => RecheckInv'
  <2> SUFFICES ASSUME RecheckInv, [RecheckNext]_recheckVars PROVE RecheckInv'
    OBVIOUS
  <2>1. RecheckTypeOK'
    BY TypeStep DEF RecheckInv
  <2>0. SentInv'
    BY SentStep
  <2>2. CASE Administer
    BY <2>0, <2>1, <2>2, AdministerStep DEF RecheckInv
  <2>3. CASE ApproveOperation \/ ClaimOperation
    <3>1. place' \in {"queued", "user"}
      BY <2>3 DEF ApproveOperation, ClaimOperation
    <3> QED BY <2>0, <2>1, <3>1 DEF RecheckInv, CopiesInv, PassedInv, AfterUser, AfterToken,
               AfterResource, AfterHost, AfterTarget
  <2>4. CASE Execute
    BY <2>0, <2>1, <2>4, ExecuteStep DEF RecheckInv
  <2>5. CASE UNCHANGED recheckVars
    BY <2>0, <2>1, <2>5 DEF recheckVars, worldVars, RecheckInv, CopiesInv, PassedInv
  <2> QED BY <2>2, <2>3, <2>4, <2>5 DEF RecheckNext
<1> QED BY <1>1, <1>2, PTL DEF RecheckSpec

\* The second authorization is complete: whatever administrators change while
\* execute reads, a command is sent only if every authority it needs stood at
\* some instant since the claim.
THEOREM ExecutionIsAuthorized == RecheckSpec => []EffectAuthorized
<1>1. RecheckInv => EffectAuthorized
  BY DEF RecheckInv, SentInv, EffectAuthorized
<1> QED BY <1>1, RecheckInvariant, PTL

\* The command reaches the host that was submitted and approved, over a connection
\* that is a whole target, never one made from an empty copy; rows and the worker's
\* copies keep their types.
THEOREM CopiesAreSafe == RecheckSpec => []CopiesSafe
<1>1. RecheckInv => CopiesSafe
  BY DEF RecheckInv, SentInv, CopiesSafe, EffectOnSubmittedHost
<1> QED BY <1>1, RecheckInvariant, PTL
-----------------------------------------------------------------------------
(* Refusals. A copy that is judged unfavourably, like a failed read, has     *)
(* seen its authority missing, and lost only grows after the claim.          *)

CauseInv ==
    /\ IF target[1] \in ViaBastion THEN target[2] \in Jump ELSE target[2] = NoConn
    /\ place \in AfterUser /\ ~seen.user => "user" \in lost
    /\ place \in AfterResource /\ ~seen.resource => "resource" \in lost
    /\ place \in AfterHost /\ ~seen.enabled => "host" \in lost
    /\ place \in AfterHost /\ seen.host # target[1] => "address" \in lost
    /\ place = "rejected" /\ ~erred => lost # {}

\* After the claim nothing leaves lost, and what is missing now enters it.
LEMMA LostGrows ==
    ASSUME Observe, place' \notin {"waiting", "queued"}
    PROVE  lost \subseteq lost' /\ Missing' \subseteq lost'
BY DEF Observe

\* A read that refuses, or a copy that will, meets something missing.
LEMMA ExecuteCause ==
    ASSUME RecheckInv, CauseInv, Execute
    PROVE  CauseInv'
<1> USE DEF RecheckInv, AfterUser, AfterToken, AfterResource, AfterHost, AfterTarget
<1>1. /\ place' \notin {"waiting", "queued"}
      /\ UNCHANGED <<worldVars, target, approved>>
      /\ Observe
  BY DEF Execute, Read, ReadUser, ReadToken, ReadResource, ReadHost, ReadTarget,
     ReadPolicy, ReadApprover, Renew, Connect, ExecuteFails, CommandReturns, ErrorVerdict
<1>2. lost \subseteq lost' /\ Missing' \subseteq lost'
  BY <1>1, LostGrows
<1>3. Missing' = Missing
  BY <1>1 DEF Missing, Standing, worldVars
<1>4. Missing \subseteq lost'
  BY <1>2, <1>3
<1>5. \A f \in Fact : ~granted[f] => f \in lost'
  BY <1>4 DEF Missing, Standing, Authority, Fact
<1>6. CASE ReadUser
  BY <1>1, <1>2, <1>5, <1>6 DEF ReadUser, Read, CauseInv, RecheckTypeOK, Fact
<1>7. CASE ReadToken
  BY <1>1, <1>2, <1>5, <1>7 DEF ReadToken, TokenUsable, Read, CauseInv, RecheckTypeOK, Fact
<1>8. CASE ReadResource
  BY <1>1, <1>2, <1>5, <1>8 DEF ReadResource, Read, CauseInv, RecheckTypeOK, Fact
<1>9. CASE ReadHost
  <2>1. /\ ~granted["host"] => "host" \in lost'
        /\ host # target[1] => "address" \in lost'
    BY <1>4, <1>5 DEF Missing, Standing, Authority, Fact
  <2>2. seen' = [seen EXCEPT !.host = host, !.enabled = granted["host"]] /\ place' = "target"
    BY <1>9 DEF ReadHost, Read
  <2> QED
    BY <1>1, <1>2, <1>9, <2>1, <2>2 DEF ReadHost, Read, CauseInv, RecheckTypeOK
<1>10. CASE ReadTarget
  <2>1. ~TargetUnchanged => lost' # {}
    <3>1. CASE seen.host # target[1]
      BY <1>2, <1>10, <3>1 DEF ReadTarget, Read, CauseInv
    <3>2. CASE seen.host = target[1] /\ ~TargetUnchanged
      <4>1. target = <<target[1], target[2]>>
        BY DEF RecheckTypeOK, Target
      <4>2. target[2] \notin {bastion, NoConn}
        BY <3>2, <4>1, RecheckAssumption DEF TargetUnchanged, TargetHash, CauseInv, RecheckTypeOK
      <4> QED
        BY <1>4, <4>2 DEF Missing, Standing, Authority, Fact
    <3> QED
      BY <3>1, <3>2
  <2> QED
    BY <1>1, <1>2, <1>10, <2>1 DEF ReadTarget, Read, CauseInv
<1>11. CASE ReadPolicy
  <2>1. ~(Authorized /\ ApprovalSatisfied) => lost' # {}
    <3>1. policy = "deny" \/ (policy = "approve" /\ ~approved) => "policy" \in lost'
      BY <1>4 DEF Missing, Standing, Authority, Fact
    <3>2. ~granted["command"] => "command" \in lost'
      BY <1>5 DEF Fact
    <3> QED
      BY <1>2, <1>11, <3>1, <3>2 DEF ReadPolicy, Read, Authorized, ApprovalSatisfied, CauseInv, RecheckTypeOK
  <2> QED
    BY <1>1, <1>2, <1>11, <2>1 DEF ReadPolicy, Read, CauseInv
<1>12. CASE ReadApprover
  <2>1. ~approver => "approver" \in lost'
    BY <1>4 DEF Missing
  <2> QED
    BY <1>1, <1>2, <1>12, <2>1 DEF ReadApprover, Read, CauseInv
<1>13. CASE Renew \/ Connect \/ ExecuteFails \/ CommandReturns
  BY <1>1, <1>2, <1>13 DEF Renew, Read, Connect, ExecuteFails, CommandReturns, ErrorVerdict, CauseInv
<1> QED
  BY <1>6, <1>7, <1>8, <1>9, <1>10, <1>11, <1>12, <1>13 DEF Execute

\* The causes are on record at every place.
THEOREM CauseInvariant == RecheckSpec => []CauseInv
<1> USE DEF AfterUser, AfterToken, AfterResource, AfterHost, AfterTarget
<1>1. RecheckInit => CauseInv
  <2> SUFFICES ASSUME RecheckInit PROVE CauseInv
    OBVIOUS
  <2>1. place \in {"waiting", "queued"}
    BY DEF RecheckInit
  <2>2. IF target[1] \in ViaBastion THEN target[2] \in Jump ELSE target[2] = NoConn
    BY DEF RecheckInit, TargetHash
  <2> QED
    BY <2>1, <2>2 DEF CauseInv
<1>2. RecheckInv /\ CauseInv /\ [RecheckNext]_recheckVars => CauseInv'
  <2> SUFFICES ASSUME RecheckInv, CauseInv, [RecheckNext]_recheckVars PROVE CauseInv'
    OBVIOUS
  <2>1. CASE Administer
    <3>1. UNCHANGED <<target, place, seen, erred>> /\ Observe
      BY <2>1 DEF Administer, ToggleFact, ChangePolicy, ToggleApprover, EditHost,
         EditBastion, Change
    <3>2. CASE place \in {"waiting", "queued"}
      BY <3>1, <3>2 DEF CauseInv
    <3>3. CASE place \notin {"waiting", "queued"}
      <4>1. lost \subseteq lost'
        BY <3>1, <3>3, LostGrows
      <4> QED
        BY <3>1, <4>1 DEF CauseInv
    <3> QED
      BY <3>2, <3>3
  <2>2. CASE ApproveOperation \/ ClaimOperation
    BY <2>2 DEF ApproveOperation, ClaimOperation, CauseInv
  <2>3. CASE Execute
    BY <2>3, ExecuteCause
  <2>4. CASE UNCHANGED recheckVars
    BY <2>4 DEF recheckVars, CauseInv
  <2> QED
    BY <2>1, <2>2, <2>3, <2>4 DEF RecheckNext
<1> QED
  BY <1>1, <1>2, RecheckInvariant, PTL DEF RecheckSpec

\* The second check refuses nothing by itself: where no call and no command
\* failed, a rejected operation lacked an authority at some instant since the
\* claim, and nothing was sent.
THEOREM RejectionIsCaused == RecheckSpec => []RejectionHasCause
<1>1. CauseInv /\ RecheckInv => RejectionHasCause
  BY DEF CauseInv, RecheckInv, SentInv, RejectionHasCause
<1> QED
  BY <1>1, CauseInvariant, RecheckInvariant, PTL
=============================================================================
