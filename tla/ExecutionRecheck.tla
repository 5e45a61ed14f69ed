--------------------------- MODULE ExecutionRecheck ---------------------------
(***************************************************************************)
(* The second authorization of an operation. Between submission and the    *)
(* remote command the requester may lose a role, the token be revoked, the *)
(* host be edited or disabled, the policies change, the approver be        *)
(* demoted. Worker.execute therefore reads everything again, one query     *)
(* after the other and outside any transaction, before Adapter.Execute.    *)
(* This module follows one operation through those reads while             *)
(* administrators change what is being read.                               *)
(*                                                                         *)
(* A host's connection identity (address, port, user, method, credential,  *)
(* fingerprint, environment, bastion id) is one opaque value: TargetHash   *)
(* only compares it.                                                       *)
(***************************************************************************)
EXTENDS Naturals, FiniteSets

CONSTANTS
    Conn,        \* connection identities a host row may hold
    ViaBastion,  \* the identities that name a bastion
    Jump,        \* connection identities the bastion's row may hold
    MaxChanges,  \* bound: administrative changes after submission
    NoConn

ASSUME RecheckAssumption ==
    /\ ViaBastion \subseteq Conn
    /\ MaxChanges \in Nat
    /\ NoConn \notin Conn \cup Jump

VARIABLES
    granted,   \* requester permitted, token usable, resource present and offering
               \* the action, host enabled, command built from the parameters
    policy,    \* what the rules decide now: "allow", "approve" or "deny"
    approver,  \* the approver may still approve
    host,      \* the host row's connection identity
    bastion,   \* the bastion row's connection identity
    jumpOn,    \* the bastion row is enabled
    changes,   \* number of administrative changes so far
    target,    \* operations.target_hash: the identities at submission
    approved,  \* operations.approval_by is set
    place,     \* where the operation stands
    seen,      \* the worker's copies of the user, resource and host rows
    used,      \* the connection the command went through; NoConn: no command
    erred,     \* history: a call of execute, or the command, failed
    held,      \* history: authorities that held at some instant since the claim
    lost       \* history: authorities that failed at some instant since the claim

worldVars == <<granted, policy, approver, host, bastion, jumpOn, changes>>
recheckVars == <<worldVars, target, approved, place, seen, used, erred, held, lost>>

Fact == {"user", "token", "resource", "host", "command"}

\* waiting, queued - before the claim; then the reads of execute in the order
\* of the code; connect - about to dial; sent - the command is on the host;
\* then the state Finish writes ("failed" stands for "timeout" too).
Place == {"waiting", "queued", "user", "token", "resource", "host", "target",
          "policy", "approver", "renew", "connect", "sent", "succeeded", "rejected",
          "failed"}
Decided == {"sent", "succeeded", "rejected", "failed"}

\* What TargetHash covers: the host's identity and, if it names one, the bastion's.
TargetHash(h, b) == <<h, IF h \in ViaBastion THEN b ELSE NoConn>>

Target == Conn \X (Jump \cup {NoConn})
Blank == [user |-> FALSE, resource |-> FALSE, host |-> NoConn, enabled |-> FALSE]

\* The authorities the second check is about, as they stand now.
Standing ==
    {f \in Fact : granted[f]}
        \cup (IF policy = "allow" \/ (policy = "approve" /\ approved) THEN {"policy"} ELSE {})
        \cup (IF policy = "allow" \/ approver THEN {"approver"} ELSE {})
        \cup (IF host = target[1] THEN {"address"} ELSE {})
        \cup (IF target[2] \in {bastion, NoConn} THEN {"bastion"} ELSE {})
Authority == Fact \cup {"policy", "approver", "address", "bastion"}

\* What a read at this instant could find missing; the approver is read when an
\* earlier read of the rules asked for an approval.
Missing == (Authority \ Standing) \cup (IF approver THEN {} ELSE {"approver"})

RecheckTypeOK ==
    /\ granted \in [Fact -> BOOLEAN]
    /\ policy \in {"allow", "approve", "deny"}
    /\ approver \in BOOLEAN
    /\ host \in Conn
    /\ bastion \in Jump
    /\ jumpOn \in BOOLEAN
    /\ changes \in 0..MaxChanges
    /\ target \in Target
    /\ approved \in BOOLEAN
    /\ place \in Place
    /\ seen \in [user : BOOLEAN, resource : BOOLEAN, host : Conn \cup {NoConn}, enabled : BOOLEAN]
    /\ used \in Target \cup {NoConn}
    /\ erred \in BOOLEAN
    /\ held \in SUBSET Authority
    /\ lost \in SUBSET Authority

\* Just after Submit: authorized, waiting for an approval if the policy asked.
RecheckInit ==
    /\ granted = [f \in Fact |-> TRUE]
    /\ policy \in {"allow", "approve"}
    /\ approver = TRUE
    /\ host \in Conn
    /\ bastion \in Jump
    /\ jumpOn = TRUE
    /\ changes = 0
    /\ target = TargetHash(host, bastion)
    /\ approved = FALSE
    /\ place = IF policy = "approve" THEN "waiting" ELSE "queued"
    /\ seen = Blank
    /\ used = NoConn
    /\ erred = FALSE
    /\ held = {}
    /\ lost = {}

\* The history variables: empty until the claim, then every instant counts.
Observe ==
    /\ held' = IF place' \in {"waiting", "queued"} THEN {} ELSE held \cup Standing'
    /\ lost' = IF place' \in {"waiting", "queued"} THEN {} ELSE lost \cup Missing'

-----------------------------------------------------------------------------
(* Administrators, and the clock where a maintenance window is concerned. *)

Change ==
    /\ place \notin Decided
    /\ changes < MaxChanges
    /\ changes' = changes + 1
    /\ UNCHANGED <<target, approved, place, seen, used, erred>>

\* A user, token or host is disabled or enabled again, a resource vanishes
\* from discovery or comes back, a secret among the parameters becomes one that
\* Build refuses or accepts.
ToggleFact(f) ==
    /\ Change
    /\ granted' = [granted EXCEPT ![f] = ~@]
    /\ UNCHANGED <<policy, approver, host, bastion, jumpOn>>
    /\ Observe

ChangePolicy(p) ==
    /\ Change
    /\ p # policy
    /\ policy' = p
    /\ UNCHANGED <<granted, approver, host, bastion, jumpOn>>
    /\ Observe

ToggleApprover ==
    /\ Change
    /\ approver' = ~approver
    /\ UNCHANGED <<granted, policy, host, bastion, jumpOn>>
    /\ Observe

\* saveHost on the host, and on the bastion.
EditHost(c) ==
    /\ Change
    /\ c # host
    /\ host' = c
    /\ UNCHANGED <<granted, policy, approver, bastion, jumpOn>>
    /\ Observe

EditBastion(b, enabled) ==
    /\ Change
    /\ <<b, enabled>> # <<bastion, jumpOn>>
    /\ bastion' = b
    /\ jumpOn' = enabled
    /\ UNCHANGED <<granted, policy, approver, host>>
    /\ Observe

-----------------------------------------------------------------------------
(* The operation. *)

\* Approve by a user who may, while he may.
ApproveOperation ==
    /\ place = "waiting"
    /\ approver
    /\ approved' = TRUE
    /\ place' = "queued"
    /\ UNCHANGED <<worldVars, target, seen, used, erred>>
    /\ Observe

ClaimOperation ==
    /\ place = "queued"
    /\ place' = "user"
    /\ UNCHANGED <<worldVars, target, approved, seen, used, erred>>
    /\ Observe

\* One read of execute: to the next place, or out.
Read(from, passes, to) ==
    /\ place = from
    /\ place' = IF passes THEN to ELSE "rejected"
    /\ UNCHANGED <<worldVars, target, approved, used, erred>>

\* The user row is only looked at later, by the policy evaluation.
ReadUser ==
    /\ Read("user", TRUE, "token")
    /\ seen' = [seen EXCEPT !.user = granted["user"]]
    /\ Observe

\* revoked_at IS NULL AND expires_at>now().
TokenUsable == granted["token"]

ReadToken == Read("token", TokenUsable, "resource") /\ UNCHANGED seen /\ Observe

ReadResource ==
    /\ Read("resource", TRUE, "host")
    /\ seen' = [seen EXCEPT !.resource = granted["resource"]]
    /\ Observe

ReadHost ==
    /\ Read("host", TRUE, "target")
    /\ seen' = [seen EXCEPT !.host = host, !.enabled = granted["host"]]
    /\ Observe

TargetUnchanged_NoBastion == <<seen.host, NoConn>> = target

\* TargetHash reads the bastion's row; the environment is part of the identity.
TargetUnchanged == TargetHash(seen.host, bastion) = target

ReadTarget == Read("target", TargetUnchanged, "policy") /\ UNCHANGED seen /\ Observe

\* Engine.Authorize on the worker's copies and on the parameters and rules of
\* this instant: the resource is there and offers the action, the command can be
\* built, the rules allow it.
Authorized ==
    seen.resource /\ granted["command"] /\ seen.user /\ seen.enabled /\ policy # "deny"

ApprovalSatisfied_Unasked == TRUE

\* "approval now required; resubmit".
ApprovalSatisfied == policy = "approve" => approved

ReadPolicy ==
    /\ Read("policy", Authorized /\ ApprovalSatisfied,
            IF policy = "approve" THEN "approver" ELSE "renew")
    /\ UNCHANGED seen
    /\ Observe

ReadApprover == Read("approver", approver, "renew") /\ UNCHANGED seen /\ Observe

\* The renewal and the resolution of secret parameters succeed.
Renew == Read("renew", TRUE, "connect") /\ UNCHANGED seen /\ Observe

HostDialled_Reread == host
HostDialled_Unset == NoConn

\* Adapter.Execute receives the worker's copy of the host.
HostDialled == seen.host

\* SSH.connect dials the copy of the host, through the bastion as its row is
\* now; a bastion disabled by now fails the operation.
Connect ==
    /\ place = "connect"
    /\ IF HostDialled \in ViaBastion /\ ~jumpOn
       THEN place' = "failed" /\ UNCHANGED used
       ELSE place' = "sent" /\ used' = TargetHash(HostDialled, bastion)
    /\ UNCHANGED <<worldVars, target, approved, seen, erred>>
    /\ Observe

\* How execute reports an error. The approver's row cannot be read: Denied. So
\* it is with the token's, whatever the error, but not with its scopes. Any other
\* error is a failure, or a denial if its text contains "permission" (IsDenied).
ErrorVerdict == IF place = "approver" THEN {"rejected"} ELSE {"failed", "rejected"}

\* A query, the renewal, the secret store or the dial fails.
ExecuteFails ==
    /\ place \in Place \ (Decided \cup {"waiting", "queued"})
    /\ place' \in ErrorVerdict
    /\ erred' = TRUE
    /\ UNCHANGED <<worldVars, target, approved, seen, used>>
    /\ Observe

\* The command ends, or fails with any text.
CommandReturns ==
    /\ place = "sent"
    /\ \/ place' = "succeeded" /\ UNCHANGED erred
       \/ place' \in ErrorVerdict /\ erred' = TRUE
    /\ UNCHANGED <<worldVars, target, approved, seen, used>>
    /\ Observe

-----------------------------------------------------------------------------
Administer ==
    \/ \E f \in Fact : ToggleFact(f)
    \/ \E p \in {"allow", "approve", "deny"} : ChangePolicy(p)
    \/ ToggleApprover
    \/ \E c \in Conn : EditHost(c)
    \/ \E b \in Jump, enabled \in BOOLEAN : EditBastion(b, enabled)

Execute ==
    \/ ReadUser \/ ReadToken \/ ReadResource \/ ReadHost \/ ReadTarget
    \/ ReadPolicy \/ ReadApprover \/ Renew \/ Connect \/ ExecuteFails \/ CommandReturns

RecheckNext == Administer \/ ApproveOperation \/ ClaimOperation \/ Execute

RecheckSpec == RecheckInit /\ [][RecheckNext]_recheckVars

-----------------------------------------------------------------------------
(* Properties. *)

\* A command is sent only if each authority it needs (requester, token,
\* resource, host, command, policy with its approval, approver, host address,
\* bastion) stood at some instant between the claim and the command. In particular
\* what was revoked before the claim, and stayed revoked, is never executed, in
\* whatever order the reads and the changes fell.
EffectAuthorized == used # NoConn => held = Authority

\* The command reaches the host the requester and the approver saw, even if
\* the host's row was edited and edited back between any two reads.
EffectOnSubmittedHost == used # NoConn => used[1] = target[1]

\* The copies execute works on as a whole: the connection made from them is a
\* complete one, never from a copy not yet read, and its host the submitted one.
CopiesSafe == RecheckTypeOK /\ EffectOnSubmittedHost

\* Unless a call or the command itself failed, whose error execute may take for a
\* denial, a rejected operation was refused by the second check: something it
\* needs was really missing at some instant since the claim, and no command was
\* sent.
RejectionHasCause == place = "rejected" /\ ~erred => lost # {} /\ used = NoConn
=============================================================================
