----------------------------- MODULE PolicyEngine -----------------------------
(***************************************************************************)
(* internal/policy and Engine.Rules: the decision on a request, taken from *)
(* the principal's permissions, the host, the agent mode and the policies  *)
(* an administrator stored. The policies table changes and time passes     *)
(* while a request stands to be decided (again), so the module is a state  *)
(* machine whose decision is a function of its state.                      *)
(*                                                                         *)
(* A request is a record [principal, provider, action, environment, host,  *)
(* hostEnabled, groups, resource, mode], mode being "" for a person. A     *)
(* rule is [match, deny, approval, mfa, allowAgent, window]: match maps    *)
(* the fields the rule restricts to the value it wants, window is None or  *)
(* [days, start, end] in local time.                                       *)
(***************************************************************************)
EXTENDS Rbac, Integers, SequencesExt

CONSTANTS
    Requests,     \* the requests that may be submitted
    RulePool,     \* the policies an administrator may store
    MaxRules,     \* bound: stored policies
    ObjectLimit,  \* LIMIT 2000 of DB.Objects, scaled
    DayLength,    \* the 1440 minutes of a day, scaled
    None

ASSUME PolicyAssumption ==
    /\ MaxRules \in Nat /\ ObjectLimit \in Nat \ {0} /\ DayLength \in Nat \ {0}
    /\ \A q \in Requests : q.mode \in {"", "DISABLED", "ADVISORY", "ASSISTED", "AUTOMATED_POLICY_CONTROLLED"}

VARIABLES
    policies,  \* objects of kind "policies", newest first (ORDER BY created_at DESC)
    request,   \* the request being decided, at submission and again at execution
    now        \* minute of the week, from Sunday 00:00, in the windows' timezone

vars == <<policies, request, now>>

Week == 7 * DayLength

TypeOK ==
    /\ policies \in Seq(RulePool) /\ Len(policies) <= MaxRules
    /\ request \in Requests
    /\ now \in 0..(Week - 1)

-----------------------------------------------------------------------------
(* Window.Contains. *)

StartDay_Today(w, day, m) == day

\* After midnight a window that wraps belongs to the day it started on.
StartDay(w, day, m) == IF w.start > w.end /\ m < w.end THEN (day + 6) % 7 ELSE day

WindowContains(w, t) ==
    LET m == t % DayLength
        day == t \div DayLength IN
    /\ StartDay(w, day, m) \in w.days
    /\ IF w.start > w.end THEN m >= w.start \/ m < w.end
                          ELSE m >= w.start /\ m < w.end

-----------------------------------------------------------------------------
(* Risk, ReadOnly, Evaluate. *)

Risk(action) ==
    IF action \in {"delete", "down", "recreate", "deploy", "run", "stop", "rollback", "create"}
    THEN "high"
    ELSE IF action \in {"restart", "scale", "reload", "pause"} THEN "medium"
    ELSE "low"

ReadOnly(action) ==
    action \in {"logs", "inspect", "stats", "describe", "events", "status",
                "rollout_status", "rollout_history"}

IsAgent(q) == q.mode # ""

\* The values of a request each field of a rule accepts.
Attributes(q) ==
    [environment |-> {q.environment}, action |-> {"*", q.action},
     role |-> {q.principal.role}, user_id |-> {q.principal.id}, host_id |-> {q.host},
     resource_id |-> {q.resource}, group |-> q.groups, risk |-> {Risk(q.action)}]

\* The chain of "continue": an empty field restricts nothing.
Matches(r, q) == \A f \in DOMAIN r.match : r.match[f] \in Attributes(q)[f]

\* The checks before the rules: RBAC, host, password, MFA, agent mode.
BaseAllowed(q) ==
    /\ RbacAllowed(q.principal, Permission(q.provider, q.action), q.environment)
    /\ q.hostEnabled
    /\ ~q.principal.force
    /\ q.principal.mfaRequired => q.principal.mfa
    /\ q.mode \notin {"DISABLED", "ADVISORY"}

BaseApproval_PeopleOnly(q) ==
    (q.environment = "production" /\ ~ReadOnly(q.action) /\ ~IsAgent(q)) \/ q.mode = "ASSISTED"

\* The default approval: production mutations, and assisted agents.
BaseApproval(q) ==
    (q.environment = "production" /\ ~ReadOnly(q.action)) \/ q.mode = "ASSISTED"

Refuses(r, q, t) ==
    \/ r.deny
    \/ r.mfa /\ ~q.principal.mfa
    \/ r.window # None /\ ~WindowContains(r.window, t)

Accumulate_Last(d, r) == [d EXCEPT !.approval = r.approval, !.auto = @ \/ r.allowAgent]

\* What a matching rule that does not refuse adds to the decision.
Accumulate(d, r) == [d EXCEPT !.approval = @ \/ r.approval, !.auto = @ \/ r.allowAgent]

Apply_LastMatchWins(q, t, d, r) ==
    IF ~Matches(r, q) THEN d
    ELSE [Accumulate(d, r) EXCEPT !.allowed = BaseAllowed(q) /\ ~Refuses(r, q, t)]

\* One turn of the loop over the rules; a refusal returns at once.
Apply(q, t, d, r) ==
    IF ~d.allowed \/ ~Matches(r, q) THEN d
    ELSE IF Refuses(r, q, t) THEN [d EXCEPT !.allowed = FALSE]
    ELSE Accumulate(d, r)

\* The decision after each turn.
Turns(q, rules, t) ==
    LET turn[i \in 0..Len(rules)] ==
            IF i = 0 THEN [allowed |-> BaseAllowed(q), approval |-> BaseApproval(q), auto |-> FALSE]
            ELSE Apply(q, t, turn[i - 1], rules[i])
    IN  turn

Evaluate(q, rules, t) ==
    LET last == Turns(q, rules, t)[Len(rules)] IN
    [last EXCEPT !.allowed = @ /\ (q.mode = "AUTOMATED_POLICY_CONTROLLED" => last.auto)]

\* Engine.Rules: DB.Objects returns at most ObjectLimit rows, newest first.
Rules == SubSeq(policies, 1, IF Len(policies) < ObjectLimit THEN Len(policies) ELSE ObjectLimit)

Decision == Evaluate(request, Rules, now)

-----------------------------------------------------------------------------
Init ==
    /\ policies = <<>>
    /\ request \in Requests
    /\ now = 0

\* saveObject on "policies", with a rule Validate accepts. Saving an existing id
\* keeps its created_at, hence its place.
CreatePolicy(r) ==
    /\ Len(policies) < MaxRules
    /\ policies' = <<r>> \o policies
    /\ UNCHANGED <<request, now>>

UpdatePolicy(i, r) ==
    /\ policies[i] # r
    /\ policies' = [policies EXCEPT ![i] = r]
    /\ UNCHANGED <<request, now>>

DeletePolicy_Emptied(i) ==
    /\ policies' = [policies EXCEPT ![i] = None]
    /\ UNCHANGED <<request, now>>

\* deleteObject.
DeletePolicy(i) ==
    /\ policies' = RemoveAt(policies, i)
    /\ UNCHANGED <<request, now>>

Tick ==
    /\ now' = (now + 1) % Week
    /\ UNCHANGED <<policies, request>>

Next ==
    \/ \E r \in RulePool : CreatePolicy(r)
    \/ \E i \in DOMAIN policies, r \in RulePool : UpdatePolicy(i, r)
    \/ \E i \in DOMAIN policies : DeletePolicy(i)
    \/ Tick

Spec == Init /\ [][Next]_vars

-----------------------------------------------------------------------------
(* Properties. *)

\* Reference: a window opens on each of its days at start and stays open until
\* end comes round, across midnight and the end of the week.
OpenDuring(w, t) ==
    \E d \in w.days : (t - d * DayLength - w.start) % Week < (w.end - w.start) % DayLength

\* Window.Contains, which reasons about today and yesterday, agrees with the
\* intervals the window describes ("Sabado 22:00-02:00 inclui domingo ate 02:00").
WindowMeetsReference ==
    \A d \in 0..6, a, b \in 0..(DayLength - 1) :
        LET w == [days |-> {d}, start |-> a, end |-> b] IN
        WindowContains(w, now) <=> OpenDuring(w, now)

Applicable == {Rules[i] : i \in {j \in DOMAIN Rules : Matches(Rules[j], request)}}

\* "deny prevalece; approval_required e require_mfa sao cumulativos": the loop
\* over the rules, with its early returns, decides what the set of the listed
\* policies says, in whatever order they were created or edited.
EvaluateMeetsReference ==
    LET permitted ==
            /\ BaseAllowed(request)
            /\ \A r \in Applicable : ~Refuses(r, request, now)
            /\ request.mode = "AUTOMATED_POLICY_CONTROLLED"
                  => \E r \in Applicable : r.allowAgent
        approval == BaseApproval(request) \/ \E r \in Applicable : r.approval
    IN /\ Decision.allowed <=> permitted
       /\ Decision.allowed => (Decision.approval <=> approval)

\* A mutation that runs without a second person is never in production, and
\* never an agent's unless automation is on and a stored policy that restricts
\* nothing the request does not satisfy allows it.
UnattendedMutation ==
    Decision.allowed /\ ~Decision.approval /\ ~ReadOnly(request.action) =>
        /\ request.environment # "production"
        /\ IsAgent(request) =>
              /\ request.mode = "AUTOMATED_POLICY_CONTROLLED"
              /\ \E i \in DOMAIN policies :
                    /\ policies[i].allowAgent
                    /\ \A f \in DOMAIN policies[i].match :
                          policies[i].match[f] \in Attributes(request)[f]

\* "Politicas nunca concedem permissao ausente no RBAC": storing one more
\* policy never allows a person what was refused and never lifts an approval,
\* as long as one query lists them all.
PoliciesOnlyRestrict ==
    [][Len(policies) < Len(policies') /\ Len(policies') <= ObjectLimit
         /\ ~IsAgent(request) /\ Decision'.allowed
         => Decision.allowed /\ (Decision.approval => Decision'.approval)]_vars
=============================================================================
