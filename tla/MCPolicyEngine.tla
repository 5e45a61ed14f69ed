---------------------------- MODULE MCPolicyEngine ----------------------------
(* Principals, requests and rules for PolicyEngine: one of each kind that   *)
(* takes another path through Evaluate.                                     *)
EXTENDS PolicyEngine

Person(id, role, environments) ==
    [id |-> id, role |-> role, enabled |-> TRUE, environments |-> environments, force |-> FALSE,
     mfaRequired |-> FALSE, mfa |-> FALSE, token |-> FALSE, scopes |-> {}]

operator == Person("ana", "OPERATOR", {"staging", "production"})

MCPrincipals ==
    {operator,
     Person("eva", "OPERATOR", {"staging"}),
     Person("rui", "VIEWER", {"*"}),
     [Person("root", "ADMIN", {}) EXCEPT !.mfaRequired = TRUE, !.mfa = TRUE],
     [operator EXCEPT !.mfaRequired = TRUE],
     [operator EXCEPT !.force = TRUE],
     [operator EXCEPT !.token = TRUE, !.scopes = {<<"container", "restart">>}]}

MCRequests ==
    {[principal |-> p, provider |-> "docker", action |-> a, environment |-> e, host |-> "h1",
      hostEnabled |-> TRUE, groups |-> {"web"}, resource |-> "r1", mode |-> m] :
        p \in MCPrincipals, a \in {"restart", "stop", "logs"}, e \in {"staging", "production"},
        m \in {"", "ADVISORY", "ASSISTED", "AUTOMATED_POLICY_CONTROLLED"}}

NoMatch == [f \in {} |-> ""]
Rule(match) ==
    [match |-> match, deny |-> FALSE, approval |-> FALSE, mfa |-> FALSE, allowAgent |-> FALSE,
     window |-> None]

MCRulePool ==
    {[Rule([risk |-> "high"]) EXCEPT !.deny = TRUE],
     [Rule([group |-> "web", action |-> "*"]) EXCEPT !.approval = TRUE],
     [Rule([role |-> "OPERATOR", environment |-> "production"]) EXCEPT !.mfa = TRUE],
     [Rule([environment |-> "staging", action |-> "restart"]) EXCEPT !.allowAgent = TRUE],
     [Rule(NoMatch) EXCEPT !.window = [days |-> {6}, start |-> 2, end |-> 1]],
     [Rule([user_id |-> "ana"]) EXCEPT !.window = [days |-> {0, 3}, start |-> 0, end |-> 2],
                                       !.allowAgent = TRUE]}
=============================================================================
