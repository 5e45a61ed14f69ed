--------------------------------- MODULE Rbac ---------------------------------
(***************************************************************************)
(* internal/rbac: what a role may do, and whether a principal holds a      *)
(* permission in an environment. A permission is a pair <<area, verb>>,    *)
(* the two halves of the code's "area.verb".                               *)
(*                                                                         *)
(* A principal is a record [id, role, enabled, environments, force,        *)
(* mfaRequired, mfa, token, scopes]; token is FALSE for a session, and     *)
(* environments may hold "*".                                              *)
(***************************************************************************)

Role == {"ADMIN", "OPERATOR", "VIEWER", "AUDITOR", "APPROVER"}

Areas(area, verbs) == {<<area, v>> : v \in verbs}

\* var read.
ReadPermissions ==
    {<<"host", "read">>, <<"resource", "read">>, <<"container", "read">>,
     <<"container", "logs">>, <<"service", "read">>, <<"service", "logs">>,
     <<"kubernetes", "read">>, <<"nomad", "read">>, <<"deployment", "read">>,
     <<"operation", "read">>, <<"alert", "read">>, <<"incident", "read">>,
     <<"llm", "use">>}

OperatorPermissions ==
    ReadPermissions
    \cup Areas("container", {"create", "start", "stop", "restart", "pause", "unpause",
                             "recreate", "up", "down", "exec"})
    \cup Areas("service", {"start", "stop", "restart", "reload"})
    \cup Areas("kubernetes", {"scale", "restart", "delete", "rollback", "deploy"})
    \cup Areas("nomad", {"run", "stop", "restart"})
    \cup Areas("swarm", {"scale", "restart"})
    \cup Areas("deployment", {"execute", "rollback"})
    \cup {<<"schedule", "manage">>, <<"incident", "manage">>}

\* Permissions(role); ADMIN holds the wildcard, an unknown role nothing.
HoldsPermission(role, permission) ==
    \/ role = "ADMIN"
    \/ role = "OPERATOR" /\ permission \in OperatorPermissions
    \/ role = "APPROVER" /\ permission \in ReadPermissions
                                \cup {<<"operation", "approve">>, <<"audit", "read">>}
    \/ role = "AUDITOR" /\ permission \in ReadPermissions \cup {<<"audit", "read">>}
    \/ role = "VIEWER" /\ permission \in ReadPermissions

\* A token holds no wildcard: its scopes narrow the permissions of its user.
InScope(p, permission) ==
    HoldsPermission(p.role, permission) /\ (p.token => permission \in p.scopes)

\* Allowed: enabled, in the environment's scope, permitted, and in the token's scopes.
RbacAllowed(p, permission, environment) ==
    /\ p.enabled
    /\ \/ p.role = "ADMIN"
       \/ environment = ""
       \/ p.environments \cap {"*", environment} # {}
    /\ InScope(p, permission)

ProviderArea(provider) ==
    IF provider \in {"docker", "dockercompose", "podman", "podmancompose", "provisioning"}
    THEN "container"
    ELSE IF provider \in {"kubernetes", "kubernetes-api"} THEN "kubernetes"
    ELSE IF provider \in {"nomad", "swarm"} THEN provider
    ELSE "service"

\* Permission(provider, action): the read actions share one permission, and
\* logs have their own where the area has one.
Permission(provider, action) ==
    LET area == ProviderArea(provider) IN
    CASE action = "logs" /\ area \in {"kubernetes", "nomad", "swarm"} -> <<"resource", "read">>
      [] action \in {"rollout_status", "rollout_history", "inspect", "stats",
                     "describe", "events", "status"} -> <<"resource", "read">>
      [] OTHER -> <<area, action>>
=============================================================================
