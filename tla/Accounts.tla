------------------------------- MODULE Accounts -------------------------------
(***************************************************************************)
(* User administration: creating, updating and (logically) deleting        *)
(* accounts, synchronizing directory identities, and the API tokens of     *)
(* service accounts. updateUser reads the account, then waits for an       *)
(* advisory lock, counts the other administrators and writes; deleteUser   *)
(* and createToken read first and write later, without the lock.           *)
(***************************************************************************)
EXTENDS Naturals, FiniteSets

CONSTANTS
    User,       \* account ids
    Service,    \* the service accounts among them; the type never changes
    External,   \* accounts that belong to a directory identity
    First,      \* the administrator created from the command line
    AdminRequest,    \* administrative requests in progress at once
    Token,      \* API token ids
    MaxBegun,   \* bound: requests begun
    MaxSync,    \* bound: directory logins
    None

ASSUME AccountsAssumption ==
    /\ First \in User \ (Service \cup External)
    /\ Service \cap External = {}
    /\ MaxBegun \in Nat /\ MaxSync \in Nat

VARIABLES
    users,     \* the users table; None: no such row
    tokens,    \* the api_tokens table
    adminRequests,  \* requests in progress
    lock,      \* holder of advisory lock 8915121, or None
    begun,     \* number of requests begun
    synced,    \* number of directory logins so far
    bypassed,  \* history: an administrator was lost outside the guard
    buried     \* history: tokens that existed when their account was deleted

accountsVars == <<users, tokens, adminRequests, lock, begun, synced, bypassed, buried>>

Role == {"ADMIN", "OTHER"}
Row == [role : Role, enabled : BOOLEAN]
TokenRow == [user : User, revoked : BOOLEAN]
NoAdminRequest == [at |-> "idle"]

ASSUME NoneAssumption == None \notin AdminRequest \cup Row \cup TokenRow

AdminInProgress ==
    [at : {"read", "counted"}, user : User, seen : Role, row : Row]
        \cup [at : {"delete", "token"}, user : User]

Exists(u) == users[u] # None

\* role='ADMIN' AND enabled=true AND service=false.
Admins == {u \in User \ Service : Exists(u) /\ users[u] = [role |-> "ADMIN", enabled |-> TRUE]}

AccountsTypeOK ==
    /\ users \in [User -> Row \cup {None}]
    /\ tokens \in [Token -> TokenRow \cup {None}]
    /\ adminRequests \in [AdminRequest -> AdminInProgress \cup {NoAdminRequest}]
    /\ lock \in AdminRequest \cup {None}
    /\ begun \in 0..MaxBegun
    /\ synced \in 0..MaxSync
    /\ bypassed \in BOOLEAN
    /\ buried \subseteq Token

AccountsInit ==
    /\ users = [u \in User |-> IF u = First THEN [role |-> "ADMIN", enabled |-> TRUE] ELSE None]
    /\ tokens = [t \in Token |-> None]
    /\ adminRequests = [r \in AdminRequest |-> NoAdminRequest]
    /\ lock = None
    /\ begun = 0 /\ synced = 0
    /\ bypassed = FALSE /\ buried = {}

\* Authenticate and require(p, "user.manage"): some administrator sends it.
Begin(r) ==
    /\ adminRequests[r] = NoAdminRequest
    /\ Admins # {}
    /\ begun < MaxBegun
    /\ begun' = begun + 1

AdminGoes(r, state) == adminRequests' = [adminRequests EXCEPT ![r] = state]

\* An administrator is lost by a write that no count preceded.
Bypass(u, guarded) == bypassed' = (bypassed \/ (~guarded /\ u \in Admins /\ u \notin Admins'))

-----------------------------------------------------------------------------
\* createUser.
CreateUser(r, u, row) ==
    /\ Begin(r)
    /\ ~Exists(u) /\ u \notin External
    /\ users' = [users EXCEPT ![u] = row]
    /\ UNCHANGED <<tokens, adminRequests, lock, synced, bypassed, buried>>

\* updateUser up to the transaction: the role it will guard is read here.
ReadForUpdate(r, u, row) ==
    /\ Begin(r)
    /\ Exists(u)
    /\ AdminGoes(r, [at |-> "read", user |-> u, seen |-> users[u].role, row |-> row])
    /\ UNCHANGED <<users, tokens, lock, synced, bypassed, buried>>

LockFree_Never == TRUE

\* pg_advisory_xact_lock(8915121) is granted.
LockFree == lock = None

\* ... AND id<>$1.
Others(u) == Admins \ {u}

Demotes(row) == ~row.enabled \/ row.role # "ADMIN"

\* if u.Role == "ADMIN" && (!in.Enabled || in.Role != "ADMIN").
Guards(r) == adminRequests[r].seen = "ADMIN" /\ Demotes(adminRequests[r].row)

\* The lock, then the count; with no other administrator the request is denied.
LockAndCount(r) ==
    /\ adminRequests[r].at = "read"
    /\ LockFree
    /\ IF Guards(r) /\ Others(adminRequests[r].user) = {}
       THEN AdminGoes(r, NoAdminRequest) /\ UNCHANGED lock
       ELSE AdminGoes(r, [adminRequests[r] EXCEPT !.at = "counted"]) /\ lock' = r
    /\ UNCHANGED <<users, tokens, begun, synced, bypassed, buried>>

\* The update and the commit, which releases the lock. (The account's sessions
\* are revoked in the same transaction: module Sessions.)
CommitUpdate(r) ==
    /\ adminRequests[r].at = "counted"
    /\ users' = [users EXCEPT ![adminRequests[r].user] = adminRequests[r].row]
    /\ Bypass(adminRequests[r].user, Guards(r))
    /\ lock' = None
    /\ AdminGoes(r, NoAdminRequest)
    /\ UNCHANGED <<tokens, begun, synced, buried>>

\* deleteUser up to its transaction: "demote the administrator before deletion".
ReadForDelete(r, u) ==
    /\ Begin(r)
    /\ Exists(u) /\ users[u].role # "ADMIN"
    /\ AdminGoes(r, [at |-> "delete", user |-> u])
    /\ UNCHANGED <<users, tokens, lock, synced, bypassed, buried>>

TokensOf(u) == {t \in Token : tokens[t] # None /\ tokens[t].user = u}

WithoutTokensOf_Kept(u) == tokens

\* UPDATE api_tokens SET revoked_at=now() WHERE user_id=$1.
WithoutTokensOf(u) == [t \in Token |-> IF t \in TokensOf(u) THEN [tokens[t] EXCEPT !.revoked = TRUE]
                                       ELSE tokens[t]]

CommitDelete(r) ==
    /\ adminRequests[r].at = "delete"
    /\ LET u == adminRequests[r].user IN
         /\ users' = [users EXCEPT ![u].enabled = FALSE]
         /\ tokens' = WithoutTokensOf(u)
         /\ buried' = buried \cup TokensOf(u)
         /\ Bypass(u, FALSE)
    /\ AdminGoes(r, NoAdminRequest)
    /\ UNCHANGED <<lock, begun, synced>>

SyncedRole_Raw(old, role) == role

\* COALESCE(NULLIF($2,''),role); None: no group matched.
SyncedRole(old, role) == IF role = None THEN old ELSE role

\* SyncIdentity at a directory login: a new row, or the role the groups map to
\* written over the local one.
SyncIdentity(u, role) ==
    /\ u \in External
    /\ synced < MaxSync
    /\ synced' = synced + 1
    /\ users' = [users EXCEPT ![u] =
            IF users[u] = None THEN [role |-> SyncedRole("OTHER", role), enabled |-> TRUE]
            ELSE [users[u] EXCEPT !.role = SyncedRole(users[u].role, role)]]
    /\ Bypass(u, FALSE)
    /\ UNCHANGED <<tokens, adminRequests, lock, begun, buried>>

\* createToken: the account is checked, then the row inserted.
ReadForToken(r, u) ==
    /\ Begin(r)
    /\ u \in Service /\ Exists(u) /\ users[u].enabled
    /\ AdminGoes(r, [at |-> "token", user |-> u])
    /\ UNCHANGED <<users, tokens, lock, synced, bypassed, buried>>

InsertToken(r, t) ==
    /\ adminRequests[r].at = "token"
    /\ tokens[t] = None
    /\ tokens' = [tokens EXCEPT ![t] = [user |-> adminRequests[r].user, revoked |-> FALSE]]
    /\ AdminGoes(r, NoAdminRequest)
    /\ UNCHANGED <<users, lock, begun, synced, bypassed, buried>>

RevokeToken(r, t) ==
    /\ Begin(r)
    /\ tokens[t] # None
    /\ tokens' = [tokens EXCEPT ![t].revoked = TRUE]
    /\ UNCHANGED <<users, adminRequests, lock, synced, bypassed, buried>>

\* A statement fails, or the client goes away: the transaction rolls back.
Abort(r) ==
    /\ adminRequests[r] # NoAdminRequest
    /\ AdminGoes(r, NoAdminRequest)
    /\ lock' = IF lock = r THEN None ELSE lock
    /\ UNCHANGED <<users, tokens, begun, synced, bypassed, buried>>

AccountsNext ==
    \/ \E r \in AdminRequest :
         \/ \E u \in User, row \in Row : CreateUser(r, u, row) \/ ReadForUpdate(r, u, row)
         \/ \E u \in User : ReadForDelete(r, u) \/ ReadForToken(r, u)
         \/ \E t \in Token : InsertToken(r, t) \/ RevokeToken(r, t)
         \/ LockAndCount(r) \/ CommitUpdate(r) \/ CommitDelete(r) \/ Abort(r)
    \/ \E u \in User, role \in Role \cup {None} : SyncIdentity(u, role)

AccountsSpec == AccountsInit /\ [][AccountsNext]_accountsVars

-----------------------------------------------------------------------------
(* Properties. *)

\* Authenticate with a bearer token.
TokenUsable(t) == tokens[t] # None /\ ~tokens[t].revoked /\ users[tokens[t].user].enabled

\* Guarded demotions, however many run at once, never take the last
\* administrator: none is left only if one was lost by a write that no count
\* preceded (a role read before a promotion, a deletion decided before one, a
\* directory login).
GuardKeepsAdmin == Admins = {} => bypassed

\* A token that existed when its service account was deleted is not accepted
\* again, whatever re-enables the account later and whatever was in progress.
DeletedTokensDead == \A t \in buried : ~TokenUsable(t)

\* User administration as a whole: guarded writes keep an administrator and
\* deleted credentials stay dead.
AccountsSafe == AccountsTypeOK /\ GuardKeepsAdmin /\ DeletedTokensDead
=============================================================================
