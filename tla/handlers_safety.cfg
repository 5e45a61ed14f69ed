CONSTANTS
    Call = {a1, a2}
    Key = {k1}
    Blueprint = {r1, r2}
    Manifest = {m1}
    MaxSecret = 4
    None = None

    Host = {h1}
    NoHost = none
    Address = {m1, m2}
    Res = {r1, r2}
    Looker = {a1, a2}
    Editor = {e1}
    MaxEdits = 1
    MaxChanges = 1
    MaxLookFaults = 1

    Session = {a1, a2}
    Conversation = {v1}
    ChatSteps = 2
    DebugSteps = 1
    ExecBudget = 1
    Keep = 2
    Slots = 1
    MaxMessages = 2
    MaxCuts = 1
    MaxDeaths = 1
    MaxAuditFaults = 1

    Writer = {a1, a2}
    Relayer = {a1, a2}
    MaxEvent = 3
    Batch = 2
    Page = 2
    MaxRelayFaults = 1

    Process = {"p1", "p2"}
    PoolRequest = {"r1", "r2", "r3"}
    Ticker = {"t1", "t2"}
    Home <- TwoHomes
    BatchKey = {"a", "b"}
    LeaderLock <- OneLeader
    Size = 2
    MaxStatements = 2
    Nobody = Nobody
SPECIFICATION HandlersSpec
SYMMETRY Symmetry
INVARIANTS ProvisioningSafe ContainersSafe OutboxSafe PoolSafe
PROPERTY InventorySafe
CHECK_DEADLOCK FALSE
