CONSTANTS
    Call = {a1, a2}
    Key = {k1}
    Blueprint = {r1}
    Manifest = {m1}
    MaxSecret = 3
    None = None

    Host = {h1}
    NoHost = none
    Address = {m1}
    Res = {r1}
    Looker = {a1, a2}
    Editor = {e1}
    MaxEdits = 0
    MaxChanges = 1
    MaxLookFaults = 1

    Session = {a1, a2}
    Conversation = {v1}
    ChatSteps = 2
    DebugSteps = 1
    ExecBudget = 1
    Keep = 2
    Slots = 1
    MaxMessages = 1
    MaxCuts = 1
    MaxDeaths = 0
    MaxAuditFaults = 0

    Writer = {a1, a2}
    Relayer = {a1, a2}
    MaxEvent = 3
    Batch = 2
    Page = 1
    MaxRelayFaults = 1

    Process = {"p1"}
    PoolRequest = {"r1"}
    Ticker = {"t1"}
    Home <- TwoHomes
    BatchKey = {"a"}
    LeaderLock <- OneLeader
    Size = 2
    MaxStatements = 1
    Nobody = Nobody
SPECIFICATION HandlersSpec
INVARIANT EveryCommandAudited
CHECK_DEADLOCK FALSE
