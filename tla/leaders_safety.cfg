CONSTANTS
    Process = {p1, p2}
    Cron = {cron}
    Once = {once}
    Matches = {1}
    Instant = 1
    Owner = {alice, bob}
    MaxTime = 2
    MaxSchedulerFaults = 2
    MaxScheduleEdits = 1
    None = None

    Provider = {n1, n2}
    Dispatcher = {p1, p2}
    Admin = {a1}
    MaxInstant = 3
    MaxAttempts = 2
    SendLimit = 2
    MaxProviderEdits = 1
    MaxDispatcherFaults = 1

    Host = {h1}
    Resource = {}
    HostDoc <- HostDocs
    ResourceDoc <- ResourceDocs
    Collector = {p1, p2}
    ObjectLimit = 3
    MaxInventoryChanges = 2
    MaxCollectorFaults = 1

    Monitor = {m1}
    Watched = {1}
    Covered = {1}
    Worker = {p1, p2}
    MaxActions = 1
    MaxCalls = 1
    MaxRecs = 3
    MaxMonitorEdits = 1
    MaxHealthChanges = 0
    MaxMonitorFaults = 1
SPECIFICATION LeadersSpec
SYMMETRY Symmetry
INVARIANTS SchedulerSafe AlertsSafe MonitorSafe
PROPERTY NotificationsSafe
CHECK_DEADLOCK FALSE
