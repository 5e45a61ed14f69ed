CONSTANTS
    Process = {p1, p2}
    Cron = {cron}
    Once = {once}
    Matches = {1}
    Instant = 1
    Owner = {alice}
    MaxTime = 2
    MaxSchedulerFaults = 1
    MaxScheduleEdits = 1
    None = None

    Provider = {n1}
    Dispatcher = {p1, p2}
    Admin = {}
    MaxInstant = 3
    MaxAttempts = 2
    SendLimit = 1
    MaxProviderEdits = 0
    MaxDispatcherFaults = 1

    Host = {}
    Resource = {r1}
    HostDoc <- HostDocs
    ResourceDoc <- ResourceDocs
    Collector = {p1, p2}
    ObjectLimit = 2
    MaxInventoryChanges = 2
    MaxCollectorFaults = 1

    Monitor = {m1}
    Watched = {1, 2}
    Covered = {}
    Worker = {p1, p2}
    MaxActions = 1
    MaxCalls = 2
    MaxRecs = 0
    MaxMonitorEdits = 0
    MaxHealthChanges = 1
    MaxMonitorFaults = 1
SPECIFICATION LeadersSpec
PROPERTY LoopsServe
CHECK_DEADLOCK FALSE
