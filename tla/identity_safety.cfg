CONSTANTS
    Request = {r1, r2}
    Session = {s1, s2}
    TTL = 2
    Life = 2
    MaxClock = 3
    MaxSecret = 1
    MaxChanges = 2

    User = {root, bob, svc, ext}
    Service = {svc}
    External = {ext}
    First = root
    AdminRequest = {r1, r2}
    Token = {t1}
    MaxBegun = 4
    MaxSync = 2
    None = None

    LoginRequest = {r1, r2}
    Attempts = 2
    Window = 2
    MaxExp = 2
    MaxFailed = 3
    MaxLock = 3
    MaxMoment = 6
SPECIFICATION IdentitySpec
SYMMETRY Symmetry
INVARIANTS SessionsSafe AccountsSafe
PROPERTY ThrottleSafe
CHECK_DEADLOCK FALSE
