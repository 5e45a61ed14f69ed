CONSTANTS
    Op = {o1, o2}
    Resource = {r1}
    User = {rui}
    Admin = {rui}
    Approver = {rui}
    Worker = {w1}
    Slot = {1}
    LeaseTTL = 1
    None = None

    Host = {h1}
    NoHost = none
    Address = {m1, m2}
    Res = {r1}
    Looker = {a1, a2}
    Editor = {e1}
    MaxEdits = 1
    MaxChanges = 1
    MaxLookFaults = 0
SPECIFICATION ProgressSpec
PROPERTIES RunningEnds LeaseNeverStuck InventoryConverges
CHECK_DEADLOCK FALSE
