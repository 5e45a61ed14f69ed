SPECIFICATION Spec
CONSTANTS
    Op = {o1, o2}
    Resource = {r1}
    ana = ana
    rui = rui
    User <- MCUser
    Admin <- MCAdmin
    Approver <- MCApprover
    Worker = {w1, w2}
    Slot = {1}
    LeaseTTL = 1
    None = None
PROPERTY OrphanKeepsLock
