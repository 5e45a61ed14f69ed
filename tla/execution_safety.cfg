CONSTANTS
    direct = direct
    jumped = jumped
    b1 = b1
    b2 = b2
    Conn <- TwoConn
    ViaBastion <- OneViaBastion
    Jump <- TwoJump
    MaxChanges = 4
    NoConn = NoConn

    Request <- SixRequests
    Call = {c1, c2}
    Claimer = {w1, w2}
    Leasable = {0}
    None = None
SPECIFICATION ExecutionSpec
SYMMETRY Symmetry
INVARIANTS
    EffectAuthorized CopiesSafe RejectionHasCause
    CreationSafe GroupOrder FailureBudget StartedConcluded
CHECK_DEADLOCK FALSE
