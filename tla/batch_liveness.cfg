CONSTANTS
    Request <- MCRequest
    Call = {c1, c2}
    Claimer = {w1}
    Leasable = {0}
    None = None
SPECIFICATION FairSpec
PROPERTIES StoppedBatchDrains ReadyBatchEnds
CHECK_DEADLOCK FALSE
