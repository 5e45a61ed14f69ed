----------------------------- MODULE MCExecution -----------------------------
(***************************************************************************)
(* What stands between a queued operation and its command beside the queue *)
(* itself: the second authorization, and the batch an operation belongs    *)
(* to. The two share no variable, so a behaviour moves one of them and the *)
(* other stays where it begins: the states are the sum, not the product.   *)
(***************************************************************************)
EXTENDS ExecutionRecheck, RollingBatch, TLC

VARIABLE moving

\* Two identities for the host, one of them behind a bastion that itself has two.
CONSTANTS direct, jumped, b1, b2
TwoConn == {direct, jumped}
OneViaBastion == {jumped}
TwoJump == {b1, b2}

\* Three resources in groups of two or one by one, and a colliding request for two of them.
SixRequests ==
    {[n |-> 3, size |-> 2, threshold |-> t, cont |-> c] : t \in 0..1, c \in BOOLEAN}
        \cup {[n |-> 3, size |-> 1, threshold |-> 1, cont |-> TRUE],
              [n |-> 2, size |-> 1, threshold |-> 0, cont |-> FALSE]}

\* A re-check that does not move has one beginning.
ExecutionInit ==
    /\ moving \in {"recheck", "batch"}
    /\ RecheckInit /\ Init
    /\ moving # "recheck" => policy = "allow" /\ host = direct /\ bastion = b1

ExecutionNext ==
    /\ UNCHANGED moving
    /\ \/ moving = "recheck" /\ RecheckNext /\ UNCHANGED vars
       \/ moving = "batch" /\ Next /\ UNCHANGED recheckVars

ExecutionSpec == ExecutionInit /\ [][ExecutionNext]_<<moving, recheckVars, vars>>

\* Requests with the key and claimers are interchangeable.
Symmetry == Permutations(Call) \cup Permutations(Claimer)
=============================================================================
