--------------------------- MODULE MCOperationQueue ---------------------------
(* Small instances of OperationQueue for TLC. *)
EXTENDS OperationQueue, TLC

CONSTANTS ana, rui      \* an OPERATOR and an ADMIN

MCUser == {ana, rui}
MCAdmin == {rui}
MCApprover == {rui}

Symmetry == Permutations(Op) \cup Permutations(Resource) \cup Permutations(Worker)
=============================================================================
