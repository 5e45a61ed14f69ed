----------------------------- MODULE MCIdentity -----------------------------
(***************************************************************************)
(* The three parts of identity in one run: sessions of an account, the     *)
(* accounts and their tokens, and what holds back guessing. They share no  *)
(* variable, so a behaviour moves one of them and the others stay where    *)
(* they begin: the states are the sum, not the product.                    *)
(***************************************************************************)
EXTENDS Sessions, Accounts, LoginThrottle, TLC

VARIABLE moving

IdentityInit ==
    /\ moving \in {"sessions", "accounts", "throttle"}
    /\ SessionsInit /\ AccountsInit /\ ThrottleInit

IdentityNext ==
    /\ UNCHANGED moving
    /\ \/ moving = "sessions" /\ SessionsNext /\ UNCHANGED <<accountsVars, throttleVars>>
       \/ moving = "accounts" /\ AccountsNext /\ UNCHANGED <<sessionsVars, throttleVars>>
       \/ moving = "throttle" /\ ThrottleNext /\ UNCHANGED <<sessionsVars, accountsVars>>

IdentitySpec ==
    IdentityInit /\ [][IdentityNext]_<<moving, sessionsVars, accountsVars, throttleVars>>

\* Requests serve all three parts; they and the session ids are interchangeable.
Symmetry == Permutations(Request) \cup Permutations(Session)
=============================================================================
