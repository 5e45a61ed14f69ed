------------------------------ MODULE MCProgress ------------------------------
(***************************************************************************)
(* Two things that must come to rest: operations with their leases, and    *)
(* the difference between a machine and its inventory. They share no       *)
(* variable, so a behaviour moves one of them and the other stays where it *)
(* begins: the states are the sum, not the product.                        *)
(***************************************************************************)
EXTENDS OperationQueue, HostInventory

VARIABLE moving

OneMachine == CHOOSE a \in Address : TRUE

\* The only host names the machine whose runtime answers. When it is the inventory
\* that moves, that machine has all the resources and the others have none yet.
ProgressInit ==
    /\ moving \in {"queue", "inventory"}
    /\ Init /\ InventoryInit
    /\ \A h \in Host : doc[h].id.address = OneMachine
    /\ \A a \in Address :
         /\ machine[a] = IF moving = "inventory" /\ a = OneMachine THEN Res ELSE {}
         /\ runtime[a] = (a = OneMachine)

ProgressNext ==
    /\ UNCHANGED moving
    /\ \/ moving = "queue" /\ Next /\ UNCHANGED inventoryVars
       \/ moving = "inventory" /\ InventoryNext /\ UNCHANGED vars

\* The part that moves is as fair as its own specification says. The part that
\* does not is at its beginning, where nothing is running, leased or on a machine,
\* so that it satisfies what is asked of it.
ProgressFairness ==
    \/ <>[](moving = "queue") /\ Fairness
    \/ <>[](moving = "inventory") /\ InventoryFairness

ProgressSpec ==
    /\ ProgressInit
    /\ [][ProgressNext]_<<moving, vars, inventoryVars>>
    /\ ProgressFairness
=============================================================================
