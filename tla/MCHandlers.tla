----------------------------- MODULE MCHandlers -----------------------------
(***************************************************************************)
(* What HTTP handlers and their background work do beside the queue:       *)
(* provisioning, the host inventory, chat, debug and console sessions, the *)
(* event outbox, and the connection pool under them all. The five share no *)
(* variable, so a behaviour moves one of them and the others stay where    *)
(* they begin: the states are the sum, not the product.                    *)
(***************************************************************************)
EXTENDS Provisioning, HostInventory, ContainerSessions, EventOutbox, ConnectionPool, TLC

VARIABLE moving

\* The last request and the second ticker belong to a second process.
TwoHomes == [c \in Caller |-> IF c \in {"r3", "t2"} THEN "p2" ELSE "p1"]
OneLeader == [t \in Ticker |-> "leader"]

\* The machines are empty at first and nothing tells them apart, so the only host
\* names any one of them.
HandlersInit ==
    /\ moving \in {"provisioning", "inventory", "containers", "outbox", "pool"}
    /\ ProvisioningInit /\ InventoryInit /\ ContainersInit /\ OutboxInit /\ PoolInit
    /\ \A h \in Host : doc[h].id.address = CHOOSE a \in Address : TRUE
    /\ \A a \in Address : machine[a] = {} /\ runtime[a]

HandlersNext ==
    /\ UNCHANGED moving
    /\ \/ /\ moving = "provisioning" /\ ProvisioningNext
          /\ UNCHANGED <<inventoryVars, containersVars, outboxVars, poolVars>>
       \/ /\ moving = "inventory" /\ InventoryNext
          /\ UNCHANGED <<provisioningVars, containersVars, outboxVars, poolVars>>
       \/ /\ moving = "containers" /\ ContainersNext
          /\ UNCHANGED <<provisioningVars, inventoryVars, outboxVars, poolVars>>
       \/ /\ moving = "outbox" /\ OutboxNext
          /\ UNCHANGED <<provisioningVars, inventoryVars, containersVars, poolVars>>
       \/ /\ moving = "pool" /\ PoolNext
          /\ UNCHANGED <<provisioningVars, inventoryVars, containersVars, outboxVars>>

\* The part that moves is as fair as its own specification says; of the
\* pool only safety is asked here, and MCProgress asks more of the inventory.
HandlersFairness ==
    \/ <>[](moving = "provisioning") /\ ProvisioningFairness
    \/ <>[](moving = "containers") /\ ContainersFairness
    \/ <>[](moving = "outbox") /\ OutboxFairness
    \/ <>[](moving \in {"inventory", "pool"})

HandlersSpec ==
    /\ HandlersInit
    /\ [][HandlersNext]_<<moving, provisioningVars, inventoryVars, containersVars, outboxVars, poolVars>>
    /\ HandlersFairness

\* Requests, discoveries, sessions, writers and relays are interchangeable, and
\* so are specifications, external ids and machines.
Symmetry == Permutations(Call) \cup Permutations(Res) \cup Permutations(Address)

-----------------------------------------------------------------------------
Elsewhere(part) == []<>(moving # part)

\* What was begun is completed, though requests die, relays fail and clients go
\* away. deploy and Collector.Tick: after its operation has ended a deployment
\* shows the final state again and again. Chat, Debug and the console: every session
\* ends, with all slots taken and a model that never stops. Relay: every committed
\* event is published and marked.
HandlersComplete ==
    /\ Elsewhere("provisioning") \/ StatusFollows
    /\ Elsewhere("containers") \/ SessionsEnd
    /\ Elsewhere("outbox") \/ EventuallyPublished
=============================================================================
