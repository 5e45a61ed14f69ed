---------------------------- MODULE HostInventory ----------------------------
(***************************************************************************)
(* Hosts and what is known of them. Administrators save and disable host   *)
(* documents; the collector, the discover request and the refresh after an *)
(* operation look at the machine a document named when they read it, and   *)
(* write what they saw later: the resources one provider found, then the   *)
(* collector's own fields of the document.                                 *)
(***************************************************************************)
EXTENDS Naturals, FiniteSets

CONSTANTS
    Host,        \* host ids
    NoHost,      \* the empty bastion_id
    Address,     \* hostname and fingerprint: the machine they name
    Res,         \* external ids of resources
    Looker,      \* discoveries and refreshes that may run at once
    Editor,      \* requests to saveHost and deleteHost at once
    MaxEdits,    \* bound: requests of administrators
    MaxChanges,  \* bound: changes of the machines and of their runtimes
    MaxLookFaults    \* bound: failed connections, adapters and statements

ASSUME InventoryAssumption ==
    /\ NoHost \notin Host \cup Address
    /\ {MaxEdits, MaxChanges, MaxLookFaults} \subseteq Nat

VARIABLES
    machine,   \* the resources each machine really has
    runtime,   \* whether the runtime that holds them answers Detect there
    doc,       \* the hosts table
    rows,      \* the resources table: host, external id
    picture,   \* history: the picture last committed for a host
    lock,      \* hosts whose inventory is being written, and by whom
    look,      \* each discovery
    request,   \* each administrator's request
    edits, changes, lookFaults

inventoryVars == <<machine, runtime, doc, rows, picture, lock, look, request, edits, changes, lookFaults>>

Secret == 0..MaxEdits
Identity == [address : Address, secret : Secret]
NoFacts == [address |-> NoHost, secret |-> 0]
Doc == [id : Identity, enabled : BOOLEAN, bastion : Host \cup {NoHost},
        state : {"unknown", "online", "degraded", "offline", "disabled"},
        facts : Identity \cup {NoFacts}]

NoLook == [at |-> "idle"]
NoEdit == [at |-> "idle"]

InventoryTypeOK ==
    /\ machine \in [Address -> SUBSET Res]
    /\ runtime \in [Address -> BOOLEAN]
    /\ doc \in [Host -> Doc]
    /\ rows \in [Host -> [Res -> {"absent", "present", "missing"}]]
    /\ picture \in [Host -> SUBSET Res]
    /\ lock \in [Host -> SUBSET Looker]
    /\ \A l \in Looker : look[l] # NoLook =>
         /\ look[l].at \in {"connect", "look", "lock", "mark", "commit", "observe"}
         /\ look[l].host \in Host /\ look[l].doc \in Doc
         /\ look[l].found \subseteq Res /\ look[l].gone \subseteq Res
         /\ look[l].full \in BOOLEAN
         /\ look[l].state \in {"online", "degraded", "offline"}
    /\ \A e \in Editor : request[e] # NoEdit =>
         /\ request[e].at \in {"bastion", "save"}
         /\ request[e].host \in Host /\ request[e].doc \in Doc
    /\ edits \in 0..MaxEdits /\ changes \in 0..MaxChanges /\ lookFaults \in 0..MaxLookFaults

\* Hosts as saveHost left them, before anybody looked: anything may be on the machines.
InventoryInit ==
    /\ machine \in [Address -> SUBSET Res]
    /\ runtime \in [Address -> BOOLEAN]
    /\ doc \in [Host -> {[id |-> [address |-> a, secret |-> 0], enabled |-> TRUE, bastion |-> NoHost,
                          state |-> "unknown", facts |-> NoFacts] : a \in Address}]
    /\ rows = [h \in Host |-> [r \in Res |-> "absent"]]
    /\ picture = [h \in Host |-> {}]
    /\ lock = [h \in Host |-> {}]
    /\ look = [l \in Looker |-> NoLook]
    /\ request = [e \in Editor |-> NoEdit]
    /\ edits = 0 /\ changes = 0 /\ lookFaults = 0

LookFault == lookFaults < MaxLookFaults /\ lookFaults' = lookFaults + 1

\* A container appears or is removed on a machine.
Change(a, r) ==
    /\ changes < MaxChanges
    /\ changes' = changes + 1
    /\ machine' = [machine EXCEPT ![a] = IF r \in @ THEN @ \ {r} ELSE @ \cup {r}]
    /\ UNCHANGED <<runtime, doc, rows, picture, lock, look, request, edits, lookFaults>>

\* The runtime is stopped, closed to the SSH account or removed; or comes back.
RuntimeChanges(a) ==
    /\ changes < MaxChanges
    /\ changes' = changes + 1
    /\ runtime' = [runtime EXCEPT ![a] = ~@]
    /\ UNCHANGED <<machine, doc, rows, picture, lock, look, request, edits, lookFaults>>

-----------------------------------------------------------------------------
(* saveHost and deleteHost. *)

\* saveHost of an existing host reads the old document for its secret id only:
\* everything else comes from the form, and what was observed is discarded.
ReadForSave(e, h) ==
    /\ request[e] = NoEdit /\ edits < MaxEdits
    /\ edits' = edits + 1
    /\ \E a \in Address, b \in Host \cup {NoHost}, on \in BOOLEAN, secret \in {doc[h].id.secret, edits'} :
         request' = [request EXCEPT ![e] =
            [at |-> "bastion", host |-> h,
             doc |-> [id |-> [address |-> a, secret |-> secret], enabled |-> on, bastion |-> b,
                      state |-> "unknown", facts |-> NoFacts]]]
    /\ UNCHANGED <<machine, runtime, doc, rows, picture, lock, look, changes, lookFaults>>

\* An enabled host other than h that has no bastion itself.
BastionUsable(h, b) == b # h /\ doc[b].enabled /\ doc[b].bastion = NoHost

CheckBastion(e) ==
    /\ request[e].at = "bastion"
    /\ LET b == request[e].doc.bastion IN
         request' = [request EXCEPT ![e] =
            IF b = NoHost \/ BastionUsable(request[e].host, b) THEN [@ EXCEPT !.at = "save"] ELSE NoEdit]
    /\ UNCHANGED <<machine, runtime, doc, rows, picture, lock, look, edits, changes, lookFaults>>

\* deleteHost disables; it writes back the whole document it read.
ReadForDelete(e, h) ==
    /\ request[e] = NoEdit /\ edits < MaxEdits
    /\ edits' = edits + 1
    /\ request' = [request EXCEPT ![e] =
         [at |-> "save", host |-> h, doc |-> [doc[h] EXCEPT !.enabled = FALSE, !.state = "disabled"]]]
    /\ UNCHANGED <<machine, runtime, doc, rows, picture, lock, look, changes, lookFaults>>

SaveHost(e) ==
    /\ request[e].at = "save"
    /\ doc' = [doc EXCEPT ![request[e].host] = request[e].doc]
    /\ request' = [request EXCEPT ![e] = NoEdit]
    /\ UNCHANGED <<machine, runtime, rows, picture, lock, look, edits, changes, lookFaults>>

-----------------------------------------------------------------------------
(* Discover, and the refresh of one provider after an operation. *)

\* With the document as read now. full: Discover, which ends in ObserveHost.
StartLook(l, h, full) ==
    /\ look[l] = NoLook
    /\ look' = [look EXCEPT ![l] =
         [at |-> "connect", host |-> h, doc |-> doc[h], found |-> {}, gone |-> {},
          full |-> full, state |-> "online"]]
    /\ UNCHANGED <<machine, runtime, doc, rows, picture, lock, request, edits, changes, lookFaults>>

\* The collector visits the enabled hosts; discoverHost is asked for any host; the
\* worker refreshes one provider after an operation and only writes resources.
Collect(l, h) == doc[h].enabled /\ StartLook(l, h, TRUE)
DiscoverHost(l, h) == StartLook(l, h, TRUE)
Refresh(l, h) == StartLook(l, h, FALSE)

LookEnds(l) == look' = [look EXCEPT ![l] = NoLook]
LookGoes(l, at) == look' = [look EXCEPT ![l].at = at]

\* connect: the bastion is read anew, and must be usable then.
Reachable(d, h) == d.enabled /\ (d.bastion # NoHost => BastionUsable(h, d.bastion))

ConnectHost(l) ==
    /\ look[l].at = "connect"
    /\ \/ /\ Reachable(look[l].doc, look[l].host)
          /\ LookGoes(l, "look") /\ UNCHANGED lookFaults
       \/ /\ \/ ~Reachable(look[l].doc, look[l].host) /\ UNCHANGED lookFaults
             \/ LookFault
          /\ IF look[l].full
             THEN look' = [look EXCEPT ![l].at = "observe", ![l].state = "offline"]
             ELSE LookEnds(l)
    /\ UNCHANGED <<machine, runtime, doc, rows, picture, lock, request, edits, changes>>

Answers(l) == runtime[look[l].doc.id.address]
Refuses(l) == (~Answers(l) /\ UNCHANGED lookFaults) \/ LookFault

\* Detected, the runtime lists its resources. A runtime whose Detect says no or
\* fails is skipped: no row is written, and the host counts as online. A listing
\* that fails leaves the rows alone too and degrades the host. A refresh lists
\* without detecting.
Look(l) ==
    /\ look[l].at = "look"
    /\ \/ /\ Answers(l) /\ UNCHANGED lookFaults
          /\ look' = [look EXCEPT ![l].at = "lock", ![l].found = machine[look[l].doc.id.address]]
       \/ /\ look[l].full
          /\ Refuses(l)
          /\ LookGoes(l, "observe")
       \/ /\ look[l].full
          /\ LookFault
          /\ look' = [look EXCEPT ![l].at = "observe", ![l].state = "degraded"]
       \/ /\ ~look[l].full
          /\ Refuses(l)
          /\ LookEnds(l)
    /\ UNCHANGED <<machine, runtime, doc, rows, picture, lock, request, edits, changes>>

LockFree_Never(h) == TRUE

\* pg_advisory_xact_lock for the host and the provider.
LockFree(h) == lock[h] = {}

\* UpsertResources, first the lock and the rows of the picture,
Lock(l) ==
    /\ look[l].at = "lock"
    /\ LockFree(look[l].host)
    /\ lock' = [lock EXCEPT ![look[l].host] = @ \cup {l}]
    /\ LookGoes(l, "mark")
    /\ UNCHANGED <<machine, runtime, doc, rows, picture, request, edits, changes, lookFaults>>

Gone_None(l) == {}

\* UPDATE ... WHERE host_id=$1 AND provider=$2 AND NOT(id=ANY($3)).
Gone(l) == {r \in Res : rows[look[l].host][r] # "absent"} \ look[l].found

\* then the rows that were not found, as this transaction sees them,
Mark(l) ==
    /\ look[l].at = "mark"
    /\ look' = [look EXCEPT ![l].at = "commit", ![l].gone = Gone(l)]
    /\ UNCHANGED <<machine, runtime, doc, rows, picture, lock, request, edits, changes, lookFaults>>

\* then the commit, which also frees the lock.
CommitResources(l) ==
    /\ look[l].at = "commit"
    /\ LET h == look[l].host IN
         /\ rows' = [rows EXCEPT ![h] = [r \in Res |->
              IF r \in look[l].found THEN "present" ELSE IF r \in look[l].gone THEN "missing" ELSE @[r]]]
         /\ picture' = [picture EXCEPT ![h] = look[l].found]
         /\ lock' = [lock EXCEPT ![h] = @ \ {l}]
    /\ IF look[l].full
       THEN look' = [look EXCEPT ![l].at = "observe", ![l].found = {}, ![l].gone = {}]
       ELSE LookEnds(l)
    /\ UNCHANGED <<machine, runtime, doc, request, edits, changes, lookFaults>>

\* A failed transaction is rolled back and ends the discovery unobserved; the
\* observation can fail as well.
UpsertFails(l) ==
    /\ look[l].at \in {"lock", "mark", "commit", "observe"}
    /\ LookFault
    /\ lock' = [lock EXCEPT ![look[l].host] = @ \ {l}]
    /\ LookEnds(l)
    /\ UNCHANGED <<machine, runtime, doc, rows, picture, request, edits, changes>>

SameIdentity_Host(l) == TRUE

\* WHERE secret_id=$3 AND document->>'hostname'=$4 AND document->>'fingerprint'=$5.
SameIdentity(l) == doc[look[l].host].id = look[l].doc.id

Seen(l) ==
    [state |-> look[l].state,
     facts |-> IF look[l].state = "offline" THEN look[l].doc.facts ELSE look[l].doc.id]

Observed_Whole(l, d) == [look[l].doc EXCEPT !.state = Seen(l).state, !.facts = Seen(l).facts]
Observed_Reached(l, d) == [d EXCEPT !.state = "reached", !.facts = Seen(l).facts]

\* document||{facts, state, last_seen}.
Observed(l, d) == [d EXCEPT !.state = Seen(l).state, !.facts = Seen(l).facts]

ObserveHost(l) ==
    /\ look[l].at = "observe"
    /\ doc' = IF SameIdentity(l) THEN [doc EXCEPT ![look[l].host] = Observed(l, @)] ELSE doc
    /\ LookEnds(l)
    /\ UNCHANGED <<machine, runtime, rows, picture, lock, request, edits, changes, lookFaults>>

-----------------------------------------------------------------------------
LookStep(l) == ConnectHost(l) \/ Look(l) \/ Lock(l) \/ Mark(l) \/ CommitResources(l) \/ ObserveHost(l)
Edit(e) ==
    \/ \E h \in Host : ReadForSave(e, h) \/ ReadForDelete(e, h)
    \/ CheckBastion(e) \/ SaveHost(e)
InventoryNext ==
    \/ \E a \in Address : RuntimeChanges(a) \/ \E r \in Res : Change(a, r)
    \/ \E e \in Editor : Edit(e)
    \/ \E l \in Looker, h \in Host : Collect(l, h) \/ DiscoverHost(l, h) \/ Refresh(l, h)
    \/ \E l \in Looker : LookStep(l) \/ UpsertFails(l)

\* The collector comes back to every host, its discoveries have a deadline,
\* and a request that was read is saved.
InventoryFairness ==
    /\ \A h \in Host : SF_inventoryVars(\E l \in Looker : Collect(l, h))
    /\ \A l \in Looker : WF_inventoryVars(LookStep(l))
    /\ \A e \in Editor : WF_inventoryVars(CheckBastion(e) \/ SaveHost(e))

InventorySpec == InventoryInit /\ [][InventoryNext]_inventoryVars /\ InventoryFairness

-----------------------------------------------------------------------------
(* Properties. *)

Present(h) == {r \in Res : rows[h][r] = "present"}

\* "Serialize inventories for a provider so a slower concurrent refresh cannot
\* interleave writes": what is listed for a host is exactly one picture of it,
\* never resources two refreshes found at different times.
OnePicture == \A h \in Host : Present(h) = picture[h]

\* Facts shown for a host were observed on the machine its document names, also
\* when the document was pointed elsewhere while the discovery was under way.
FactsOfIdentity == \A h \in Host : doc[h].facts \in {NoFacts, doc[h].id}

AdminFields(d) == <<d.id, d.enabled, d.bastion>>

\* ObserveHost "updates collector-owned fields without overwriting an
\* administrator's concurrent credential, fingerprint, environment or enabled
\* changes": these change only when an administrator's request is saved.
AdminFieldsKept == [][\A h \in Host :
    AdminFields(doc'[h]) # AdminFields(doc[h]) =>
        \E e \in Editor : request[e].at = "save" /\ request[e].host = h /\ request'[e] = NoEdit]_inventoryVars

\* Once machines and documents stop changing, the inventory of every host that
\* can be reached and whose runtime is detected shows what is on its machine, and
\* keeps showing it: an older picture written last and a picture of the machine
\* the document named before are made good. Where Detect fails, Discover goes on
\* without a word, and the rows of the last picture stay listed.
InventoryConverges == \A h \in Host :
    LET a == doc[h].id.address IN
    <>[](Reachable(doc[h], h) /\ runtime[a] => Present(h) = machine[a])

\* A host's row and resources as a whole: one picture, of the machine it names,
\* and the administrator's fields untouched by observations.
InventorySafe == [](InventoryTypeOK /\ OnePicture /\ FactsOfIdentity) /\ AdminFieldsKept
=============================================================================
