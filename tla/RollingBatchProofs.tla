-------------------------- MODULE RollingBatchProofs --------------------------
(***************************************************************************)
(* Proofs about RollingBatch for any requests Batch accepts, any number of *)
(* calls with the same key and any number of claimers.                     *)
(*                                                                         *)
(* CreationInv: the advisory lock lets one call into the creation, that    *)
(* call's request is the stored one, and what it has submitted exists.     *)
(* ProgressInv: Claim decides on a snapshot; what it saw of the earlier    *)
(* groups stays true because terminal states are final and the batch row   *)
(* does not change. So an item that was ever selected keeps its            *)
(* predecessors ended, and the failures among them within the budget.      *)
(***************************************************************************)
EXTENDS RollingBatch, FiniteSetTheorems, TLAPS

-----------------------------------------------------------------------------
(* Numbers and indexes. *)

\* A bounded set of naturals has a largest member.
LEMMA Maximum ==
    ASSUME NEW S \in SUBSET Nat, S # {}, NEW b \in Nat, \A x \in S : x <= b
    PROVE  \E m \in S : \A x \in S : x <= m
<1> DEFINE T == {b - x : x \in S}
<1>1. T \in SUBSET Nat /\ T # {}
  <2>1. \A x \in S : x \in Nat /\ b - x \in Nat
    OBVIOUS
  <2> QED
    BY <2>1
<1>2. PICK t \in T : \A y \in T : <<y, t>> \notin OpToRel(<, Nat)
  BY <1>1, NatLessThanWellFounded, WFMin
<1>3. PICK m \in S : t = b - m
  OBVIOUS
<1>4. ASSUME NEW x \in S PROVE x <= m
  <2>1. b - x \in T /\ b - x \in Nat /\ t \in Nat
    BY <1>1
  <2>2. ~(b - x < t)
    BY <1>2, <2>1 DEF OpToRel
  <2> QED
    BY <1>3, <2>2
<1> QED
  BY <1>4

\* Item is 0..m-1 for the largest request.
LEMMA ItemRange ==
    \E m \in 1..500 : Item = 0..(m - 1) /\ \A q \in Request : q.n <= m
<1> DEFINE S == {q.n : q \in Request}
<1>1. S \in SUBSET (1..500) /\ S # {}
  BY BatchAssumption
<1>2. \E m \in S : \A q \in Request : q.n <= m
  <2>1. S \in SUBSET Nat /\ 500 \in Nat /\ \A x \in S : x <= 500
    BY <1>1
  <2>2. \E m \in S : \A x \in S : x <= m
    <3> HIDE DEF S
    <3> QED
      BY <1>1, <2>1, Maximum
  <2> QED
    BY <2>2
<1> DEFINE m == CHOOSE m \in S : \A q \in Request : q.n <= m
<1>3. m \in S /\ \A q \in Request : q.n <= m
  BY <1>2
<1>4. Item = 0..(m - 1)
  BY DEF Item
<1> QED
  BY <1>1, <1>3, <1>4

LEMMA Items ==
    /\ Item \subseteq Nat
    /\ IsFiniteSet(Item)
    /\ Cardinality(Item) \in Nat
    /\ None \notin Item
    /\ \A q \in Request : /\ q.n \in 1..Cardinality(Item)
                          /\ \A k \in Nat : k < q.n => k \in Item
<1>1. PICK m \in 1..500 : Item = 0..(m - 1) /\ \A q \in Request : q.n <= m
  BY ItemRange
<1>2. IsFiniteSet(Item) /\ Cardinality(Item) = m
  <2>1. 0 \in Int /\ m - 1 \in Int /\ ~(0 > m - 1) /\ m - 1 - 0 + 1 = m
    BY <1>1
  <2> QED
    BY <1>1, <2>1, FS_Interval
<1>3. \A q \in Request : q.n \in 1..500
  BY BatchAssumption
<1>4. None \notin Item
  BY <1>1, BatchAssumption
<1>5. ASSUME NEW q \in Request
      PROVE  /\ q.n \in 1..Cardinality(Item)
             /\ \A k \in Nat : k < q.n => k \in Item
  <2>1. q.n \in 1..500 /\ q.n <= m
    BY <1>1, <1>3
  <2>2. \A k \in Nat : k < q.n => k \in 0..(m - 1)
    BY <2>1
  <2>3. q.n \in 1..m
    BY <2>1
  <2> QED
    BY <1>1, <1>2, <2>2, <2>3
<1> QED
  BY <1>1, <1>2, <1>4, <1>5

\* Groups are blocks of size consecutive indexes.
LEMMA GroupBounds ==
    ASSUME NEW x \in Nat, NEW s \in Nat, s > 0
    PROVE  /\ x \div s \in Nat
           /\ (x \div s) * s <= x
           /\ x < (x \div s) * s + s
OBVIOUS

LEMMA BlockBefore ==
    ASSUME NEW x \in Nat, NEW i \in Nat, NEW s \in Nat, s > 0, x < (i \div s) * s
    PROVE  x \div s < i \div s
<1> DEFINE p == i \div s
           q == x \div s
<1>1. p \in Nat /\ q \in Nat /\ q * s <= x
  BY GroupBounds
<1>2. SUFFICES ASSUME p <= q PROVE FALSE
  BY <1>1
<1>3. p * s <= q * s
  BY <1>1, <1>2
<1> QED
  BY <1>1, <1>3
-----------------------------------------------------------------------------
(* The invariants. *)

Inside == {"locked", "creating", "undoing"}

\* The advisory lock admits one call at a time.
LockInv == \A c \in Call : at[c] \in Inside <=> lock = c

\* A call that creates carries the stored request, and its items exist.
CallInv ==
    \A c \in Call :
        /\ at[c] \in {"unsent", "locked"} => next[c] = 0
        /\ at[c] = "locked" => asked[c] \in Request
        /\ at[c] \in {"creating", "undoing"} => batch = asked[c] /\ batch \in Request
        /\ at[c] = "creating" =>
              /\ next[c] <= batch.n
              /\ \A i \in Item : i < next[c] => state[i] # "absent"

\* A batch that is ready is whole.
ReadyInv == ready => batch \in Request /\ \A i \in Item : i < batch.n => state[i] # "absent"

CreationInv == TypeOK /\ LockInv /\ CallInv /\ ReadyInv /\ KeyBindsOneRequest

\* Items some Claim selected, whether or not it went on to start them.
Selected == started \cup {i \in Item : \E w \in Claimer : pick[w] = i}

\* Nothing is selected before the batch is ready.
SelectedExists ==
    /\ Selected # {} => ready
    /\ \A i \in Selected : state[i] # "absent"
    /\ \A i \in Item : state[i] = "running" => i \in started

EarlierEnded ==
    \A i \in Selected : \A x \in Item : Group(x) < Group(i) => state[x] \in Terminal

\* The failures a batch accepts.
Budget == IF batch.cont THEN batch.threshold ELSE 0

EarlierFailures(i) == {x \in Item : Group(x) < Group(i) /\ state[x] \in Failed}

EarlierWithinBudget == \A i \in Selected : Cardinality(EarlierFailures(i)) <= Budget

\* A started item is still running, or its end was recorded.
StartedAccounted ==
    \A i \in started : \/ state[i] = "running"
                       \/ state[i] \in Terminal /\ i \in concluded

ProgressInv == SelectedExists /\ EarlierEnded /\ EarlierWithinBudget /\ StartedAccounted

BatchInv == CreationInv /\ ProgressInv
-----------------------------------------------------------------------------
(* Creation. *)

ItemStates == {"absent", "running"} \cup Unstarted \cup Terminal

LEMMA BatchInitInv == Init => BatchInv
<1> SUFFICES ASSUME Init PROVE BatchInv
  OBVIOUS
<1>1. TypeOK
  <2>1. 0 \in 0..Cardinality(Item)
    BY Items
  <2> QED
    BY <2>1 DEF Init, TypeOK, CallPlace
<1>2. LockInv /\ CallInv /\ ReadyInv /\ KeyBindsOneRequest
  BY BatchAssumption DEF Init, LockInv, CallInv, ReadyInv, KeyBindsOneRequest, Inside
<1>3. Selected = {} /\ started = {}
  BY Items DEF Init, Selected
<1>4. ProgressInv
  BY <1>3 DEF Init, ProgressInv, SelectedExists, EarlierEnded, EarlierWithinBudget,
     StartedAccounted
<1> QED
  BY <1>1, <1>2, <1>4 DEF BatchInv, CreationInv

\* What every step respects: ended items stay as they ended, rows do not vanish,
\* the batches row is written once and stays ready.
Respects ==
    /\ \A i \in Item : /\ state[i] \in Terminal => state'[i] = state[i]
                       /\ state[i] # "absent" => state'[i] # "absent"
    /\ batch # None => batch' = batch
    /\ ready => ready'

LEMMA StepRespects == ASSUME TypeOK, [Next]_vars PROVE Respects
<1> USE Items DEF Respects, TypeOK, Terminal, Failed, Unstarted, callVars
<1>1. ASSUME NEW c \in Call, NEW q \in Request, Enter(c, q) PROVE Respects
  BY <1>1 DEF Enter
<1>2. ASSUME NEW c \in Call, CallStep(c) PROVE Respects
  <2>1. CASE InsertBatch(c)
    BY <2>1 DEF InsertBatch
  <2>2. ASSUME NEW initial \in Unstarted, SubmitItem(c, initial) PROVE Respects
    BY <2>2 DEF SubmitItem
  <2>3. CASE SubmitFails(c) \/ MarkReady(c) \/ CallLost(c)
    BY <2>3 DEF SubmitFails, MarkReady, CallLost
  <2>4. CASE UndoCreation(c)
    BY <2>4 DEF UndoCreation
  <2> QED
    BY <1>2, <2>1, <2>2, <2>3, <2>4 DEF CallStep
<1>3. ASSUME NEW i \in Item, Approve(i) \/ Reject(i) \/ Cancel(i) PROVE Respects
  BY <1>3 DEF Approve, Reject, Cancel
<1>4. ASSUME NEW w \in Claimer, (\E i \in Item : ClaimSelect(w, i)) \/ ClaimStart(w)
      PROVE  Respects
  BY <1>4 DEF ClaimSelect, ClaimStart
<1>5. ASSUME NEW i \in Item, NEW outcome \in Outcome, Finish(i, outcome) PROVE Respects
  BY <1>5 DEF Finish, Outcome
<1>6. ASSUME NEW orphans \in SUBSET Item, Recover(orphans) PROVE Respects
  BY <1>6 DEF Recover, StoppedItems
<1>7. ASSUME NEW i \in Leasable, OutsideLease(i) \/ OutsideRelease(i) PROVE Respects
  BY <1>7 DEF OutsideLease, OutsideRelease
<1>8. CASE UNCHANGED vars
  BY <1>8 DEF vars
<1> QED
  BY <1>1, <1>2, <1>3, <1>4, <1>5, <1>6, <1>7, <1>8 DEF Next

\* Types: the submission loop stays inside the items, and what is claimed is one.
LEMMA TypeStep == ASSUME CreationInv, [Next]_vars PROVE TypeOK'
<1> USE Items DEF CreationInv, TypeOK, callVars, CallPlace, Terminal, Failed, Unstarted, Leave
<1>1. ASSUME NEW c \in Call, NEW q \in Request, Enter(c, q) PROVE TypeOK'
  BY <1>1 DEF Enter
<1>2. ASSUME NEW c \in Call, CallStep(c) PROVE TypeOK'
  <2>1. CASE InsertBatch(c)
    BY <2>1 DEF InsertBatch, CallInv
  <2>2. ASSUME NEW initial \in Unstarted, SubmitItem(c, initial) PROVE TypeOK'
    <3>1. next[c] \in Nat /\ next[c] < batch.n /\ batch \in Request
      BY <2>2 DEF SubmitItem, MoreToSubmit, CallInv
    <3>2. next[c] + 1 \in 0..Cardinality(Item)
      BY <3>1
    <3>3. next' \in [Call -> 0..Cardinality(Item)]
      BY <2>2, <3>2 DEF SubmitItem
    <3>4. state' \in [Item -> ItemStates]
      BY <2>2 DEF SubmitItem, ItemStates
    <3> QED
      BY <2>2, <3>3, <3>4 DEF SubmitItem, ItemStates
  <2>3. CASE SubmitFails(c)
    BY <2>3 DEF SubmitFails
  <2>4. CASE MarkReady(c) \/ CallLost(c)
    BY <2>4 DEF MarkReady, CallLost
  <2>5. CASE UndoCreation(c)
    BY <2>5 DEF UndoCreation
  <2> QED
    BY <1>2, <2>1, <2>2, <2>3, <2>4, <2>5 DEF CallStep
<1>3. ASSUME NEW i \in Item, Approve(i) \/ Reject(i) \/ Cancel(i) PROVE TypeOK'
  <2>1. CASE Approve(i)
    BY <2>1 DEF Approve
  <2>2. CASE Reject(i)
    BY <2>2 DEF Reject
  <2>3. CASE Cancel(i)
    BY <2>3 DEF Cancel
  <2> QED
    BY <1>3, <2>1, <2>2, <2>3
<1>4. ASSUME NEW w \in Claimer, NEW i \in Item, ClaimSelect(w, i) PROVE TypeOK'
  BY <1>4 DEF ClaimSelect
<1>5. ASSUME NEW w \in Claimer, ClaimStart(w) PROVE TypeOK'
  <2>1. pick[w] \in Item /\ pick' = [pick EXCEPT ![w] = None]
    BY <1>5 DEF ClaimStart
  <2>2. CASE UNCHANGED <<state, started>>
    BY <1>5, <2>1, <2>2 DEF ClaimStart
  <2>3. CASE state' = [state EXCEPT ![pick[w]] = "running"] /\ started' = started \cup {pick[w]}
    BY <1>5, <2>1, <2>3 DEF ClaimStart
  <2> QED
    BY <1>5, <2>2, <2>3 DEF ClaimStart
<1>6. ASSUME NEW i \in Item, NEW outcome \in Outcome, Finish(i, outcome) PROVE TypeOK'
  BY <1>6 DEF Finish, Outcome
<1>7. ASSUME NEW orphans \in SUBSET Item, Recover(orphans) PROVE TypeOK'
  BY <1>7 DEF Recover
<1>8. ASSUME NEW i \in Leasable, OutsideLease(i) \/ OutsideRelease(i) PROVE TypeOK'
  BY <1>8 DEF OutsideLease, OutsideRelease
<1>9. CASE UNCHANGED vars
  BY <1>9 DEF vars
<1> QED
  BY <1>1, <1>2, <1>3, <1>4, <1>5, <1>6, <1>7, <1>8, <1>9 DEF Next

\* The steps of people, workers, recovery and outside operations create nothing.
LEMMA QuietCreation ==
    ASSUME CreationInv, Respects, TypeOK',
           UNCHANGED <<batch, ready, callVars>>,
           \A i \in Item : state[i] = "absent" => state'[i] = "absent"
    PROVE  CreationInv'
<1>1. LockInv'
  BY DEF CreationInv, LockInv, callVars
<1>2. CallInv'
  BY DEF CreationInv, CallInv, callVars, Respects
<1>3. ReadyInv' /\ KeyBindsOneRequest'
  BY DEF CreationInv, ReadyInv, KeyBindsOneRequest, Respects
<1> QED
  BY <1>1, <1>2, <1>3 DEF CreationInv

\* The steps of Engine.Batch.
LEMMA CallCreation ==
    ASSUME CreationInv, Respects, TypeOK', NEW c \in Call, CallStep(c)
    PROVE  CreationInv'
<1> USE DEF CreationInv, Inside
<1>0. /\ c # None
      /\ \A d \in Call : d # c => at[d] \notin Inside
      /\ at[c] \in Inside
  BY BatchAssumption DEF CallStep, InsertBatch, SubmitItem, SubmitFails, UndoCreation,
     MarkReady, CallLost, LockInv
<1>1. CASE InsertBatch(c)
  <2>1. batch' \in Request /\ (batch # None => batch' = batch)
    BY <1>1 DEF InsertBatch, CallInv, TypeOK
  <2>2. UNCHANGED <<ready, state, asked, next>>
    BY <1>1 DEF InsertBatch
  <2>3. LockInv'
    BY <1>0, <1>1, BatchAssumption DEF InsertBatch, Leave, LockInv, TypeOK
  <2>4. ReadyInv' /\ KeyBindsOneRequest'
    BY <2>1, <2>2, BatchAssumption DEF ReadyInv, KeyBindsOneRequest
  <2>5. CallInv'
    <3>1. \A d \in Call : d # c => at'[d] = at[d]
      BY <1>1 DEF InsertBatch, Leave, TypeOK
    <3>2. /\ at'[c] \in {"creating", "returned"}
          /\ at'[c] = "creating" => batch' = asked[c]
      BY <1>1 DEF InsertBatch, Leave, SameRequest, TypeOK
    <3>3. next[c] = 0
      BY <1>1 DEF InsertBatch, CallInv
    <3>4. \A q \in Request : 0 <= q.n
      BY Items
    <3>5. \A i \in Item : ~(i < 0)
      BY Items
    <3> QED
      BY <1>0, <2>1, <2>2, <3>1, <3>2, <3>3, <3>4, <3>5 DEF CallInv
  <2> QED
    BY <2>3, <2>4, <2>5
<1>2. ASSUME NEW initial \in Unstarted, SubmitItem(c, initial)
      PROVE  CreationInv'
  <2>1. /\ batch \in Request /\ batch = asked[c] /\ batch # None
        /\ next[c] \in Nat /\ next[c] < batch.n /\ next[c] \in Item
    BY <1>2, Items, BatchAssumption DEF SubmitItem, MoreToSubmit, CallInv, TypeOK
  <2>2. UNCHANGED <<batch, ready, lock, at, asked>>
    BY <1>2 DEF SubmitItem
  <2>3. \A i \in Item : i # next[c] => state'[i] = state[i]
    BY <1>2 DEF SubmitItem, TypeOK
  <2>4. state'[next[c]] # "absent"
    BY <1>2, <2>1 DEF SubmitItem, TypeOK, Unstarted
  <2>5. LockInv' /\ ReadyInv'
    BY <2>2 DEF LockInv, ReadyInv, Respects
  <2>6. KeyBindsOneRequest'
    BY <2>1, <2>2, <2>3 DEF KeyBindsOneRequest
  <2>7. CallInv'
    <3>1. next'[c] = next[c] + 1 /\ \A d \in Call : d # c => next'[d] = next[d]
      BY <1>2 DEF SubmitItem, TypeOK
    <3>2. next[c] + 1 <= batch.n
      BY <2>1, Items
    <3>3. \A i \in Item : i < next[c] + 1 => state'[i] # "absent"
      <4>1. \A i \in Item : i < next[c] + 1 => i < next[c] \/ i = next[c]
        BY <2>1, Items
      <4>2. \A i \in Item : i < next[c] => state[i] # "absent"
        BY <1>2 DEF SubmitItem, CallInv
      <4> QED
        BY <2>4, <4>1, <4>2 DEF Respects
    <3>4. at[c] = "creating"
      BY <1>2 DEF SubmitItem
    <3> QED
      BY <1>0, <2>1, <2>2, <3>1, <3>2, <3>3, <3>4 DEF CallInv
  <2> QED
    BY <2>5, <2>6, <2>7
<1>3. CASE SubmitFails(c) \/ CallLost(c) \/ UndoCreation(c) \/ MarkReady(c)
  <2>1. /\ UNCHANGED <<batch, asked, next>>
        /\ \A d \in Call : d # c => at'[d] = at[d]
        /\ \/ at'[c] = "undoing" /\ at[c] = "creating" /\ lock' = lock
           \/ at'[c] = "returned" /\ lock' = None
    BY <1>3 DEF SubmitFails, CallLost, UndoCreation, MarkReady, Leave, TypeOK
  <2>2. LockInv'
    BY <1>0, <2>1, BatchAssumption DEF LockInv
  <2>3. CallInv'
    BY <1>0, <2>1 DEF CallInv, Respects
  <2>4. KeyBindsOneRequest'
    <3>1. \A i \in Item : state[i] = "absent" => state'[i] = "absent"
      BY <1>3 DEF SubmitFails, CallLost, UndoCreation, MarkReady, TypeOK, Unstarted
    <3> QED
      BY <2>1, <3>1 DEF KeyBindsOneRequest
  <2>5. ReadyInv'
    <3>1. CASE MarkReady(c)
      <4>1. /\ batch \in Request /\ batch = asked[c] /\ next[c] = batch.n
            /\ \A i \in Item : i < next[c] => state[i] # "absent"
        BY <3>1, Items DEF MarkReady, MoreToSubmit, CallInv, TypeOK
      <4> QED
        BY <2>1, <3>1, <4>1 DEF MarkReady, ReadyInv
    <3>2. CASE ~MarkReady(c)
      BY <1>3, <2>1, <3>2 DEF SubmitFails, CallLost, UndoCreation, ReadyInv, Respects
    <3> QED
      BY <3>1, <3>2
  <2> QED
    BY <2>2, <2>3, <2>4, <2>5
<1> QED
  BY <1>1, <1>2, <1>3 DEF CallStep

LEMMA CreationStep == ASSUME CreationInv, [Next]_vars PROVE CreationInv'
<1>0. TypeOK' /\ Respects
  BY TypeStep, StepRespects DEF CreationInv
<1>1. ASSUME NEW c \in Call, NEW q \in Request, Enter(c, q) PROVE CreationInv'
  <2>1. /\ UNCHANGED <<batch, ready, state, next>>
        /\ lock = None /\ lock' = c /\ at[c] = "unsent" /\ at'[c] = "locked" /\ asked'[c] = q
        /\ \A d \in Call : d # c => at'[d] = at[d] /\ asked'[d] = asked[d]
    BY <1>1 DEF Enter, CreationInv, TypeOK
  <2>2. LockInv'
    BY <2>1, BatchAssumption DEF CreationInv, LockInv, Inside
  <2>3. CallInv'
    BY <2>1 DEF CreationInv, CallInv
  <2>4. ReadyInv' /\ KeyBindsOneRequest'
    BY <2>1 DEF CreationInv, ReadyInv, KeyBindsOneRequest
  <2> QED
    BY <1>0, <2>2, <2>3, <2>4 DEF CreationInv
<1>2. ASSUME NEW c \in Call, CallStep(c) PROVE CreationInv'
  BY <1>0, <1>2, CallCreation
<1>3. CASE ~(\E c \in Call : CallStep(c) \/ \E q \in Request : Enter(c, q))
  <2>1. UNCHANGED <<batch, ready, callVars>>
    BY <1>3 DEF Next, Approve, Reject, Cancel, ClaimSelect, ClaimStart, Finish, Recover,
       OutsideLease, OutsideRelease, vars
  <2>2. \A i \in Item : state[i] = "absent" => state'[i] = "absent"
    <3> USE DEF CreationInv, TypeOK
    <3>1. ASSUME NEW j \in Item, NEW s, state[j] # "absent", state' = [state EXCEPT ![j] = s]
          PROVE  \A i \in Item : state[i] = "absent" => state'[i] = "absent"
      BY <3>1
    <3>2. ASSUME NEW j \in Item, Approve(j) \/ Reject(j) \/ Cancel(j)
          PROVE  \A i \in Item : state[i] = "absent" => state'[i] = "absent"
      BY <3>1, <3>2 DEF Approve, Reject, Cancel, Unstarted
    <3>3. ASSUME NEW w \in Claimer, ClaimStart(w)
          PROVE  \A i \in Item : state[i] = "absent" => state'[i] = "absent"
      BY <3>1, <3>3, Items DEF ClaimStart
    <3>4. ASSUME NEW j \in Item, NEW outcome \in Outcome, Finish(j, outcome)
          PROVE  \A i \in Item : state[i] = "absent" => state'[i] = "absent"
      BY <3>1, <3>4 DEF Finish
    <3>5. ASSUME NEW orphans \in SUBSET Item, Recover(orphans)
          PROVE  \A i \in Item : state[i] = "absent" => state'[i] = "absent"
      BY <3>5 DEF Recover, StoppedItems, Unstarted
    <3>6. ASSUME UNCHANGED state
          PROVE  \A i \in Item : state[i] = "absent" => state'[i] = "absent"
      BY <3>6
    <3> QED
      BY <1>3, <3>2, <3>3, <3>4, <3>5, <3>6
      DEF Next, ClaimSelect, OutsideLease, OutsideRelease, vars
  <2> QED
    BY <1>0, <2>1, <2>2, QuietCreation
<1> QED
  BY <1>1, <1>2, <1>3

-----------------------------------------------------------------------------
(* Progress. *)

\* A running item keeps running or ends on record; what runs has been started.
Accounts ==
    /\ concluded \subseteq concluded'
    /\ started \subseteq started'
    /\ \A i \in Item : state[i] = "running" =>
            state'[i] = "running" \/ (state'[i] \in Terminal /\ i \in concluded')
    /\ \A i \in Item : state'[i] = "running" => state[i] = "running" \/ i \in started'
    /\ \A i \in started' : i \in started \/ state'[i] = "running"

LEMMA StepAccounts == ASSUME TypeOK, [Next]_vars PROVE Accounts
<1> USE Items DEF Accounts, TypeOK, Terminal, Failed, Unstarted, callVars
<1>1. ASSUME NEW c \in Call, NEW q \in Request, Enter(c, q) PROVE Accounts
  BY <1>1 DEF Enter
<1>2. ASSUME NEW c \in Call, CallStep(c) PROVE Accounts
  <2>1. CASE InsertBatch(c) \/ SubmitFails(c) \/ MarkReady(c) \/ CallLost(c)
    BY <2>1 DEF InsertBatch, SubmitFails, MarkReady, CallLost
  <2>2. ASSUME NEW initial \in Unstarted, SubmitItem(c, initial) PROVE Accounts
    <3>1. \A i \in Item : state'[i] = state[i] \/ (state[i] = "absent" /\ state'[i] \in Unstarted)
      BY <2>2 DEF SubmitItem
    <3>2. UNCHANGED <<concluded, started>>
      BY <2>2 DEF SubmitItem
    <3> QED
      BY <3>1, <3>2
  <2>3. CASE UndoCreation(c)
    BY <2>3 DEF UndoCreation
  <2> QED
    BY <1>2, <2>1, <2>2, <2>3 DEF CallStep
<1>3. ASSUME NEW i \in Item, Approve(i) \/ Reject(i) \/ Cancel(i) PROVE Accounts
  BY <1>3 DEF Approve, Reject, Cancel
<1>4. ASSUME NEW w \in Claimer, NEW i \in Item, ClaimSelect(w, i) PROVE Accounts
  BY <1>4 DEF ClaimSelect
<1>5. ASSUME NEW w \in Claimer, ClaimStart(w) PROVE Accounts
  <2>1. pick[w] \in Item /\ UNCHANGED concluded
    BY <1>5 DEF ClaimStart
  <2>2. CASE UNCHANGED <<state, started>>
    BY <2>1, <2>2
  <2>3. CASE state' = [state EXCEPT ![pick[w]] = "running"] /\ started' = started \cup {pick[w]}
    BY <2>1, <2>3
  <2> QED
    BY <1>5, <2>2, <2>3 DEF ClaimStart
<1>6. ASSUME NEW i \in Item, NEW outcome \in Outcome, Finish(i, outcome) PROVE Accounts
  BY <1>6 DEF Finish, Outcome
<1>7. ASSUME NEW orphans \in SUBSET Item, Recover(orphans) PROVE Accounts
  BY <1>7 DEF Recover, StoppedItems
<1>8. ASSUME NEW i \in Leasable, OutsideLease(i) \/ OutsideRelease(i) PROVE Accounts
  BY <1>8 DEF OutsideLease, OutsideRelease
<1>9. CASE UNCHANGED vars
  BY <1>9 DEF vars
<1> QED
  BY <1>1, <1>2, <1>3, <1>4, <1>5, <1>6, <1>7, <1>8, <1>9 DEF Next

\* What was true of the predecessors of a selected item remains true of them.
LEMMA SelectionKept ==
    ASSUME BatchInv, Respects, NEW i \in Selected, i \in Item
    PROVE  /\ \A x \in Item : (Group(x) < Group(i))' => state'[x] \in Terminal
           /\ EarlierFailures(i)' = EarlierFailures(i)
           /\ Cardinality(EarlierFailures(i))' <= Budget'
<1>1. batch # None /\ batch' = batch
  BY BatchAssumption DEF BatchInv, ProgressInv, SelectedExists, CreationInv, ReadyInv, Respects
<1>2. \A x \in Item : (Group(x) < Group(i))' <=> Group(x) < Group(i)
  BY <1>1 DEF Group
<1>3. \A x \in Item : Group(x) < Group(i) => state[x] \in Terminal /\ state'[x] = state[x]
  BY DEF BatchInv, ProgressInv, EarlierEnded, Respects
<1>4. EarlierFailures(i)' = EarlierFailures(i)
  BY <1>2, <1>3 DEF EarlierFailures
<1>5. Budget' = Budget
  BY <1>1 DEF Budget
<1> QED
  BY <1>2, <1>3, <1>4, <1>5 DEF BatchInv, ProgressInv, EarlierWithinBudget

\* The snapshot of Claim: earlier groups have ended and the budget is kept.
LEMMA SnapshotSound ==
    ASSUME CreationInv, NEW i \in Item, Claimable(i), batch # None
    PROVE  /\ ready /\ state[i] # "absent"
           /\ \A x \in Item : Group(x) < Group(i) => state[x] \in Terminal
           /\ Cardinality(EarlierFailures(i)) <= Budget
<1>1. ready /\ state[i] = "queued" /\ batch \in Request
  BY DEF Claimable, Released, CreationInv, ReadyInv
<1>2. i < batch.n /\ i \in Nat /\ batch.n \in Nat /\ batch.size \in Nat /\ batch.size > 0
  BY <1>1, Items, BatchAssumption DEF CreationInv, KeyBindsOneRequest
<1>3. ASSUME NEW x \in Item, Group(x) < Group(i) PROVE state[x] \in Terminal
  <2>1. x < i
    <3> DEFINE b == batch.size
               p == i \div b
               q == x \div b
    <3>1. /\ p \in Nat /\ q \in Nat /\ b \in Nat /\ x \in Nat
          /\ p * b <= i /\ x < q * b + b /\ q < p
      BY <1>2, <1>3, Items, GroupBounds DEF Group
    <3>2. (q + 1) * b <= p * b /\ (q + 1) * b = q * b + b
      <4> HIDE DEF p, q, b
      <4> QED
        BY <3>1
    <3> HIDE DEF p, q, b
    <3> QED
      BY <1>2, <3>1, <3>2
  <2>2. state[x] # "absent"
    BY <1>1, <1>2, <2>1, Items DEF CreationInv, ReadyInv
  <2> QED
    BY <1>3, <2>2 DEF Claimable, LetsNextGroupStart
<1>4. Cardinality(EarlierFailures(i)) <= Budget
  <2> DEFINE failures == {x \in Item : CountsAsFailure(state[x])}
  <2>1. /\ IsFiniteSet(failures) /\ IsFiniteSet(EarlierFailures(i))
        /\ EarlierFailures(i) \in SUBSET failures
    BY Items, FS_Subset DEF EarlierFailures, CountsAsFailure, Failed
  <2>2. Cardinality(EarlierFailures(i)) <= Cardinality(failures)
    BY <2>1, FS_Subset
  <2>3. Cardinality(EarlierFailures(i)) \in Nat /\ Cardinality(failures) \in Nat
    BY <2>1, FS_CardinalityType
  <2>4. (batch.cont \/ failures = {}) /\ ~(Cardinality(failures) > batch.threshold)
    BY DEF Claimable, Stopped
  <2>5. batch.threshold \in Nat /\ batch.cont \in BOOLEAN
    BY <1>1, BatchAssumption
  <2>6. CASE batch.cont
    <3> HIDE DEF failures
    <3> QED
      BY <2>2, <2>3, <2>4, <2>5, <2>6 DEF Budget
  <2>7. CASE ~batch.cont
    <3>1. EarlierFailures(i) = {}
      BY <2>1, <2>4, <2>7
    <3> QED
      BY <2>7, <3>1, FS_EmptySet DEF Budget
  <2> QED
    BY <2>6, <2>7
<1> QED
  BY <1>1, <1>3, <1>4

LEMMA ProgressStep == ASSUME BatchInv, [Next]_vars PROVE ProgressInv'
<1>0. TypeOK' /\ TypeOK /\ Respects /\ Accounts
  BY TypeStep, StepRespects, StepAccounts DEF BatchInv, CreationInv
<1>1. Selected \subseteq Item /\ Selected' \subseteq Item
  BY <1>0 DEF Selected, TypeOK
<1>2. StartedAccounted'
  <2> SUFFICES ASSUME NEW i \in started'
               PROVE  \/ state'[i] = "running"
                      \/ state'[i] \in Terminal /\ i \in concluded'
    BY DEF StartedAccounted
  <2>1. i \in Item
    BY <1>0 DEF TypeOK
  <2>2. CASE state'[i] = "running"
    BY <2>2
  <2>3. CASE i \in started
    BY <1>0, <2>1, <2>3 DEF BatchInv, ProgressInv, StartedAccounted, Respects, Accounts
  <2> QED
    BY <1>0, <2>2, <2>3 DEF Accounts
<1>3. \A i \in Item : state'[i] = "running" => i \in started'
  BY <1>0 DEF BatchInv, ProgressInv, SelectedExists, Accounts
<1>4. CASE Selected' \subseteq Selected
  <2>1. SelectedExists'
    BY <1>0, <1>1, <1>3, <1>4 DEF BatchInv, ProgressInv, SelectedExists, Respects
  <2>2. EarlierEnded' /\ EarlierWithinBudget'
    BY <1>0, <1>1, <1>4, SelectionKept DEF EarlierEnded, EarlierWithinBudget
  <2> QED
    BY <1>2, <2>1, <2>2 DEF ProgressInv
<1>5. ASSUME NEW w \in Claimer, NEW j \in Item, ClaimSelect(w, j) PROVE ProgressInv'
  <2>1. UNCHANGED <<batch, ready, state, concluded, started>> /\ batch # None /\ Claimable(j)
    BY <1>5 DEF ClaimSelect
  <2>2. Selected' \subseteq Selected \cup {j}
    BY <1>0, <1>5 DEF ClaimSelect, Selected, TypeOK
  <2>3. /\ ready /\ state[j] # "absent"
        /\ \A x \in Item : Group(x) < Group(j) => state[x] \in Terminal
        /\ Cardinality(EarlierFailures(j)) <= Budget
    BY <2>1, SnapshotSound DEF BatchInv
  <2>4. /\ \A x, i \in Item : (Group(x) < Group(i))' <=> Group(x) < Group(i)
        /\ EarlierFailures(j)' = EarlierFailures(j) /\ Budget' = Budget
    BY <2>1 DEF Group, EarlierFailures, Budget
  <2>5. SelectedExists'
    BY <1>0, <1>1, <1>3, <2>1, <2>2, <2>3 DEF BatchInv, ProgressInv, SelectedExists
  <2>6. EarlierEnded'
    <3> SUFFICES ASSUME NEW i \in Selected', NEW x \in Item, (Group(x) < Group(i))'
                 PROVE  state'[x] \in Terminal
      BY DEF EarlierEnded
    <3>1. CASE i = j
      BY <2>1, <2>3, <2>4, <3>1
    <3>2. CASE i \in Selected
      BY <1>0, <1>1, <3>2, SelectionKept
    <3> QED
      BY <2>2, <3>1, <3>2
  <2>7. EarlierWithinBudget'
    <3> SUFFICES ASSUME NEW i \in Selected'
                 PROVE  Cardinality(EarlierFailures(i))' <= Budget'
      BY DEF EarlierWithinBudget
    <3>1. CASE i = j
      BY <2>3, <2>4, <3>1
    <3>2. CASE i \in Selected
      BY <1>0, <1>1, <3>2, SelectionKept
    <3> QED
      BY <2>2, <3>1, <3>2
  <2> QED
    BY <1>2, <2>5, <2>6, <2>7 DEF ProgressInv
<1>6. ASSUME NEW w \in Claimer, ClaimStart(w) PROVE Selected' \subseteq Selected
  <2>1. started' \subseteq started \cup {pick[w]} /\ pick[w] \in Item
    BY <1>0, <1>6, Items DEF ClaimStart, TypeOK
  <2>2. \A v \in Claimer : pick'[v] \in {pick[v], None}
    BY <1>0, <1>6 DEF ClaimStart, TypeOK
  <2> QED
    BY <2>1, <2>2, Items DEF Selected
<1>7. CASE UNCHANGED <<pick, started>>
  BY <1>4, <1>7 DEF Selected
<1> QED
  BY <1>4, <1>5, <1>6, <1>7 DEF Next, CallStep, Enter, InsertBatch, SubmitItem, SubmitFails,
     UndoCreation, MarkReady, CallLost, Approve, Reject, Cancel, Finish, Recover,
     OutsideLease, OutsideRelease, vars

\* The inductive invariant of creation, claiming and recovery.
THEOREM BatchInvariant == Spec => []BatchInv
<1>1. BatchInv /\ [Next]_vars => BatchInv'
  BY CreationStep, ProgressStep DEF BatchInv
<1> QED
  BY BatchInitInv, <1>1, PTL DEF Spec

-----------------------------------------------------------------------------
\* "O lote so pode executar apos a criacao completa", and a key stands for one
\* request, whatever calls with it fail, die, retry or collide.
THEOREM CreationIsSafe == Spec => []CreationSafe
<1>1. BatchInv => CreationSafe
  <2> SUFFICES ASSUME BatchInv PROVE CreatedWhole
    BY DEF BatchInv, CreationInv, CreationSafe
  <2>1. started # {} => ready
    BY DEF BatchInv, ProgressInv, SelectedExists, Selected
  <2> QED
    BY <2>1 DEF BatchInv, CreationInv, ReadyInv, CreatedWhole
<1> QED
  BY <1>1, BatchInvariant, PTL

\* Groups run one after the other, although Claim decides on a stale snapshot.
THEOREM GroupsInOrder == Spec => []GroupOrder
<1>1. BatchInv => GroupOrder
  <2> SUFFICES ASSUME BatchInv, NEW i \in Item, NEW x \in Item, state[i] = "running",
                      x < (i \div batch.size) * batch.size
               PROVE  state[x] \in Terminal
    BY DEF GroupOrder
  <2>1. i \in Selected /\ ready
    BY DEF BatchInv, ProgressInv, SelectedExists, Selected
  <2>2. batch.size \in Nat /\ batch.size > 0
    BY <2>1, BatchAssumption DEF BatchInv, CreationInv, ReadyInv
  <2>3. Group(x) < Group(i)
    BY <2>2, BlockBefore, Items DEF Group
  <2> QED
    BY <2>1, <2>3 DEF BatchInv, ProgressInv, EarlierEnded
<1> QED
  BY <1>1, BatchInvariant, PTL

\* What a batch may break is bounded by the accepted failures and one group.
THEOREM FailuresBounded == Spec => []FailureBudget
<1>1. BatchInv => FailureBudget
  <2> SUFFICES ASSUME BatchInv, batch # None
               PROVE  Cardinality({i \in started : state[i] \in Failed}) <= Budget + batch.size
    BY DEF FailureBudget, Budget
  <2> DEFINE F == {i \in started : state[i] \in Failed}
             b == batch.size
  <2>1. /\ batch \in Request /\ b \in Nat /\ b > 0
        /\ batch.threshold \in Nat /\ batch.cont \in BOOLEAN
    BY BatchAssumption DEF BatchInv, CreationInv, TypeOK
  <2>2. Budget \in Nat
    BY <2>1 DEF Budget
  <2>3. started \in SUBSET Item /\ IsFiniteSet(started)
    BY Items, FS_Subset DEF BatchInv, CreationInv, TypeOK
  <2>4. CASE started = {}
    <3>1. F = {}
      BY <2>4
    <3>2. Cardinality(F) = 0
      BY <3>1, FS_EmptySet
    <3> HIDE DEF F
    <3>3. Cardinality(F) <= Budget + b
      BY <2>1, <2>2, <3>2
    <3> QED
      BY <3>3 DEF F
  <2>5. CASE started # {}
    <3> DEFINE G == {Group(i) : i \in started}
    <3>1. \A i \in Item : i \in Nat /\ Group(i) \in Nat /\ Group(i) * b <= i
                          /\ i < Group(i) * b + b
      BY <2>1, Items, GroupBounds DEF Group
    <3>2. PICK m \in 1..500 : Item = 0..(m - 1)
      BY ItemRange
    <3>3. \A i \in Item : Group(i) <= m
      <4> SUFFICES ASSUME NEW i \in Item PROVE Group(i) <= m
        OBVIOUS
      <4> DEFINE g == Group(i)
      <4>1. g \in Nat /\ g * b <= i /\ i < m /\ i \in Nat
        BY <3>1, <3>2
      <4>2. g <= g * b
        <5> HIDE DEF g, b
        <5> QED
          BY <2>1, <4>1
      <4> HIDE DEF g
      <4> QED
        BY <2>1, <4>1, <4>2 DEF g
    <3>4. \E g \in G : \A h \in G : h <= g
      <4>1. G \in SUBSET Nat /\ G # {} /\ \A h \in G : h <= m
        BY <2>3, <2>5, <3>1, <3>3
      <4>2. m \in Nat
        BY <3>2
      <4> HIDE DEF G
      <4> QED
        BY <4>1, <4>2, Maximum
    <3>5. PICK i \in started : \A x \in started : Group(x) <= Group(i)
      BY <3>4
    <3> DEFINE g == Group(i)
               Block == (g * b)..(g * b + b - 1)
    <3>6. i \in Item /\ g \in Nat /\ g * b \in Nat
      BY <2>1, <2>3, <3>1, <3>5
    <3>7. F \subseteq EarlierFailures(i) \cup Block
      <4> SUFFICES ASSUME NEW x \in F, x \notin EarlierFailures(i) PROVE x \in Block
        OBVIOUS
      <4>1. x \in Item /\ Group(x) = g
        BY <2>3, <3>1, <3>5, <3>6 DEF EarlierFailures
      <4>2. x \in Nat /\ g * b <= x /\ x < g * b + b
        BY <3>1, <4>1
      <4> HIDE DEF g, b
      <4> QED
        BY <2>1, <3>6, <4>2
    <3>8. IsFiniteSet(Block) /\ Cardinality(Block) = b
      <4> HIDE DEF g, b
      <4>1. g * b \in Int /\ g * b + b - 1 \in Int /\ ~(g * b > g * b + b - 1)
            /\ (g * b + b - 1) - g * b + 1 = b
        BY <2>1, <3>6
      <4> QED
        BY <4>1, FS_Interval
    <3>9. IsFiniteSet(EarlierFailures(i)) /\ Cardinality(EarlierFailures(i)) <= Budget
      <4>1. EarlierFailures(i) \in SUBSET Item
        BY DEF EarlierFailures
      <4> QED
        BY <4>1, Items, FS_Subset DEF BatchInv, ProgressInv, EarlierWithinBudget, Selected
    <3> DEFINE E == EarlierFailures(i)
    <3>10. /\ IsFiniteSet(E \cup Block)
           /\ Cardinality(E \cup Block) = Cardinality(E) + Cardinality(Block) - Cardinality(E \cap Block)
           /\ IsFiniteSet(E \cap Block)
      <4> HIDE DEF E, Block
      <4>1. E \cap Block \in SUBSET E
        OBVIOUS
      <4> QED
        BY <3>8, <3>9, <4>1, FS_Union, FS_Subset DEF E
    <3>11. /\ Cardinality(E) \in Nat /\ Cardinality(E \cap Block) \in Nat
           /\ Cardinality(E \cup Block) \in Nat
      BY <3>9, <3>10, FS_CardinalityType
    <3>12. IsFiniteSet(F) /\ Cardinality(F) <= Cardinality(E \cup Block) /\ Cardinality(F) \in Nat
      BY <3>7, <3>10, FS_Subset, FS_CardinalityType
    <3> HIDE DEF E, Block, F, b
    <3> QED
      BY <2>1, <2>2, <3>8, <3>9, <3>10, <3>11, <3>12 DEF E, F, b
  <2> QED
    BY <2>4, <2>5
<1> QED
  BY <1>1, BatchInvariant, PTL

\* An item that was started and has ended has its end in the audit log.
THEOREM StartedIsConcluded == Spec => []StartedConcluded
<1>1. BatchInv => StartedConcluded
  BY DEF BatchInv, ProgressInv, StartedAccounted, StartedConcluded, Terminal, Failed
<1> QED
  BY <1>1, BatchInvariant, PTL
=============================================================================
