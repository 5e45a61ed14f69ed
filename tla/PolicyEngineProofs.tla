-------------------------- MODULE PolicyEngineProofs --------------------------
(***************************************************************************)
(* Proofs about PolicyEngine for any requests, any rules in any number and *)
(* any length of the day.                                                  *)
(*                                                                         *)
(* The decision is a loop over the rules. TurnsDefined shows that the      *)
(* recursion of Turns has a solution, TurnMeetsReference what the turns    *)
(* have accumulated; both argue by the first turn at which the claim would *)
(* fail, because the naturals are well founded.                            *)
(***************************************************************************)
EXTENDS PolicyEngine, WellFoundedInduction, TLAPS

\* A set of naturals that is not empty has a smallest member.
LEMMA Smallest ==
    ASSUME NEW S, S # {}, \A x \in S : x \in Nat
    PROVE  \E m \in S : \A x \in S : m <= x
<1>1. S \subseteq Nat
  OBVIOUS
<1>2. PICK m \in S : \A x \in S : <<x, m>> \notin OpToRel(<, Nat)
  BY <1>1, NatLessThanWellFounded, WFMin
<1>3. ASSUME NEW x \in S PROVE m <= x
  <2>1. ~(x < m)
    BY <1>2 DEF OpToRel
  <2> QED
    BY <2>1
<1> QED
  BY <1>3

-----------------------------------------------------------------------------
(* The loop of Evaluate. *)

First(q) == [allowed |-> BaseAllowed(q), approval |-> BaseApproval(q), auto |-> FALSE]

\* f records the decision after each of the first n turns.
Records(f, q, rules, t, n) ==
    f = [i \in 0..n |-> IF i = 0 THEN First(q) ELSE Apply(q, t, f[i - 1], rules[i])]

LEMMA RecordsExist ==
    ASSUME NEW q, NEW rules, NEW t, NEW n \in Nat
    PROVE  \E f : Records(f, q, rules, t, n)
<1> DEFINE Bad == {k \in Nat : ~ \E f : Records(f, q, rules, t, k)}
<1> SUFFICES ASSUME Bad # {} PROVE FALSE
  OBVIOUS
<1>1. PICK k \in Bad : \A x \in Bad : k <= x
  BY Smallest
<1>2. CASE k = 0
  <2> DEFINE f == [i \in 0..0 |-> First(q)]
  <2>1. Records(f, q, rules, t, 0)
    BY DEF Records
  <2> QED
    BY <1>2, <2>1
<1>3. CASE k > 0
  <2>1. k - 1 \in Nat /\ k - 1 \notin Bad
    BY <1>1, <1>3
  <2>2. PICK f : Records(f, q, rules, t, k - 1)
    BY <2>1
  <2> DEFINE g == [i \in 0..k |-> IF i = k THEN Apply(q, t, f[k - 1], rules[k]) ELSE f[i]]
             h == [i \in 0..k |-> IF i = 0 THEN First(q) ELSE Apply(q, t, g[i - 1], rules[i])]
  <2>3. ASSUME NEW i \in 0..k PROVE g[i] = h[i]
    <3>1. CASE i = 0
      BY <1>3, <2>1, <2>2, <3>1 DEF Records
    <3>2. CASE i = k
      <4>1. g[i] = Apply(q, t, f[k - 1], rules[k])
        BY <3>2
      <4>2. g[k - 1] = f[k - 1]
        BY <1>3, <2>1
      <4> QED
        BY <1>3, <3>2, <4>1, <4>2
    <3>3. CASE i # 0 /\ i # k
      <4>1. i \in 0..(k - 1) /\ i - 1 \in 0..(k - 1) /\ i - 1 \in 0..k /\ i - 1 # k
        BY <2>1, <3>3
      <4>2. g[i] = f[i] /\ g[i - 1] = f[i - 1]
        BY <3>3, <4>1
      <4>3. f[i] = Apply(q, t, f[i - 1], rules[i])
        BY <2>2, <3>3, <4>1 DEF Records
      <4> QED
        BY <3>3, <4>2, <4>3
    <3> QED
      BY <3>1, <3>2, <3>3
  <2>4. g = h
    BY <2>3
  <2>5. Records(g, q, rules, t, k)
    BY <2>4 DEF Records
  <2> QED
    BY <2>5
<1> QED
  BY <1>2, <1>3

\* The loop starts from the checks before the rules and applies them in order.
LEMMA TurnsDefined ==
    ASSUME NEW q, NEW rules, NEW t, Len(rules) \in Nat
    PROVE  /\ Turns(q, rules, t)[0] = First(q)
           /\ \A i \in 1..Len(rules) :
                Turns(q, rules, t)[i] = Apply(q, t, Turns(q, rules, t)[i - 1], rules[i])
<1> DEFINE n == Len(rules)
           T == Turns(q, rules, t)
<1>1. \E f : Records(f, q, rules, t, n)
  BY RecordsExist
<1>2. T = CHOOSE f : Records(f, q, rules, t, n)
  BY DEF Turns, Records, First
<1>3. Records(T, q, rules, t, n)
  BY <1>1, <1>2
<1> HIDE DEF T
<1>4. T[0] = First(q)
  BY <1>3 DEF Records
<1>5. ASSUME NEW i \in 1..n PROVE T[i] = Apply(q, t, T[i - 1], rules[i])
  BY <1>3 DEF Records
<1> QED
  BY <1>4, <1>5 DEF T

Deciding == [allowed : BOOLEAN, approval : BOOLEAN, auto : BOOLEAN]

\* What the decision d must be after the first i rules, whatever their order.
Summary(d, q, rules, t, i) ==
    /\ d \in Deciding
    /\ d.allowed <=> /\ BaseAllowed(q)
                     /\ \A j \in 1..i : Matches(rules[j], q) => ~Refuses(rules[j], q, t)
    /\ d.allowed => /\ d.approval <=> \/ BaseApproval(q)
                                      \/ \E j \in 1..i : Matches(rules[j], q) /\ rules[j].approval
                    /\ d.auto <=> \E j \in 1..i : Matches(rules[j], q) /\ rules[j].allowAgent

LEMMA FirstSummary ==
    ASSUME NEW q, NEW rules, NEW t
    PROVE  Summary(First(q), q, rules, t, 0)
<1>1. BaseAllowed(q) \in BOOLEAN /\ BaseApproval(q) \in BOOLEAN
  BY DEF BaseAllowed, BaseApproval
<1>2. 1..0 = {}
  OBVIOUS
<1> QED
  BY <1>1, <1>2 DEF Summary, First, Deciding

\* One more rule: the three ways of Apply.
LEMMA ApplySummary ==
    ASSUME NEW q, NEW rules, NEW t, NEW i \in Nat, i > 0, NEW d,
           Summary(d, q, rules, t, i - 1)
    PROVE  Summary(Apply(q, t, d, rules[i]), q, rules, t, i)
<1> DEFINE r == rules[i]
           m(j) == Matches(rules[j], q)
           x(j) == Refuses(rules[j], q, t)
           a(j) == rules[j].approval
           g(j) == rules[j].allowAgent
<1>1. \A j \in 1..i : j \in 1..(i - 1) \/ j = i
  OBVIOUS
<1>2. \A j \in 1..(i - 1) : j \in 1..i
  OBVIOUS
<1>3. i \in 1..i
  OBVIOUS
<1>4. d \in Deciding
  BY DEF Summary
<1>5. CASE ~d.allowed
  <2>1. Apply(q, t, d, r) = d
    BY <1>5 DEF Apply
  <2> QED
    BY <1>2, <1>5, <2>1 DEF Summary
<1>6. CASE d.allowed /\ ~Matches(r, q)
  <2>1. Apply(q, t, d, r) = d
    BY <1>6 DEF Apply
  <2> QED
    BY <1>1, <1>2, <1>6, <2>1 DEF Summary
<1>7. CASE d.allowed /\ Matches(r, q) /\ Refuses(r, q, t)
  <2>1. Apply(q, t, d, r) = [d EXCEPT !.allowed = FALSE]
    BY <1>7 DEF Apply
  <2>2. [d EXCEPT !.allowed = FALSE] \in Deciding /\ ~[d EXCEPT !.allowed = FALSE].allowed
    BY <1>4 DEF Deciding
  <2> QED
    BY <1>3, <1>7, <2>1, <2>2 DEF Summary
<1>8. CASE d.allowed /\ Matches(r, q) /\ ~Refuses(r, q, t)
  <2> DEFINE e == [d EXCEPT !.approval = (d.approval \/ r.approval), !.auto = (d.auto \/ r.allowAgent)]
  <2>1. Apply(q, t, d, r) = e
    BY <1>4, <1>8 DEF Apply, Accumulate, Deciding
  <2>2. e \in Deciding /\ e.allowed
    BY <1>4, <1>8 DEF Deciding
  <2>3. (e.approval <=> d.approval \/ r.approval) /\ (e.auto <=> d.auto \/ r.allowAgent)
    BY <1>4 DEF Deciding
  <2> HIDE DEF e
  <2>4. BaseAllowed(q) /\ \A j \in 1..i : Matches(rules[j], q) => ~Refuses(rules[j], q, t)
    BY <1>1, <1>8 DEF Summary
  <2>5. e.approval <=> BaseApproval(q) \/ \E j \in 1..i : Matches(rules[j], q) /\ rules[j].approval
    BY <1>1, <1>2, <1>3, <1>8, <2>3 DEF Summary
  <2>6. e.auto <=> \E j \in 1..i : Matches(rules[j], q) /\ rules[j].allowAgent
    BY <1>1, <1>2, <1>3, <1>8, <2>3 DEF Summary
  <2> QED
    BY <2>1, <2>2, <2>4, <2>5, <2>6 DEF Summary
<1> QED
  BY <1>5, <1>6, <1>7, <1>8

\* The loop with its early returns computes what the set of the rules says.
LEMMA TurnMeetsReference ==
    ASSUME NEW q, NEW rules, NEW t, Len(rules) \in Nat
    PROVE  \A i \in 0..Len(rules) : Summary(Turns(q, rules, t)[i], q, rules, t, i)
<1> DEFINE T == Turns(q, rules, t)
           Bad == {i \in 0..Len(rules) : ~Summary(T[i], q, rules, t, i)}
<1> SUFFICES ASSUME Bad # {} PROVE FALSE
  OBVIOUS
<1>1. T[0] = First(q) /\ \A i \in 1..Len(rules) : T[i] = Apply(q, t, T[i - 1], rules[i])
  BY TurnsDefined
<1> HIDE DEF T
<1>2. \A x \in Bad : x \in Nat
  OBVIOUS
<1>3. PICK i \in Bad : \A x \in Bad : i <= x
  BY <1>2, Smallest
<1>4. i # 0
  BY <1>1, FirstSummary
<1>5. i - 1 \in 0..Len(rules) /\ i - 1 \notin Bad /\ i \in Nat /\ i > 0
  BY <1>3, <1>4
<1>6. Summary(T[i - 1], q, rules, t, i - 1)
  BY <1>5
<1>7. Summary(T[i], q, rules, t, i)
  BY <1>1, <1>5, <1>6, ApplySummary
<1> QED
  BY <1>7

\* Evaluate, for any list of rules.
LEMMA EvaluateSummary ==
    ASSUME NEW q, NEW rules, NEW t, Len(rules) \in Nat
    PROVE  /\ Evaluate(q, rules, t).allowed
                <=> /\ BaseAllowed(q)
                    /\ \A j \in 1..Len(rules) : Matches(rules[j], q) => ~Refuses(rules[j], q, t)
                    /\ q.mode = "AUTOMATED_POLICY_CONTROLLED"
                          => \E j \in 1..Len(rules) : Matches(rules[j], q) /\ rules[j].allowAgent
           /\ Evaluate(q, rules, t).allowed
                => (Evaluate(q, rules, t).approval
                      <=> \/ BaseApproval(q)
                          \/ \E j \in 1..Len(rules) : Matches(rules[j], q) /\ rules[j].approval)
<1> DEFINE d == Turns(q, rules, t)[Len(rules)]
           ok == d.allowed /\ (q.mode = "AUTOMATED_POLICY_CONTROLLED" => d.auto)
           e == [d EXCEPT !.allowed = ok]
<1>1. Summary(d, q, rules, t, Len(rules))
  BY TurnMeetsReference
<1>2. Evaluate(q, rules, t) = e
  BY DEF Evaluate
<1> HIDE DEF d
<1>3. d \in Deciding
  BY <1>1 DEF Summary
<1>4. (e.allowed <=> ok) /\ e.approval = d.approval
  BY <1>3 DEF Deciding
<1> HIDE DEF e
<1> QED
  BY <1>1, <1>2, <1>4 DEF Summary

-----------------------------------------------------------------------------
(* The state of the engine. *)

LEMMA Bounds ==
    MaxRules \in Nat /\ ObjectLimit \in Nat /\ ObjectLimit # 0 /\ DayLength \in Nat /\ DayLength # 0
BY PolicyAssumption

LEMMA WeekLong == Week \in Nat /\ Week > 0
BY Bounds DEF Week

LEMMA Joined ==
    ASSUME NEW S, NEW a \in Seq(S), NEW b \in Seq(S)
    PROVE  a \o b \in Seq(S) /\ Len(a \o b) = Len(a) + Len(b)
OBVIOUS

LEMMA ModInRange ==
    ASSUME NEW x \in Int, NEW n \in Nat, n > 0
    PROVE  x % n \in 0..(n - 1)
OBVIOUS

LEMMA RemoveAtType ==
    ASSUME NEW S, NEW s \in Seq(S), NEW i \in DOMAIN s
    PROVE  RemoveAt(s, i) \in Seq(S) /\ Len(RemoveAt(s, i)) = Len(s) - 1
<1>1. i \in 1..Len(s)
  OBVIOUS
<1>2. SubSeq(s, 1, i - 1) \in Seq(S) /\ Len(SubSeq(s, 1, i - 1)) = i - 1
  BY <1>1
<1>3. SubSeq(s, i + 1, Len(s)) \in Seq(S) /\ Len(SubSeq(s, i + 1, Len(s))) = Len(s) - i
  BY <1>1
<1>4. RemoveAt(s, i) \in Seq(S)
       /\ Len(RemoveAt(s, i)) = Len(SubSeq(s, 1, i - 1)) + Len(SubSeq(s, i + 1, Len(s)))
  BY ONLY <1>2, <1>3, Joined DEF RemoveAt
<1>5. Len(s) \in Nat
  OBVIOUS
<1>6. Len(SubSeq(s, 1, i - 1)) + Len(SubSeq(s, i + 1, Len(s))) = Len(s) - 1
  BY ONLY <1>1, <1>2, <1>3, <1>5
<1> QED
  BY ONLY <1>4, <1>6

\* The type invariant for every set of requests and rules: storing, editing and
\* deleting policies keeps a list of policies, and the clock stays in its week.
THEOREM PolicyTypes == Spec => []TypeOK
<1>1. Init => TypeOK
  BY WeekLong, Bounds DEF Init, TypeOK
<1>2. TypeOK /\ [Next]_vars => TypeOK'
  <2> SUFFICES ASSUME TypeOK, [Next]_vars PROVE TypeOK'
    OBVIOUS
  <2> USE DEF TypeOK
  <2>1. ASSUME NEW r \in RulePool, CreatePolicy(r) PROVE TypeOK'
    BY <2>1, Bounds DEF CreatePolicy
  <2>2. ASSUME NEW i \in DOMAIN policies, NEW r \in RulePool, UpdatePolicy(i, r) PROVE TypeOK'
    BY <2>2 DEF UpdatePolicy
  <2>3. ASSUME NEW i \in DOMAIN policies, DeletePolicy(i) PROVE TypeOK'
    BY <2>3, RemoveAtType, Bounds DEF DeletePolicy
  <2>4. CASE Tick
    <3>1. (now + 1) % Week \in 0..(Week - 1)
      BY WeekLong, ModInRange
    <3> QED
      BY <2>4, <3>1 DEF Tick
  <2>5. CASE UNCHANGED vars
    BY <2>5 DEF vars
  <2> QED
    BY <2>1, <2>2, <2>3, <2>4, <2>5 DEF Next
<1> QED
  BY <1>1, <1>2, PTL DEF Spec

\* The rules one query lists: a prefix of the stored ones, newest first.
LEMMA Prefix ==
    ASSUME NEW p \in Seq(RulePool), NEW s,
           s = SubSeq(p, 1, IF Len(p) < ObjectLimit THEN Len(p) ELSE ObjectLimit)
    PROVE  /\ s \in Seq(RulePool) /\ DOMAIN s = 1..Len(s)
           /\ Len(s) \in Nat /\ Len(s) <= Len(p)
           /\ \A i \in 1..Len(s) : s[i] = p[i]
           /\ Len(p) <= ObjectLimit => Len(s) = Len(p)
BY Bounds

LEMMA RulesListed ==
    ASSUME TypeOK
    PROVE  /\ Rules \in Seq(RulePool) /\ DOMAIN Rules = 1..Len(Rules)
           /\ Len(Rules) \in Nat /\ Len(Rules) <= Len(policies)
           /\ \A i \in 1..Len(Rules) : Rules[i] = policies[i]
           /\ Len(policies) <= ObjectLimit => Len(Rules) = Len(policies)
BY Prefix DEF TypeOK, Rules

\* For every list of policies, every request and every time: the decision is
\* the one the set of the listed policies calls for.
THEOREM EvaluateIsReference == Spec => []EvaluateMeetsReference
<1>1. ASSUME TypeOK PROVE EvaluateMeetsReference
  <2> DEFINE q == request
             R == Rules
             t == now
  <2>1. DOMAIN R = 1..Len(R) /\ Len(R) \in Nat
    BY <1>1, RulesListed
  <2>2. (\A r \in Applicable : ~Refuses(r, q, t))
          <=> \A j \in 1..Len(R) : Matches(R[j], q) => ~Refuses(R[j], q, t)
    BY <2>1 DEF Applicable
  <2>3. (\E r \in Applicable : r.allowAgent)
          <=> \E j \in 1..Len(R) : Matches(R[j], q) /\ R[j].allowAgent
    BY <2>1 DEF Applicable
  <2>4. (\E r \in Applicable : r.approval)
          <=> \E j \in 1..Len(R) : Matches(R[j], q) /\ R[j].approval
    BY <2>1 DEF Applicable
  <2> QED
    BY <2>1, <2>2, <2>3, <2>4, EvaluateSummary DEF EvaluateMeetsReference, Decision
<1> QED
  BY <1>1, PolicyTypes, PTL

\* A mutation the engine lets through without approval is not in production,
\* and an agent's only under automation and a stored policy that allows it.
THEOREM UnattendedIsGuarded == Spec => []UnattendedMutation
<1>1. ASSUME TypeOK PROVE UnattendedMutation
  <2> SUFFICES ASSUME Decision.allowed, ~Decision.approval, ~ReadOnly(request.action)
               PROVE  /\ request.environment # "production"
                      /\ IsAgent(request) =>
                            /\ request.mode = "AUTOMATED_POLICY_CONTROLLED"
                            /\ \E i \in DOMAIN policies :
                                  /\ policies[i].allowAgent
                                  /\ \A f \in DOMAIN policies[i].match :
                                        policies[i].match[f] \in Attributes(request)[f]
    BY DEF UnattendedMutation
  <2>1. Len(Rules) \in Nat /\ Len(Rules) <= Len(policies)
          /\ \A i \in 1..Len(Rules) : Rules[i] = policies[i]
    BY <1>1, RulesListed
  <2>2. /\ BaseAllowed(request) /\ ~BaseApproval(request)
        /\ request.mode = "AUTOMATED_POLICY_CONTROLLED"
              => \E j \in 1..Len(Rules) : Matches(Rules[j], request) /\ Rules[j].allowAgent
    BY <2>1, EvaluateSummary DEF Decision
  <2>3. request.environment # "production" /\ request.mode # "ASSISTED"
    BY <2>2 DEF BaseApproval
  <2>4. request.mode \notin {"DISABLED", "ADVISORY"}
    BY <2>2 DEF BaseAllowed
  <2>5. IsAgent(request) => request.mode = "AUTOMATED_POLICY_CONTROLLED"
    BY <1>1, <2>3, <2>4, PolicyAssumption DEF IsAgent, TypeOK
  <2>6. DOMAIN policies = 1..Len(policies) /\ Len(policies) \in Nat
    BY <1>1 DEF TypeOK
  <2>7. ASSUME IsAgent(request)
        PROVE  \E i \in DOMAIN policies :
                  /\ policies[i].allowAgent
                  /\ \A f \in DOMAIN policies[i].match :
                        policies[i].match[f] \in Attributes(request)[f]
    <3>1. PICK j \in 1..Len(Rules) : Matches(Rules[j], request) /\ Rules[j].allowAgent
      BY <2>2, <2>5, <2>7
    <3>2. j \in DOMAIN policies /\ Rules[j] = policies[j]
      BY <2>1, <2>6
    <3> QED
      BY <3>1, <3>2 DEF Matches
  <2> QED
    BY <2>3, <2>5, <2>7
<1> QED
  BY <1>1, PolicyTypes, PTL

\* Only saveObject with a new id makes the list longer.
LEMMA LongerOnlyByCreate ==
    ASSUME TypeOK, [Next]_vars, Len(policies) < Len(policies')
    PROVE  \E r \in RulePool : CreatePolicy(r)
<1> USE DEF TypeOK
<1>1. ASSUME NEW i \in DOMAIN policies, NEW r \in RulePool, UpdatePolicy(i, r) PROVE FALSE
  BY <1>1 DEF UpdatePolicy
<1>2. ASSUME NEW i \in DOMAIN policies, DeletePolicy(i) PROVE FALSE
  <2>1. Len(policies') = Len(policies) - 1
    BY <1>2, RemoveAtType DEF DeletePolicy
  <2> QED
    BY <2>1
<1>3. CASE Tick
  BY <1>3 DEF Tick
<1>4. CASE UNCHANGED vars
  BY <1>4 DEF vars
<1> QED
  BY <1>1, <1>2, <1>3, <1>4 DEF Next

\* Storing a policy shifts the others by one place and leaves them as they are.
LEMMA CreateShifts ==
    ASSUME TypeOK, NEW r \in RulePool, CreatePolicy(r)
    PROVE  /\ Len(policies') = Len(policies) + 1
           /\ \A j \in 1..Len(policies) : policies'[j + 1] = policies[j]
BY DEF TypeOK, CreatePolicy

\* A new policy never allows a person what was refused and never lifts an
\* approval, as long as one query lists all the policies.
THEOREM PoliciesRestrict == Spec => PoliciesOnlyRestrict
<1> DEFINE A == Len(policies) < Len(policies') /\ Len(policies') <= ObjectLimit
                  /\ ~IsAgent(request) /\ Decision'.allowed
                => Decision.allowed /\ (Decision.approval => Decision'.approval)
<1>1. ASSUME TypeOK, TypeOK', [Next]_vars PROVE A
  <2> SUFFICES ASSUME Len(policies) < Len(policies'), Len(policies') <= ObjectLimit,
                      ~IsAgent(request), Decision'.allowed
               PROVE  Decision.allowed /\ (Decision.approval => Decision'.approval)
    OBVIOUS
  <2>1. PICK r \in RulePool : CreatePolicy(r)
    BY <1>1, LongerOnlyByCreate
  <2>2. request' = request /\ now' = now
    BY <2>1 DEF CreatePolicy
  <2>3. /\ Len(policies) \in Nat /\ Len(policies') = Len(policies) + 1
        /\ \A j \in 1..Len(policies) : policies'[j + 1] = policies[j]
    BY <1>1, <2>1, CreateShifts DEF TypeOK
  <2>4. Len(Rules) = Len(policies) /\ \A j \in 1..Len(Rules) : Rules[j] = policies[j]
    BY <1>1, <2>3, Bounds, RulesListed
  <2>5. Len(Rules') = Len(policies') /\ \A j \in 1..Len(Rules') : Rules'[j] = policies'[j]
    BY <1>1, Prefix DEF TypeOK, Rules
  <2> DEFINE R == Rules
             S == Rules'
             q == request
             t == now
             n == Len(policies)
  <2>6. Len(R) = n /\ Len(S) = n + 1 /\ n \in Nat
    BY <2>3, <2>4, <2>5
  <2>7. ASSUME NEW j \in 1..n PROVE j + 1 \in 1..(n + 1) /\ S[j + 1] = R[j]
    BY <2>3, <2>4, <2>5
  <2>8. Decision = Evaluate(q, R, t)
    BY DEF Decision
  <2>9. Decision' = Evaluate(q, S, t)
    BY <2>2 DEF Decision
  <2> HIDE DEF R, S, n
  <2>10. /\ BaseAllowed(q)
         /\ \A j \in 1..(n + 1) : Matches(S[j], q) => ~Refuses(S[j], q, t)
         /\ Decision'.approval <=> \/ BaseApproval(q)
                                   \/ \E j \in 1..(n + 1) : Matches(S[j], q) /\ S[j].approval
    BY <2>6, <2>9, EvaluateSummary
  <2>11. \A j \in 1..n : Matches(R[j], q) => ~Refuses(R[j], q, t)
    BY <2>7, <2>10
  <2>12. q.mode # "AUTOMATED_POLICY_CONTROLLED"
    BY DEF IsAgent
  <2>13. /\ Decision.allowed
         /\ Decision.approval <=> \/ BaseApproval(q)
                                  \/ \E j \in 1..n : Matches(R[j], q) /\ R[j].approval
    BY <2>6, <2>8, <2>10, <2>11, <2>12, EvaluateSummary
  <2> QED
    BY <2>7, <2>10, <2>13
<1>2. Spec => [][A]_vars
  BY <1>1, PolicyTypes, PTL DEF Spec
<1> QED
  BY <1>2 DEF PoliciesOnlyRestrict

-----------------------------------------------------------------------------
(* Window.Contains. *)

LEMMA ModSmall ==
    ASSUME NEW n \in Nat, n > 0, NEW x \in 0..(n - 1)
    PROVE  x % n = x
OBVIOUS

LEMMA ModNegative ==
    ASSUME NEW n \in Nat, n > 0, NEW x \in Int, -n <= x, x < 0
    PROVE  x % n = x + n
OBVIOUS

LEMMA MinuteOfDay ==
    ASSUME NEW n \in Nat, n > 0, NEW m \in 0..(n - 1), NEW k \in 0..6
    PROVE  (k * n + m) % n = m /\ (k * n + m) \div n = k
<1>1. k = 0 \/ k = 1 \/ k = 2 \/ k = 3 \/ k = 4 \/ k = 5 \/ k = 6
  OBVIOUS
<1>2. CASE k = 0 \/ k = 1
  BY <1>2
<1>3. CASE k = 2
  BY <1>3
<1>4. CASE k = 3
  BY <1>4
<1>5. CASE k = 4
  BY <1>5
<1>6. CASE k = 5
  BY <1>6
<1>7. CASE k = 6
  BY <1>7
<1> QED
  BY <1>1, <1>2, <1>3, <1>4, <1>5, <1>6, <1>7

\* Every minute of the week has a day and a minute of that day.
LEMMA DayAndMinute ==
    ASSUME NEW n \in Nat, n > 0, NEW t \in 0..(7 * n - 1)
    PROVE  \E k \in 0..6, m \in 0..(n - 1) : t = k * n + m /\ t % n = m /\ t \div n = k
<1>1. \E k \in 0..6 : k * n <= t /\ t < k * n + n
  <2>1. CASE t < 2 * n
    <3>1. CASE t < n
      <4>1. 0 * n <= t /\ t < 0 * n + n
        BY <3>1
      <4> QED
        BY <4>1
    <3>2. CASE t >= n
      <4>1. 1 * n <= t /\ t < 1 * n + n
        BY <2>1, <3>2
      <4> QED
        BY <4>1
    <3> QED
      BY <3>1, <3>2
  <2>2. CASE 2 * n <= t /\ t < 3 * n
    BY <2>2
  <2>3. CASE 3 * n <= t /\ t < 4 * n
    BY <2>3
  <2>4. CASE 4 * n <= t /\ t < 5 * n
    BY <2>4
  <2>5. CASE 5 * n <= t /\ t < 6 * n
    BY <2>5
  <2>6. CASE 6 * n <= t /\ t < 7 * n
    BY <2>6
  <2> QED
    BY <2>1, <2>2, <2>3, <2>4, <2>5, <2>6
<1>2. PICK k \in 0..6 : k * n <= t /\ t < k * n + n
  BY <1>1
<1>3. k * n \in Int
  OBVIOUS
<1>4. t - k * n \in 0..(n - 1) /\ t = k * n + (t - k * n)
  BY <1>2, <1>3
<1> QED
  BY <1>4, MinuteOfDay

\* t is minute m of day k.
Minute(t, n, k, m) == t = k * n + m

\* At t, x minutes of a week have passed since minute a of day d.
Since(x, t, n, d, a) == x = (t - d * n - a) % (7 * n)

\* How long that is when t is minute m of day k.
Passed(x, n, k, m, d, a) ==
    /\ k = d /\ m >= a => x = m - a
    /\ k = d /\ m < a => x = 7 * n + m - a
    /\ d = (k + 6) % 7 => x = n + m - a
    /\ k # d /\ d # (k + 6) % 7 => x >= 2 * n + m - a

LEMMA Elapsed ==
    ASSUME NEW n \in Nat, n > 0, NEW k \in 0..6, NEW d \in 0..6, NEW m \in 0..(n - 1),
           NEW a \in 0..(n - 1), NEW t \in Int,
           Minute(t, n, k, m), NEW x, Since(x, t, n, d, a)
    PROVE  Passed(x, n, k, m, d, a)
<1> USE DEF Passed
<1>0. t = k * n + m
  BY DEF Minute
<1> DEFINE y == t - d * n - a
<1>1. 7 * n \in Nat /\ 7 * n > 0 /\ y \in Int /\ x = y % (7 * n)
  BY DEF Since
<1>2. (k + 6) % 7 = IF k = 0 THEN 6 ELSE k - 1
  OBVIOUS
<1>3. ASSUME NEW j \in -6..6, j = k - d PROVE y = j * n + m - a
  BY <1>0, <1>3
<1>4. ASSUME NEW j \in 1..6 PROVE j * n >= n /\ j * n <= 6 * n /\ (j > 1 => j * n >= 2 * n)
  BY <1>4
<1>5. CASE k = d
  <2>1. y = m - a
    BY <1>0, <1>5
  <2>2. CASE m >= a
    BY <1>1, <1>2, <1>5, <2>1, <2>2, ModSmall
  <2>3. CASE m < a
    BY <1>1, <1>2, <1>5, <2>1, <2>3, ModNegative
  <2> QED
    BY <2>2, <2>3
<1>6. CASE k > d
  <2> DEFINE j == k - d
  <2>1. j \in 1..6 /\ y = j * n + m - a
    BY <1>3, <1>6
  <2>2. j * n \in Int /\ j * n >= n /\ j * n <= 6 * n /\ (j > 1 => j * n >= 2 * n)
    BY <1>4, <2>1
  <2>3. y \in 0..(7 * n - 1)
    BY <2>1, <2>2
  <2>4. y % (7 * n) = y
    BY <1>1, <2>3, ModSmall
  <2>5. d = (k + 6) % 7 <=> j = 1
    BY <1>2, <1>6
  <2>6. j = 1 => j * n = n
    OBVIOUS
  <2> QED
    BY <1>1, <1>6, <2>1, <2>2, <2>4, <2>5, <2>6
<1>7. CASE k < d
  <2> DEFINE j == k - d + 7
  <2>1. j \in 1..6 /\ y + 7 * n = j * n + m - a
    BY <1>3, <1>7
  <2>2. j * n \in Int /\ j * n >= n /\ j * n <= 6 * n /\ (j > 1 => j * n >= 2 * n)
    BY <1>4, <2>1
  <2>3. -(7 * n) <= y /\ y < 0
    BY <2>1, <2>2
  <2>4. y % (7 * n) = y + 7 * n
    BY <1>1, <2>3, ModNegative
  <2>5. d = (k + 6) % 7 <=> j = 1
    BY <1>2, <1>7
  <2>6. j = 1 => j * n = n
    OBVIOUS
  <2> QED
    BY <1>1, <1>7, <2>1, <2>2, <2>4, <2>5, <2>6
<1> QED
  BY <1>5, <1>6, <1>7

\* Window.Contains for every length of the day: what it finds from today and
\* yesterday is the interval the window describes, across midnight and from
\* Saturday into Sunday.
THEOREM WindowIsReference == Spec => []WindowMeetsReference
<1>1. ASSUME TypeOK PROVE WindowMeetsReference
  <2> DEFINE n == DayLength
  <2> SUFFICES ASSUME NEW d \in 0..6, NEW a \in 0..(n - 1), NEW b \in 0..(n - 1), NEW w,
                      w = [days |-> {d}, start |-> a, end |-> b]
               PROVE  WindowContains(w, now) <=> OpenDuring(w, now)
    BY DEF WindowMeetsReference
  <2>1. n \in Nat /\ n > 0 /\ now \in 0..(7 * n - 1)
    BY <1>1, Bounds DEF TypeOK, Week
  <2>2. PICK k \in 0..6, m \in 0..(n - 1) : now = k * n + m /\ now % n = m /\ now \div n = k
    BY <2>1, DayAndMinute
  <2> DEFINE x == (now - d * n - a) % (7 * n)
             l == (b - a) % n
  <2>3. OpenDuring(w, now) <=> x < l
    <3>1. w.days = {d} /\ w.start = a /\ w.end = b
      OBVIOUS
    <3>2. OpenDuring(w, now) <=> (now - d * n - a) % (7 * n) < (b - a) % n
      BY <3>1 DEF OpenDuring, Week
    <3> QED
      BY <3>2
  <2>4. WindowContains(w, now) <=>
          /\ (IF a > b /\ m < b THEN (k + 6) % 7 ELSE k) = d
          /\ IF a > b THEN m >= a \/ m < b ELSE m >= a /\ m < b
    BY <2>2 DEF WindowContains, StartDay
  <2>5. l = IF a > b THEN n + b - a ELSE b - a
    BY <2>1, ModSmall, ModNegative
  <2>6. /\ k = d /\ m >= a => x = m - a
        /\ k = d /\ m < a => x = 7 * n + m - a
        /\ d = (k + 6) % 7 => x = n + m - a
        /\ k # d /\ d # (k + 6) % 7 => x >= 2 * n + m - a
    <3>1. now \in Int /\ Minute(now, n, k, m)
      BY <2>1, <2>2 DEF Minute
    <3>2. Since(x, now, n, d, a)
      BY DEF Since
    <3> HIDE DEF n, x
    <3>3. Passed(x, n, k, m, d, a)
      BY <2>1, <3>1, <3>2, Elapsed
    <3> QED
      BY <3>3 DEF Passed
  <2>7. x \in Int /\ (k + 6) % 7 # k
    BY <2>1
  <2> HIDE DEF x, l, n
  <2>8. CASE a > b
    BY <2>1, <2>3, <2>4, <2>5, <2>6, <2>7, <2>8
  <2>9. CASE a <= b
    BY <2>1, <2>3, <2>4, <2>5, <2>6, <2>7, <2>9
  <2> QED
    BY <2>8, <2>9
<1> QED
  BY <1>1, PolicyTypes, PTL
=============================================================================
