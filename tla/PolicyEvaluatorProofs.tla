------------------------ MODULE PolicyEvaluatorProofs ------------------------
(***************************************************************************)
(* What the evaluator decides, for any list of policies: the precedence of *)
(* effects and ranks as a fact about evaluate, and that the order of the   *)
(* list is irrelevant.                                                     *)
(***************************************************************************)
EXTENDS PolicyEvaluator, FiniteSetTheorems, FunctionTheorems, WellFoundedInduction, TLAPS

-----------------------------------------------------------------------------
(* The sort key.                                                           *)

\* Of two policies one at most outranks the other.
LEMMA OutranksStrict ==
  ASSUME NEW p \in Policy, NEW q \in Policy, Outranks(p, q)
  PROVE  ~Outranks(q, p)
<1>1. /\ p.priority \in Nat /\ q.priority \in Nat
      /\ p.policy_version \in Nat /\ q.policy_version \in Nat
      /\ p.policy_id \in Nat /\ q.policy_id \in Nat
      /\ p.exact \in BOOLEAN /\ q.exact \in BOOLEAN
  BY DEF Policy
<1>2. QED
  BY <1>1 DEF Outranks, Score

\* What outranks something outranks, or is outranked by, anything else.
LEMMA OutranksCompares ==
  ASSUME NEW p \in Policy, NEW q \in Policy, NEW r \in Policy, Outranks(p, q)
  PROVE  Outranks(p, r) \/ Outranks(r, q)
<1>1. /\ p.priority \in Nat /\ q.priority \in Nat /\ r.priority \in Nat
      /\ p.policy_version \in Nat /\ q.policy_version \in Nat /\ r.policy_version \in Nat
      /\ p.policy_id \in Nat /\ q.policy_id \in Nat /\ r.policy_id \in Nat
      /\ p.exact \in BOOLEAN /\ q.exact \in BOOLEAN /\ r.exact \in BOOLEAN
  BY DEF Policy
<1>2. /\ Score(p) \in Nat /\ Score(q) \in Nat /\ Score(r) \in Nat
      /\ (p.exact = q.exact) <=> (Score(p) = Score(q))
      /\ (p.exact = r.exact) <=> (Score(p) = Score(r))
      /\ (r.exact = q.exact) <=> (Score(r) = Score(q))
  BY <1>1 DEF Score
<1>3. QED
  BY <1>1, <1>2 DEF Outranks

\* Two policies with different keys are ordered.
LEMMA OutranksTotal ==
  ASSUME NEW p \in Policy, NEW q \in Policy, ~SameKey(p, q)
  PROVE  Outranks(p, q) \/ Outranks(q, p)
<1>1. /\ p.priority \in Nat /\ q.priority \in Nat
      /\ p.policy_version \in Nat /\ q.policy_version \in Nat
      /\ p.policy_id \in Nat /\ q.policy_id \in Nat
      /\ p.exact \in BOOLEAN /\ q.exact \in BOOLEAN
  BY DEF Policy
<1>2. QED
  BY <1>1 DEF Outranks, Score, SameKey

-----------------------------------------------------------------------------
(* The best policy of a list.                                              *)

\* A finite list of policies.
Listing(policies) ==
    /\ IsFiniteSet(DOMAIN policies) /\ DOMAIN policies \subseteq Nat
    /\ \A i \in DOMAIN policies : policies[i] \in Policy

\* The place of the best policy.
IsBestOf(policies, M, i) ==
    \A j \in M : /\ ~Outranks(policies[j], policies[i])
                 /\ j < i => Outranks(policies[i], policies[j])

\* The best at some places, or the policy at one more place, is the best of all.
LEMMA BestOfMore ==
  ASSUME NEW policies, Listing(policies), NEW M \in SUBSET DOMAIN policies,
         NEW x \in M, NEW b \in M, b # x, IsBestOf(policies, M \ {x}, b)
  PROVE  \E i \in M : IsBestOf(policies, M, i)
<1> USE DEF Listing
<1>1. CASE \/ Outranks(policies[b], policies[x])
           \/ b < x /\ ~Outranks(policies[x], policies[b])
  <2>1. ~Outranks(policies[x], policies[b])
    BY <1>1, OutranksStrict
  <2>2. x < b => Outranks(policies[b], policies[x])
    BY <1>1
  <2>3. IsBestOf(policies, M, b)
    BY <2>1, <2>2 DEF IsBestOf
  <2>4. QED
    BY <2>3
<1>2. CASE \/ Outranks(policies[x], policies[b])
           \/ x < b /\ ~Outranks(policies[b], policies[x])
  <2>1. ~Outranks(policies[b], policies[x])
    BY <1>2, OutranksStrict
  <2>2. ASSUME NEW j \in M, j # x PROVE ~Outranks(policies[j], policies[x])
    BY <2>1, <2>2, OutranksCompares DEF IsBestOf
  <2>3. ASSUME NEW j \in M, j < x PROVE Outranks(policies[x], policies[j])
    <3>1. j # x /\ j \in M \ {x} /\ x \in Nat /\ b \in Nat /\ j \in Nat
      BY <2>3
    <3>2. CASE Outranks(policies[x], policies[b])
      BY <3>1, <3>2, OutranksCompares DEF IsBestOf
    <3>3. CASE x < b
      <4>1. Outranks(policies[b], policies[j])
        BY <2>3, <3>1, <3>3 DEF IsBestOf
      <4>2. QED
        BY <2>1, <4>1, OutranksCompares
    <3>4. QED
      BY <1>2, <3>2, <3>3
  <2>4. IsBestOf(policies, M, x)
    BY <2>2, <2>3, OutranksStrict DEF IsBestOf
  <2>5. QED
    BY <2>4
<1>3. QED
  BY <1>1, <1>2

\* Among sets of places one is smallest.
LEMMA SmallestSet ==
  ASSUME NEW M, IsFiniteSet(M), NEW T \in SUBSET SUBSET M, T # {}
  PROVE  \E J \in T : \A K \in T : K \subseteq J => K = J
<1>1. IsWellFoundedOn(StrictSubsetOrdering(M), SUBSET M)
  BY FS_StrictSubsetOrderingWellFounded, FS_FiniteSubsetsOfFinite
<1>2. \E J \in T : \A K \in T : <<K, J>> \notin StrictSubsetOrdering(M)
  BY <1>1, WFMin
<1>3. QED
  BY <1>2 DEF StrictSubsetOrdering

\* Every list that is not empty has a best policy.
LEMMA BestExists ==
  ASSUME NEW policies, Listing(policies), NEW M \in SUBSET DOMAIN policies, M # {}
  PROVE  \E i \in M : IsBestOf(policies, M, i)
<1> DEFINE Bad == {J \in SUBSET M : J # {} /\ \A i \in J : ~IsBestOf(policies, J, i)}
<1>1. IsFiniteSet(M)
  BY FS_Subset DEF Listing
<1>2. Bad \in SUBSET SUBSET M
  OBVIOUS
<1>3. ASSUME Bad # {} PROVE FALSE
  <2>1. PICK J \in Bad : \A K \in Bad : K \subseteq J => K = J
    <3> HIDE DEF Bad
    <3>1. QED
      BY <1>1, <1>2, <1>3, SmallestSet
  <2>2. PICK x \in J : TRUE
    BY <2>1
  <2>3. J \ {x} \notin Bad
    BY <2>1, <2>2
  <2>4. CASE J \ {x} = {}
    <3>1. J = {x} /\ x \in DOMAIN policies
      BY <2>1, <2>2, <2>4
    <3>2. IsBestOf(policies, J, x)
      BY <3>1, OutranksStrict DEF IsBestOf, Listing
    <3>3. QED
      BY <2>1, <2>2, <3>2
  <2>5. CASE J \ {x} # {}
    <3>1. PICK b \in J \ {x} : IsBestOf(policies, J \ {x}, b)
      BY <2>1, <2>3, <2>5
    <3>2. J \in SUBSET DOMAIN policies
      BY <2>1
    <3>3. \E i \in J : IsBestOf(policies, J, i)
      BY <2>2, <3>1, <3>2, BestOfMore
    <3>4. QED
      BY <2>1, <3>3
  <2>6. QED
    BY <2>4, <2>5
<1>4. QED
  BY <1>3

\* Best is a policy of the list that none of the list outranks.
LEMMA BestIsBest ==
  ASSUME NEW policies, Listing(policies), NEW M \in SUBSET DOMAIN policies, M # {}
  PROVE  \E i \in M : /\ Best(policies, M) = policies[i]
                      /\ \A j \in M : ~Outranks(policies[j], policies[i])
<1> DEFINE b == CHOOSE i \in M : IsBestOf(policies, M, i)
<1>1. b \in M /\ IsBestOf(policies, M, b)
  BY BestExists
<1>2. Best(policies, M) = policies[b]
  BY DEF Best, IsBestOf
<1>3. QED
  BY <1>1, <1>2 DEF IsBestOf

-----------------------------------------------------------------------------
(* The decision.                                                           *)

\* The policies of a list that apply.
Matching(policies, envelope, now) ==
    {policies[i] : i \in _collect_matches(policies, envelope, now)}

\* The places with an effect.
WithEffect(policies, M, effect) == {i \in M : policies[i].effect = effect}

\* p is one of A with the effect, and the first in rank of these.
Named(p, A, effect) ==
    /\ p \in A /\ p.effect = effect
    /\ \A q \in A : q.effect = effect =>
         \/ p.priority > q.priority
         \/ p.priority = q.priority /\ (p.exact \/ ~q.exact)

\* The policy named is the first in rank of those with its effect.
LEMMA NamedIsFirst ==
  ASSUME NEW policies, Listing(policies), NEW M \in SUBSET DOMAIN policies,
         NEW effect, WithEffect(policies, M, effect) # {}
  PROVE  Named(Best(policies, WithEffect(policies, M, effect)), {policies[i] : i \in M}, effect)
<1> DEFINE W == WithEffect(policies, M, effect)
<1> USE DEF WithEffect
<1>1. PICK b \in W : /\ Best(policies, W) = policies[b]
                     /\ \A j \in W : ~Outranks(policies[j], policies[b])
  BY BestIsBest
<1>2. ASSUME NEW i \in W
      PROVE  \/ policies[b].priority > policies[i].priority
             \/ /\ policies[b].priority = policies[i].priority
                /\ policies[b].exact \/ ~policies[i].exact
  <2>1. policies[b] \in Policy /\ policies[i] \in Policy
    BY <1>1 DEF Listing
  <2>2. /\ policies[b].priority \in Nat /\ policies[i].priority \in Nat
        /\ policies[b].exact \in BOOLEAN /\ policies[i].exact \in BOOLEAN
    BY <2>1 DEF Policy
  <2>3. ~Outranks(policies[i], policies[b])
    BY <1>1
  <2>4. QED
    BY <2>2, <2>3 DEF Outranks, Score
<1>3. QED
  BY <1>1, <1>2 DEF Named

\* A policy with one obligation asks for one selection.
LEMMA OneSelection ==
  ASSUME NEW p \in Policy, Selectable(p)
  PROVE  \E o \in Selections : ToSet(p.obligations) = {o}
<1>1. p.obligations \in Seq(Selections) /\ Len(p.obligations) = 1
  BY DEF Policy, Selectable
<1>2. ToSet(p.obligations) = {p.obligations[1]} /\ p.obligations[1] \in Selections
  BY <1>1 DEF ToSet
<1>3. QED
  BY <1>2

\* The decision over any list of policies follows the precedence among those that
\* apply (deterministic_evaluator.py:9-12, and the conflict of obligations of
\* line 13; not the one of versions, which the code does not look for).
THEOREM EvaluateFollowsPrecedence ==
  ASSUME NEW policies, Listing(policies), NEW envelope, NEW now
  PROVE  FollowsPrecedence(evaluate(policies, envelope, now), Matching(policies, envelope, now))
<1> DEFINE M == _collect_matches(policies, envelope, now)
           A == Matching(policies, envelope, now)
           D == evaluate(policies, envelope, now)
           With(effect) == WithEffect(policies, M, effect)
           asked == UNION {ToSet(p.obligations) : p \in A}
<1>1. M \in SUBSET DOMAIN policies /\ A = {policies[i] : i \in M}
  BY DEF _collect_matches, Matching
<1>2. \A i \in M : policies[i] \in Policy /\ policies[i].effect \in {"BLOCK", "HITL", "PASS"}
  BY <1>1 DEF Listing, Policy
<1>3. CASE M = {}
  <2>1. D.by = {} /\ D.action = "BLOCK" /\ A = {}
    BY <1>1, <1>3 DEF evaluate, Refusal
  <2>2. QED
    BY <2>1 DEF FollowsPrecedence
<1>4. CASE With("BLOCK") # {}
  <2> DEFINE best == Best(policies, With("BLOCK"))
  <2>1. D.by = {best} /\ D.action = "BLOCK"
    BY <1>4 DEF evaluate, _resolve, _decision_for, WithEffect
  <2>2. Named(best, A, "BLOCK")
    BY <1>1, <1>4, NamedIsFirst
  <2>3. \E p \in A : p.effect = "BLOCK"
    BY <2>2 DEF Named
  <2>4. QED
    BY <2>1, <2>2, <2>3 DEF FollowsPrecedence, Named
<1>5. CASE With("BLOCK") = {} /\ With("HITL") # {}
  <2> DEFINE best == Best(policies, With("HITL"))
  <2>1. D.by = {best} /\ D.action = "HITL"
    BY <1>5 DEF evaluate, _resolve, _decision_for, WithEffect
  <2>2. Named(best, A, "HITL")
    BY <1>1, <1>5, NamedIsFirst
  <2>3. \E p \in A : p.effect = "HITL"
    BY <2>2 DEF Named
  <2>4. ~\E p \in A : p.effect = "BLOCK"
    BY <1>1, <1>5 DEF WithEffect
  <2>5. QED
    BY <2>1, <2>2, <2>3, <2>4 DEF FollowsPrecedence, Named
<1>6. CASE M # {} /\ With("BLOCK") = {} /\ With("HITL") = {}
  <2> DEFINE best == Best(policies, With("PASS"))
  <2>1. With("PASS") = M
    BY <1>2, <1>6 DEF WithEffect
  <2>2. Named(best, A, "PASS")
    BY <1>1, <1>6, <2>1, NamedIsFirst
  <2>3. best \in A /\ best \in Policy /\ \A p \in A : p.effect = "PASS"
    BY <1>1, <1>2, <2>1, <2>2 DEF Named, WithEffect
  <2>4. asked \subseteq Selections /\ ToSet(best.obligations) \subseteq asked
    <3>1. \A p \in A : p.obligations \in Seq(Selections)
      BY <1>1, <1>2 DEF Policy
    <3>2. QED
      BY <2>3, <3>1 DEF ToSet
  <2>5. asked = UNION {ToSet(policies[i].obligations) : i \in With("PASS")}
    BY <1>1, <2>1
  <2>6. /\ D.by = {best} /\ D.action \in {"PASS", "BLOCK"}
        /\ D.action = "PASS" <=> asked # Selections /\ Selectable(best)
        /\ D.action = "PASS" => D.obligations = best.obligations
    BY <1>6, <2>4, <2>5
       DEF evaluate, _resolve, _decision_for, Refusal, _detect_conflicts, WithEffect
  <2>7. asked # Selections /\ Selectable(best) => ToSet(best.obligations) = asked
    BY <2>3, <2>4, OneSelection DEF Selections
  <2>8. QED
    BY <2>2, <2>3, <2>6, <2>7 DEF FollowsPrecedence, Named, Selectable
<1>7. QED
  BY <1>3, <1>4, <1>5, <1>6

-----------------------------------------------------------------------------
(* The order of the list.                                                  *)

\* before has, for each place of M, the places that precede it in a total order.
Orders(before, M) ==
    /\ before \in [M -> SUBSET M]
    /\ \A i \in M : i \notin before[i]
    /\ \A i, j \in M : i \in before[j] => before[i] \subseteq before[j]
    /\ \A i, j \in M : i # j => i \in before[j] \/ j \in before[i]

\* In a total order each rank has one place.
LEMMA RankOnto ==
  ASSUME NEW M, IsFiniteSet(M), NEW before, Orders(before, M)
  PROVE  /\ \A i, j \in M : Cardinality(before[i]) = Cardinality(before[j]) => i = j
         /\ \A k \in 1..Cardinality(M) : \E i \in M : Cardinality(before[i]) = k - 1
         /\ \A i \in M : Cardinality(before[i]) + 1 \in 1..Cardinality(M)
<1> USE DEF Orders
<1>1. ASSUME NEW i \in M
      PROVE  IsFiniteSet(before[i]) /\ Cardinality(before[i]) \in Nat
  BY FS_Subset, FS_CardinalityType
<1>2. ASSUME NEW i \in M, NEW j \in M, i \in before[j]
      PROVE  Cardinality(before[i]) < Cardinality(before[j])
  <2>1. before[i] \in SUBSET before[j] /\ before[i] # before[j]
    BY <1>2
  <2>2. Cardinality(before[i]) <= Cardinality(before[j])
        /\ Cardinality(before[i]) # Cardinality(before[j])
    BY <1>1, <2>1, FS_Subset
  <2>3. QED
    BY <1>1, <2>2
<1>3. ASSUME NEW i \in M, NEW j \in M, Cardinality(before[i]) = Cardinality(before[j])
      PROVE  i = j
  BY <1>1, <1>2, <1>3
<1>4. ASSUME NEW i \in M PROVE Cardinality(before[i]) + 1 \in 1..Cardinality(M)
  <2>1. before[i] \in SUBSET M /\ before[i] # M
    BY <1>4
  <2>2. Cardinality(before[i]) <= Cardinality(M) /\ Cardinality(before[i]) # Cardinality(M)
    BY <2>1, FS_Subset
  <2>3. Cardinality(M) \in Nat
    BY FS_CardinalityType
  <2>4. QED
    BY <1>1, <2>2, <2>3
<1> DEFINE f == [i \in M |-> Cardinality(before[i]) + 1]
           N == 1..Cardinality(M)
<1>5. f \in Injection(M, N)
  <2>1. f \in [M -> N]
    BY <1>4
  <2>2. \A i, j \in M : f[i] = f[j] => i = j
    BY <1>1, <1>3
  <2>3. QED
    BY <2>1, <2>2 DEF Injection, IsInjective
<1>6. IsFiniteSet(N) /\ Cardinality(N) = Cardinality(M)
  BY FS_CardinalityType, FS_Interval
<1>7. f \in Surjection(M, N)
  BY <1>5, <1>6, FS_Injection
<1>8. ASSUME NEW k \in N PROVE \E i \in M : Cardinality(before[i]) = k - 1
  <2>1. PICK i \in M : f[i] = k
    BY <1>7 DEF Surjection
  <2>2. QED
    BY <1>1, <2>1
<1>9. QED
  BY <1>3, <1>4, <1>8

\* What is arranged by a total order is what was there, each at its rank.
LEMMA ArrangedIs ==
  ASSUME NEW policies, NEW M, IsFiniteSet(M), NEW before, Orders(before, M)
  PROVE  /\ \A k \in 1..Cardinality(M) : \E i \in M :
              Arranged(policies, M, before)[k] = policies[i] /\ Cardinality(before[i]) = k - 1
         /\ ToSet(Arranged(policies, M, before)) = {policies[i] : i \in M}
<1> DEFINE L == Arranged(policies, M, before)
<1>1. DOMAIN L = 1..Cardinality(M)
  BY DEF Arranged
<1>2. ASSUME NEW k \in 1..Cardinality(M)
      PROVE  \E i \in M : L[k] = policies[i] /\ Cardinality(before[i]) = k - 1
  <2>1. \E i \in M : Cardinality(before[i]) = k - 1
    BY RankOnto
  <2>2. QED
    BY <2>1 DEF Arranged
<1>3. ASSUME NEW i \in M PROVE \E k \in 1..Cardinality(M) : L[k] = policies[i]
  <2>1. PICK k \in 1..Cardinality(M) : k = Cardinality(before[i]) + 1
    BY RankOnto
  <2>2. PICK j \in M : L[k] = policies[j] /\ Cardinality(before[j]) = k - 1
    BY <1>2
  <2>3. Cardinality(before[i]) = k - 1
    <3>1. IsFiniteSet(before[i])
      BY FS_Subset DEF Orders
    <3>2. Cardinality(before[i]) \in Nat
      BY <3>1, FS_CardinalityType
    <3>3. QED
      BY <2>1, <3>2
  <2>4. i = j
    BY <2>2, <2>3, RankOnto
  <2>5. QED
    BY <2>2, <2>4
<1>4. ToSet(L) = {policies[i] : i \in M}
  <2> HIDE DEF L
  <2>1. ToSet(L) = {L[k] : k \in 1..Cardinality(M)}
    BY <1>1 DEF ToSet
  <2>2. QED
    BY <1>2, <1>3, <2>1
<1>5. QED
  BY <1>2, <1>4

\* A list in the order of its places has its policies and no other.
LEMMA ListedInOrder ==
  ASSUME NEW policies, Listing(policies), NEW M \in SUBSET DOMAIN policies
  PROVE  ToSet(InListOrder(policies, M)) = {policies[i] : i \in M}
<1> DEFINE before == [i \in M |-> {j \in M : j < i}]
<1>1. IsFiniteSet(M) /\ M \subseteq Nat
  BY FS_Subset DEF Listing
<1>2. Orders(before, M)
  BY <1>1 DEF Orders
<1>3. InListOrder(policies, M) = Arranged(policies, M, before)
  BY DEF InListOrder
<1>4. QED
  <2> HIDE DEF before
  <2>1. QED
    BY <1>1, <1>2, <1>3, ArrangedIs

\* The keys of a list differ.
Keyed(policies) ==
    \A i, j \in DOMAIN policies : SameKey(policies[i], policies[j]) => i = j

\* As many places as policies.
LEMMA PlacesAndPolicies ==
  ASSUME NEW policies, Listing(policies), Keyed(policies), NEW M \in SUBSET DOMAIN policies
  PROVE  Cardinality({policies[i] : i \in M}) = Cardinality(M)
<1> DEFINE A == {policies[i] : i \in M}
           f == [i \in M |-> policies[i]]
<1>1. IsFiniteSet(M)
  BY FS_Subset DEF Listing
<1>2. f \in [M -> A] /\ \A t \in A : \E i \in M : f[i] = t
  OBVIOUS
<1>3. \A i, j \in M : f[i] = f[j] => i = j
  BY DEF Keyed, SameKey
<1>4. f \in Bijection(M, A)
  <2> HIDE DEF f, A
  <2>1. QED
    BY <1>2, <1>3, Fun_IsBij
<1>5. QED
  BY <1>1, <1>4, FS_Bijection, Fun_ExistsBij

\* The policies of a set that outrank one.
Above(A, p) == {q \in A : Outranks(q, p)}

\* R has each policy of A after as many as outrank it, each alone in its rank.
IsRanking(R, A) ==
    /\ R = [k \in 1..Cardinality(A) |-> R[k]]
    /\ \A k \in 1..Cardinality(A) : R[k] \in A /\ Cardinality(Above(A, R[k])) = k - 1
    /\ \A p, q \in A : Cardinality(Above(A, p)) = Cardinality(Above(A, q)) => p = q

\* sorted(reverse=True) puts each policy after as many as outrank it, and it is
\* the only one of that rank: the list it came from does not matter.
LEMMA RankedIs ==
  ASSUME NEW policies, Listing(policies), Keyed(policies), NEW M \in SUBSET DOMAIN policies
  PROVE  IsRanking(InRankOrder(policies, M), {policies[i] : i \in M})
<1>0. PICK A : A = {policies[i] : i \in M}
  OBVIOUS
<1> DEFINE before == [i \in M |-> {j \in M : Precedes(policies[j], j, policies[i], i)}]
<1>1. IsFiniteSet(M) /\ M \subseteq Nat /\ \A i \in M : policies[i] \in Policy
  BY FS_Subset DEF Listing
<1>2. ASSUME NEW i \in M, NEW j \in M
      PROVE  Precedes(policies[j], j, policies[i], i) <=> Outranks(policies[j], policies[i])
  <2>1. CASE i = j
    BY <1>1, <2>1 DEF Precedes
  <2>2. CASE i # j
    <3>1. ~SameKey(policies[j], policies[i])
      BY <2>2 DEF Keyed
    <3>2. QED
      BY <1>1, <3>1, OutranksTotal DEF Precedes
  <2>3. QED
    BY <2>1, <2>2
<1>3. \A i \in M : before[i] = {j \in M : Outranks(policies[j], policies[i])}
  BY <1>2
<1>4. Orders(before, M)
  <2>1. before \in [M -> SUBSET M]
    OBVIOUS
  <2>2. \A i \in M : i \notin before[i]
    BY <1>1, <1>3, OutranksStrict
  <2>3. \A i, j \in M : i # j => i \in before[j] \/ j \in before[i]
    BY <1>1, <1>3, OutranksTotal DEF Keyed
  <2>4. ASSUME NEW i \in M, NEW j \in M, i \in before[j], NEW k \in before[i]
        PROVE  k \in before[j]
    <3>1. /\ policies[i] \in Policy /\ policies[j] \in Policy /\ policies[k] \in Policy
          /\ Outranks(policies[i], policies[j]) /\ Outranks(policies[k], policies[i]) /\ k \in M
      BY <1>1, <1>3, <2>4
    <3>2. Outranks(policies[k], policies[j])
      BY <3>1, OutranksCompares, OutranksStrict
    <3>3. QED
      BY <1>3, <3>1, <3>2
  <2>5. QED
    BY <2>1, <2>2, <2>3, <2>4 DEF Orders
<1>5. ASSUME NEW i \in M PROVE Cardinality(before[i]) = Cardinality(Above(A, policies[i]))
  <2>1. before[i] \in SUBSET DOMAIN policies
    BY <1>3
  <2>2. Above(A, policies[i]) = {policies[j] : j \in before[i]}
    BY <1>0, <1>3 DEF Above
  <2>3. QED
    BY <2>1, <2>2, PlacesAndPolicies
<1>6. Cardinality(A) = Cardinality(M)
  BY <1>0, PlacesAndPolicies
<1>7. InRankOrder(policies, M) = Arranged(policies, M, before)
  BY DEF InRankOrder
<1> HIDE DEF before
<1>8. InRankOrder(policies, M) = [k \in 1..Cardinality(A) |-> InRankOrder(policies, M)[k]]
  BY <1>6, <1>7 DEF Arranged
<1>9. ASSUME NEW k \in 1..Cardinality(A)
      PROVE  /\ InRankOrder(policies, M)[k] \in A
             /\ Cardinality(Above(A, InRankOrder(policies, M)[k])) = k - 1
  <2>1. PICK i \in M : /\ Arranged(policies, M, before)[k] = policies[i]
                       /\ Cardinality(before[i]) = k - 1
    BY <1>1, <1>4, <1>6, ArrangedIs
  <2>2. QED
    BY <1>0, <1>5, <1>7, <2>1
<1>10. ASSUME NEW p \in A, NEW q \in A, Cardinality(Above(A, p)) = Cardinality(Above(A, q))
       PROVE  p = q
  <2>1. PICK i \in M, j \in M : p = policies[i] /\ q = policies[j]
    BY <1>0
  <2>2. Cardinality(before[i]) = Cardinality(before[j])
    BY <1>5, <1>10, <2>1
  <2>3. i = j
    BY <1>1, <1>4, <2>2, RankOnto
  <2>4. QED
    BY <2>1, <2>3
<1>11. QED
  BY <1>0, <1>8, <1>9, <1>10 DEF IsRanking

\* The places M of one list and N of another have the same policies.
SamePolicies(policies, M, others, N) ==
    /\ M \in SUBSET DOMAIN policies /\ N \in SUBSET DOMAIN others
    /\ {policies[i] : i \in M} = {others[i] : i \in N}

\* The best policy does not depend on the list.
LEMMA SameBest ==
  ASSUME NEW policies, Listing(policies), Keyed(policies), NEW M,
         NEW others, Listing(others), NEW N, SamePolicies(policies, M, others, N), M # {}
  PROVE  Best(policies, M) = Best(others, N)
<1> USE DEF SamePolicies
<1>1. PICK i \in M : Best(policies, M) = policies[i] /\ \A j \in M : ~Outranks(policies[j], policies[i])
  BY BestIsBest
<1>2. PICK n \in N : Best(others, N) = others[n] /\ \A j \in N : ~Outranks(others[j], others[n])
  BY BestIsBest
<1>3. PICK j \in M : policies[j] = others[n]
  BY <1>2
<1>4. ~Outranks(policies[i], policies[j])
  BY <1>2, <1>3
<1>5. policies[i] \in Policy /\ policies[j] \in Policy
  BY <1>1, <1>3 DEF Listing
<1>6. SameKey(policies[i], policies[j])
  BY <1>1, <1>4, <1>5, OutranksTotal
<1>7. QED
  BY <1>1, <1>2, <1>3, <1>6 DEF Keyed

\* Nor does the explanation of a PASS, or the set of that of a refusal.
LEMMA SameExplanation ==
  ASSUME NEW policies, Listing(policies), Keyed(policies), NEW M,
         NEW others, Listing(others), Keyed(others), NEW N, SamePolicies(policies, M, others, N)
  PROVE  /\ InRankOrder(policies, M) = InRankOrder(others, N)
         /\ ToSet(InListOrder(policies, M)) = ToSet(InListOrder(others, N))
<1> USE DEF SamePolicies
<1>1. PICK A : A = {policies[i] : i \in M} /\ A = {others[i] : i \in N}
  OBVIOUS
<1> DEFINE R == InRankOrder(policies, M)
           S == InRankOrder(others, N)
<1>2. IsRanking(R, A) /\ IsRanking(S, A)
  BY <1>1, RankedIs
<1>3. ASSUME NEW k \in 1..Cardinality(A) PROVE R[k] = S[k]
  <2> HIDE DEF R, S
  <2>1. QED
    BY <1>2 DEF IsRanking
<1>4. R = S
  <2> HIDE DEF R, S
  <2>1. QED
    BY <1>2, <1>3 DEF IsRanking
<1>5. QED
  BY <1>4, ListedInOrder

\* Decisions that differ in the order of the explanation of a refusal.
LEMMA SameRuling ==
  ASSUME NEW list, NEW other, ToSet(list) = ToSet(other), NEW best, NEW action, NEW reason,
         action # "PASS"
  PROVE  Ruling(_decision_for(best, list, action, reason))
           = Ruling(_decision_for(best, other, action, reason))
<1>1. Ruling(_decision_for(best, list, action, reason))
        = [action |-> action, reason |-> reason, by |-> {best}, matched |-> ToSet(list),
           obligations |-> best.obligations]
  BY DEF Ruling, _decision_for
<1>2. Ruling(_decision_for(best, other, action, reason))
        = [action |-> action, reason |-> reason, by |-> {best}, matched |-> ToSet(list),
           obligations |-> best.obligations]
  BY DEF Ruling, _decision_for
<1>3. QED
  BY <1>1, <1>2

LEMMA SameRefusal ==
  ASSUME NEW list, NEW other, ToSet(list) = ToSet(other), NEW by, NEW reason
  PROVE  Ruling(Refusal(reason, by, list)) = Ruling(Refusal(reason, by, other))
BY DEF Ruling, Refusal

\* The four ways to decide when some policy applies.
LEMMA WaysToDecide ==
  ASSUME NEW policies, NEW envelope, NEW now
  PROVE  LET M == _collect_matches(policies, envelope, now)
             D == evaluate(policies, envelope, now)
             With(effect) == WithEffect(policies, M, effect)
             best == Best(policies, With("PASS"))
             unclear == _detect_conflicts(policies, With("PASS")) \/ ~Selectable(best)
         IN  M # {} =>
               /\ With("BLOCK") # {} =>
                    D = _decision_for(Best(policies, With("BLOCK")),
                          InListOrder(policies, With("BLOCK")), "BLOCK", "INSUFFICIENT_AUTHORIZATION")
               /\ With("BLOCK") = {} /\ With("HITL") # {} =>
                    D = _decision_for(Best(policies, With("HITL")),
                          InListOrder(policies, With("HITL")), "HITL", "HUMAN_APPROVAL_REQUIRED")
               /\ With("BLOCK") = {} /\ With("HITL") = {} /\ unclear =>
                    D = Refusal("POLICY_CONFLICT", {best}, InListOrder(policies, M))
               /\ With("BLOCK") = {} /\ With("HITL") = {} /\ ~unclear =>
                    D = _decision_for(best, InRankOrder(policies, With("PASS")), "PASS", "ALLOWED")
BY DEF evaluate, _resolve, WithEffect

\* The order of the list changes no decision, but for the order of the explanation
\* of a refusal (deterministic_evaluator.py:11, "sin depender del orden DB").
THEOREM EvaluateIgnoresOrder ==
  ASSUME NEW policies, Listing(policies), Keyed(policies),
         NEW others, Listing(others), Keyed(others), ToSet(policies) = ToSet(others),
         NEW envelope, NEW now
  PROVE  Ruling(evaluate(policies, envelope, now)) = Ruling(evaluate(others, envelope, now))
<1> DEFINE M == _collect_matches(policies, envelope, now)
           N == _collect_matches(others, envelope, now)
           W(effect) == WithEffect(policies, M, effect)
           X(effect) == WithEffect(others, N, effect)
           D == evaluate(policies, envelope, now)
           E == evaluate(others, envelope, now)
<1>1. SamePolicies(policies, M, others, N)
  BY DEF SamePolicies, _collect_matches, ToSet
<1>2. ASSUME NEW effect
      PROVE  /\ SamePolicies(policies, W(effect), others, X(effect)) /\ (W(effect) = {} <=> X(effect) = {})
             /\ W(effect) # {} => Best(policies, W(effect)) = Best(others, X(effect))
             /\ InRankOrder(policies, W(effect)) = InRankOrder(others, X(effect))
             /\ ToSet(InListOrder(policies, W(effect))) = ToSet(InListOrder(others, X(effect)))
  <2>1. SamePolicies(policies, W(effect), others, X(effect))
    BY <1>1 DEF SamePolicies, WithEffect
  <2>2. W(effect) = {} <=> X(effect) = {}
    BY <2>1 DEF SamePolicies
  <2>3. QED
    BY <2>1, <2>2, SameBest, SameExplanation
<1>3. /\ M = {} <=> N = {}
      /\ ToSet(InListOrder(policies, M)) = ToSet(InListOrder(others, N))
  BY <1>1, SameExplanation DEF SamePolicies
<1>4. CASE M = {}
  BY <1>3, <1>4 DEF evaluate
<1>5. CASE M # {} /\ W("BLOCK") # {}
  <2> DEFINE best == Best(policies, W("BLOCK"))
             listed == InListOrder(policies, W("BLOCK"))
             relisted == InListOrder(others, X("BLOCK"))
  <2>1. D = _decision_for(best, listed, "BLOCK", "INSUFFICIENT_AUTHORIZATION")
    BY <1>5, WaysToDecide
  <2>2. E = _decision_for(best, relisted, "BLOCK", "INSUFFICIENT_AUTHORIZATION")
    <3>1. N # {} /\ X("BLOCK") # {} /\ Best(others, X("BLOCK")) = best
      BY <1>2, <1>3, <1>5
    <3>2. QED
      BY <3>1, WaysToDecide
  <2>3. ToSet(listed) = ToSet(relisted)
    BY <1>2
  <2>4. Ruling(_decision_for(best, listed, "BLOCK", "INSUFFICIENT_AUTHORIZATION"))
          = Ruling(_decision_for(best, relisted, "BLOCK", "INSUFFICIENT_AUTHORIZATION"))
    <3> HIDE DEF best, listed, relisted
    <3>1. QED
      BY <2>3, SameRuling
  <2>5. QED
    BY <2>1, <2>2, <2>4
<1>6. CASE M # {} /\ W("BLOCK") = {} /\ W("HITL") # {}
  <2> DEFINE best == Best(policies, W("HITL"))
             listed == InListOrder(policies, W("HITL"))
             relisted == InListOrder(others, X("HITL"))
  <2>1. D = _decision_for(best, listed, "HITL", "HUMAN_APPROVAL_REQUIRED")
    BY <1>6, WaysToDecide
  <2>2. E = _decision_for(best, relisted, "HITL", "HUMAN_APPROVAL_REQUIRED")
    <3>1. /\ N # {} /\ X("BLOCK") = {} /\ X("HITL") # {}
          /\ Best(others, X("HITL")) = best
      BY <1>2, <1>3, <1>6
    <3>2. QED
      BY <3>1, WaysToDecide
  <2>3. ToSet(listed) = ToSet(relisted)
    BY <1>2
  <2>4. Ruling(_decision_for(best, listed, "HITL", "HUMAN_APPROVAL_REQUIRED"))
          = Ruling(_decision_for(best, relisted, "HITL", "HUMAN_APPROVAL_REQUIRED"))
    <3> HIDE DEF best, listed, relisted
    <3>1. QED
      BY <2>3, SameRuling
  <2>5. QED
    BY <2>1, <2>2, <2>4
<1>7. CASE M # {} /\ W("BLOCK") = {} /\ W("HITL") = {}
  <2> DEFINE best == Best(policies, W("PASS"))
  <2>1. \A i \in M : policies[i].effect \in {"BLOCK", "HITL", "PASS"}
    BY DEF _collect_matches, Listing, Policy
  <2>2. W("PASS") # {}
    BY <1>7, <2>1 DEF WithEffect
  <2>3. /\ Best(others, X("PASS")) = best
        /\ X("BLOCK") = {} /\ X("HITL") = {} /\ N # {}
    BY <1>2, <1>3, <1>7, <2>2
  <2>4. _detect_conflicts(policies, W("PASS")) <=> _detect_conflicts(others, X("PASS"))
    BY <1>2 DEF SamePolicies, _detect_conflicts
  <2>5. CASE _detect_conflicts(policies, W("PASS")) \/ ~Selectable(best)
    <3>1. /\ D = Refusal("POLICY_CONFLICT", {best}, InListOrder(policies, M))
          /\ E = Refusal("POLICY_CONFLICT", {best}, InListOrder(others, N))
      BY <1>7, <2>3, <2>4, <2>5, WaysToDecide
    <3>2. QED
      BY <1>3, <3>1, SameRefusal
  <2>6. CASE ~(_detect_conflicts(policies, W("PASS")) \/ ~Selectable(best))
    <3>1. D = _decision_for(best, InRankOrder(policies, W("PASS")), "PASS", "ALLOWED")
      BY <1>7, <2>6, WaysToDecide
    <3>2. E = _decision_for(best, InRankOrder(others, X("PASS")), "PASS", "ALLOWED")
      BY <2>3, <2>4, <2>6, WaysToDecide
    <3>3. QED
      BY <1>2, <2>2, <3>1, <3>2
  <2>7. QED
    BY <2>5, <2>6
<1>8. QED
  BY <1>4, <1>5, <1>6, <1>7

=============================================================================
