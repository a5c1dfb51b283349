-------------------------- MODULE PolicyStoreProofs --------------------------
(***************************************************************************)
(* PolicyStore for every set of policies and callers, every TTL and every  *)
(* schedule of calls, changes of the table, failures and invalidations.    *)
(*                                                                         *)
(* The invariant says of each list of policies in the program, cached,     *)
(* loaded or answered, as of what time it is sound: it has nothing that    *)
(* was not in the table and in force since then, and all that was before   *)
(* then and still is.                                                      *)
(***************************************************************************)
EXTENDS PolicyStore, PolicyEvaluatorProofs

-----------------------------------------------------------------------------
(* The invariant.                                                          *)

\* p was published before a time, took effect by then, and is still in force.
InForceSince(p, time) ==
    /\ InTable(p)
    /\ \E t \in published[p] : t < time
    /\ \A t \in p.valid_from : t <= time
    /\ \A t \in p.valid_until : clock < t

SoundAsOf(policies, time) ==
    /\ \A p \in policies : SeenWithin(p, time, clock)
    /\ \A p \in Policies : InForceSince(p, time) => p \in policies

\* The entry is sound as of its date, and valid as long as its policies.
CacheIsSound ==
    \A e \in cache :
        /\ e.loaded_at <= clock /\ SoundAsOf(e.policies, e.loaded_at)
        /\ e.valid_until = _next_valid_until(e.policies)

LoadIsSound(c) ==
    /\ start[c] <= clock
    /\ pc[c] = "loaded" => SoundAsOf(answer[c], start[c])

LoadsAreSound == \A c \in Calls : LoadIsSound(c)

\* An answer is empty or sound as of a time, within the TTL unless it is stale.
AnswerIsSound(c) == pc[c] = "answered" =>
    \/ answer[c] = {}
    \/ \E time \in 0..clock :
         SoundAsOf(answer[c], time) /\ (stale[c] \/ start[c] <= time + TTL)

AnswersAreSound == \A c \in Calls : AnswerIsSound(c)

PublishedBefore == \A p \in Policies : \A t \in published[p] : t <= clock

NoDecisionInFlight == \A c \in Calls : pc[c] # "idle" => decision[c] = {}

StoreInv ==
    /\ TypeOK /\ PublishedBefore /\ CacheIsSound /\ LoadsAreSound /\ AnswersAreSound
    /\ NoDecisionInFlight /\ AnswerIsInForce

-----------------------------------------------------------------------------
(* What the helpers of the actions return.                                 *)

\* The shortest validity is that of some policy, and no policy has a shorter one.
LEMMA ShortestValidity ==
  ASSUME NEW policies \in SUBSET Policies
  PROVE  /\ _next_valid_until(policies) \in SUBSET Nat
         /\ \A p \in policies : \A t \in p.valid_until :
              \E u \in _next_valid_until(policies) : u <= t
<1> DEFINE L == Limits(policies)
<1>1. L \in SUBSET Nat
  BY StoreAssumption DEF Limits, Policy
<1>2. ASSUME NEW t \in L PROVE \E u \in L : u <= t /\ \A v \in L : u <= v
  <2> DEFINE UpTo == {0..v : v \in {w \in L : w <= t}}
             All  == 0..t
  <2>1. t \in Nat /\ IsFiniteSet(0..t)
    BY <1>1, FS_Interval
  <2>2. UpTo \in SUBSET SUBSET (0..t)
    BY <1>1, <2>1
  <2>3. 0..t \in UpTo
    BY <1>1
  <2>4. PICK J \in UpTo : \A K \in UpTo : K \subseteq J => K = J
    <3>1. UpTo # {}
      BY <2>3
    <3>2. IsFiniteSet(All) /\ UpTo \in SUBSET SUBSET All
      BY <2>1, <2>2
    <3> HIDE DEF UpTo, All
    <3>3. QED
      BY <3>1, <3>2, SmallestSet
  <2>5. PICK u \in L : u <= t /\ J = 0..u
    BY <2>4
  <2>6. ASSUME NEW v \in L, v < u PROVE FALSE
    <3>1. 0..v \in UpTo /\ 0..v \subseteq J /\ u \notin 0..v /\ u \in J
      BY <1>1, <2>1, <2>5, <2>6
    <3>2. QED
      BY <2>4, <3>1
  <2>7. QED
    BY <1>1, <2>5, <2>6
<1>3. QED
  BY <1>1, <1>2 DEF _next_valid_until, Limits

\* A list of a set of policies has these policies and no other.
LEMMA ListOfSet ==
  ASSUME NEW S \in SUBSET Policies, NEW policies \in SetToSeqs(S)
  PROVE  /\ Listing(policies)
         /\ {policies[i] : i \in DOMAIN policies} = S
<1>1. IsFiniteSet(S) /\ Cardinality(S) \in Nat
  BY StoreAssumption, FS_Subset, FS_CardinalityType
<1> DEFINE D == 1..Cardinality(S)
<1>2. IsFiniteSet(D) /\ Cardinality(D) = Cardinality(S)
  BY <1>1, FS_Interval
<1>3. policies \in [D -> S] /\ \A i, j \in D : i # j => policies[i] # policies[j]
  BY DEF SetToSeqs
<1>4. Listing(policies)
  BY <1>2, <1>3, StoreAssumption DEF Listing
<1>5. policies \in Injection(D, S)
  BY <1>3 DEF Injection, IsInjective
<1>6. policies \in Surjection(D, S)
  BY <1>1, <1>2, <1>5, FS_Injection
<1>7. QED
  BY <1>3, <1>4, <1>6 DEF Surjection

\* What the decision over a set of policies, listed in any order, means.
LEMMA DecisionOfSet ==
  ASSUME NEW S \in SUBSET Policies, NEW policies \in SetToSeqs(S),
         NEW envelope, NEW now
  PROVE  LET D == evaluate(policies, envelope, now)
         IN  /\ D.action \in {"BLOCK", "HITL", "PASS"} /\ D.by \in SUBSET S
             /\ D.action = "PASS" =>
                  /\ \E p \in D.by : p.effect = "PASS" /\ Applies(p, envelope, now)
                  /\ \A p \in S : Applies(p, envelope, now) => p.effect = "PASS"
<1> DEFINE D == evaluate(policies, envelope, now)
           A == Matching(policies, envelope, now)
<1>1. A = {p \in S : Applies(p, envelope, now)}
  BY ListOfSet DEF Matching, _collect_matches
<1>2. FollowsPrecedence(D, A)
  BY ListOfSet, EvaluateFollowsPrecedence
<1>3. D.action \in {"BLOCK", "HITL", "PASS"}
  BY DEF evaluate, _resolve, _decision_for, Refusal
<1>4. D.by \in SUBSET S
  BY <1>1, <1>2 DEF FollowsPrecedence
<1>5. ASSUME D.action = "PASS"
      PROVE  /\ A # {} /\ ~\E p \in A : p.effect \in {"BLOCK", "HITL"}
             /\ \A p \in D.by : p \in A /\ p.effect = "PASS"
  BY <1>2, <1>5 DEF FollowsPrecedence
<1>6. \A p \in S : p.effect \in {"BLOCK", "HITL", "PASS"}
  BY StoreAssumption DEF Policy
<1>7. ASSUME D.action = "PASS" PROVE D.by # {}
  BY <1>2, <1>5, <1>7 DEF FollowsPrecedence
<1>8. QED
  BY <1>1, <1>3, <1>4, <1>5, <1>6, <1>7

-----------------------------------------------------------------------------
(* Type correctness.                                                       *)

LEMMA AtMostOne ==
  /\ Cardinality({}) <= 1
  /\ \A x : Cardinality({x}) <= 1
BY FS_EmptySet, FS_Singleton

LEMMA InitTypeOK == Init => TypeOK
BY StoreAssumption, AtMostOne DEF Init, TypeOK

LEMMA StepTypeOK == TypeOK /\ [Next]_vars => TypeOK'
<1> SUFFICES ASSUME TypeOK, [Next]_vars PROVE TypeOK'
  OBVIOUS
<1> USE StoreAssumption
<1>1. CASE Administer
  <2>1. UNCHANGED <<clock, cache, callVars>>
    BY <1>1 DEF Administer
  <2>2. /\ published' \in [Policies -> SUBSET Nat]
        /\ withdrawn' \in [Policies -> SUBSET Nat]
    BY <1>1 DEF Administer, Publish, Withdraw, Edit, TypeOK
  <2>3. QED
    BY <2>1, <2>2 DEF TypeOK, callVars
<1>2. CASE invalidate
  BY <1>2, AtMostOne DEF invalidate, TypeOK, callVars
<1>3. CASE Tick
  BY <1>3 DEF Tick, TypeOK, callVars
<1>4. ASSUME NEW c \in Calls, Begin(c) PROVE TypeOK'
  BY <1>4 DEF Begin, TypeOK
<1>5. ASSUME NEW c \in Calls, Hit(c) PROVE TypeOK'
  <2>1. answer' \in [Calls -> SUBSET Policies] /\ pc'= [pc EXCEPT ![c] = "answered"]
    BY <1>5 DEF Hit, Return, Usable, TypeOK, Entry
  <2>2. QED
    BY <1>5, <2>1 DEF Hit, TypeOK
<1>6. ASSUME NEW c \in Calls, Miss(c) PROVE TypeOK'
  BY <1>6 DEF Miss, TypeOK
<1>7. ASSUME NEW c \in Calls, Load(c) PROVE TypeOK'
  BY <1>7 DEF Load, TypeOK
<1>8. ASSUME NEW c \in Calls, Store(c) PROVE TypeOK'
  <2>1. /\ answer[c] \in SUBSET Policies /\ start[c] \in Nat
        /\ _next_valid_until(answer[c]) \in SUBSET Nat
    BY ShortestValidity DEF TypeOK
  <2>2. cache' \in SUBSET Entry /\ Cardinality(cache') <= 1
    <3>1. PICK e \in Entry : cache' = {e}
      BY <1>8, <2>1 DEF Store, Entry
    <3>2. QED
      BY <3>1, AtMostOne
  <2>3. QED
    BY <1>8, <2>1, <2>2 DEF Store, Return, TypeOK
<1>9. ASSUME NEW c \in Calls, FallBack(c) PROVE TypeOK'
  <2>1. answer' \in [Calls -> SUBSET Policies] /\ pc' = [pc EXCEPT ![c] = "answered"]
    BY <1>9 DEF FallBack, Return, TypeOK, Entry
  <2>2. (\E e \in cache : ~WithinTTL(e, start[c])) \in BOOLEAN
    OBVIOUS
  <2>3. stale' \in [Calls -> BOOLEAN]
    BY <1>9, <2>2 DEF FallBack, TypeOK
  <2>4. QED
    BY <1>9, <2>1, <2>3 DEF FallBack, TypeOK
<1>10. ASSUME NEW c \in Calls, Raise(c) PROVE TypeOK'
  BY <1>10 DEF Raise, Return, TypeOK
<1>11. ASSUME NEW c \in Calls, Evaluate(c) PROVE TypeOK'
  <2>1. PICK policies \in SetToSeqs(answer[c]) :
          LET d == evaluate(policies, EnvelopeOf[c], clock)
          IN  decision' = [decision EXCEPT ![c] =
                             {[action |-> d.action, by |-> d.by, at |-> clock]}]
    BY <1>11 DEF Evaluate
  <2>2. answer[c] \in SUBSET Policies /\ clock \in Nat
    BY DEF TypeOK
  <2>3. decision' \in [Calls -> SUBSET Decided]
    BY <2>1, <2>2, DecisionOfSet DEF TypeOK, Decided
  <2>4. QED
    BY <1>11, <2>3 DEF Evaluate, TypeOK
<1>12. CASE UNCHANGED vars
  BY <1>12 DEF vars, callVars, TypeOK
<1>13. QED
  BY <1>1, <1>2, <1>3, <1>4, <1>5, <1>6, <1>7, <1>8, <1>9, <1>10, <1>11, <1>12
     DEF Next, CallStep

\* The variables have their types, and the cache at most one entry.
THEOREM StoreTypes == Spec => []TypeOK
BY InitTypeOK, StepTypeOK, PTL DEF Spec

-----------------------------------------------------------------------------
(* The table and the clock only move forward.                              *)

LEMMA History ==
  ASSUME TypeOK, [Next]_vars
  PROVE  /\ clock \in Nat /\ clock' \in Nat /\ clock <= clock'
         /\ \A p \in Policies :
              /\ published'[p] = published[p] \/ (published[p] = {} /\ published'[p] = {clock})
              /\ withdrawn'[p] = withdrawn[p] \/ (withdrawn[p] = {} /\ withdrawn'[p] = {clock})
<1>1. CASE Administer
  BY <1>1 DEF Administer, Publish, Withdraw, Edit, InTable, TypeOK
<1>2. CASE Tick
  BY <1>2 DEF Tick, TypeOK
<1>3. CASE UNCHANGED <<clock, published, withdrawn>>
  BY <1>3 DEF TypeOK
<1>4. CASE invalidate \/ UNCHANGED vars
  BY <1>3, <1>4 DEF invalidate, vars
<1>5. ASSUME NEW c \in Calls, CallStep(c) PROVE UNCHANGED <<clock, published, withdrawn>>
  BY <1>5 DEF CallStep, Begin, Hit, Miss, Load, Store, FallBack, Raise, Evaluate
<1>6. QED
  BY <1>1, <1>2, <1>3, <1>4, <1>5 DEF Next

\* What was seen in a period is still seen in it, and in the same extended.
LEMMA SeenKept ==
  ASSUME TypeOK, [Next]_vars, NEW p \in Policies, NEW from \in Nat, NEW to \in Nat,
         from <= clock, SeenWithin(p, from, to)
  PROVE  SeenWithin(p, from, to)' /\ (to <= clock => SeenWithin(p, from, clock)')
<1>1. p.valid_from \in SUBSET Nat /\ p.valid_until \in SUBSET Nat /\ published[p] \in SUBSET Nat
  BY StoreAssumption DEF Policy, TypeOK
<1>2. published'[p] = published[p]
  BY History DEF SeenWithin
<1>3. \A t \in withdrawn'[p] : t \in withdrawn[p] \/ t = clock
  BY History
<1>4. QED
  BY <1>1, <1>2, <1>3, History DEF SeenWithin

\* A policy in force since some time was so before the step.
LEMMA InForceBefore ==
  ASSUME TypeOK, [Next]_vars, NEW p \in Policies, NEW time \in Nat, time <= clock,
         InForceSince(p, time)'
  PROVE  InForceSince(p, time)
<1>1. \E t \in published'[p] : t < time
  BY DEF InForceSince
<1>2. published'[p] = published[p] /\ withdrawn[p] = {}
  BY <1>1, History DEF InForceSince, InTable
<1>3. \A t \in p.valid_until : t \in Nat
  BY StoreAssumption DEF Policy
<1>4. QED
  BY <1>1, <1>2, <1>3, History DEF InForceSince, InTable

LEMMA SoundKept ==
  ASSUME TypeOK, [Next]_vars, NEW policies \in SUBSET Policies, NEW time \in Nat,
         time <= clock, SoundAsOf(policies, time)
  PROVE  SoundAsOf(policies, time)'
<1>1. clock \in Nat
  BY DEF TypeOK
<1>2. ASSUME NEW p \in policies PROVE SeenWithin(p, time, clock)'
  <2>1. PICK now \in Nat : now = clock
    BY <1>1
  <2>2. p \in Policies /\ SeenWithin(p, time, now)
    BY <2>1 DEF SoundAsOf
  <2>3. QED
    BY <2>1, <2>2, SeenKept
<1>3. \A p \in Policies : InForceSince(p, time)' => p \in policies
  BY InForceBefore DEF SoundAsOf
<1>4. QED
  BY <1>2, <1>3 DEF SoundAsOf

\* What was seen since a time was seen since any earlier one.
LEMMA SeenEarlier ==
  ASSUME NEW p \in Policies, NEW from \in Nat, NEW earlier \in Nat, earlier <= from, TypeOK,
         NEW to, SeenWithin(p, from, to)
  PROVE  SeenWithin(p, earlier, to)
BY StoreAssumption DEF SeenWithin, TypeOK, Policy

\* What the query returns is sound as of any time before it.
LEMMA QueryIsSound ==
  ASSUME TypeOK, PublishedBefore, NEW time \in Nat, time <= clock
  PROVE  SoundAsOf({p \in Policies : InForce(p)}, time)
<1>1. ASSUME NEW p \in Policies
      PROVE  /\ p.valid_from \in SUBSET Nat /\ p.valid_until \in SUBSET Nat
             /\ published[p] \in SUBSET Nat /\ clock \in Nat
  BY StoreAssumption DEF Policy, TypeOK
<1>2. ASSUME NEW p \in Policies, InForce(p) PROVE SeenWithin(p, time, clock)
  BY <1>1, <1>2 DEF SeenWithin, InForce, IsCurrent, InTable, PublishedBefore
<1>3. ASSUME NEW p \in Policies, InForceSince(p, time) PROVE InForce(p)
  BY <1>1, <1>3 DEF InForceSince, InForce, IsCurrent
<1>4. QED
  BY <1>2, <1>3 DEF SoundAsOf

LEMMA PublishedStep == TypeOK /\ PublishedBefore /\ [Next]_vars => PublishedBefore'
<1> SUFFICES ASSUME TypeOK, PublishedBefore, [Next]_vars PROVE PublishedBefore'
  OBVIOUS
<1>1. \A p \in Policies : \A t \in published[p] : t \in Nat
  BY DEF TypeOK
<1>2. QED
  BY <1>1, History DEF PublishedBefore

-----------------------------------------------------------------------------
(* What is cached, loaded and answered stays sound.                        *)

\* A call touches nothing of another.
LEMMA CallFrame ==
  ASSUME TypeOK, NEW c \in Calls, CallStep(c), NEW d \in Calls, d # c
  PROVE  /\ pc'[d] = pc[d] /\ start'[d] = start[d] /\ answer'[d] = answer[d]
         /\ stale'[d] = stale[d] /\ decision'[d] = decision[d]
<1>1. CASE Begin(c) \/ Miss(c) \/ Load(c) \/ Evaluate(c)
  BY <1>1 DEF Begin, Miss, Load, Evaluate, TypeOK
<1>2. CASE Hit(c) \/ Store(c) \/ FallBack(c) \/ Raise(c)
  BY <1>2 DEF Hit, Store, FallBack, Raise, Return, TypeOK
<1>3. QED
  BY <1>1, <1>2 DEF CallStep

\* Only Store fills the cache.
LEMMA CacheFrame ==
  ASSUME [Next]_vars, \A c \in Calls : ~Store(c)
  PROVE  cache' \subseteq cache
BY DEF Next, CallStep, Administer, invalidate, Tick, Begin, Hit, Miss, Load, FallBack, Raise,
       Evaluate, vars, callVars

LEMMA CacheStep ==
  ASSUME TypeOK, CacheIsSound, LoadsAreSound, [Next]_vars
  PROVE  CacheIsSound'
<1>1. ASSUME NEW e \in Entry, e \in cache
      PROVE  /\ e.loaded_at <= clock' /\ SoundAsOf(e.policies, e.loaded_at)'
             /\ e.valid_until = _next_valid_until(e.policies)
  <2>1. /\ e.policies \in SUBSET Policies /\ e.loaded_at \in Nat /\ e.loaded_at <= clock
        /\ SoundAsOf(e.policies, e.loaded_at)
        /\ e.valid_until = _next_valid_until(e.policies)
    BY <1>1 DEF CacheIsSound, Entry
  <2>2. SoundAsOf(e.policies, e.loaded_at)'
    BY <2>1, SoundKept
  <2>3. QED
    BY <2>1, <2>2, History
<1>2. ASSUME NEW c \in Calls, Store(c) PROVE CacheIsSound'
  <2>1. PICK policies \in SUBSET Policies, time \in Nat : policies = answer[c] /\ time = start[c]
    BY DEF TypeOK
  <2>2. time <= clock /\ SoundAsOf(policies, time)
    BY <1>2, <2>1 DEF Store, LoadsAreSound, LoadIsSound
  <2>3. SoundAsOf(policies, time)' /\ time <= clock'
    BY <2>2, SoundKept, History
  <2>4. cache' = {[policies |-> policies, loaded_at |-> time,
                   valid_until |-> _next_valid_until(policies)]}
    BY <1>2, <2>1 DEF Store
  <2>5. QED
    BY <2>3, <2>4 DEF CacheIsSound
<1>3. CASE \A c \in Calls : ~Store(c)
  <2>1. cache' \subseteq cache /\ cache \subseteq Entry
    BY <1>3, CacheFrame DEF TypeOK
  <2>2. QED
    BY <1>1, <2>1 DEF CacheIsSound
<1>4. QED
  BY <1>2, <1>3

\* Whether a list is sound depends on the list, the table and the clock only.
LEMMA SoundNext ==
  ASSUME NEW c \in Calls, NEW policies, NEW time, SoundAsOf(policies, time)',
         answer'[c] = policies
  PROVE  /\ SoundAsOf(answer[c], time)'
         /\ start'[c] = time => SoundAsOf(answer[c], start[c])'
BY DEF SoundAsOf, SeenWithin, InForceSince, InTable

LEMMA LoadsStep ==
  ASSUME TypeOK, PublishedBefore, LoadsAreSound, [Next]_vars
  PROVE  LoadsAreSound'
<1>1. ASSUME NEW c \in Calls, pc'[c] = pc[c], start'[c] = start[c], answer'[c] = answer[c]
      PROVE  LoadIsSound(c)'
  <2>1. PICK policies \in SUBSET Policies, time \in Nat : policies = answer[c] /\ time = start[c]
    BY DEF TypeOK
  <2>2. time <= clock /\ (pc[c] = "loaded" => SoundAsOf(policies, time))
    BY <2>1 DEF LoadsAreSound, LoadIsSound
  <2>3. time <= clock' /\ (pc[c] = "loaded" => SoundAsOf(policies, time)')
    BY <2>2, SoundKept, History
  <2>4. QED
    BY <1>1, <2>1, <2>3, SoundNext DEF LoadIsSound
<1>2. ASSUME NEW c \in Calls, CallStep(c) PROVE LoadIsSound(c)'
  <2>1. start[c] <= clock
    BY DEF LoadsAreSound, LoadIsSound
  <2>2. CASE Begin(c)
    BY <2>2, History DEF Begin, TypeOK, LoadIsSound
  <2>3. CASE Hit(c) \/ Miss(c) \/ Store(c) \/ FallBack(c) \/ Raise(c) \/ Evaluate(c)
    BY <2>1, <2>3 DEF Hit, Miss, Store, FallBack, Raise, Evaluate, Return, TypeOK, LoadIsSound
  <2>4. CASE Load(c)
    <3>1. PICK policies \in SUBSET Policies, time \in Nat :
            policies = {p \in Policies : InForce(p)} /\ time = start[c]
      BY DEF TypeOK
    <3>2. SoundAsOf(policies, time)'
      BY <2>1, <3>1, QueryIsSound, SoundKept
    <3>3. answer'[c] = policies /\ start'[c] = time /\ clock' = clock
      BY <2>4, <3>1 DEF Load, TypeOK
    <3>4. QED
      BY <2>1, <3>1, <3>2, <3>3, SoundNext DEF LoadIsSound
  <2>5. QED
    BY <1>2, <2>2, <2>3, <2>4 DEF CallStep
<1>3. CASE UNCHANGED <<pc, start, answer>>
  BY <1>1, <1>3 DEF LoadsAreSound
<1>4. QED
  BY <1>1, <1>2, <1>3, CallFrame
     DEF Next, Administer, invalidate, Tick, vars, callVars, LoadsAreSound

LEMMA AnswersStep ==
  ASSUME TypeOK, CacheIsSound, LoadsAreSound, AnswersAreSound, [Next]_vars
  PROVE  AnswersAreSound'
<1>1. ASSUME NEW c \in Calls, NEW policies \in SUBSET Policies, NEW time \in Nat,
             time <= clock, SoundAsOf(policies, time),
             answer'[c] = policies, stale'[c] \/ start'[c] <= time + TTL
      PROVE  AnswerIsSound(c)'
  <2>1. time \in 0..clock' /\ SoundAsOf(policies, time)'
    BY <1>1, SoundKept, History
  <2>2. SoundAsOf(answer[c], time)'
    BY <1>1, <2>1, SoundNext
  <2>3. QED
    BY <1>1, <2>1, <2>2 DEF AnswerIsSound
<1>2. ASSUME NEW c \in Calls, pc'[c] = pc[c], start'[c] = start[c], answer'[c] = answer[c],
             stale'[c] = stale[c]
      PROVE  AnswerIsSound(c)'
  <2>1. CASE pc[c] = "answered" /\ answer[c] # {}
    <3>1. PICK policies \in SUBSET Policies, time \in 0..clock :
            policies = answer[c] /\ SoundAsOf(policies, time)
            /\ (stale[c] \/ start[c] <= time + TTL)
      BY <2>1 DEF AnswersAreSound, AnswerIsSound, TypeOK
    <3>2. QED
      BY <1>1, <1>2, <3>1 DEF TypeOK
  <2>2. QED
    BY <1>2, <2>1 DEF AnswerIsSound
<1>3. ASSUME NEW c \in Calls, CallStep(c) PROVE AnswerIsSound(c)'
  <2>1. CASE Begin(c) \/ Miss(c) \/ Load(c) \/ Evaluate(c)
    BY <2>1 DEF Begin, Miss, Load, Evaluate, TypeOK, AnswerIsSound
  <2>2. CASE Hit(c)
    <3>1. PICK e \in cache : /\ WithinTTL(e, start[c]) /\ answer'[c] = e.policies
                             /\ start'[c] = start[c]
      BY <2>2 DEF Hit, Usable, Return, TypeOK
    <3>2. /\ e.policies \in SUBSET Policies /\ e.loaded_at \in Nat /\ e.loaded_at <= clock
          /\ SoundAsOf(e.policies, e.loaded_at)
      BY <3>1 DEF CacheIsSound, TypeOK, Entry
    <3>3. QED
      BY <1>1, <3>1, <3>2 DEF WithinTTL
  <2>3. CASE Store(c)
    <3>1. PICK policies \in SUBSET Policies, time \in Nat : policies = answer[c] /\ time = start[c]
      BY DEF TypeOK
    <3>2. time <= clock /\ SoundAsOf(policies, time)
      BY <2>3, <3>1 DEF Store, LoadsAreSound, LoadIsSound
    <3>3. answer'[c] = policies /\ start'[c] = time /\ time <= time + TTL
      BY <2>3, <3>1, StoreAssumption DEF Store, Return, TypeOK
    <3>4. QED
      BY <1>1, <3>1, <3>2, <3>3
  <2>4. CASE FallBack(c)
    <3>1. PICK e \in cache : answer'[c] = e.policies
      BY <2>4 DEF FallBack, Return, TypeOK
    <3>2. /\ e.policies \in SUBSET Policies /\ e.loaded_at \in Nat /\ e.loaded_at <= clock
          /\ SoundAsOf(e.policies, e.loaded_at)
      BY <3>1 DEF CacheIsSound, TypeOK, Entry
    <3>3. stale'[c] \/ WithinTTL(e, start[c])
      BY <2>4, <3>1 DEF FallBack, TypeOK
    <3>4. start'[c] = start[c]
      BY <2>4 DEF FallBack
    <3>5. QED
      BY <1>1, <3>1, <3>2, <3>3, <3>4 DEF WithinTTL
  <2>5. CASE Raise(c)
    BY <2>5 DEF Raise, Return, TypeOK, AnswerIsSound
  <2>6. QED
    BY <1>3, <2>1, <2>2, <2>3, <2>4, <2>5 DEF CallStep
<1>4. CASE UNCHANGED <<pc, start, answer, stale>>
  BY <1>2, <1>4 DEF AnswersAreSound
<1>5. QED
  BY <1>2, <1>3, <1>4, CallFrame
     DEF Next, Administer, invalidate, Tick, vars, callVars, AnswersAreSound

\* An entry that is valid has no policy that is not.
LEMMA ValidEntry ==
  ASSUME TypeOK, CacheIsSound, NEW e \in cache, NEW now \in Nat, WithinValidity(e, now)
  PROVE  \A p \in e.policies : \A t \in p.valid_until : now <= t
<1>1. e.policies \in SUBSET Policies /\ e.valid_until = _next_valid_until(e.policies)
  BY DEF TypeOK, Entry, CacheIsSound
<1>2. ASSUME NEW p \in e.policies, NEW t \in p.valid_until PROVE now <= t
  <2>1. PICK u \in e.valid_until : u <= t
    BY <1>1, ShortestValidity
  <2>2. u \in Nat /\ t \in Nat /\ now <= u
    BY <1>1, ShortestValidity, StoreAssumption DEF Policy, WithinValidity
  <2>3. QED
    BY <2>1, <2>2
<1>3. QED
  BY <1>2

LEMMA AnswerInForceStep ==
  ASSUME TypeOK, CacheIsSound, LoadsAreSound, AnswerIsInForce, [Next]_vars
  PROVE  AnswerIsInForce'
<1> DEFINE IsInForce(c) == pc[c] = "answered" =>
             \A p \in answer[c] : \A t \in p.valid_until : start[c] <= t
<1>1. ASSUME NEW c \in Calls, CallStep(c) PROVE IsInForce(c)'
  <2>1. start[c] \in Nat
    BY DEF TypeOK
  <2>2. CASE Begin(c) \/ Miss(c) \/ Load(c) \/ Evaluate(c)
    BY <2>2 DEF Begin, Miss, Load, Evaluate, TypeOK
  <2>3. CASE Hit(c)
    <3>1. PICK e \in cache : WithinValidity(e, start[c]) /\ answer'[c] = e.policies
      BY <2>3 DEF Hit, Usable, Return, TypeOK
    <3>2. QED
      BY <2>1, <2>3, <3>1, ValidEntry DEF Hit
  <2>4. CASE Store(c)
    <3>1. answer'[c] = answer[c] /\ start'[c] = start[c] /\ SoundAsOf(answer[c], start[c])
      BY <2>4 DEF Store, Return, TypeOK, LoadsAreSound, LoadIsSound
    <3>2. \A p \in answer[c] : \A t \in p.valid_until : t \in Nat /\ start[c] < t
      BY <3>1, StoreAssumption DEF SoundAsOf, SeenWithin, TypeOK, Policy
    <3>3. QED
      BY <2>1, <3>1, <3>2
  <2>5. CASE FallBack(c)
    <3>1. PICK e \in cache : WithinValidity(e, start[c]) /\ answer'[c] = e.policies
      BY <2>5 DEF FallBack, Return, TypeOK
    <3>2. QED
      BY <2>1, <2>5, <3>1, ValidEntry DEF FallBack
  <2>6. CASE Raise(c)
    BY <2>6 DEF Raise, Return, TypeOK
  <2>7. QED
    BY <1>1, <2>2, <2>3, <2>4, <2>5, <2>6 DEF CallStep
<1>2. CASE UNCHANGED <<pc, start, answer>>
  BY <1>2 DEF AnswerIsInForce
<1>3. QED
  BY <1>1, <1>2, CallFrame
     DEF Next, Administer, invalidate, Tick, vars, callVars, AnswerIsInForce

LEMMA InFlightStep ==
  ASSUME TypeOK, NoDecisionInFlight, [Next]_vars
  PROVE  NoDecisionInFlight'
<1>1. ASSUME NEW c \in Calls, CallStep(c) PROVE pc'[c] # "idle" => decision'[c] = {}
  <2>1. CASE Begin(c) \/ Miss(c) \/ Load(c) \/ Evaluate(c)
    BY <2>1 DEF Begin, Miss, Load, Evaluate, TypeOK, NoDecisionInFlight
  <2>2. CASE Hit(c) \/ Store(c) \/ FallBack(c) \/ Raise(c)
    BY <2>2 DEF Hit, Store, FallBack, Raise, Return, TypeOK, NoDecisionInFlight
  <2>3. QED
    BY <1>1, <2>1, <2>2 DEF CallStep
<1>2. CASE UNCHANGED <<pc, decision>>
  BY <1>2 DEF NoDecisionInFlight
<1>3. QED
  BY <1>1, <1>2, CallFrame
     DEF Next, Administer, invalidate, Tick, vars, callVars, NoDecisionInFlight

LEMMA StoreInductive == Spec => []StoreInv
<1>1. Init => StoreInv
  <2>1. Init => PublishedBefore
    BY DEF Init, PublishedBefore
  <2>2. Init => CacheIsSound /\ LoadsAreSound /\ AnswersAreSound
    BY DEF Init, CacheIsSound, LoadsAreSound, LoadIsSound, AnswersAreSound, AnswerIsSound
  <2>3. Init => NoDecisionInFlight /\ AnswerIsInForce
    BY DEF Init, NoDecisionInFlight, AnswerIsInForce
  <2>4. QED
    BY <2>1, <2>2, <2>3, InitTypeOK DEF StoreInv
<1>2. StoreInv /\ [Next]_vars => StoreInv'
  BY StepTypeOK, PublishedStep, CacheStep, LoadsStep, AnswersStep, AnswerInForceStep,
     InFlightStep DEF StoreInv
<1>3. QED
  BY <1>1, <1>2, PTL DEF Spec

\* What load_current returns, from the cache, the database or the fallback, has no
\* policy that had expired when the call began, whatever other calls, failures
\* and invalidations came in between (policy_store.py:50-84).
THEOREM AnswerAlwaysInForce == Spec => []AnswerIsInForce
BY StoreInductive, PTL DEF StoreInv

-----------------------------------------------------------------------------
(* The decisions.                                                          *)

\* A decision stands, with the times of its call, until the next call begins.
LEMMA DecisionFrame ==
  ASSUME TypeOK, NoDecisionInFlight, [Next]_vars, NEW c \in Calls
  PROVE  \/ decision'[c] = {}
         \/ Evaluate(c)
         \/ decision'[c] = decision[c] /\ start'[c] = start[c] /\ stale'[c] = stale[c]
<1>1. CASE Begin(c)
  BY <1>1 DEF Begin, TypeOK
<1>2. CASE Hit(c) \/ Miss(c) \/ Load(c) \/ Store(c) \/ FallBack(c) \/ Raise(c)
  BY <1>2 DEF Hit, Miss, Load, Store, FallBack, Raise, NoDecisionInFlight
<1>3. CASE UNCHANGED <<decision, start, stale>>
  BY <1>3
<1>4. ASSUME NEW b \in Calls, CallStep(b), b # c
      PROVE  decision'[c] = decision[c] /\ start'[c] = start[c] /\ stale'[c] = stale[c]
  BY <1>4, CallFrame
<1>5. QED
  BY <1>1, <1>2, <1>3, <1>4 DEF Next, CallStep, Administer, invalidate, Tick, vars, callVars

\* What authorises a PASS of the call c taken at a time.
Authorises(p, c, at) ==
    /\ p.effect = "PASS" /\ matches(p, EnvelopeOf[c])
    /\ is_active(p, at)
    /\ \/ \E from \in 0..start[c] : start[c] <= from + TTL /\ SeenWithin(p, from, at)
       \/ stale[c] /\ SeenWithin(p, 0, at)

LEMMA EvaluateAuthorised ==
  ASSUME StoreInv, NEW c \in Calls, Evaluate(c), NEW policies \in SetToSeqs(answer[c]),
         evaluate(policies, EnvelopeOf[c], clock).action = "PASS"
  PROVE  \E p \in evaluate(policies, EnvelopeOf[c], clock).by : Authorises(p, c, clock)
<1> USE DEF StoreInv
<1>1. answer[c] \in SUBSET Policies /\ clock \in Nat /\ start[c] \in Nat
  BY DEF TypeOK
<1>2. PICK p \in evaluate(policies, EnvelopeOf[c], clock).by :
        p \in answer[c] /\ p.effect = "PASS" /\ Applies(p, EnvelopeOf[c], clock)
  BY <1>1, DecisionOfSet
<1>3. PICK time \in 0..clock : SoundAsOf(answer[c], time) /\ (stale[c] \/ start[c] <= time + TTL)
  BY <1>2 DEF Evaluate, AnswersAreSound, AnswerIsSound
<1>4. time \in Nat /\ p \in Policies /\ SeenWithin(p, time, clock)
  BY <1>1, <1>2, <1>3 DEF SoundAsOf
<1>5. CASE stale[c]
  <2>1. SeenWithin(p, 0, clock)
    BY <1>4, SeenEarlier
  <2>2. QED
    BY <1>2, <1>5, <2>1 DEF Authorises, Applies
<1>6. CASE ~stale[c]
  <2>1. PICK from \in 0..start[c] : from <= time /\ start[c] <= from + TTL
    <3>1. CASE time <= start[c]
      BY <1>1, <1>3, <1>4, <1>6, <3>1
    <3>2. CASE start[c] < time
      BY <1>1, <1>4, <3>2, StoreAssumption
    <3>3. QED
      BY <1>1, <1>4, <3>1, <3>2
  <2>2. SeenWithin(p, from, clock)
    BY <1>1, <1>4, <2>1, SeenEarlier
  <2>3. QED
    BY <1>2, <2>1, <2>2 DEF Authorises, Applies
<1>7. QED
  BY <1>5, <1>6

LEMMA AuthorisedStep ==
  ASSUME StoreInv, PassIsAuthorised, [Next]_vars
  PROVE  PassIsAuthorised'
<1> USE DEF StoreInv
<1>1. ASSUME NEW c \in Calls, NEW p \in Policies, NEW at \in Nat, Authorises(p, c, at),
             start'[c] = start[c], stale'[c] = stale[c]
      PROVE  Authorises(p, c, at)'
  <2>1. start[c] \in Nat /\ start[c] <= clock /\ clock \in Nat
    BY DEF TypeOK, LoadsAreSound, LoadIsSound
  <2>2. ASSUME NEW from \in 0..start[c], SeenWithin(p, from, at) PROVE SeenWithin(p, from, at)'
    BY <2>1, <2>2, SeenKept
  <2>3. SeenWithin(p, 0, at) => SeenWithin(p, 0, at)'
    BY <2>1, SeenKept
  <2>4. QED
    BY <1>1, <2>2, <2>3 DEF Authorises
<1>2. ASSUME NEW c \in Calls, NEW d \in decision'[c], d.action = "PASS"
      PROVE  \E p \in d.by : Authorises(p, c, d.at)'
  <2>1. CASE Evaluate(c)
    <3>1. PICK policies \in SetToSeqs(answer[c]) :
            LET D == evaluate(policies, EnvelopeOf[c], clock)
            IN  decision' = [decision EXCEPT ![c] =
                               {[action |-> D.action, by |-> D.by, at |-> clock]}]
      BY <2>1 DEF Evaluate
    <3> DEFINE D == evaluate(policies, EnvelopeOf[c], clock)
    <3>2. d.action = D.action /\ d.by = D.by /\ d.at = clock
      BY <3>1 DEF TypeOK
    <3>3. PICK p \in d.by : Authorises(p, c, clock)
      BY <1>2, <2>1, <3>2, EvaluateAuthorised
    <3>4. p \in Policies
      <4>1. answer[c] \in SUBSET Policies
        BY DEF TypeOK
      <4>2. QED
        BY <3>2, <3>3, <4>1, DecisionOfSet
    <3>5. PICK at \in Nat : at = clock
      BY DEF TypeOK
    <3>6. Authorises(p, c, at)'
      BY <1>1, <2>1, <3>3, <3>4, <3>5 DEF Evaluate
    <3>7. QED
      BY <3>2, <3>3, <3>5, <3>6
  <2>2. CASE decision'[c] = decision[c] /\ start'[c] = start[c] /\ stale'[c] = stale[c]
    <3>1. d \in Decided /\ \E p \in d.by : Authorises(p, c, d.at)
      BY <1>2, <2>2 DEF PassIsAuthorised, Authorises, TypeOK
    <3>2. QED
      BY <1>1, <2>2, <3>1 DEF Decided
  <2>3. QED
    BY <1>2, <2>1, <2>2, DecisionFrame
<1>3. QED
  BY <1>2 DEF PassIsAuthorised, Authorises

\* A PASS rests on a policy that was in the table and in force no longer than the
\* TTL before its call began, or, with the database down, at some time, and that
\* had not expired when the decision was taken (policy_store.py:50-84,
\* deterministic_evaluator.py:62-77).
THEOREM PassAlwaysAuthorised == Spec => []PassIsAuthorised
<1>1. Init => PassIsAuthorised
  BY DEF Init, PassIsAuthorised
<1>2. QED
  BY <1>1, AuthorisedStep, StoreInductive, PTL DEF Spec

\* p prohibits the call c, and did so for longer than the TTL when it began.
Prohibits(p, c) ==
    /\ p.effect # "PASS" /\ matches(p, EnvelopeOf[c])
    /\ InTable(p) /\ \E t \in published[p] : t + TTL < start[c]
    /\ \A t \in p.valid_from : t + TTL <= start[c]
    /\ \A t \in p.valid_until : clock < t

\* An answer within the TTL has the policy, so that the decision obeys it.
LEMMA EvaluateObeys ==
  ASSUME StoreInv, NEW c \in Calls, Evaluate(c), NEW policies \in SetToSeqs(answer[c]),
         NEW p \in Policies, Prohibits(p, c), ~stale[c]
  PROVE  evaluate(policies, EnvelopeOf[c], clock).action # "PASS"
<1> USE DEF StoreInv
<1> SUFFICES ASSUME evaluate(policies, EnvelopeOf[c], clock).action = "PASS" PROVE FALSE
  OBVIOUS
<1>1. /\ answer[c] \in SUBSET Policies /\ clock \in Nat /\ start[c] \in Nat
      /\ start[c] <= clock /\ published[p] \in SUBSET Nat
  BY DEF TypeOK, LoadsAreSound, LoadIsSound
<1>2. p.valid_from \in SUBSET Nat /\ p.valid_until \in SUBSET Nat /\ TTL \in Nat
  BY StoreAssumption DEF Policy
<1>3. answer[c] # {}
  BY <1>1, DecisionOfSet
<1>4. PICK time \in 0..clock : SoundAsOf(answer[c], time) /\ start[c] <= time + TTL
  BY <1>3 DEF Evaluate, AnswersAreSound, AnswerIsSound
<1>5. InForceSince(p, time)
  BY <1>1, <1>2, <1>4 DEF InForceSince, Prohibits
<1>6. p \in answer[c]
  BY <1>4, <1>5 DEF SoundAsOf
<1>7. Applies(p, EnvelopeOf[c], clock)
  BY <1>1, <1>2 DEF Applies, is_active, Prohibits
<1>8. QED
  BY <1>1, <1>6, <1>7, DecisionOfSet DEF Prohibits

LEMMA ObeyedStep ==
  ASSUME StoreInv, ProhibitionIsObeyed, [Next]_vars
  PROVE  ProhibitionIsObeyed'
<1> USE DEF StoreInv
<1>1. ASSUME NEW c \in Calls, NEW p \in Policies, Prohibits(p, c)', start'[c] = start[c]
      PROVE  Prohibits(p, c)
  <2>1. /\ start[c] \in Nat /\ start[c] <= clock /\ clock \in Nat /\ TTL \in Nat
        /\ p.valid_until \in SUBSET Nat
    BY StoreAssumption DEF TypeOK, LoadsAreSound, LoadIsSound, Policy
  <2>2. \E t \in published'[p] : t + TTL < start[c]
    BY <1>1 DEF Prohibits
  <2>3. published'[p] = published[p] /\ withdrawn[p] = {}
    BY <1>1, <2>1, <2>2, History DEF Prohibits, InTable
  <2>4. QED
    BY <1>1, <2>1, <2>2, <2>3, History DEF Prohibits, InTable
<1>2. ASSUME NEW c \in Calls, NEW p \in Policies, Prohibits(p, c)', ~stale'[c]
      PROVE  ~Passes(c)'
  <2>1. CASE decision'[c] = {}
    BY <2>1 DEF Passes
  <2>2. CASE Evaluate(c)
    <3>1. PICK policies \in SetToSeqs(answer[c]) :
            LET D == evaluate(policies, EnvelopeOf[c], clock)
            IN  decision' = [decision EXCEPT ![c] =
                               {[action |-> D.action, by |-> D.by, at |-> clock]}]
      BY <2>2 DEF Evaluate
    <3>2. Prohibits(p, c) /\ ~stale[c]
      BY <1>1, <1>2, <2>2 DEF Evaluate
    <3>3. evaluate(policies, EnvelopeOf[c], clock).action # "PASS"
      BY <2>2, <3>2, EvaluateObeys
    <3>4. QED
      BY <3>1, <3>3 DEF Passes, TypeOK
  <2>3. CASE decision'[c] = decision[c] /\ start'[c] = start[c] /\ stale'[c] = stale[c]
    <3>1. Prohibits(p, c) /\ ~stale[c]
      BY <1>1, <1>2, <2>3
    <3>2. ~Passes(c)
      BY <3>1 DEF ProhibitionIsObeyed, Prohibits
    <3>3. QED
      BY <2>3, <3>2 DEF Passes
  <2>4. QED
    BY <2>1, <2>2, <2>3, DecisionFrame
<1>3. QED
  BY <1>2 DEF ProhibitionIsObeyed, Prohibits

\* A prohibition in force for longer than the TTL is obeyed by every call that
\* begins after that, unless the database failed and the call was answered from
\* an entry past its TTL (policy_store.py:50-84, deterministic_evaluator.py:62-77).
THEOREM ProhibitionAlwaysObeyed == Spec => []ProhibitionIsObeyed
<1>1. Init => ProhibitionIsObeyed
  BY DEF Init, ProhibitionIsObeyed, Passes
<1>2. QED
  BY <1>1, ObeyedStep, StoreInductive, PTL DEF Spec

=============================================================================
