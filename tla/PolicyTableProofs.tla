-------------------------- MODULE PolicyTableProofs --------------------------
(***************************************************************************)
(* PolicyTable for every set of policies, any number of rows and any       *)
(* delay: what is decided on any table that seeding and administration     *)
(* lead to.                                                                *)
(***************************************************************************)
EXTENDS PolicyTable, PolicyEvaluatorProofs, SequenceTheorems

-----------------------------------------------------------------------------
(* Rows put in and taken out.                                              *)

IsTable(s) == s \in Seq(Policy) /\ Keyed(s) /\ \A i \in DOMAIN s : Coherent(s[i])

\* t is s with p in the place k.
IsInsertion(t, s, k, p) ==
    /\ t \in Seq(Policy) /\ Len(t) = Len(s) + 1
    /\ \A i \in 1..(Len(s) + 1) : t[i] = IF i < k THEN s[i] ELSE IF i = k THEN p ELSE s[i - 1]

LEMMA InsertedRow ==
  ASSUME NEW s \in Seq(Policy), NEW p \in Policy, NEW k \in 1..(Len(s) + 1)
  PROVE  IsInsertion(InsertAt(s, k, p), s, k, p)
<1> DEFINE a == SubSeq(s, 1, k - 1)
           b == SubSeq(s, k, Len(s))
<1>1. /\ a \in Seq(Policy) /\ Len(a) = k - 1 /\ \A i \in 1..(k - 1) : a[i] = s[i]
      /\ b \in Seq(Policy) /\ Len(b) = Len(s) - k + 1
      /\ \A i \in 1..(Len(s) - k + 1) : b[i] = s[k + i - 1]
  OBVIOUS
<1>2. InsertAt(s, k, p) = (a \o <<p>>) \o b
  BY DEF InsertAt
<1> HIDE DEF a, b
<1>3. a \o <<p>> \in Seq(Policy) /\ Len(a \o <<p>>) = k
      /\ \A i \in 1..k : (a \o <<p>>)[i] = IF i < k THEN a[i] ELSE p
  BY <1>1
<1>4. \E c \in Seq(Policy) : c = a \o <<p>>
  BY <1>3
<1>5. PICK c \in Seq(Policy) : c = a \o <<p>>
  BY <1>4
<1>6. /\ c \o b \in Seq(Policy) /\ Len(c \o b) = Len(c) + Len(b)
      /\ \A i \in 1..(Len(c) + Len(b)) :
           (c \o b)[i] = IF i <= Len(c) THEN c[i] ELSE b[i - Len(c)]
  BY <1>1, ConcatProperties
<1>7. Len(s) \in Nat /\ Len(c) = k /\ Len(c) + Len(b) = Len(s) + 1
  <2>1. Len(c) = k
    BY <1>3, <1>5
  <2>2. Len(s) \in Nat /\ k \in Nat
    BY LenProperties
  <2>3. QED
    BY <1>1, <2>1, <2>2
<1>8. ASSUME NEW i \in 1..(Len(s) + 1)
      PROVE  (c \o b)[i] = IF i < k THEN s[i] ELSE IF i = k THEN p ELSE s[i - 1]
  <2>1. CASE i <= k
    BY <1>1, <1>3, <1>5, <1>6, <1>7, <2>1
  <2>2. CASE i > k
    <3>1. i - k \in 1..(Len(s) - k + 1) /\ k + (i - k) - 1 = i - 1
      BY <1>7, <2>2
    <3>2. b[i - k] = s[i - 1]
      BY <1>1, <3>1
    <3>3. (c \o b)[i] = b[i - k]
      BY <1>6, <1>7, <2>2
    <3>4. QED
      BY <2>2, <3>2, <3>3
  <2>3. QED
    BY <1>7, <2>1, <2>2
<1>9. QED
  BY <1>2, <1>5, <1>6, <1>7, <1>8 DEF IsInsertion

LEMMA RemovedRow ==
  ASSUME NEW s \in Seq(Policy), NEW k \in DOMAIN s
  PROVE  /\ RemoveAt(s, k) \in Seq(Policy) /\ Len(RemoveAt(s, k)) = Len(s) - 1
         /\ \A i \in 1..(Len(s) - 1) : RemoveAt(s, k)[i] = IF i < k THEN s[i] ELSE s[i + 1]
<1> DEFINE a == SubSeq(s, 1, k - 1)
           b == SubSeq(s, k + 1, Len(s))
<1>1. /\ a \in Seq(Policy) /\ Len(a) = k - 1 /\ \A i \in 1..(k - 1) : a[i] = s[i]
      /\ b \in Seq(Policy) /\ Len(b) = Len(s) - k
      /\ \A i \in 1..(Len(s) - k) : b[i] = s[k + i]
  OBVIOUS
<1>2. RemoveAt(s, k) = a \o b
  BY DEF RemoveAt
<1> HIDE DEF a, b
<1>3. /\ a \o b \in Seq(Policy) /\ Len(a \o b) = Len(a) + Len(b)
      /\ \A i \in 1..(Len(a) + Len(b)) :
           (a \o b)[i] = IF i <= Len(a) THEN a[i] ELSE b[i - Len(a)]
  BY <1>1, ConcatProperties
<1>4. Len(s) \in Nat /\ k \in 1..Len(s)
  OBVIOUS
<1>5. ASSUME NEW i \in 1..(Len(s) - 1)
      PROVE  (a \o b)[i] = IF i < k THEN s[i] ELSE s[i + 1]
  <2>1. CASE i < k
    <3>1. i \in 1..(Len(a) + Len(b)) /\ i <= Len(a) /\ i \in 1..(k - 1)
      BY <1>1, <1>4, <2>1
    <3>2. (a \o b)[i] = a[i]
      BY <1>3, <3>1
    <3>3. QED
      BY <1>1, <2>1, <3>1, <3>2
  <2>2. CASE ~(i < k)
    <3>1. i - (k - 1) \in 1..(Len(s) - k) /\ k + (i - (k - 1)) = i + 1
      BY <1>4, <2>2
    <3>2. b[i - (k - 1)] = s[i + 1]
      BY <1>1, <3>1
    <3>3. (a \o b)[i] = b[i - (k - 1)]
      <4>1. /\ i \in 1..(Len(a) + Len(b)) /\ ~(i <= Len(a))
            /\ i - Len(a) = i - (k - 1)
        BY <1>1, <1>4, <2>2
      <4>2. QED
        BY <1>3, <4>1
    <3>4. QED
      BY <2>2, <3>2, <3>3
  <2>3. QED
    BY <2>1, <2>2
<1>6. Len(a) + Len(b) = Len(s) - 1
  BY <1>1, <1>4
<1>7. QED
  BY <1>2, <1>3, <1>5, <1>6

\* A table to which a row with a new key is added is a table, with that row.
LEMMA PutKeeps ==
  ASSUME NEW s, IsTable(s), NEW p \in Policy, Coherent(p), KeyIsFree(s, p),
         NEW k \in 1..(Len(s) + 1)
  PROVE  /\ IsTable(InsertAt(s, k, p))
         /\ ToSet(InsertAt(s, k, p)) = ToSet(s) \cup {p}
<1> DEFINE t == InsertAt(s, k, p)
<1>1. s \in Seq(Policy) /\ DOMAIN s = 1..Len(s) /\ Len(s) \in Nat
  BY DEF IsTable
<1>2. /\ t \in Seq(Policy) /\ DOMAIN t = 1..(Len(s) + 1)
      /\ \A i \in 1..(Len(s) + 1) : t[i] = IF i < k THEN s[i] ELSE IF i = k THEN p ELSE s[i - 1]
  <2>1. IsInsertion(t, s, k, p)
    BY <1>1, InsertedRow, Zenon
  <2> HIDE DEF t
  <2>2. DOMAIN t = 1..Len(t)
    BY <2>1, LenProperties DEF IsInsertion
  <2>3. QED
    BY <2>1, <2>2, Zenon DEF IsInsertion
<1> HIDE DEF t
<1>3. \A i \in DOMAIN s : ~SameKey(p, s[i]) /\ ~SameKey(s[i], p)
  BY DEF KeyIsFree, ToSet, SameKey
<1>4. /\ k \in DOMAIN t /\ t[k] = p
      /\ \A i \in DOMAIN t : i # k =>
           \E m \in DOMAIN s : t[i] = s[m] /\ m = IF i < k THEN i ELSE i - 1
  <2>1. k \in DOMAIN t /\ t[k] = p
    BY <1>1, <1>2
  <2>2. ASSUME NEW i \in DOMAIN t, i < k PROVE i \in DOMAIN s /\ t[i] = s[i]
    BY <1>1, <1>2, <2>2
  <2>3. ASSUME NEW i \in DOMAIN t, i > k PROVE i - 1 \in DOMAIN s /\ t[i] = s[i - 1]
    BY <1>1, <1>2, <2>3
  <2>4. \A i \in DOMAIN t : i # k => i < k \/ (i > k /\ ~(i < k))
    BY <1>1, <1>2
  <2>5. QED
    BY <2>1, <2>2, <2>3, <2>4
<1>5. Keyed(t)
  <2> SUFFICES ASSUME NEW i \in DOMAIN t, NEW j \in DOMAIN t, SameKey(t[i], t[j]) PROVE i = j
    BY DEF Keyed
  <2>1. CASE i = k \/ j = k
    BY <1>3, <1>4, <2>1
  <2>2. CASE i # k /\ j # k
    <3>1. PICK m \in DOMAIN s : t[i] = s[m] /\ m = IF i < k THEN i ELSE i - 1
      BY <1>4, <2>2
    <3>2. PICK n \in DOMAIN s : t[j] = s[n] /\ n = IF j < k THEN j ELSE j - 1
      BY <1>4, <2>2
    <3>3. m = n
      BY <3>1, <3>2 DEF IsTable, Keyed
    <3>4. QED
      BY <1>1, <1>2, <2>2, <3>1, <3>2, <3>3
  <2>3. QED
    BY <2>1, <2>2
<1>6. \A i \in DOMAIN t : Coherent(t[i])
  BY <1>4 DEF IsTable
<1>7. ToSet(t) = ToSet(s) \cup {p}
  <2>1. \A i \in DOMAIN s : \E j \in DOMAIN t : t[j] = s[i]
    <3> TAKE i \in DOMAIN s
    <3>1. CASE i < k
      BY <1>1, <1>2, <3>1
    <3>2. CASE ~(i < k)
      <4>1. i + 1 \in 1..(Len(s) + 1) /\ ~(i + 1 < k) /\ i + 1 # k /\ (i + 1) - 1 = i
        BY <1>1, <3>2
      <4>2. QED
        BY <1>2, <4>1
    <3>3. QED
      BY <3>1, <3>2
  <2>2. QED
    BY <1>4, <2>1 DEF ToSet
<1>8. QED
  BY <1>2, <1>5, <1>6, <1>7 DEF IsTable, t

\* A table from which a row is removed is a table, without it.
LEMMA RemoveKeeps ==
  ASSUME NEW s, IsTable(s), NEW k \in DOMAIN s
  PROVE  /\ IsTable(RemoveAt(s, k))
         /\ ToSet(RemoveAt(s, k)) = {s[j] : j \in DOMAIN s \ {k}}
<1> DEFINE t == RemoveAt(s, k)
<1>1. s \in Seq(Policy) /\ DOMAIN s = 1..Len(s) /\ Len(s) \in Nat
  BY DEF IsTable
<1>2. /\ t \in Seq(Policy) /\ DOMAIN t = 1..(Len(s) - 1)
      /\ \A i \in 1..(Len(s) - 1) : t[i] = IF i < k THEN s[i] ELSE s[i + 1]
  <2>1. t \in Seq(Policy) /\ Len(t) = Len(s) - 1
    BY <1>1, RemovedRow
  <2>2. DOMAIN t = 1..Len(t)
    BY <2>1, LenProperties
  <2>3. QED
    BY <1>1, <2>1, <2>2, RemovedRow
<1> HIDE DEF t
<1>3. ASSUME NEW i \in DOMAIN t
      PROVE  \E m \in DOMAIN s \ {k} : t[i] = s[m] /\ m = IF i < k THEN i ELSE i + 1
  BY <1>1, <1>2
<1>4. Keyed(t)
  <2> SUFFICES ASSUME NEW i \in DOMAIN t, NEW j \in DOMAIN t, SameKey(t[i], t[j]) PROVE i = j
    BY DEF Keyed
  <2>1. PICK m \in DOMAIN s : t[i] = s[m] /\ m = IF i < k THEN i ELSE i + 1
    BY <1>3
  <2>2. PICK n \in DOMAIN s : t[j] = s[n] /\ n = IF j < k THEN j ELSE j + 1
    BY <1>3
  <2>3. m = n
    BY <2>1, <2>2 DEF IsTable, Keyed
  <2>4. QED
    BY <1>1, <1>2, <2>1, <2>2, <2>3
<1>5. \A i \in DOMAIN t : Coherent(t[i])
  BY <1>3 DEF IsTable
<1>6. \A j \in DOMAIN s \ {k} : \E i \in DOMAIN t : t[i] = s[j]
  <2> TAKE j \in DOMAIN s \ {k}
  <2>1. CASE j < k
    BY <1>1, <1>2, <2>1
  <2>2. CASE ~(j < k)
    <3>1. j - 1 \in 1..(Len(s) - 1) /\ ~(j - 1 < k) /\ (j - 1) + 1 = j
      BY <1>1, <2>2
    <3>2. QED
      BY <1>2, <3>1
  <2>3. QED
    BY <2>1, <2>2
<1>7. ToSet(t) = {s[j] : j \in DOMAIN s \ {k}}
  BY <1>3, <1>6 DEF ToSet
<1>8. QED
  BY <1>2, <1>4, <1>5, <1>7 DEF IsTable, t

-----------------------------------------------------------------------------
(* The table.                                                              *)

LEMMA TypeIsTable == TypeOK <=> clock \in Nat /\ IsTable(rows)
BY DEF TypeOK, IsTable, Keyed

\* Putting a row with a new key.
LEMMA PutWrites ==
  ASSUME NEW s, IsTable(s), NEW p \in Policy, Coherent(p), KeyIsFree(s, p), Put(s, p)
  PROVE  IsTable(rows') /\ ToSet(rows') = ToSet(s) \cup {p}
BY PutKeeps DEF Put

\* The row that seeding p writes over the row r.
Reseeded(r, p) == [r EXCEPT !.obligations = p.obligations, !.environment = p.environment]

\* Seeding adds a row, or rewrites the obligations and the environment of one.
LEMMA SeedWrites ==
  ASSUME TypeOK, NEW p \in Seeds, Seed(p)
  PROVE  /\ IsTable(rows') /\ clock' = clock
         /\ \/ ToSet(rows) \subseteq ToSet(rows')
            \/ \E i \in DOMAIN rows :
                 ToSet(rows') = {rows[j] : j \in DOMAIN rows \ {i}} \cup {Reseeded(rows[i], p)}
<1>1. p \in Policy /\ p.valid_until = {} /\ clock \in Nat /\ IsTable(rows)
  BY TableAssumption, TypeIsTable
<1>2. clock' = clock
  BY DEF Seed
<1>3. ASSUME KeyIsFree(rows, p), Put(rows, [p EXCEPT !.valid_from = {clock}])
      PROVE  IsTable(rows') /\ ToSet(rows) \subseteq ToSet(rows')
  <2>1. PICK q \in Policy : q = [p EXCEPT !.valid_from = {clock}]
    BY <1>1 DEF Policy
  <2>2. Coherent(q) /\ KeyIsFree(rows, q)
    BY <1>1, <1>3, <2>1 DEF Policy, Coherent, KeyIsFree, SameKey
  <2>3. QED
    BY <1>1, <1>3, <2>1, <2>2, PutWrites
<1>4. ASSUME NEW i \in DOMAIN rows, Put(RemoveAt(rows, i), Reseeded(rows[i], p))
      PROVE  IsTable(rows') /\ ToSet(rows') =
               {rows[j] : j \in DOMAIN rows \ {i}} \cup {Reseeded(rows[i], p)}
  <2>1. rows[i] \in Policy /\ Coherent(rows[i])
    BY <1>1 DEF IsTable
  <2>2. PICK q \in Policy : q = Reseeded(rows[i], p)
    BY <1>1, <2>1 DEF Policy, Reseeded
  <2>3. Coherent(q) /\ SameKey(q, rows[i])
    BY <2>1, <2>2 DEF Policy, Coherent, SameKey, Reseeded
  <2>4. /\ IsTable(RemoveAt(rows, i))
        /\ ToSet(RemoveAt(rows, i)) = {rows[j] : j \in DOMAIN rows \ {i}}
    BY <1>1, RemoveKeeps
  <2>5. KeyIsFree(RemoveAt(rows, i), q)
    BY <1>1, <2>3, <2>4 DEF KeyIsFree, SameKey, IsTable, Keyed
  <2>6. QED
    BY <1>4, <2>2, <2>3, <2>4, <2>5, PutWrites
<1>5. QED
  BY <1>2, <1>3, <1>4 DEF Seed, Reseeded

LEMMA StepTypeOK == TypeOK /\ [Next]_vars => TypeOK'
<1> SUFFICES ASSUME TypeOK, [Next]_vars PROVE TypeOK'
  OBVIOUS
<1>1. clock \in Nat /\ IsTable(rows)
  BY TypeIsTable
<1>2. clock' \in Nat /\ IsTable(rows') => TypeOK'
  BY DEF TypeOK, IsTable, Keyed
<1>3. CASE Tick
  BY <1>1, <1>2, <1>3 DEF Tick
<1>4. ASSUME NEW p \in Seeds, Seed(p) PROVE TypeOK'
  BY <1>1, <1>2, <1>4, SeedWrites
<1>5. ASSUME NEW p \in Written, Insert(p) PROVE TypeOK'
  BY <1>1, <1>2, <1>5, PutWrites, TableAssumption DEF Insert
<1>6. ASSUME NEW i \in DOMAIN rows, Delete(i) PROVE TypeOK'
  BY <1>1, <1>2, <1>6, RemoveKeeps DEF Delete
<1>7. ASSUME NEW i \in DOMAIN rows, NEW p \in Written, Update(i, p) PROVE TypeOK'
  <2>1. IsTable(RemoveAt(rows, i))
    BY <1>1, RemoveKeeps
  <2>2. QED
    BY <1>1, <1>2, <1>7, <2>1, PutWrites, TableAssumption DEF Update
<1>8. CASE UNCHANGED vars
  BY <1>1, <1>2, <1>8 DEF vars
<1>9. QED
  BY <1>3, <1>4, <1>5, <1>6, <1>7, <1>8 DEF Next

\* Seeding and administration keep one row for each key, with coherent dates,
\* in any order of the rows (scripts/seed_policies.py).
THEOREM TableTypes == Spec => []TypeOK
<1>1. Init => TypeOK
  BY DEF Init, TypeOK
<1>2. QED
  BY <1>1, StepTypeOK, PTL DEF Spec

-----------------------------------------------------------------------------
(* The decisions.                                                          *)

\* The rows that a load at the time "now" returns are a list with one row for
\* each key.
LEMMA RowsInForce ==
  ASSUME NEW s, IsTable(s), NEW now,
         NEW list, list = Restrict(s, {i \in DOMAIN s : IsCurrent(s[i], now)})
  PROVE  /\ Listing(list) /\ Keyed(list)
         /\ ToSet(list) = {p \in ToSet(s) : IsCurrent(p, now)}
<1>1. DOMAIN s = 1..Len(s) /\ Len(s) \in Nat /\ \A i \in DOMAIN s : s[i] \in Policy
  BY DEF IsTable
<1>2. DOMAIN list = {i \in DOMAIN s : IsCurrent(s[i], now)}
      /\ \A i \in DOMAIN list : list[i] = s[i]
  BY DEF Restrict
<1>3. IsFiniteSet(1..Len(s))
  BY <1>1, FS_Interval
<1>4. IsFiniteSet(DOMAIN list)
  BY <1>1, <1>2, <1>3, FS_Subset
<1>5. Listing(list)
  <2>1. DOMAIN list \subseteq DOMAIN s
    BY <1>2
  <2>2. DOMAIN s \subseteq Nat
    BY <1>1
  <2>3. \A i \in DOMAIN list : list[i] \in Policy
    BY <1>1, <1>2, <2>1
  <2>4. QED
    BY <1>4, <2>1, <2>2, <2>3 DEF Listing
<1>6. Keyed(list)
  BY <1>2 DEF Keyed, IsTable
<1>7. ToSet(list) = {p \in ToSet(s) : IsCurrent(p, now)}
  BY <1>2 DEF ToSet
<1>8. QED
  BY <1>5, <1>6, <1>7

\* The policies of the table s that a decision at the time "later" is about, on
\* those loaded "now".
About(s, now, e, later) == {p \in ToSet(s) : IsCurrent(p, now) /\ Applies(p, e, later)}

LEMMA DecisionFollows ==
  ASSUME NEW s, IsTable(s), NEW now, NEW e, NEW later,
         NEW list, list = Restrict(s, {i \in DOMAIN s : IsCurrent(s[i], now)})
  PROVE  FollowsPrecedence(evaluate(list, e, later), About(s, now, e, later))
<1>1. /\ Listing(list) /\ Keyed(list)
      /\ ToSet(list) = {p \in ToSet(s) : IsCurrent(p, now)}
  BY RowsInForce
<1>2. Matching(list, e, later) = {p \in ToSet(list) : Applies(p, e, later)}
  BY DEF Matching, _collect_matches, ToSet
<1>3. Matching(list, e, later) = About(s, now, e, later)
  BY <1>1, <1>2 DEF About
<1>4. QED
  BY <1>1, <1>3, EvaluateFollowsPrecedence

\* On every table that can come about, whoever wrote it in whatever order, the
\* decision follows the precedence (deterministic_evaluator.py:9-13, obligations only).
THEOREM PrecedenceAlwaysDecides == Spec => []PrecedenceDecides
<1>1. ASSUME TypeOK, NEW e, NEW delay
      PROVE  FollowsPrecedence(DecisionOn(e, delay), About(rows, clock, e, clock + delay))
  <2>1. IsTable(rows)
    BY <1>1, TypeIsTable
  <2>2. FollowsPrecedence(evaluate(Loaded, e, clock + delay), About(rows, clock, e, clock + delay))
    BY <2>1, DecisionFollows DEF Loaded
  <2>3. QED
    BY <2>2 DEF DecisionOn
<1>2. TypeOK => PrecedenceDecides
  BY <1>1 DEF PrecedenceDecides, About
<1>3. QED
  BY <1>2, TableTypes, PTL

\* The order of the rows in the database changes no decision
\* (deterministic_evaluator.py:11, "sin depender del orden DB").
THEOREM RowOrderAlwaysIrrelevant == Spec => RowOrderIsIrrelevant
<1>1. ASSUME TypeOK, TypeOK', ToSet(rows') = ToSet(rows), clock' = clock, NEW e, NEW delay
      PROVE  Ruling(DecisionOn(e, delay)') = Ruling(DecisionOn(e, delay))
  <2>1. IsTable(rows) /\ IsTable(rows')
    BY <1>1 DEF TypeOK, IsTable, Keyed
  <2>2. /\ Listing(Loaded) /\ Keyed(Loaded)
        /\ ToSet(Loaded) = {p \in ToSet(rows) : IsCurrent(p, clock)}
    BY <2>1, RowsInForce DEF Loaded
  <2>3. /\ Listing(Loaded') /\ Keyed(Loaded')
        /\ ToSet(Loaded') = {p \in ToSet(rows') : IsCurrent(p, clock')}
    BY <2>1, RowsInForce DEF Loaded
  <2>4. ToSet(Loaded) = ToSet(Loaded')
    BY <1>1, <2>2, <2>3
  <2>5. QED
    BY <1>1, <2>2, <2>3, <2>4, EvaluateIgnoresOrder DEF DecisionOn
<1>2. TypeOK /\ TypeOK' /\ [Next]_vars =>
        (ToSet(rows') = ToSet(rows) /\ clock' = clock =>
           \A e \in Envelope, delay \in 0..MaxDelay :
             Ruling(DecisionOn(e, delay)') = Ruling(DecisionOn(e, delay)))
  BY <1>1
<1>3. QED
  BY <1>2, TableTypes, PTL DEF Spec, RowOrderIsIrrelevant

\* A decision with one of these reasons is about a policy that prohibits.
LEMMA ReasonNamesProhibition ==
  ASSUME NEW policies, NEW e, NEW later,
         evaluate(policies, e, later).reason \in
           {"INSUFFICIENT_AUTHORIZATION", "HUMAN_APPROVAL_REQUIRED"}
  PROVE  \E i \in DOMAIN policies :
           policies[i].effect \in {"BLOCK", "HITL"} /\ Applies(policies[i], e, later)
<1> DEFINE M == _collect_matches(policies, e, later)
           D == evaluate(policies, e, later)
<1>1. M # {}
  BY DEF evaluate, Refusal
<1>2. WithEffect(policies, M, "BLOCK") # {} \/ WithEffect(policies, M, "HITL") # {}
  <2> SUFFICES ASSUME WithEffect(policies, M, "BLOCK") = {}, WithEffect(policies, M, "HITL") = {}
               PROVE  FALSE
    OBVIOUS
  <2>1. D.reason = "POLICY_CONFLICT" \/ D.reason = "ALLOWED"
    BY <1>1, WaysToDecide DEF Refusal, _decision_for
  <2>2. QED
    BY <2>1
<1>3. QED
  BY <1>2 DEF WithEffect, _collect_matches

\* A policy that prohibits and applies still does when its row is seeded again,
\* in the environment of the envelope.
LEMMA ReseededProhibits ==
  ASSUME NEW r \in Policy, NEW p \in Policy, NEW e, NEW now, NEW later,
         e.environment = p.environment, IsCurrent(r, now), Applies(r, e, later)
  PROVE  /\ IsCurrent(Reseeded(r, p), now) /\ Applies(Reseeded(r, p), e, later)
         /\ Reseeded(r, p).effect = r.effect
BY DEF Policy, Reseeded, IsCurrent, Applies, matches, is_active

\* Where a policy prohibits, the precedence does not allow.
LEMMA ProhibitionRefuses ==
  ASSUME NEW D, NEW A, FollowsPrecedence(D, A), NEW r \in A, r.effect \in {"BLOCK", "HITL"}
  PROVE  D.action # "PASS"
BY DEF FollowsPrecedence

\* Seeding an environment again, on any table, never lifts a prohibition for it
\* (scripts/seed_policies.py:59-61).
THEOREM ProhibitionAlwaysOutlasts == Spec => ProhibitionOutlastsSeeding
<1>1. ASSUME TypeOK, NEW p \in Seeds, Seed(p), NEW e, NEW delay,
             e.environment = p.environment,
             DecisionOn(e, delay).reason \in
               {"INSUFFICIENT_AUTHORIZATION", "HUMAN_APPROVAL_REQUIRED"}
      PROVE  DecisionOn(e, delay)'.action # "PASS"
  <2>1. /\ IsTable(rows) /\ IsTable(rows') /\ clock' = clock /\ p \in Policy
        /\ \A i \in DOMAIN rows : rows[i] \in Policy
    BY <1>1, TypeIsTable, SeedWrites, TableAssumption DEF TypeOK
  <2>2. PICK i \in DOMAIN Loaded :
          Loaded[i].effect \in {"BLOCK", "HITL"} /\ Applies(Loaded[i], e, clock + delay)
    BY <1>1, ReasonNamesProhibition DEF DecisionOn
  <2>3. PICK n \in DOMAIN rows :
          /\ rows[n].effect \in {"BLOCK", "HITL"}
          /\ IsCurrent(rows[n], clock) /\ Applies(rows[n], e, clock + delay)
    BY <2>2 DEF Loaded, Restrict
  <2>4. \E r \in ToSet(rows') :
          /\ r.effect \in {"BLOCK", "HITL"}
          /\ IsCurrent(r, clock) /\ Applies(r, e, clock + delay)
    <3>1. CASE rows[n] \in ToSet(rows')
      BY <2>3, <3>1
    <3>2. CASE Reseeded(rows[n], p) \in ToSet(rows')
      BY <1>1, <2>1, <2>3, <3>2, ReseededProhibits
    <3>3. QED
      BY <1>1, <3>1, <3>2, SeedWrites DEF ToSet
  <2>5. PICK r \in About(rows', clock', e, clock' + delay) : r.effect \in {"BLOCK", "HITL"}
    BY <2>1, <2>4 DEF About
  <2>6. FollowsPrecedence(evaluate(Loaded', e, clock' + delay), About(rows', clock', e, clock' + delay))
    BY <2>1, DecisionFollows DEF Loaded
  <2>7. evaluate(Loaded', e, clock' + delay).action # "PASS"
    BY <2>5, <2>6, ProhibitionRefuses
  <2>8. QED
    BY <2>7 DEF DecisionOn
<1>2. TypeOK /\ [Next]_vars =>
        \A p \in Seeds : Seed(p) =>
          \A e \in Envelope, delay \in 0..MaxDelay :
             /\ e.environment = p.environment
             /\ DecisionOn(e, delay).reason \in
                  {"INSUFFICIENT_AUTHORIZATION", "HUMAN_APPROVAL_REQUIRED"}
             => DecisionOn(e, delay)'.action # "PASS"
  BY <1>1
<1>3. QED
  BY <1>2, TableTypes, PTL DEF Spec, ProhibitionOutlastsSeeding

=============================================================================
