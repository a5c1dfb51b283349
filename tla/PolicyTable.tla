----------------------------- MODULE PolicyTable -----------------------------
(***************************************************************************)
(* The decisions that a table of policies leads to.  The table is          *)
(* governance_policies, a sequence of rows in the physical order in which  *)
(* a SELECT without ORDER BY returns them; scripts/seed_policies.py and an *)
(* administrator write it.  An UPDATE moves its row.                       *)
(*                                                                         *)
(* A decision is a function of the table when it was loaded and of the     *)
(* time of the evaluation, so the state has only these.  The cache that    *)
(* lies between them is PolicyStore.                                       *)
(***************************************************************************)
EXTENDS PolicyEvaluator

CONSTANTS
    Written,  \* the policies an administrator writes
    Seeds,    \* the policies of the profiles, for each ENVIRONMENT seeded
    MaxDelay, \* an evaluation follows the load of its policies by at most this
    MaxRows,  \* bound: rows of the table
    MaxTime   \* bound: the clock stops here

\* ck_policies_dates_coherent.
Coherent(p) == \A from \in p.valid_from, until \in p.valid_until : from < until

ASSUME TableAssumption ==
    /\ Written \subseteq Policy /\ Seeds \subseteq Policy
    /\ \A p \in Written : Coherent(p)
    /\ \A p \in Seeds : p.effect = "PASS" /\ p.valid_until = {}
    /\ MaxDelay \in Nat /\ MaxRows \in Nat /\ MaxTime \in Nat

VARIABLES
    clock,
    rows    \* governance_policies

vars == <<clock, rows>>

TypeOK ==
    /\ clock \in Nat
    /\ rows \in Seq(Policy)
    /\ \A i, j \in DOMAIN rows : SameKey(rows[i], rows[j]) => i = j
    /\ \A i \in DOMAIN rows : Coherent(rows[i])

Init == clock = 0 /\ rows = << >>

-----------------------------------------------------------------------------

\* The row takes some place among the others.
Put(others, p) == \E k \in 1..(Len(others) + 1) : rows' = InsertAt(others, k, p)

KeyIsFree(others, p) == \A q \in ToSet(others) : ~SameKey(p, q)

\* Mutant: a policy that is seeded again is inserted again.
SeedTwice(p) ==
    /\ Len(rows) < MaxRows
    /\ Put(rows, [p EXCEPT !.valid_from = {clock}])
    /\ UNCHANGED clock

\* Mutant: ON CONFLICT also restores the effect.
SeedRestoresEffect(p) ==
    /\ \/ /\ Len(rows) < MaxRows
          /\ KeyIsFree(rows, p)
          /\ Put(rows, [p EXCEPT !.valid_from = {clock}])
       \/ \E i \in DOMAIN rows :
            /\ SameKey(rows[i], p)
            /\ Put(RemoveAt(rows, i), [rows[i] EXCEPT !.obligations = p.obligations,
                                                      !.environment = p.environment,
                                                      !.effect = p.effect])
    /\ UNCHANGED clock

\* INSERT ... ON CONFLICT DO UPDATE of one policy of seed(): valid from now, or
\* its obligations and its environment are restored.
Seed(p) ==
    /\ \/ /\ Len(rows) < MaxRows
          /\ KeyIsFree(rows, p)
          /\ Put(rows, [p EXCEPT !.valid_from = {clock}])
       \/ \E i \in DOMAIN rows :
            /\ SameKey(rows[i], p)
            /\ Put(RemoveAt(rows, i), [rows[i] EXCEPT !.obligations = p.obligations,
                                                      !.environment = p.environment])
    /\ UNCHANGED clock

Insert(p) ==
    /\ Len(rows) < MaxRows
    /\ KeyIsFree(rows, p)
    /\ Put(rows, p)
    /\ UNCHANGED clock

Update(i, p) ==
    /\ KeyIsFree(RemoveAt(rows, i), p)
    /\ Put(RemoveAt(rows, i), p)
    /\ UNCHANGED clock

Delete(i) ==
    /\ rows' = RemoveAt(rows, i)
    /\ UNCHANGED clock

Tick ==
    /\ clock < MaxTime
    /\ clock' = clock + 1
    /\ UNCHANGED rows

Next ==
    \/ Tick
    \/ \E p \in Seeds : Seed(p)
    \/ \E p \in Written : Insert(p)
    \/ \E i \in DOMAIN rows : Delete(i) \/ \E p \in Written : Update(i, p)

Spec == Init /\ [][Next]_vars

-----------------------------------------------------------------------------

\* What load_current returns when it asks the database now: the current rows, in
\* their order.
Loaded == Restrict(rows, {i \in DOMAIN rows : IsCurrent(rows[i], clock)})

\* The decision about an envelope, on policies loaded now, after a delay.
DecisionOn(envelope, delay) == evaluate(Loaded, envelope, clock + delay)

\* The decision follows the precedence among the policies that apply: one BLOCK
\* prohibits, one HITL asks for a human, a PASS needs both absent and unambiguous
\* obligations, and the first in rank among the policies with the effect that won
\* is named (deterministic_evaluator.py:9-13, without the incompatible versions of lines
\* 13-14, which the code does not detect: a version only counts in the rank).
PrecedenceDecides ==
    \A e \in Envelope, delay \in 0..MaxDelay :
        FollowsPrecedence(DecisionOn(e, delay),
          {p \in ToSet(rows) : IsCurrent(p, clock) /\ Applies(p, e, clock + delay)})

\* The order of the rows in the database changes no decision: what moves is at
\* most the order of the explanation of a refusal (deterministic_evaluator.py:11,
\* "sin depender del orden DB"; the explanation, lines 167, 187 and 224, does).
RowOrderIsIrrelevant ==
    [][ToSet(rows') = ToSet(rows) /\ clock' = clock =>
         \A e \in Envelope, delay \in 0..MaxDelay : Ruling(DecisionOn(e, delay)') = Ruling(DecisionOn(e, delay))]_vars

\* Seeding an environment again never lifts a prohibition that an administrator
\* wrote for it, although it rewrites rows and moves others between
\* environments (scripts/seed_policies.py:59-61).
ProhibitionOutlastsSeeding ==
    [][\A p \in Seeds : Seed(p) =>
         \A e \in Envelope, delay \in 0..MaxDelay :
             /\ e.environment = p.environment
             /\ DecisionOn(e, delay).reason \in
                  {"INSUFFICIENT_AUTHORIZATION", "HUMAN_APPROVAL_REQUIRED"}
             => DecisionOn(e, delay)'.action # "PASS"]_vars

=============================================================================
