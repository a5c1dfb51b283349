----------------------------- MODULE PolicyStore -----------------------------
(***************************************************************************)
(* The policy decision point at work: PolicyStore.load_current with its    *)
(* cache (policy_store.py) under DeterministicEvaluator.evaluate, while    *)
(* the table governance_policies changes, time passes and the database     *)
(* fails.  One action per read of the clock, access to the cache under its *)
(* lock, and query.                                                        *)
(*                                                                         *)
(* The table is remembered as the time each policy was published and the   *)
(* time it was withdrawn; an edited row is a withdrawal and a publication. *)
(***************************************************************************)
EXTENDS PolicyEvaluator, FiniteSets

CONSTANTS
    Policies,   \* the policies that are ever in the table
    Calls,      \* callers of evaluate, each for one tool call after another
    EnvelopeOf, \* the envelope each of them evaluates
    TTL,        \* ttl_seconds
    Seeded,     \* the policies in the table at first (scripts/seed_policies.py)
    MaxChanges, \* bound: insertions and removals
    MaxTime     \* bound: the clock stops here

ASSUME StoreAssumption ==
    /\ Policies \subseteq Policy /\ IsFiniteSet(Policies)
    /\ \A p, q \in Policies : SameKey(p, q) => p = q
    /\ EnvelopeOf \in [Calls -> Envelope]
    /\ Seeded \subseteq Policies
    /\ TTL \in Nat /\ MaxChanges \in Nat /\ MaxTime \in Nat

VARIABLES
    clock,
    published,  \* governance_policies: when each policy was inserted, if ever
    withdrawn,  \* when it was removed, if ever
    cache,      \* _cache: at most one entry
    pc,         \* where each call is
    start,      \* the now that load_current read
    answer,     \* the policies it loaded, then the ones it returned
    stale,      \* whether they come from an entry past its TTL
    decision    \* the last decision of each caller: at most one

callVars == <<pc, start, answer, stale, decision>>
vars == <<clock, published, withdrawn, cache, callVars>>

Entry == [policies : SUBSET Policies, loaded_at : Nat, valid_until : SUBSET Nat]

Decided == [action : {"BLOCK", "HITL", "PASS"}, by : SUBSET Policies, at : Nat]

TypeOK ==
    /\ clock \in Nat
    /\ published \in [Policies -> SUBSET Nat]
    /\ withdrawn \in [Policies -> SUBSET Nat]
    /\ cache \in SUBSET Entry /\ Cardinality(cache) <= 1
    /\ pc \in [Calls -> {"idle", "begun", "missed", "loaded", "answered"}]
    /\ start \in [Calls -> Nat]
    /\ answer \in [Calls -> SUBSET Policies]
    /\ stale \in [Calls -> BOOLEAN]
    /\ decision \in [Calls -> SUBSET Decided]

Init ==
    /\ clock = 0
    /\ published = [p \in Policies |-> IF p \in Seeded THEN {0} ELSE {}]
    /\ withdrawn = [p \in Policies |-> {}]
    /\ cache = {}
    /\ pc = [c \in Calls |-> "idle"]
    /\ start = [c \in Calls |-> 0]
    /\ answer = [c \in Calls |-> {}]
    /\ stale = [c \in Calls |-> FALSE]
    /\ decision = [c \in Calls |-> {}]

-----------------------------------------------------------------------------
(* The table.                                                              *)

InTable(p) == published[p] # {} /\ withdrawn[p] = {}

Changes ==
    Cardinality({p \in Policies \ Seeded : published[p] # {}})
      + Cardinality({p \in Policies : withdrawn[p] # {}})

Publish(p) ==
    /\ published[p] = {}
    /\ published' = [published EXCEPT ![p] = {clock}]
    /\ UNCHANGED withdrawn

Withdraw(p) ==
    /\ InTable(p)
    /\ withdrawn' = [withdrawn EXCEPT ![p] = {clock}]
    /\ UNCHANGED published

Edit(p, q) ==
    /\ InTable(p) /\ published[q] = {}
    /\ withdrawn' = [withdrawn EXCEPT ![p] = {clock}]
    /\ published' = [published EXCEPT ![q] = {clock}]

Administer ==
    /\ Changes < MaxChanges
    /\ \E p \in Policies :
         \/ Publish(p)
         \/ Withdraw(p)
         \/ \E q \in Policies : Edit(p, q)
    /\ UNCHANGED <<clock, cache, callVars>>

-----------------------------------------------------------------------------
(* load_current.                                                           *)

Begin(c) ==
    /\ pc[c] = "idle"
    /\ pc' = [pc EXCEPT ![c] = "begun"]
    /\ start' = [start EXCEPT ![c] = clock]
    /\ stale' = [stale EXCEPT ![c] = FALSE]
    /\ decision' = [decision EXCEPT ![c] = {}]
    /\ UNCHANGED <<clock, published, withdrawn, cache, answer>>

\* Mutant: the TTL is not checked.
WithinTTLAlways(entry, now) == TRUE

WithinTTL(entry, now) == now <= entry.loaded_at + TTL

WithinValidity(entry, now) == \A t \in entry.valid_until : now <= t

Return(c, policies) ==
    /\ pc' = [pc EXCEPT ![c] = "answered"]
    /\ answer' = [answer EXCEPT ![c] = policies]

Usable(c) == {e \in cache : WithinTTL(e, start[c]) /\ WithinValidity(e, start[c])}

\* _get_cached finds a current entry.
Hit(c) ==
    /\ pc[c] = "begun"
    /\ \E e \in Usable(c) : Return(c, e.policies)
    /\ UNCHANGED <<clock, published, withdrawn, cache, start, stale, decision>>

Miss(c) ==
    /\ pc[c] = "begun"
    /\ Usable(c) = {}
    /\ pc' = [pc EXCEPT ![c] = "missed"]
    /\ UNCHANGED <<clock, published, withdrawn, cache, start, answer, stale, decision>>

\* The WHERE clause of _load_from_db.
InForce(p) == InTable(p) /\ IsCurrent(p, clock)

Load(c) ==
    /\ pc[c] = "missed"
    /\ answer' = [answer EXCEPT ![c] = {p \in Policies : InForce(p)}]
    /\ pc' = [pc EXCEPT ![c] = "loaded"]
    /\ UNCHANGED <<clock, published, withdrawn, cache, start, stale, decision>>

Limits(policies) == UNION {p.valid_until : p \in policies}

\* Mutant: the longest validity.
_next_valid_untilLast(policies) ==
    {t \in Limits(policies) : \A u \in Limits(policies) : u <= t}

\* The shortest validity among the policies, if any has a limit.
_next_valid_until(policies) ==
    {t \in Limits(policies) : \A u \in Limits(policies) : t <= u}

\* Mutant: the entry is dated when it is stored.
StoredLate(c) ==
    /\ pc[c] = "loaded"
    /\ cache' = {[policies |-> answer[c], loaded_at |-> clock,
                  valid_until |-> _next_valid_until(answer[c])]}
    /\ Return(c, answer[c])
    /\ UNCHANGED <<clock, published, withdrawn, start, stale, decision>>

\* Mutant: the old entry is kept.
StoreBoth(c) ==
    /\ pc[c] = "loaded"
    /\ cache' = cache \cup {[policies |-> answer[c], loaded_at |-> start[c],
                             valid_until |-> _next_valid_until(answer[c])]}
    /\ Return(c, answer[c])
    /\ UNCHANGED <<clock, published, withdrawn, start, stale, decision>>

\* The entry replaces the cache, dated when the call began.
Store(c) ==
    /\ pc[c] = "loaded"
    /\ cache' = {[policies |-> answer[c], loaded_at |-> start[c],
                  valid_until |-> _next_valid_until(answer[c])]}
    /\ Return(c, answer[c])
    /\ UNCHANGED <<clock, published, withdrawn, start, stale, decision>>

\* The query failed (connection, statement or a row that does not convert):
\* _cached_within_validity accepts an entry that is valid, whatever its TTL.
FallBack(c) ==
    /\ pc[c] = "missed"
    /\ \E e \in cache : WithinValidity(e, start[c]) /\ Return(c, e.policies)
    /\ stale' = [stale EXCEPT ![c] = \E e \in cache : ~WithinTTL(e, start[c])]
    /\ UNCHANGED <<clock, published, withdrawn, cache, start, decision>>

\* It failed and there is nothing to fall back on: the exception, which
\* _all_policies turns into an empty list.
Raise(c) ==
    /\ pc[c] = "missed"
    /\ \A e \in cache : ~WithinValidity(e, start[c])
    /\ Return(c, {})
    /\ UNCHANGED <<clock, published, withdrawn, cache, start, stale, decision>>

-----------------------------------------------------------------------------

\* evaluate: the decision over what load_current returned, which is a list in
\* any order.
Evaluate(c) ==
    /\ pc[c] = "answered"
    /\ \E policies \in SetToSeqs(answer[c]) :
         LET d == evaluate(policies, EnvelopeOf[c], clock)
         IN  decision' = [decision EXCEPT ![c] =
                            {[action |-> d.action, by |-> d.by, at |-> clock]}]
    /\ answer' = [answer EXCEPT ![c] = {}]
    /\ pc' = [pc EXCEPT ![c] = "idle"]
    /\ UNCHANGED <<clock, published, withdrawn, cache, start, stale>>

\* invalidate(), by any thread, or a restart between two calls.
invalidate ==
    /\ cache' = {}
    /\ UNCHANGED <<clock, published, withdrawn, callVars>>

Tick ==
    /\ clock < MaxTime
    /\ clock' = clock + 1
    /\ UNCHANGED <<published, withdrawn, cache, callVars>>

CallStep(c) ==
    \/ Begin(c) \/ Hit(c) \/ Miss(c) \/ Load(c) \/ Store(c)
    \/ FallBack(c) \/ Raise(c) \/ Evaluate(c)

Next == Administer \/ invalidate \/ Tick \/ \E c \in Calls : CallStep(c)

Spec == Init /\ [][Next]_vars

-----------------------------------------------------------------------------

Passes(c) == \E d \in decision[c] : d.action = "PASS"

\* A policy was in the table, and in force, at some moment of [from, to], as
\* far as the clock tells.
SeenWithin(p, from, to) ==
    /\ \E t \in published[p] : t <= to
    /\ \A t \in withdrawn[p] : from <= t
    /\ \A t \in p.valid_from : t <= to
    /\ \A t \in p.valid_until : from < t

\* A prohibition (BLOCK or HITL) that has been in the table and in force for
\* longer than the TTL is obeyed by every call that begins after that: caches,
\* slow loads and concurrent calls never hide it.  Only an entry past its TTL,
\* used because the database failed, can.  A prohibition younger than the TTL
\* may be missed (policy_store.py:50-84).
ProhibitionIsObeyed ==
    \A c \in Calls, p \in Policies :
        /\ p.effect # "PASS" /\ matches(p, EnvelopeOf[c])
        /\ InTable(p) /\ \E t \in published[p] : t + TTL < start[c]
        /\ \A t \in p.valid_from : t + TTL <= start[c]
        /\ \A t \in p.valid_until : clock < t
        /\ ~stale[c]
        => ~Passes(c)

\* A PASS rests on a policy that was in the table and in force no longer than
\* the TTL before its call began, or, when the database failed, at some time
\* before it, and that had not expired when the decision was taken.
PassIsAuthorised ==
    \A c \in Calls : \A d \in decision[c] : d.action = "PASS" =>
        \E p \in d.by :
            /\ p.effect = "PASS" /\ matches(p, EnvelopeOf[c])
            /\ is_active(p, d.at)
            /\ \/ \E from \in 0..start[c] : start[c] <= from + TTL /\ SeenWithin(p, from, d.at)
               \/ stale[c] /\ SeenWithin(p, 0, d.at)

\* What load_current returns holds no policy that had expired when it began,
\* whether it comes from the cache, the database or the fallback
\* (policy_store.py:4, "su vigencia efectiva no supera la de la policy").
AnswerIsInForce ==
    \A c \in Calls : pc[c] = "answered" =>
        \A p \in answer[c] : \A t \in p.valid_until : start[c] <= t

\* With the database down, a cache that outlived its TTL authorises reads only
\* (policy_store.py:4-6; docs/sessions/0005-resumen-h5-implementado.md:62).
\* The code does not keep this promise.
OnlyReadsOffline ==
    \A c \in Calls : stale[c] /\ Passes(c) => EnvelopeOf[c].scope = "READ"

=============================================================================
