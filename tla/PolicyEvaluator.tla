--------------------------- MODULE PolicyEvaluator ---------------------------
(***************************************************************************)
(* The decision function of module_c: GovernancePolicy.is_active and       *)
(* matches (policy.py), DeterministicEvaluator (deterministic_evaluator.py)*)
(* and the selection of arguments of a PASS.  The policies come as a list, *)
(* in whatever order the database returned its rows: a function from       *)
(* places, which are numbers.  A list made of some of them, as those that  *)
(* match, is the set of their places.                                      *)
(*                                                                         *)
(* A policy is a record.  "scope" and "environment" must equal those of    *)
(* the envelope (a scope is a profile, tool and operation class); "covers" *)
(* has the resources its pattern matches (every one, if it has none) and   *)
(* "exact" says that it names one; valid_from and valid_until are sets of  *)
(* at most one time, empty for NULL.  Identifiers are numbered in their    *)
(* alphabetical order.                                                     *)
(***************************************************************************)
EXTENDS Naturals, SequencesExt

CONSTANTS Scopes, Environments, Resources

USE_ORIGINAL    == "USE_ORIGINAL_ARGUMENTS"
USE_TRANSFORMED == "USE_TRANSFORMED_ARGUMENTS"

Selections == {USE_ORIGINAL, USE_TRANSFORMED}

Policy ==
    [policy_id : Nat, policy_version : Nat, effect : {"BLOCK", "HITL", "PASS"},
     priority : Nat, scope : Scopes, environment : Environments,
     covers : SUBSET Resources, exact : BOOLEAN, obligations : Seq(Selections),
     valid_from : SUBSET Nat, valid_until : SUBSET Nat]

Envelope == [scope : Scopes, environment : Environments, resource : Resources]

\* The primary key of governance_policies.
SameKey(p, q) == p.policy_id = q.policy_id /\ p.policy_version = q.policy_version

\* The WHERE clause of the query that loads the policies.
IsCurrent(p, now) ==
    /\ \A t \in p.valid_from : t <= now
    /\ \A t \in p.valid_until : t > now

is_active(p, now) ==
    /\ \A t \in p.valid_from : t <= now
    /\ \A t \in p.valid_until : now <= t

matches(p, envelope) ==
    /\ p.scope = envelope.scope
    /\ p.environment = envelope.environment
    /\ envelope.resource \in p.covers

Applies(p, envelope, now) == matches(p, envelope) /\ is_active(p, now)

_collect_matches(policies, envelope, now) ==
    {i \in DOMAIN policies : Applies(policies[i], envelope, now)}

\* The sort key (priority, resource_score, version_score, policy_id).
Score(p) == IF p.exact THEN 1 ELSE 0

Outranks(p, q) ==
    \/ p.priority > q.priority
    \/ p.priority = q.priority /\ Score(p) > Score(q)
    \/ p.priority = q.priority /\ p.exact = q.exact
         /\ \/ p.policy_version > q.policy_version
            \/ p.policy_version = q.policy_version /\ p.policy_id > q.policy_id

\* Mutant: the first of the list.
BestFirst(policies, M) == policies[CHOOSE i \in M : \A j \in M : i <= j]

\* What max() and sorted(reverse=True)[0] return: the first of the list that
\* none outranks.
Best(policies, M) ==
    policies[CHOOSE i \in M : \A j \in M :
                /\ ~Outranks(policies[j], policies[i])
                /\ j < i => Outranks(policies[i], policies[j])]

\* The policies at the places M, each after as many as "before" has for it.
Arranged(policies, M, before) ==
    [k \in 1..Cardinality(M) |->
       policies[CHOOSE i \in M : Cardinality(before[i]) = k - 1]]

InListOrder(policies, M) == Arranged(policies, M, [i \in M |-> {j \in M : j < i}])

\* sorted(reverse=True), which keeps the order of equals.
Precedes(p, j, q, i) == Outranks(p, q) \/ (j < i /\ ~Outranks(q, p))

InRankOrder(policies, M) ==
    Arranged(policies, M, [i \in M |-> {j \in M : Precedes(policies[j], j, policies[i], i)}])

\* Both selections appear among the policies.
_detect_conflicts(policies, M) ==
    Selections \subseteq UNION {ToSet(policies[i].obligations) : i \in M}

\* The selection function raises unless exactly one obligation selects.
Selectable(p) == Len(p.obligations) = 1

\* A decision: "by" is the policy it names, if any, and "matched" the list
\* that explains it.
Refusal(reason, by, matched) ==
    [action |-> "BLOCK", reason |-> reason, by |-> by, matched |-> matched,
     obligations |-> << >>]

_decision_for(best, matched, action, reason) ==
    [action |-> action, reason |-> reason, by |-> {best}, matched |-> matched,
     obligations |-> best.obligations]

\* Mutant: the policy with the highest rank decides, whatever its effect.
_resolveByRank(policies, M) ==
    LET best    == Best(policies, M)
        matched == InListOrder(policies, M)
    IN  IF best.effect = "PASS" /\ Selectable(best)
        THEN _decision_for(best, matched, "PASS", "ALLOWED")
        ELSE Refusal("INSUFFICIENT_AUTHORIZATION", {best}, matched)

\* BLOCK over HITL over PASS; a PASS needs unambiguous obligations.
_resolve(policies, M) ==
    LET With(effect) == {i \in M : policies[i].effect = effect}
        Decide(effect, reason) ==
            _decision_for(Best(policies, With(effect)), InListOrder(policies, With(effect)),
                          effect, reason)
        best_pass == Best(policies, With("PASS"))
    IN  IF With("BLOCK") # {} THEN Decide("BLOCK", "INSUFFICIENT_AUTHORIZATION")
        ELSE IF With("HITL") # {} THEN Decide("HITL", "HUMAN_APPROVAL_REQUIRED")
        ELSE IF _detect_conflicts(policies, With("PASS")) \/ ~Selectable(best_pass) THEN
            Refusal("POLICY_CONFLICT", {best_pass}, InListOrder(policies, M))
        ELSE _decision_for(best_pass, InRankOrder(policies, With("PASS")), "PASS", "ALLOWED")

evaluate(policies, envelope, now) ==
    LET M == _collect_matches(policies, envelope, now)
    IN  IF M = {} THEN Refusal("NO_POLICY_MATCHED", {}, << >>) ELSE _resolve(policies, M)

-----------------------------------------------------------------------------
(* The precedence of policies: what deterministic_evaluator.py:4-14 says,   *)
(* less two clauses that the code does not keep.  Line 5 has a sensitivity *)
(* evaluated, and nothing reads sensitivity_limit.  Lines 13-14 (and       *)
(* policy.py:6-7) have incompatible versions conflict; here, as in the     *)
(* code, only obligations do.                                              *)

\* The decision D follows the precedence for A, the set of the policies that apply.
\* One BLOCK prohibits and one HITL asks for a human, whatever the rank of the
\* others; a PASS needs a policy, no prohibition, no two selections among the
\* policies that allow, and exactly one from the one it names.  The policy named
\* has the effect that won, and no other with that effect precedes it in
\* priority, or in specificity with the same priority.
FollowsPrecedence(D, A) ==
    LET winner == IF \E p \in A : p.effect = "BLOCK" THEN "BLOCK"
                  ELSE IF \E p \in A : p.effect = "HITL" THEN "HITL"
                  ELSE "PASS"
        asked == UNION {ToSet(p.obligations) : p \in A}
    IN
    /\ D.by = {} <=> A = {}
    /\ \A p \in D.by :
         /\ p \in A /\ p.effect = winner
         /\ \A q \in A : q.effect = winner =>
              \/ p.priority > q.priority
              \/ p.priority = q.priority /\ (p.exact \/ ~q.exact)
    /\ D.action = "HITL" <=> winner = "HITL"
    /\ D.action = "PASS" <=>
         /\ A # {} /\ winner = "PASS"
         /\ asked # Selections
         /\ \E p \in D.by : Len(p.obligations) = 1
    /\ D.action = "PASS" => ToSet(D.obligations) = asked

\* A decision apart from the order in which a refusal explains itself.
Ruling(decision) == [decision EXCEPT !.matched = IF decision.action = "PASS" THEN @ ELSE ToSet(@)]

=============================================================================
