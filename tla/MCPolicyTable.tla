---------------------------- MODULE MCPolicyTable ----------------------------
(***************************************************************************)
(* A small instance of PolicyTable: one scope, two environments, two       *)
(* resources.                                                              *)
(***************************************************************************)
EXTENDS PolicyTable

OneScope == {"news"}
Both     == {"LOCAL", "PROD"}
Hosts    == {"h1", "h2"}

Rule(id, version, effect, priority, covers, obligations) ==
    [policy_id |-> id, policy_version |-> version, effect |-> effect, priority |-> priority,
     scope |-> "news", environment |-> "LOCAL", covers |-> covers, exact |-> covers # Hosts,
     obligations |-> obligations, valid_from |-> {0}, valid_until |-> {}]

O == <<USE_ORIGINAL>>
T == <<USE_TRANSFORMED>>

Seeded(environment) == [Rule(1, 1, "PASS", 50, Hosts, O) EXCEPT !.environment = environment]

ProfileSeeds == {Seeded(environment) : environment \in Both}

\* The seeded policy turned into a prohibition, or moved and with obligations
\* that do not parse; its second version; and two other policies, with an effect
\* each that allows and one that does not, higher or lower, for one resource or
\* all, limited in time.
AdminRules ==
    {Rule(1, 1, "BLOCK", 50, Hosts, O),
     [Rule(1, 1, "PASS", 50, Hosts, << >>) EXCEPT !.environment = "PROD"],
     Rule(1, 2, "PASS", 50, Hosts, O),
     [Rule(1, 2, "BLOCK", 50, {"h1"}, O) EXCEPT !.valid_from = {1}],
     [Rule(2, 1, "PASS", 50, {"h1"}, T) EXCEPT !.valid_until = {1}],
     [Rule(2, 1, "HITL", 10, Hosts, O) EXCEPT !.valid_until = {2}],
     Rule(3, 1, "PASS", 90, {"h1"}, <<USE_ORIGINAL, USE_ORIGINAL>>),
     [Rule(3, 1, "HITL", 50, {"h1"}, O) EXCEPT !.valid_from = {1}]}

=============================================================================
