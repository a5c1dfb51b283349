---------------------------- MODULE MCPolicyStore ----------------------------
(***************************************************************************)
(* Small instances of PolicyStore.  A scope is named after its operation   *)
(* class.                                                                  *)
(***************************************************************************)
EXTENDS PolicyStore

CONSTANTS c1, c2

ReadScope == {"READ"}
SendScope == {"EXTERNAL_SEND"}
Local     == {"LOCAL"}
Hosts     == {"h1", "h2"}
OneHost   == {"h1"}

Rule(id, effect, priority, obligations, from, until, covers) ==
    [policy_id |-> id, policy_version |-> 1, effect |-> effect, priority |-> priority,
     scope |-> "READ", environment |-> "LOCAL", covers |-> covers, exact |-> covers = OneHost,
     obligations |-> obligations, valid_from |-> from, valid_until |-> until]

\* A PASS for every resource, a PASS for one resource that asks for other
\* arguments and expires later, and a prohibition of that resource with a lower
\* priority that takes effect later.
Rules ==
    {Rule(1, "PASS", 50, <<USE_ORIGINAL>>, {0}, {2}, Hosts),
     Rule(2, "PASS", 60, <<USE_TRANSFORMED>>, {0}, {3}, OneHost),
     Rule(3, "BLOCK", 10, << >>, {1}, {}, OneHost)}

Seed == {p \in Policies : p.effect = "PASS"}

SendRule ==
    {[Rule(1, "PASS", 50, <<USE_ORIGINAL>>, {0}, {}, OneHost) EXCEPT !.scope = "EXTERNAL_SEND"]}

Two == {c1, c2}
One == {c1}
CallSymmetry == Permutations(Calls)
BothAskHost1 == [c \in Two |-> [scope |-> "READ", environment |-> "LOCAL", resource |-> "h1"]]
SendsToHost1 == [c \in One |-> [scope |-> "EXTERNAL_SEND", environment |-> "LOCAL", resource |-> "h1"]]

=============================================================================
