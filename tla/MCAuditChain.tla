---------------------------- MODULE MCAuditChain ----------------------------
(***************************************************************************)
(* Small instances of AuditChain.  Appends are numbered.                   *)
(***************************************************************************)
EXTENDS AuditChain

Two   == 1..2
Four  == 1..4

Contents == {"p", "q"}
Ids      == {"e1", "e2"}
OneId    == {"e1"}

DecisionIds == {"d1", "d2"}
OneDecision == {"d1"}
Places == {4, 5}

\* The third of four appends refers to an event with no decision, the fourth
\* names a decision that does not exist.
Records2 == <<"p", "p">>
Records4 == <<"p", "p", "q", "p">>
Refers2  == <<"e1", "e1">>
Refers4  == <<"e1", "e1", "e2", "e1">>
Names2   == <<"d1", "d1">>
Names4   == <<"d1", NULL, NULL, "d2">>

=============================================================================
