------------------------- MODULE MCEnforcementPoint -------------------------
(***************************************************************************)
(* The analyst profile (all guardrails), with a rate limit of one.         *)
(***************************************************************************)
EXTENDS EnforcementPoint

AnalystGuards == <<"query_injection", "topic_relevance", "rate_limit">>
AnInstant == {0}

=============================================================================
