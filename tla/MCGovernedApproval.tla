------------------------- MODULE MCGovernedApproval -------------------------
(***************************************************************************)
(* Small instances of GovernedApproval.  Callers are numbered, so that who *)
(* calls what is a tuple: its n-th component belongs to the n-th caller.   *)
(***************************************************************************)
EXTENDS GovernedApproval

OneEvent  == {"e1"}
OneArg    == {"a1"}
First  == 1..1
Both   == 1..2
Three  == 1..3

\* Caller n works for event, request or resumer n.
Event1   == <<"e1">>
Event11  == <<"e1", "e1">>
Event111 == <<"e1", "e1", "e1">>
Arg1     == <<"a1">>
Arg11    == <<"a1", "a1">>
To1      == <<1>>
To12     == <<1, 2>>
To11     == <<1, 1>>

=============================================================================
