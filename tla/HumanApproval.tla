--------------------------- MODULE HumanApproval ---------------------------
(***************************************************************************)
(* What the human-approval protocol promises, with no database, token,     *)
(* hold or thread in sight: a tool call that needs a human is asked for    *)
(* once, decided at most once, redeemed at most once after an approval,    *)
(* and its tool is invoked at most once after that.  Every step may also   *)
(* never happen: the protocol promises "at most once", never "once".       *)
(***************************************************************************)
EXTENDS Naturals

CONSTANT Events

VARIABLES
    phase,     \* how far the protocol got for each event
    effects    \* how many times the tool of each event was invoked

aVars == <<phase, effects>>

Phases == {"unrequested", "pending", "withdrawn", "approved", "rejected",
           "redeemed", "executed"}

AbstractTypeOK ==
    /\ phase \in [Events -> Phases]
    /\ effects \in [Events -> Nat]

AbstractInit ==
    /\ phase = [e \in Events |-> "unrequested"]
    /\ effects = [e \in Events |-> 0]

Move(e, from, to) ==
    /\ phase[e] = from
    /\ phase' = [phase EXCEPT ![e] = to]

\* The request becomes durable, with its arguments held and its token issued.
Ask(e) == Move(e, "unrequested", "pending") /\ UNCHANGED effects

\* The arguments could not be held: the request is durable but not resumable.
Withdraw(e) == Move(e, "unrequested", "withdrawn") /\ UNCHANGED effects

\* An auditor decides, once.
Decide(e) ==
    /\ \E verdict \in {"approved", "rejected"} : Move(e, "pending", verdict)
    /\ UNCHANGED effects

\* The token is exchanged for the right to invoke the tool.
Redeem(e) == Move(e, "approved", "redeemed") /\ UNCHANGED effects

\* The tool is invoked.
Execute(e) ==
    /\ Move(e, "redeemed", "executed")
    /\ effects' = [effects EXCEPT ![e] = @ + 1]

AbstractNext ==
    \E e \in Events : Ask(e) \/ Withdraw(e) \/ Decide(e) \/ Redeem(e) \/ Execute(e)

AbstractSpec == AbstractInit /\ [][AbstractNext]_aVars

=============================================================================
