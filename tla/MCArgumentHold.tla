--------------------------- MODULE MCArgumentHold ---------------------------
(***************************************************************************)
(* Two threads, two events and payloads of one to three bytes, the last    *)
(* over the limit of a single hold.                                        *)
(***************************************************************************)
EXTENDS ArgumentHold, TLC

CONSTANTS t1, t2, e1, e2, small, big, huge

Workers   == {t1, t2}
EventIds  == {e1, e2}
Payloads  == {small, big, huge}
Sizes     == small :> 1 @@ big :> 2 @@ huge :> 3
HoldsPerEvent == e1 :> 2 @@ e2 :> 1
ThreadSymmetry == Permutations(Workers)

=============================================================================
