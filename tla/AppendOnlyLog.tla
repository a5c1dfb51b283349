---------------------------- MODULE AppendOnlyLog ----------------------------
(***************************************************************************)
(* What the audit chain promises its writers, without hashes, locks and    *)
(* transactions: a log to which every call adds its record at most once,   *)
(* at the end, whole or not at all, and whose answer is the position the   *)
(* record has from then on.  The promise ends when somebody rewrites the   *)
(* table past its guards.                                                  *)
(***************************************************************************)
EXTENDS Naturals, Sequences

CONSTANTS
    Writers,  \* calls of append
    RecordOf  \* what each call records, a function over Writers

VARIABLES
    log,      \* the records, each with the call it comes from
    told,     \* the position each call was told, 0 if none
    tampered  \* whether the log was rewritten

vars == <<log, told, tampered>>

Init ==
    /\ log = << >>
    /\ told = [w \in Writers |-> 0]
    /\ tampered = FALSE

\* A call adds its record, and is told so or not.
Record(w) ==
    /\ \A i \in DOMAIN log : log[i].by # w
    /\ log' = Append(log, [by |-> w, record |-> RecordOf[w]])
    /\ told' \in {told, [told EXCEPT ![w] = Len(log')]}
    /\ UNCHANGED tampered

\* Once the table is rewritten, nothing is promised any more.
Next == tampered' \/ \E w \in Writers : Record(w)

Spec == Init /\ [][Next]_vars

=============================================================================
