----------------------------- MODULE AuditChain -----------------------------
(***************************************************************************)
(* The audit chain (audit/append.py, audit/canonical.py, audit/verify.py): *)
(* concurrent AuditChainAppender.append calls over one PostgreSQL table    *)
(* and the verifier that walks it.                                         *)
(*                                                                         *)
(* SHA-256 is ideal: a hash is the sequence of the payloads it was         *)
(* computed from.  Isolation is READ COMMITTED: SELECT ... FOR UPDATE      *)
(* picks the head in the snapshot its statement started with and returns   *)
(* that row once its lock is free, for a plain INSERT by the lock's last   *)
(* holder does not change the row.  policy_decisions does not change.      *)
(* Damage to a committed row, past the triggers and grants of migration    *)
(* 003, happens while no append runs.                                      *)
(***************************************************************************)
EXTENDS Naturals, Sequences, FiniteSets

CONSTANTS
    Appends,    \* calls of append
    Payloads,   \* canonical payloads
    PayloadOf,  \* what each call records
    Events,     \* event ids
    EventOf,    \* the event each call refers to
    Decisions,  \* decision ids
    DecisionOf, \* the decision each call names, or NULL
    Decided,    \* the events with a row in policy_decisions
    Known,      \* the decisions with a row in policy_decisions
    NULL,
    Damageable, \* bound: whether one row may be damaged
    Numbers     \* bound: the sequences a damaged row may be moved to

ASSUME ChainAssumption ==
    /\ PayloadOf \in [Appends -> Payloads]
    /\ EventOf \in [Appends -> Events]
    /\ DecisionOf \in [Appends -> Decisions \cup {NULL}]
    /\ Decided \subseteq Events /\ Known \subseteq Decisions
    /\ NULL \notin Payloads \cup Decisions
    /\ Damageable \in BOOLEAN /\ Numbers \subseteq Nat \ {0}

VARIABLES
    rows,     \* audit_chain: the committed rows
    pc,       \* where each append is
    head,     \* the head it read: at most one row
    written,  \* the row it inserted and has not committed: at most one
    answer,   \* the sequence it returned, 0 if none
    damage    \* history: what was done to which row

vars == <<rows, pc, head, written, answer, damage>>

GENESIS_HASH == << >>

chain_hash(prev, payload) == Append(prev, payload)

\* decision_id and payload are nullable, and decision_id has no foreign key.
Row == [audit_id : Appends, sequence : Nat, event : Events, decision : Decisions \cup {NULL},
        payload : Payloads \cup {NULL}, prev : Seq(Payloads), chain : Seq(Payloads)]

TypeOK ==
    /\ rows \in SUBSET Row
    /\ pc \in [Appends -> {"idle", "waiting", "read", "inserted", "done"}]
    /\ head \in [Appends -> SUBSET Row]
    /\ written \in [Appends -> SUBSET Row]
    /\ answer \in [Appends -> Nat]

Init ==
    /\ rows = {}
    /\ pc = [w \in Appends |-> "idle"]
    /\ head = [w \in Appends |-> {}]
    /\ written = [w \in Appends |-> {}]
    /\ answer = [w \in Appends |-> 0]
    /\ damage = {}

-----------------------------------------------------------------------------
(* AuditChainAppender.append.                                              *)

Last(R) == {r \in R : \A s \in R : s.sequence <= r.sequence}

InTx(w) == pc[w] \in {"read", "inserted"}

\* _read_head starts: its snapshot fixes which row it will return.
ReadStart(w) ==
    /\ pc[w] = "idle"
    /\ pc' = [pc EXCEPT ![w] = "waiting"]
    /\ head' = [head EXCEPT ![w] = Last(rows)]
    /\ UNCHANGED <<rows, written, answer, damage>>

\* It returns when nobody else has that row locked.  An empty chain has no row
\* to lock.
ReadHead(w) ==
    /\ pc[w] = "waiting"
    /\ \A v \in Appends : InTx(v) => head[v] \cap head[w] = {}
    /\ pc' = [pc EXCEPT ![w] = "read"]
    /\ UNCHANGED <<rows, head, written, answer, damage>>

\* Mutant: payload and event id are swapped.
NewRowSwapped(w) ==
    [audit_id |-> w,
     sequence |-> IF head[w] = {} THEN 1 ELSE (CHOOSE r \in head[w] : TRUE).sequence + 1,
     event    |-> PayloadOf[w],
     decision |-> DecisionOf[w],
     payload  |-> EventOf[w],
     prev     |-> GENESIS_HASH,
     chain    |-> chain_hash(GENESIS_HASH, EventOf[w])]

NewRow(w) ==
    LET first == head[w] = {}
        last  == CHOOSE r \in head[w] : TRUE
        prev  == IF first THEN GENESIS_HASH ELSE last.chain
    IN
    [audit_id |-> w,
     sequence |-> IF first THEN 1 ELSE last.sequence + 1,
     event    |-> EventOf[w],
     decision |-> DecisionOf[w],
     payload  |-> PayloadOf[w],
     prev     |-> prev,
     chain    |-> chain_hash(prev, PayloadOf[w])]

\* Mutant: the table has no UNIQUE(sequence).
AcceptableTwice(w) == EventOf[w] \in Decided

\* UNIQUE(sequence) and the foreign key on policy_decisions.
Acceptable(w) ==
    /\ \A r \in rows : r.sequence # NewRow(w).sequence
    /\ EventOf[w] \in Decided

\* The INSERT waits for an uncommitted row with the same sequence.
Insert(w) ==
    /\ pc[w] = "read"
    /\ \A v \in Appends : \A r \in written[v] : r.sequence # NewRow(w).sequence
    /\ Acceptable(w)
    /\ written' = [written EXCEPT ![w] = {NewRow(w)}]
    /\ pc' = [pc EXCEPT ![w] = "inserted"]
    /\ UNCHANGED <<rows, head, answer, damage>>

\* Mutant: the connection goes back without a rollback.
EndWithoutRollback(w) ==
    /\ pc' = [pc EXCEPT ![w] = "done"]
    /\ head' = [head EXCEPT ![w] = {}]
    /\ UNCHANGED written

End(w) ==
    /\ pc' = [pc EXCEPT ![w] = "done"]
    /\ head' = [head EXCEPT ![w] = {}]
    /\ written' = [written EXCEPT ![w] = {}]

\* The constraint refuses the row: rollback and an exception.
InsertRefused(w) ==
    /\ pc[w] = "read"
    /\ ~Acceptable(w)
    /\ End(w)
    /\ UNCHANGED <<rows, answer, damage>>

\* Mutant: the sequence is returned before the commit, which then fails.
CommitAnsweredFirst(w) ==
    /\ pc[w] = "inserted"
    /\ rows' \in {rows, rows \cup written[w]}
    /\ answer' = [answer EXCEPT ![w] = NewRow(w).sequence]
    /\ End(w)
    /\ UNCHANGED damage

\* The commit; the caller may get an exception although it took effect.
Commit(w) ==
    /\ pc[w] = "inserted"
    /\ rows' = rows \cup written[w]
    /\ answer' \in {answer, [answer EXCEPT ![w] = NewRow(w).sequence]}
    /\ End(w)
    /\ UNCHANGED damage

\* The database failed: rollback.
Abort(w) ==
    /\ pc[w] \in {"waiting", "read", "inserted"}
    /\ End(w)
    /\ UNCHANGED <<rows, answer, damage>>

AppendStep(w) ==
    \/ ReadStart(w) \/ ReadHead(w) \/ Insert(w) \/ InsertRefused(w) \/ Commit(w) \/ Abort(w)

-----------------------------------------------------------------------------
(* AuditChainVerifier.verify.                                              *)

Before(r) == {s \in rows : s.sequence < r.sequence}

\* A decision is looked up only when the row names one.
Names(r, known) == r.decision # NULL => r.decision \in known

\* Mutant: the recalculated hash is not compared.
DefectWithoutHash(r) ==
    LET before == Before(r)
        prev   == IF before = {} THEN GENESIS_HASH ELSE (CHOOSE s \in Last(before) : TRUE).chain
    IN  IF before # {} /\ \A s \in before : s.sequence # r.sequence - 1 THEN "sequence_gap"
        ELSE IF r.prev # prev THEN "prev_hash_mismatch"
        ELSE IF \E s \in before : s.chain = r.chain THEN "duplicate_hash"
        ELSE IF r.payload = NULL THEN "hash_mismatch"
        ELSE IF r.event \notin Decided THEN "missing_event_reference"
        ELSE IF ~Names(r, Known) THEN "missing_decision_reference"
        ELSE "none"

\* What _check finds wrong with a row whose predecessors it passed.
Defect(r) ==
    LET before == Before(r)
        prev   == IF before = {} THEN GENESIS_HASH ELSE (CHOOSE s \in Last(before) : TRUE).chain
    IN  IF before # {} /\ \A s \in before : s.sequence # r.sequence - 1 THEN "sequence_gap"
        ELSE IF r.prev # prev THEN "prev_hash_mismatch"
        ELSE IF \E s \in before : s.chain = r.chain THEN "duplicate_hash"
        ELSE IF r.payload = NULL THEN "hash_mismatch"
        ELSE IF r.chain # chain_hash(r.prev, r.payload) THEN "hash_mismatch"
        ELSE IF r.event \notin Decided THEN "missing_event_reference"
        ELSE IF ~Names(r, Known) THEN "missing_decision_reference"
        ELSE "none"

\* verify() stops at the first defect: its sequence and reason, or nothing.
verify ==
    LET bad == {r \in rows : Defect(r) # "none"}
    IN  {[sequence |-> r.sequence, reason |-> Defect(r)] :
            r \in {r \in bad : \A s \in bad : r.sequence <= s.sequence}}

-----------------------------------------------------------------------------
(* Damage to a committed row.                                              *)

Quiet == \A w \in Appends : pc[w] \in {"idle", "done"}

Damaged(r, how, now) ==
    /\ rows' = (rows \ {r}) \cup now
    /\ damage' = damage \cup {[how |-> how, was |-> r, now |-> now, tail |-> r \in Last(rows)]}
    /\ UNCHANGED <<pc, head, written, answer>>

Chains == {s.chain : s \in rows}

Damage ==
    /\ Quiet
    /\ Damageable /\ damage = {}
    /\ \E r \in rows :
         \/ Damaged(r, "deleted", {})
         \/ \E p \in (Payloads \cup {NULL}) \ {r.payload} :
              Damaged(r, "payload", {[r EXCEPT !.payload = p]})
         \/ \E c \in (Chains \cup {chain_hash(r.prev, p) : p \in Payloads}) \ {r.chain} :
              Damaged(r, "hash", {[r EXCEPT !.chain = c]})
         \/ \E c \in (Chains \cup {GENESIS_HASH}) \ {r.prev} :
              Damaged(r, "prev", {[r EXCEPT !.prev = c]})
         \/ \E n \in Numbers \ {s.sequence : s \in rows} :
              Damaged(r, "moved", {[r EXCEPT !.sequence = n]})
         \/ \E p \in Payloads \ {r.payload} :
              Damaged(r, "rewritten", {[r EXCEPT !.payload = p, !.chain = chain_hash(r.prev, p)]})
         \/ \E e \in Events \ {r.event} :
              Damaged(r, "reference", {[r EXCEPT !.event = e]})
         \/ \E d \in (Decisions \cup {NULL}) \ {r.decision} :
              Damaged(r, "reference", {[r EXCEPT !.decision = d]})

Next == Damage \/ \E w \in Appends : AppendStep(w)

Spec == Init /\ [][Next]_vars

\* An append in flight takes its next step unless it is blocked, and whoever
\* waits for a row lock or for a uniqueness check is served.
Fairness ==
    \A w \in Appends :
        /\ WF_vars(ReadHead(w))
        /\ WF_vars(Insert(w) \/ InsertRefused(w))
        /\ WF_vars(Commit(w))

FairSpec == Spec /\ Fairness

-----------------------------------------------------------------------------

\* The rows whose append named a decision that does not exist.
Orphans == {r \in rows : r.decision = DecisionOf[r.audit_id] /\ ~Names(r, Known)}

\* However many writers append at once, and whatever fails, the table is one
\* unforked chain from genesis, and verify() accepts it unless an append named
\* a decision that does not exist: nothing refuses such a row, and verify()
\* stops at the first one (audit/append.py, audit/verify.py:152-154).
ChainVerifies ==
    damage = {} =>
        /\ \A r, s \in rows : r.sequence = s.sequence => r = s
        /\ verify = {[sequence |-> r.sequence, reason |-> "missing_decision_reference"] :
                        r \in {r \in Orphans : \A s \in Orphans : r.sequence <= s.sequence}}

\* The rows in the order of their sequence.
LogOfRows ==
    [i \in 1..Cardinality(rows) |->
        LET r == CHOOSE r \in rows : Cardinality({s \in rows : s.sequence <= r.sequence}) = i
        IN  [by |-> r.audit_id, record |-> <<r.event, r.decision, r.payload>>]]

Log == INSTANCE AppendOnlyLog WITH
    Writers  <- Appends,
    RecordOf <- [w \in Appends |-> <<EventOf[w], DecisionOf[w], PayloadOf[w]>>],
    log      <- LogOfRows,
    told     <- answer,
    tampered <- damage # {}

\* The appends that race for the head, wait for each other, are refused or fail
\* half-way make one append-only log: an append adds its own record once, after
\* all others, and what it returns is the place where the record is
\* (audit/append.py:1-10).
ImplementsLog == Log!Spec

\* Where damage shows: at the row itself, at the next one, whose link no longer
\* fits, or at the place the row was moved to.  The hash covers neither the
\* references nor the sequence, so a reference to another existing decision, a
\* first row moved alone and a last row removed or rewritten show nowhere.
Shown(d) ==
    LET k == d.was.sequence IN
    CASE d.how \in {"payload", "hash", "prev"} -> {k}
      [] d.how \in {"deleted", "rewritten"} -> IF d.tail THEN {} ELSE {k + 1}
      [] d.how = "moved" -> IF ~d.tail THEN {k + 1}
                            ELSE {x.sequence : x \in {x \in d.now : k # 1}}
      [] d.how = "reference" -> {x.sequence : x \in
            {x \in d.now : x.event \notin Decided \/ ~Names(x, Known)}}

\* verify() points at the first row that does not fit, whatever was done to a
\* committed row and whatever is appended later; it points elsewhere only if it
\* stops before, at a row whose append named an unknown decision
\* (audit/verify.py, docs/sessions/0007 line 17).
DamageIsReported ==
    \A d \in damage : \A k \in Shown(d) :
        \E v \in verify :
            \/ v.sequence = k
            \/ v.sequence < k /\ \E r \in Orphans : r.sequence = v.sequence

\* Every append ends, although appends wait for each other.
EveryAppendEnds == \A w \in Appends : pc[w] # "idle" ~> pc[w] = "done"

\* Writers are serialised: whoever has read the head inserts right after it
\* (audit/append.py:3, "serializa la lectura de cabeza y el append").  The code
\* does not keep this promise.
AppendsAreSerialized == \A w \in Appends : pc[w] = "read" => head[w] = Last(rows)

=============================================================================
