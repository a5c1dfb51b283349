--------------------------- MODULE AuditChainProofs ---------------------------
(***************************************************************************)
(* The invariants of AuditChain, and that it implements AppendOnlyLog, for *)
(* any number of appends, payloads and events.                             *)
(***************************************************************************)
EXTENDS AuditChain, FiniteSetTheorems, FunctionTheorems, SequenceTheorems, WellFoundedInduction,
        TLAPS

-----------------------------------------------------------------------------
(* Transactions: what an append knows and what it wrote.                   *)

Unique == \A r, s \in rows : r.sequence = s.sequence => r = s

InFlight(w) == pc[w] \in {"waiting", "read", "inserted"}

\* An append has read at most one head, and what it inserted is in nobody's way:
\* no committed row and no other uncommitted one has its sequence.
TxOK(w) ==
    /\ ~InFlight(w) => head[w] = {}
    /\ \A r, s \in head[w] : r = s
    /\ written[w] = IF pc[w] = "inserted" THEN {NewRow(w)} ELSE {}
    /\ pc[w] = "inserted" =>
         /\ EventOf[w] \in Decided
         /\ \A s \in rows : s.sequence # NewRow(w).sequence
         /\ \A v \in Appends : pc[v] = "inserted" /\ NewRow(v).sequence = NewRow(w).sequence => v = w

TxInv == TypeOK /\ Unique /\ \A w \in Appends : TxOK(w)

LEMMA LastUnique ==
  ASSUME TypeOK, Unique
  PROVE  /\ Last(rows) \subseteq rows /\ Last(rows) \subseteq Row
         /\ \A r, s \in Last(rows) : r = s
BY DEF Last, TypeOK, Unique, Row

\* The row an append writes: after its head, or the first.
LEMMA NewRowType ==
  ASSUME TypeOK, NEW w \in Appends, \A r, s \in head[w] : r = s
  PROVE  /\ NewRow(w) \in Row /\ NewRow(w).audit_id = w
         /\ NewRow(w).event = EventOf[w] /\ NewRow(w).decision = DecisionOf[w]
         /\ NewRow(w).payload = PayloadOf[w] /\ NewRow(w).payload # NULL
         /\ NewRow(w).chain = Append(NewRow(w).prev, NewRow(w).payload)
         /\ head[w] = {} => NewRow(w).sequence = 1 /\ NewRow(w).prev = << >>
         /\ \A h \in head[w] : NewRow(w).sequence = h.sequence + 1 /\ NewRow(w).prev = h.chain
<1> USE ChainAssumption DEF NewRow, chain_hash, GENESIS_HASH
<1>1. CASE head[w] = {}
  BY <1>1 DEF Row
<1>2. CASE head[w] # {}
  <2>1. PICK h \in head[w] : TRUE
    BY <1>2
  <2>2. (CHOOSE r \in head[w] : TRUE) = h
    BY <2>1
  <2>3. h \in Row
    BY <2>1 DEF TypeOK
  <2>4. NewRow(w) = [audit_id |-> w, sequence |-> h.sequence + 1, event |-> EventOf[w],
                     decision |-> DecisionOf[w], payload |-> PayloadOf[w], prev |-> h.chain, chain |-> Append(h.chain, PayloadOf[w])]
    BY <1>2, <2>2
  <2>5. h.sequence + 1 \in Nat /\ h.chain \in Seq(Payloads)
    BY <2>3 DEF Row
  <2>6. NewRow(w) \in Row
    BY <2>4, <2>5 DEF Row
  <2> HIDE DEF NewRow
  <2>7. QED
    BY <1>2, <2>1, <2>4, <2>6
<1>3. QED
  BY <1>1, <1>2

\* It depends only on the head.
LEMMA NewRowSame ==
  ASSUME NEW w \in Appends, head'[w] = head[w]
  PROVE  NewRow(w)' = NewRow(w)
BY DEF NewRow

Kinds == {"payload", "hash", "prev", "moved", "rewritten", "reference"}

\* What Damage puts in the place of a row.
Altered(r, how, x) ==
    /\ x \in Row /\ x.audit_id = r.audit_id
    /\ how # "moved" => x.sequence = r.sequence
    /\ how = "payload" => x.payload # r.payload /\ x.prev = r.prev /\ x.chain = r.chain
    /\ how = "hash" => x.chain # r.chain /\ x.prev = r.prev /\ x.payload = r.payload
    /\ how = "prev" => x.prev # r.prev
    /\ how = "moved" =>
         x.sequence # 0 /\ (\A s \in rows : s.sequence # x.sequence) /\ x.prev = r.prev
    /\ how = "rewritten" =>
         /\ x.prev = r.prev /\ x.event = r.event /\ x.decision = r.decision
         /\ x.payload \in Payloads \ {r.payload} /\ x.chain = Append(x.prev, x.payload)

\* Damage is done once, and leaves what the appends keep alone.
LEMMA DamageGrows ==
  ASSUME Damage
  PROVE  damage = {} /\ damage' # {} /\ UNCHANGED <<pc, head, written, answer>>
<1>1. \A r, how, now :
        Damaged(r, how, now) => damage' # {} /\ UNCHANGED <<pc, head, written, answer>>
  BY DEF Damaged
<1>2. QED
  BY <1>1, Zenon DEF Damage

LEMMA DamageCases ==
  ASSUME TypeOK, Damage
  PROVE  \E r \in rows :
           \/ Damaged(r, "deleted", {})
           \/ \E how \in Kinds, x \in Row : Damaged(r, how, {x}) /\ Altered(r, how, x)
<1>1. PICK r \in rows :
        \/ Damaged(r, "deleted", {})
        \/ \E p \in (Payloads \cup {NULL}) \ {r.payload} :
             Damaged(r, "payload", {[r EXCEPT !.payload = p]})
        \/ \E c \in (Chains \cup {chain_hash(r.prev, p) : p \in Payloads}) \ {r.chain} :
             Damaged(r, "hash", {[r EXCEPT !.chain = c]})
        \/ \E c \in (Chains \cup {GENESIS_HASH}) \ {r.prev} :
             Damaged(r, "prev", {[r EXCEPT !.prev = c]})
        \/ \E n \in Numbers \ {s.sequence : s \in rows} :
             Damaged(r, "moved", {[r EXCEPT !.sequence = n]})
        \/ \E p \in Payloads \ {r.payload} :
             Damaged(r, "rewritten", {[r EXCEPT !.payload = p, !.chain = chain_hash(r.prev, p)]})
        \/ \E e \in Events \ {r.event} :
             Damaged(r, "reference", {[r EXCEPT !.event = e]})
        \/ \E d \in (Decisions \cup {NULL}) \ {r.decision} :
             Damaged(r, "reference", {[r EXCEPT !.decision = d]})
  BY DEF Damage
<1>2. r \in Row /\ Chains \subseteq Seq(Payloads) /\ \A p \in Payloads : chain_hash(r.prev, p) \in Seq(Payloads)
  BY DEF TypeOK, Row, Chains, chain_hash
<1>3. \A p \in (Payloads \cup {NULL}) \ {r.payload} : Altered(r, "payload", [r EXCEPT !.payload = p])
  BY <1>2 DEF Altered, Row
<1>4. \A c \in (Chains \cup {chain_hash(r.prev, p) : p \in Payloads}) \ {r.chain} :
        Altered(r, "hash", [r EXCEPT !.chain = c])
  BY <1>2 DEF Altered, Row
<1>5. \A c \in (Chains \cup {GENESIS_HASH}) \ {r.prev} : Altered(r, "prev", [r EXCEPT !.prev = c])
  <2>1. GENESIS_HASH \in Seq(Payloads)
    BY DEF GENESIS_HASH
  <2>2. QED
    BY <1>2, <2>1 DEF Altered, Row
<1>6. \A n \in Numbers \ {s.sequence : s \in rows} : Altered(r, "moved", [r EXCEPT !.sequence = n])
  BY <1>2, ChainAssumption DEF Altered, Row
<1>7. \A p \in Payloads \ {r.payload} :
        Altered(r, "rewritten", [r EXCEPT !.payload = p, !.chain = chain_hash(r.prev, p)])
  <2> SUFFICES ASSUME NEW p \in Payloads \ {r.payload}
               PROVE  Altered(r, "rewritten", [r EXCEPT !.payload = p, !.chain = chain_hash(r.prev, p)])
    OBVIOUS
  <2>1. PICK c \in Seq(Payloads) : c = chain_hash(r.prev, p)
    BY <1>2
  <2>2. Altered(r, "rewritten", [r EXCEPT !.payload = p, !.chain = c])
    BY <1>2, <2>1 DEF Altered, Row, chain_hash
  <2>3. QED
    BY <2>1, <2>2
<1>8. /\ \A e \in Events \ {r.event} : Altered(r, "reference", [r EXCEPT !.event = e])
      /\ \A d \in (Decisions \cup {NULL}) \ {r.decision} : Altered(r, "reference", [r EXCEPT !.decision = d])
  BY <1>2 DEF Altered, Row
<1>9. ASSUME NEW how \in Kinds, NEW x, Altered(r, how, x), Damaged(r, how, {x})
      PROVE  \E h \in Kinds, y \in Row : Damaged(r, h, {y}) /\ Altered(r, h, y)
  BY <1>9, Zenon DEF Altered
<1>10. /\ "payload" \in Kinds /\ "hash" \in Kinds /\ "prev" \in Kinds
       /\ "moved" \in Kinds /\ "rewritten" \in Kinds /\ "reference" \in Kinds
  BY DEF Kinds
<1>11. QED
  BY <1>1, <1>3, <1>4, <1>5, <1>6, <1>7, <1>8, <1>9, <1>10, Zenon

LEMMA InitTxInv == Init => TxInv
BY DEF Init, TxInv, TypeOK, Unique, TxOK, InFlight

\* A transaction that ends keeps the others' right to insert.
LEMMA EndTx ==
  ASSUME TxInv, NEW w \in Appends, End(w), rows' \in SUBSET Row, Unique', answer' \in [Appends -> Nat],
         \A v \in Appends : v # w /\ pc[v] = "inserted" =>
            \A s \in rows' : s.sequence # NewRow(v).sequence
  PROVE  TxInv'
<1> USE DEF TxInv, TypeOK
<1>1. TypeOK'
  BY DEF End
<1>2. ASSUME NEW v \in Appends, v # w PROVE TxOK(v)'
  <2>1. pc'[v] = pc[v] /\ head'[v] = head[v] /\ written'[v] = written[v] /\ pc'[w] = "done"
    BY <1>2 DEF End
  <2>2. NewRow(v)' = NewRow(v)
    BY <2>1, NewRowSame
  <2>3. \A u \in Appends : pc'[u] = "inserted" => pc[u] = "inserted" /\ NewRow(u)' = NewRow(u)
    BY NewRowSame DEF End
  <2>4. TxOK(v)
    OBVIOUS
  <2>5. QED
    BY <1>2, <2>1, <2>2, <2>3, <2>4 DEF TxOK, InFlight
<1>3. TxOK(w)'
  BY DEF End, TxOK, InFlight
<1>4. QED
  BY <1>1, <1>2, <1>3

LEMMA StepTxInv == TxInv /\ [Next]_vars => TxInv'
<1> SUFFICES ASSUME TxInv, [Next]_vars PROVE TxInv'
  OBVIOUS
<1> USE DEF TxInv, TypeOK
<1>1. ASSUME NEW w \in Appends, ReadStart(w) PROVE TxInv'
  <2>1. /\ pc[w] = "idle" /\ pc' = [pc EXCEPT ![w] = "waiting"]
        /\ head' = [head EXCEPT ![w] = Last(rows)] /\ UNCHANGED <<rows, written, answer>>
    BY <1>1 DEF ReadStart
  <2>2. TypeOK' /\ Unique'
    BY <2>1, LastUnique DEF Unique
  <2>3. ASSUME NEW v \in Appends PROVE TxOK(v)'
    <3>1. TxOK(v)
      OBVIOUS
    <3>2. CASE v = w
      BY <2>1, <3>1, <3>2, LastUnique DEF TxOK, InFlight
    <3>3. CASE v # w
      <4>1. NewRow(v)' = NewRow(v) /\ \A u \in Appends : u # w => NewRow(u)' = NewRow(u)
        BY <2>1, <3>3, NewRowSame
      <4>2. QED
        BY <2>1, <3>1, <3>3, <4>1 DEF TxOK, InFlight
    <3>4. QED
      BY <3>2, <3>3
  <2>4. QED
    BY <2>2, <2>3
<1>2. ASSUME NEW w \in Appends, ReadHead(w) PROVE TxInv'
  <2>1. /\ pc[w] = "waiting" /\ pc' = [pc EXCEPT ![w] = "read"]
        /\ UNCHANGED <<rows, head, written, answer>>
    BY <1>2 DEF ReadHead
  <2>2. \A v \in Appends : NewRow(v)' = NewRow(v)
    BY <2>1, NewRowSame
  <2>3. QED
    BY <2>1, <2>2 DEF TxOK, InFlight, Unique
<1>3. ASSUME NEW w \in Appends, Insert(w) PROVE TxInv'
  <2>1. /\ pc[w] = "read" /\ pc' = [pc EXCEPT ![w] = "inserted"]
        /\ written' = [written EXCEPT ![w] = {NewRow(w)}] /\ UNCHANGED <<rows, head, answer>>
        /\ EventOf[w] \in Decided
        /\ \A r \in rows : r.sequence # NewRow(w).sequence
        /\ \A v \in Appends : \A r \in written[v] : r.sequence # NewRow(w).sequence
    BY <1>3 DEF Insert, Acceptable
  <2>2. \A v \in Appends : NewRow(v)' = NewRow(v)
    BY <2>1, NewRowSame
  <2>3. NewRow(w) \in Row
    BY NewRowType DEF TxOK
  <2>4. TypeOK' /\ Unique'
    BY <2>1, <2>3 DEF Unique
  <2>5. \A v \in Appends : pc[v] = "inserted" => NewRow(v).sequence # NewRow(w).sequence
    BY <2>1 DEF TxOK
  <2>6. ASSUME NEW v \in Appends PROVE TxOK(v)'
    <3>1. TxOK(v)
      OBVIOUS
    <3>2. CASE v = w
      BY <2>1, <2>2, <2>5, <3>1, <3>2 DEF TxOK, InFlight
    <3>3. CASE v # w
      BY <2>1, <2>2, <2>5, <3>1, <3>3 DEF TxOK, InFlight
    <3>4. QED
      BY <3>2, <3>3
  <2>7. QED
    BY <2>4, <2>6
<1>4. ASSUME NEW w \in Appends, InsertRefused(w) \/ Abort(w) PROVE TxInv'
  <2>1. End(w) /\ UNCHANGED <<rows, answer>>
    BY <1>4 DEF InsertRefused, Abort
  <2>2. QED
    BY <2>1, EndTx DEF TxOK, Unique
<1>5. ASSUME NEW w \in Appends, Commit(w) PROVE TxInv'
  <2>1. /\ pc[w] = "inserted" /\ End(w) /\ rows' = rows \cup {NewRow(w)}
        /\ answer' \in {answer, [answer EXCEPT ![w] = NewRow(w).sequence]}
    BY <1>5 DEF Commit, TxOK
  <2>2. NewRow(w) \in Row /\ NewRow(w).sequence \in Nat
    BY NewRowType DEF TxOK, Row
  <2>3. Unique'
    BY <2>1 DEF TxOK, Unique
  <2>4. \A v \in Appends : v # w /\ pc[v] = "inserted" => \A s \in rows' : s.sequence # NewRow(v).sequence
    BY <2>1 DEF TxOK
  <2>5. QED
    BY <2>1, <2>2, <2>3, <2>4, EndTx
<1>6. CASE Damage
  <2>1. PICK r \in rows :
          \/ Damaged(r, "deleted", {})
          \/ \E how \in Kinds, x \in Row : Damaged(r, how, {x}) /\ Altered(r, how, x)
    BY <1>6, DamageCases
  <2>2. Quiet /\ UNCHANGED <<pc, head, written, answer>>
    BY <1>6, DamageGrows DEF Damage
  <2>3. rows' \in SUBSET Row /\ Unique'
    <3>1. CASE Damaged(r, "deleted", {})
      BY <3>1 DEF Damaged, Unique
    <3>2. ASSUME NEW how \in Kinds, NEW x \in Row, Damaged(r, how, {x}), Altered(r, how, x)
          PROVE  rows' \in SUBSET Row /\ Unique'
      BY <3>2 DEF Damaged, Altered, Unique
    <3>3. QED
      BY <2>1, <3>1, <3>2
  <2>4. \A v \in Appends : TxOK(v)'
    BY <2>2 DEF Quiet, TxOK, InFlight
  <2>5. QED
    BY <2>2, <2>3, <2>4
<1>7. CASE UNCHANGED vars
  <2>1. UNCHANGED <<rows, pc, head, written, answer>>
    BY <1>7 DEF vars
  <2>2. \A v \in Appends : NewRow(v)' = NewRow(v)
    BY <2>1, NewRowSame
  <2>3. QED
    BY <2>1, <2>2 DEF TxOK, InFlight, Unique
<1>8. QED
  BY <1>1, <1>2, <1>3, <1>4, <1>5, <1>6, <1>7 DEF Next, AppendStep

\* The appends keep the types, however they interleave and fail, and so does a
\* damaged table.
THEOREM ChainTypes == Spec => []TypeOK
<1>1. TxInv => TypeOK
  BY DEF TxInv
<1>2. QED
  BY InitTxInv, StepTxInv, <1>1, PTL DEF Spec

-----------------------------------------------------------------------------
(* The chain.                                                              *)

\* A row that continues the rows before it.
Sound(r) ==
    /\ r.sequence # 0 /\ Len(r.chain) = r.sequence
    /\ r.payload # NULL /\ r.chain = Append(r.prev, r.payload)
    /\ r.event \in Decided /\ r.decision = DecisionOf[r.audit_id]
    /\ r.sequence = 1 => r.prev = << >>
    /\ r.sequence # 1 => \E s \in rows : s.sequence = r.sequence - 1 /\ r.prev = s.chain

\* Before any damage the rows are one chain from genesis without gaps, every
\* head that was read is still one of them, and their appends are done.
Chained ==
    damage = {} =>
        /\ \A r \in rows : Sound(r) /\ pc[r.audit_id] = "done"
        /\ \E n \in Nat : {r.sequence : r \in rows} = 1..n
        /\ \A w \in Appends : head[w] \subseteq rows

\* After it, what is left of the chain up to the damaged place k.
FilledBelow(k) ==
    /\ k \in Nat \ {0}
    /\ \A r \in rows : r.sequence < k => Sound(r)
    /\ \A j \in 1..(k - 1) : \E r \in rows : r.sequence = j

\* A row with a defect of its own.
AlteredAt(k) ==
    \E r \in rows :
        /\ r.sequence = k
        /\ \/ r.payload = NULL \/ r.chain # Append(r.prev, r.payload)
           \/ r.event \notin Decided \/ ~Names(r, Known)

\* A row that is not linked to the one before it.
UnlinkedAt(k) ==
    \E r \in rows :
        /\ r.sequence = k
        /\ \/ k = 1 /\ r.prev # << >>
           \/ \E s \in rows : s.sequence = k - 1 /\ r.prev # s.chain

\* No row from k on before the one at j, and no append will add one.
MissingAt(k, j) ==
    /\ \A r \in rows : r.sequence \notin k..(j - 1)
    /\ \E r \in rows : r.sequence = j /\ r.prev # << >>
    /\ Last(rows) # {}
    /\ \A w \in Appends : InFlight(w) => \E h \in head[w] : h.sequence >= j

SeenAt(j) ==
    \/ FilledBelow(j) /\ (AlteredAt(j) \/ UnlinkedAt(j))
    \/ \E k \in 1..(j - 1) : FilledBelow(k) /\ MissingAt(k, j)

DamageKept == \A d \in damage : \A j \in Shown(d) : j \in Nat /\ SeenAt(j)

\* A row that continues sound rows has no defect but an unknown decision.
LEMMA SoundDefect ==
  ASSUME TypeOK, Unique, NEW r \in rows, \A s \in rows : s.sequence <= r.sequence => Sound(s)
  PROVE  Defect(r) = IF Names(r, Known) THEN "none" ELSE "missing_decision_reference"
<1> DEFINE prev == IF Before(r) = {} THEN GENESIS_HASH ELSE (CHOOSE s \in Last(Before(r)) : TRUE).chain
<1>1. /\ r \in Row /\ r.sequence \in Nat /\ Sound(r)
      /\ \A s \in Before(r) : s \in Row /\ s.sequence \in Nat /\ Sound(s) /\ s.sequence < r.sequence
  BY DEF TypeOK, Row, Before
<1>2. /\ r.prev = prev
      /\ Before(r) = {} \/ \E s \in Before(r) : s.sequence = r.sequence - 1
  <2>1. CASE r.sequence = 1
    <3>1. Before(r) = {}
      BY <1>1, <2>1 DEF Sound
    <3>2. QED
      BY <1>1, <2>1, <3>1 DEF Sound, GENESIS_HASH
  <2>2. CASE r.sequence # 1
    <3>1. PICK s \in rows : s.sequence = r.sequence - 1 /\ r.prev = s.chain
      BY <1>1, <2>2 DEF Sound
    <3>2. s \in Before(r)
      BY <1>1, <3>1 DEF Before, Sound
    <3>3. \A t \in Before(r) : t.sequence <= s.sequence
      BY <1>1, <3>1
    <3>4. Last(Before(r)) = {s}
      <4>1. s \in Last(Before(r))
        BY <3>2, <3>3 DEF Last
      <4>2. \A t \in Last(Before(r)) : t.sequence = s.sequence
        BY <1>1, <3>2, <3>3 DEF Last
      <4>3. QED
        BY <3>1, <4>1, <4>2 DEF Unique, Last, Before
    <3>5. (CHOOSE t \in Last(Before(r)) : TRUE) = s
      BY <3>4
    <3>6. QED
      BY <3>1, <3>2, <3>5
  <2>3. QED
    BY <2>1, <2>2
<1>3. \A s \in Before(r) : s.chain # r.chain
  BY <1>1 DEF Sound
<1>4. r.payload # NULL /\ r.chain = chain_hash(r.prev, r.payload) /\ r.event \in Decided
  BY <1>1 DEF Sound, chain_hash
<1> HIDE DEF prev
<1>5. Defect(r) =
        IF Before(r) # {} /\ \A s \in Before(r) : s.sequence # r.sequence - 1 THEN "sequence_gap"
        ELSE IF r.prev # prev THEN "prev_hash_mismatch"
        ELSE IF \E s \in Before(r) : s.chain = r.chain THEN "duplicate_hash"
        ELSE IF r.payload = NULL THEN "hash_mismatch"
        ELSE IF r.chain # chain_hash(r.prev, r.payload) THEN "hash_mismatch"
        ELSE IF r.event \notin Decided THEN "missing_event_reference"
        ELSE IF ~Names(r, Known) THEN "missing_decision_reference"
        ELSE "none"
  BY DEF Defect, prev
<1>6. QED
  BY <1>2, <1>3, <1>4, <1>5

\* verify() reports a defect at or before any row that has one.
LEMMA VerifyFinds ==
  ASSUME TypeOK, NEW r \in rows, Defect(r) # "none"
  PROVE  \E t \in rows : /\ Defect(t) # "none" /\ t.sequence <= r.sequence
                         /\ [sequence |-> t.sequence, reason |-> Defect(t)] \in verify
<1> DEFINE bad == {s \in rows : Defect(s) # "none"}
           places == {s.sequence : s \in bad}
           Less == {ss \in Nat \X Nat : ss[1] < ss[2]}
<1>1. \A s \in rows : s.sequence \in Nat
  BY DEF TypeOK, Row
<1>2. places \subseteq Nat /\ r.sequence \in places
  BY <1>1
<1>3. IsWellFoundedOn(Less, Nat)
  BY NatLessThanWellFounded DEF OpToRel
<1>4. PICK n \in places : \A m \in places : <<m, n>> \notin Less
  <2> HIDE DEF places, Less
  <2>1. places # {}
    BY <1>2
  <2>2. QED
    BY <1>2, <1>3, <2>1, WFMin
<1>5. \A m \in places : n <= m
  <2>1. \A m \in places : m \in Nat /\ n \in Nat /\ ~(m < n)
    BY <1>2, <1>4
  <2> HIDE DEF places
  <2>2. QED
    BY <2>1
<1>6. PICK t \in bad : t.sequence = n
  OBVIOUS
<1>7. \A s \in bad : t.sequence <= s.sequence
  BY <1>5, <1>6
<1>8. [sequence |-> t.sequence, reason |-> Defect(t)] \in verify
  BY <1>7 DEF verify
<1>9. QED
  BY <1>2, <1>5, <1>6, <1>8

LEMMA InitChained == Init => Chained /\ DamageKept
<1> SUFFICES ASSUME Init PROVE Chained /\ DamageKept
  OBVIOUS
<1>1. {r.sequence : r \in rows} = 1..0
  BY DEF Init
<1>2. QED
  BY <1>1 DEF Init, Chained, DamageKept

\* A row stays sound while rows are only added.
LEMMA SoundMono ==
  ASSUME NEW r, Sound(r), rows \subseteq rows'
  PROVE  Sound(r)'
BY DEF Sound

\* The row that is committed is the next one.
LEMMA CommitExtends ==
  ASSUME TxInv, Chained, damage = {}, NEW w \in Appends, pc[w] = "inserted",
         rows' = rows \cup {NewRow(w)}
  PROVE  /\ \A r \in rows' : Sound(r)'
         /\ \A n \in Nat : {r.sequence : r \in rows} = 1..n =>
              NewRow(w).sequence = n + 1 /\ {r.sequence : r \in rows'} = 1..(n + 1)
<1>1. PICK n \in Nat : {r.sequence : r \in rows} = 1..n
  BY DEF Chained
<1>2. (\A r \in rows : r.sequence \in 1..n) /\ \A j \in 1..n : \E r \in rows : r.sequence = j
  BY <1>1
<1>3. TxOK(w) /\ head[w] \subseteq rows /\ head[w] \subseteq Row
  BY DEF TxInv, TypeOK, Chained
<1>0. PICK new \in Row : new = NewRow(w)
  BY <1>3, NewRowType DEF TxOK, TxInv
<1>4. /\ new.event = EventOf[w] /\ new.decision = DecisionOf[w] /\ new.payload # NULL
      /\ new.audit_id = w
      /\ new.chain = Append(new.prev, new.payload)
      /\ head[w] = {} => new.sequence = 1 /\ new.prev = << >>
      /\ \A h \in head[w] : new.sequence = h.sequence + 1 /\ new.prev = h.chain
  BY <1>0, <1>3, NewRowType DEF TxOK, TxInv
<1>5. \A s \in rows : s.sequence # new.sequence
  BY <1>0, <1>3 DEF TxOK
<1>6. new.sequence = n + 1 /\ Sound(new)'
  <2>1. CASE head[w] = {}
    <3>1. new.sequence = 1 /\ new.prev = << >> /\ n = 0
      BY <1>2, <1>4, <1>5, <2>1
    <3>2. Len(new.chain) = 1
      BY <1>4, <3>1
    <3>3. QED
      BY <1>3, <1>4, <3>1, <3>2 DEF Sound, TxOK
  <2>2. CASE head[w] # {}
    <3>1. PICK h \in head[w] : h \in rows /\ h \in Row
      BY <1>3, <2>2
    <3>2. h.sequence \in 1..n /\ new.sequence = h.sequence + 1 /\ new.prev = h.chain /\ Sound(h)
      BY <1>2, <1>4, <3>1 DEF Chained
    <3>3. h.sequence = n
      BY <1>2, <1>5, <3>2
    <3>4. Len(new.chain) = h.sequence + 1
      BY <1>4, <3>1, <3>2 DEF Sound, Row
    <3>5. h \in rows'
      BY <3>1
    <3>6. QED
      BY <1>3, <1>4, <3>2, <3>3, <3>4, <3>5 DEF Sound, TxOK
  <2>3. QED
    BY <2>1, <2>2
<1>7. rows' = rows \cup {new}
  BY <1>0
<1>8. \A r \in rows' : Sound(r)'
  BY <1>6, <1>7, SoundMono DEF Chained
<1>9. {r.sequence : r \in rows'} = 1..(n + 1)
  BY <1>2, <1>6, <1>7
<1>10. \A m \in Nat : 1..m = 1..n => m = n
  OBVIOUS
<1>11. QED
  BY <1>0, <1>1, <1>6, <1>8, <1>9, <1>10

LEMMA StepChained == TxInv /\ Chained /\ [Next]_vars => Chained'
<1> SUFFICES ASSUME TxInv, Chained, [Next]_vars, damage' = {}
             PROVE  /\ \A r \in rows' : Sound(r)' /\ pc'[r.audit_id] = "done"
                    /\ \E n \in Nat : {r.sequence : r \in rows'} = 1..n
                    /\ \A w \in Appends : head'[w] \subseteq rows'
  BY DEF Chained
<1>0. damage = {} /\ ~Damage
  <2>1. ~Damage
    BY DamageGrows
  <2>2. QED
    BY <2>1 DEF Next, AppendStep, ReadStart, ReadHead, Insert, InsertRefused, Commit, Abort, vars
<1>1. /\ \A r \in rows : Sound(r) /\ pc[r.audit_id] = "done" /\ r.audit_id \in Appends
      /\ \E n \in Nat : {r.sequence : r \in rows} = 1..n
      /\ \A w \in Appends : head[w] \subseteq rows
  BY <1>0 DEF Chained, TxInv, TypeOK, Row
<1>2. CASE UNCHANGED rows
  <2>1. \A r \in rows' : Sound(r)'
    BY <1>1, <1>2 DEF Sound
  <2>2. (\E w \in Appends : AppendStep(w)) \/ UNCHANGED vars
    BY <1>0 DEF Next
  <2>3. \A w \in Appends : pc[w] = "done" => pc'[w] = "done"
    BY <2>2 DEF AppendStep, ReadStart, ReadHead, Insert, InsertRefused, Commit, Abort, End, vars,
                TxInv, TypeOK
  <2>4. \A w \in Appends : head'[w] \in {head[w], {}, Last(rows)}
    BY <2>2 DEF AppendStep, ReadStart, ReadHead, Insert, InsertRefused, Commit, Abort, End, vars,
                TxInv, TypeOK
  <2>5. QED
    BY <1>1, <1>2, <2>1, <2>3, <2>4 DEF Last
<1>3. ASSUME NEW w \in Appends, Commit(w)
      PROVE  /\ \A r \in rows' : Sound(r)' /\ pc'[r.audit_id] = "done"
             /\ \E n \in Nat : {r.sequence : r \in rows'} = 1..n
             /\ \A v \in Appends : head'[v] \subseteq rows'
  <2>1. /\ pc[w] = "inserted" /\ End(w) /\ rows' = rows \cup {NewRow(w)}
    BY <1>3 DEF Commit, TxInv, TxOK
  <2>2. /\ \A r \in rows' : Sound(r)'
        /\ \E n \in Nat : {r.sequence : r \in rows'} = 1..n
    BY <1>0, <1>1, <2>1, CommitExtends
  <2>3. NewRow(w).audit_id = w
    BY NewRowType DEF TxInv, TxOK
  <2>4. \A r \in rows' : pc'[r.audit_id] = "done"
    BY <1>1, <2>1, <2>3 DEF End, TxInv, TypeOK
  <2>5. \A v \in Appends : head'[v] \subseteq rows'
    BY <1>1, <2>1 DEF End, TxInv, TypeOK
  <2>6. QED
    BY <2>2, <2>4, <2>5
<1>4. QED
  BY <1>0, <1>2, <1>3
     DEF Next, AppendStep, ReadStart, ReadHead, Insert, InsertRefused, Abort, vars

\* Concurrent appends, refusals and failures leave one unforked chain from
\* genesis, in which verify() finds the first unknown decision an append named
\* and nothing else, for any number of appends (audit/append.py).
THEOREM ChainAlwaysVerifies == Spec => []ChainVerifies
<1>1. ASSUME TxInv, Chained, damage = {}
      PROVE  verify = {[sequence |-> r.sequence, reason |-> "missing_decision_reference"] :
                          r \in {r \in Orphans : \A s \in Orphans : r.sequence <= s.sequence}}
  <2>1. \A r \in rows : /\ Defect(r) = IF Names(r, Known) THEN "none" ELSE "missing_decision_reference"
                        /\ r.decision = DecisionOf[r.audit_id]
    BY <1>1, SoundDefect DEF Chained, TxInv, Sound
  <2>2. {r \in rows : Defect(r) # "none"} = Orphans
    BY <2>1 DEF Orphans
  <2>3. \A r \in Orphans : Defect(r) = "missing_decision_reference"
    BY <2>1 DEF Orphans
  <2>4. QED
    BY <2>2, <2>3 DEF verify
<1>2. TxInv /\ Chained => ChainVerifies
  BY <1>1 DEF ChainVerifies, TxInv, Unique
<1>3. QED
  BY InitTxInv, StepTxInv, InitChained, StepChained, <1>2, PTL DEF Spec

-----------------------------------------------------------------------------
(* Damage.                                                                 *)

\* Two payloads after the same chain give two hashes.
LEMMA HashesDiffer ==
  ASSUME NEW c \in Seq(Payloads), NEW a \in Payloads, NEW b \in Payloads, a # b
  PROVE  /\ Append(c, a) # Append(c, b)
         /\ Append(c, a) # << >> /\ Len(Append(c, a)) = Len(c) + 1
<1>1. Append(c, a)[Len(c) + 1] = a /\ Append(c, b)[Len(c) + 1] = b
  OBVIOUS
<1>2. Len(Append(c, a)) = Len(c) + 1 /\ Len(c) \in Nat
  OBVIOUS
<1>3. Append(c, a) # << >>
  BY <1>2
<1>4. QED
  BY <1>1, <1>2, <1>3

\* What was seen of earlier damage is still seen after an append's step.
LEMMA DamageStaysSeen ==
  ASSUME TxInv, NEW j \in Nat, SeenAt(j), NEW w \in Appends, AppendStep(w)
  PROVE  SeenAt(j)'
<1> USE DEF TxInv, TypeOK
<1>1. /\ rows \subseteq rows'
      /\ \A r \in rows' \ rows : pc[w] = "inserted" /\ r = NewRow(w)
      /\ \A v \in Appends : InFlight(v)' =>
            \/ InFlight(v) /\ head'[v] = head[v]
            \/ head'[v] = Last(rows) /\ rows' = rows
  <2>1. CASE Commit(w)
    BY <2>1 DEF Commit, End, TxOK, InFlight
  <2>2. CASE ~Commit(w)
    BY <2>2 DEF AppendStep, ReadStart, ReadHead, Insert, InsertRefused, Abort, End, InFlight
  <2>3. QED
    BY <2>1, <2>2
<1>2. \A r \in rows' \ rows :
         /\ r.sequence \in Nat \ {0} /\ \A s \in rows : s.sequence # r.sequence
         /\ \A h \in head[w] : h.sequence \in Nat /\ r.sequence = h.sequence + 1
         /\ InFlight(w)
  <2> SUFFICES ASSUME NEW r \in rows' \ rows
               PROVE  /\ r.sequence \in Nat \ {0} /\ \A s \in rows : s.sequence # r.sequence
                      /\ \A h \in head[w] : h.sequence \in Nat /\ r.sequence = h.sequence + 1
                      /\ InFlight(w)
    OBVIOUS
  <2>1. pc[w] = "inserted" /\ r = NewRow(w) /\ TxOK(w)
    BY <1>1
  <2>2. /\ r \in Row
        /\ head[w] = {} => r.sequence = 1
        /\ \A h \in head[w] : h \in Row /\ r.sequence = h.sequence + 1
    BY <2>1, NewRowType DEF TxOK
  <2>3. QED
    BY <2>1, <2>2 DEF TxOK, InFlight, Row
<1>3. ASSUME NEW k, FilledBelow(k) PROVE FilledBelow(k)'
  <2>1. ASSUME NEW r \in rows', r.sequence < k PROVE Sound(r)'
    <3>1. CASE r \in rows
      BY <1>1, <1>3, <2>1, <3>1, SoundMono DEF FilledBelow
    <3>2. CASE r \notin rows
      BY <1>2, <1>3, <2>1, <3>2 DEF FilledBelow
    <3>3. QED
      BY <3>1, <3>2
  <2>2. QED
    BY <1>1, <1>3, <2>1 DEF FilledBelow
<1>4. AlteredAt(j) => AlteredAt(j)'
  BY <1>1 DEF AlteredAt, Names
<1>5. UnlinkedAt(j) => UnlinkedAt(j)'
  BY <1>1 DEF UnlinkedAt
<1>6. ASSUME NEW k \in 1..(j - 1), MissingAt(k, j) PROVE MissingAt(k, j)'
  <2>1. \A r \in rows : r.sequence \in Nat
    BY DEF Row
  <2>2. \A r \in rows' : r.sequence \notin k..(j - 1)
    BY <1>2, <1>6, <2>1 DEF MissingAt
  <2>3. \E r \in rows' : r.sequence = j /\ r.prev # << >>
    BY <1>1, <1>6 DEF MissingAt
  <2>4. PICK m \in rows : \A s \in rows : s.sequence <= m.sequence
    BY <1>6 DEF MissingAt, Last
  <2>5. Last(rows') # {}
    <3>1. CASE rows' = rows
      BY <1>6, <3>1 DEF MissingAt
    <3>2. CASE rows' # rows
      <4>0. \E r \in rows' : r \notin rows
        BY <1>1, <3>2
      <4>1. PICK r \in rows' \ rows : \A s \in rows' \ rows : s = r
        BY <1>1, <4>0
      <4>2. \E x \in rows' : \A s \in rows' : s.sequence <= x.sequence
        BY <1>1, <1>2, <2>1, <2>4, <4>1
      <4>3. QED
        BY <4>2 DEF Last
    <3>3. QED
      BY <3>1, <3>2
  <2>6. \A h \in Last(rows) : h.sequence >= j
    BY <1>6, <2>1 DEF MissingAt, Last
  <2>7. \A v \in Appends : InFlight(v)' => \E h \in head'[v] : h.sequence >= j
    BY <1>1, <1>6, <2>6 DEF MissingAt
  <2>8. QED
    BY <2>2, <2>3, <2>5, <2>7 DEF MissingAt
<1>7. CASE FilledBelow(j) /\ (AlteredAt(j) \/ UnlinkedAt(j))
  BY <1>3, <1>4, <1>5, <1>7 DEF SeenAt
<1>8. ASSUME NEW k \in 1..(j - 1), FilledBelow(k), MissingAt(k, j) PROVE SeenAt(j)'
  <2>1. FilledBelow(k)' /\ MissingAt(k, j)'
    BY <1>3, <1>6, <1>8
  <2>2. QED
    BY <2>1 DEF SeenAt
<1>9. QED
  BY <1>7, <1>8 DEF SeenAt

\* Damage to a row of a whole chain is seen where it shows: below it nothing
\* changed.
LEMMA DamageIsSeen ==
  ASSUME TxInv, Chained, Damage, NEW d \in damage', NEW j \in Shown(d)
  PROVE  j \in Nat /\ SeenAt(j)'
<1> USE DEF TxInv, TypeOK
<1>1. PICK r \in rows :
        \/ Damaged(r, "deleted", {})
        \/ \E how \in Kinds, x \in Row : Damaged(r, how, {x}) /\ Altered(r, how, x)
  BY DamageCases
<1>2. damage = {} /\ Quiet /\ UNCHANGED <<pc, head>>
  BY DamageGrows DEF Damage
<1>3. PICK n \in Nat : {s.sequence : s \in rows} = 1..n
  BY <1>2 DEF Chained
<1>4. /\ \A s \in rows : s \in Row /\ s.sequence \in 1..n /\ Sound(s)
      /\ \A i \in 1..n : \E s \in rows : s.sequence = i
  BY <1>2, <1>3 DEF Chained
<1>5. PICK k \in 1..n : r.sequence = k
  BY <1>4
<1>6. /\ r \in Row /\ r.prev \in Seq(Payloads) /\ Sound(r) /\ r.payload \in Payloads
      /\ r.chain = Append(r.prev, r.payload)
  BY <1>4 DEF Row, Sound
<1>7. /\ rows \ {r} \subseteq rows'
      /\ \A s \in rows' : s \in rows \ {r} \/ s.sequence = k \/ s.sequence \notin 0..n
  <2>1. CASE Damaged(r, "deleted", {})
    BY <2>1 DEF Damaged
  <2>2. ASSUME NEW how \in Kinds, NEW x \in Row, Damaged(r, how, {x}), Altered(r, how, x)
        PROVE  /\ rows \ {r} \subseteq rows'
               /\ \A s \in rows' : s \in rows \ {r} \/ s.sequence = k \/ s.sequence \notin 0..n
    <3>1. rows' = (rows \ {r}) \cup {x}
      BY <2>2 DEF Damaged
    <3>2. x.sequence = k \/ x.sequence \notin 0..n
      <4>1. CASE how = "moved"
        <5>1. x.sequence # 0 /\ \A s \in rows : s.sequence # x.sequence
          BY <2>2, <4>1 DEF Altered
        <5>2. x.sequence \notin 1..n
          BY <1>4, <5>1
        <5>3. QED
          BY <5>1, <5>2
      <4>2. CASE how # "moved"
        BY <1>5, <2>2, <4>2 DEF Altered
      <4>3. QED
        BY <4>1, <4>2
    <3>3. QED
      BY <3>1, <3>2
  <2>3. QED
    BY <1>1, <2>1, <2>2
<1>8. /\ \A s \in rows \ {r} : s.sequence # k
      /\ \A s \in rows' : s.sequence \in Nat
  <2>1. rows' \in SUBSET Row
    BY <1>1 DEF Damaged
  <2>2. QED
    BY <1>5, <2>1 DEF Unique, Row
<1>9. \A s \in rows : s.sequence < k => Sound(s)'
  <2> SUFFICES ASSUME NEW s \in rows, s.sequence < k PROVE Sound(s)'
    OBVIOUS
  <2>1. Sound(s) /\ s.sequence \in Nat /\ s \in rows'
    BY <1>4, <1>5, <1>7
  <2>2. ASSUME s.sequence # 1 PROVE \E t \in rows' : t.sequence = s.sequence - 1 /\ s.prev = t.chain
    <3>1. PICK t \in rows : t.sequence = s.sequence - 1 /\ s.prev = t.chain
      BY <2>1, <2>2 DEF Sound
    <3>2. t \in rows'
      BY <1>5, <1>7, <2>1, <3>1
    <3>3. QED
      BY <3>1, <3>2
  <2>3. QED
    BY <2>1, <2>2 DEF Sound
<1>10. FilledBelow(k)'
  <2>1. \A i \in 1..(k - 1) : \E s \in rows' : s.sequence = i
    BY <1>4, <1>5, <1>7
  <2>2. \A s \in rows' : s.sequence < k => Sound(s)'
    BY <1>5, <1>7, <1>8, <1>9
  <2>3. QED
    BY <2>1, <2>2 DEF FilledBelow
<1>11. ASSUME r \notin Last(rows)
       PROVE  \E t \in rows \ {r} : t \in rows' /\ t.sequence = k + 1 /\ t.prev = r.chain
  <2>1. PICK s \in rows : ~(s.sequence <= r.sequence)
    BY <1>11 DEF Last
  <2>2. k + 1 \in 1..n
    BY <1>4, <1>5, <2>1
  <2>3. PICK t \in rows : t.sequence = k + 1
    BY <1>4, <2>2
  <2>4. PICK q \in rows : q.sequence = k /\ t.prev = q.chain
    BY <1>4, <2>3 DEF Sound
  <2>5. q = r
    BY <1>5, <2>4 DEF Unique
  <2>6. QED
    BY <1>5, <1>7, <2>3, <2>4, <2>5
<1>12. k # 1 => \E s \in rows \ {r} : s \in rows' /\ s.sequence = k - 1 /\ r.prev = s.chain /\ s.chain # << >>
  <2> SUFFICES ASSUME k # 1
               PROVE  \E s \in rows \ {r} : s \in rows' /\ s.sequence = k - 1 /\ r.prev = s.chain
                                            /\ s.chain # << >>
    OBVIOUS
  <2>1. PICK s \in rows : s.sequence = k - 1 /\ r.prev = s.chain
    BY <1>5, <1>6 DEF Sound
  <2>2. s # r /\ s.chain # << >>
    BY <1>4, <1>5, <2>1 DEF Sound
  <2>3. QED
    BY <1>7, <2>1, <2>2
<1>13. \A v \in Appends : ~InFlight(v)'
  BY <1>2 DEF Quiet, InFlight
<1>14. ASSUME r \notin Last(rows), \A s \in rows' : s.sequence # k, Last(rows') # {}
       PROVE  SeenAt(k + 1)'
  <2>1. r.chain # << >>
    BY <1>6, HashesDiffer DEF Sound
  <2>2. \E t \in rows' : t.sequence = k + 1 /\ t.prev # << >>
    BY <1>11, <1>14, <2>1
  <2>3. \A s \in rows' : s.sequence \notin k..((k + 1) - 1)
    BY <1>14
  <2>4. MissingAt(k, k + 1)'
    BY <1>13, <1>14, <2>2, <2>3 DEF MissingAt
  <2>5. k \in 1..((k + 1) - 1)
    OBVIOUS
  <2>6. QED
    BY <1>10, <2>4, <2>5 DEF SeenAt
<1>15. CASE Damaged(r, "deleted", {})
  <2>1. /\ d = [how |-> "deleted", was |-> r, now |-> {}, tail |-> r \in Last(rows)]
        /\ rows' = rows \ {r}
    BY <1>2, <1>15 DEF Damaged
  <2>2. Shown(d) = IF r \in Last(rows) THEN {} ELSE {k + 1}
    BY <1>5, <2>1 DEF Shown
  <2>3. r \notin Last(rows) /\ j = k + 1
    BY <2>2
  <2>4. PICK t \in rows \ {r} : t.sequence = k + 1
    BY <1>11, <2>3
  <2>5. PICK m \in rows : m.sequence = n
    BY <1>4, <1>5
  <2>6. m \in rows' /\ \A s \in rows' : s.sequence <= m.sequence
    BY <1>4, <1>5, <2>1, <2>4, <2>5
  <2>7. Last(rows') # {}
    BY <2>6 DEF Last
  <2>8. \A s \in rows' : s.sequence # k
    BY <1>8, <2>1
  <2>9. SeenAt(k + 1)'
    BY <1>14, <2>3, <2>7, <2>8
  <2>10. k + 1 \in Nat
    OBVIOUS
  <2>11. QED
    BY <2>3, <2>9, <2>10, Zenon
<1>16. ASSUME NEW how \in Kinds, NEW x \in Row, Damaged(r, how, {x}), Altered(r, how, x)
       PROVE  j \in Nat /\ SeenAt(j)'
  <2>1. /\ d = [how |-> how, was |-> r, now |-> {x}, tail |-> r \in Last(rows)]
        /\ rows' = (rows \ {r}) \cup {x}
    BY <1>2, <1>16 DEF Damaged
  <2>2. how # "moved" => x.sequence = k
    BY <1>5, <1>16 DEF Altered
  <2>3. CASE how = "payload"
    <3>1. j = k
      BY <1>5, <2>1, <2>3 DEF Shown
    <3>2. x.payload # r.payload /\ x.prev = r.prev /\ x.chain = r.chain
      BY <1>16, <2>3 DEF Altered
    <3>3. x.payload = NULL \/ x.chain # Append(x.prev, x.payload)
      <4>1. CASE x.payload \in Payloads
        BY <1>6, <3>2, <4>1, HashesDiffer
      <4>2. QED
        BY <1>16, <4>1 DEF Row
    <3>4. AlteredAt(k)'
      BY <2>1, <2>2, <2>3, <3>3 DEF AlteredAt
    <3>5. QED
      BY <1>10, <3>1, <3>4 DEF SeenAt
  <2>4. CASE how = "hash"
    <3>1. j = k
      BY <1>5, <2>1, <2>4 DEF Shown
    <3>2. x.chain # Append(x.prev, x.payload)
      BY <1>6, <1>16, <2>4 DEF Altered
    <3>3. AlteredAt(k)'
      BY <2>1, <2>2, <2>4, <3>2 DEF AlteredAt
    <3>4. QED
      BY <1>10, <3>1, <3>3 DEF SeenAt
  <2>5. CASE how = "prev"
    <3>1. j = k
      BY <1>5, <2>1, <2>5 DEF Shown
    <3>2. x.prev # r.prev
      BY <1>16, <2>5 DEF Altered
    <3>3. k = 1 => x.prev # << >>
      BY <1>5, <1>6, <3>2 DEF Sound
    <3>4. UnlinkedAt(k)'
      BY <1>12, <2>1, <2>2, <2>5, <3>2, <3>3 DEF UnlinkedAt
    <3>5. QED
      BY <1>10, <3>1, <3>4 DEF SeenAt
  <2>6. CASE how = "moved"
    <3>1. x.sequence \in Nat /\ x.sequence > n /\ x.prev = r.prev
      <4>1. x.sequence # 0 /\ (\A s \in rows : s.sequence # x.sequence) /\ x.prev = r.prev
        BY <1>16, <2>6 DEF Altered
      <4>2. x.sequence \in Nat /\ x.sequence \notin 1..n
        BY <1>4, <1>16, <4>1 DEF Row
      <4>3. QED
        BY <4>1, <4>2
    <3>2. x \in Last(rows') /\ \A s \in rows' : s.sequence # k
      BY <1>4, <1>5, <1>8, <2>1, <3>1 DEF Last
    <3>3. CASE r \notin Last(rows)
      <4>1. Shown(d) = {k + 1}
        BY <1>5, <2>1, <2>6, <3>3 DEF Shown
      <4>2. QED
        BY <1>14, <3>2, <3>3, <4>1
    <3>4. CASE r \in Last(rows)
      <4>1. Shown(d) = {y.sequence : y \in {y \in {x} : k # 1}}
        BY <1>5, <2>1, <2>6, <3>4 DEF Shown
      <4>2. k # 1 /\ j = x.sequence
        BY <4>1
      <4>3. k = n
        BY <1>4, <1>5, <3>4 DEF Last
      <4>4. \A s \in rows' : s.sequence \notin k..(j - 1)
        BY <1>4, <1>8, <2>1, <3>1, <4>2, <4>3
      <4>5. x.prev # << >>
        BY <1>12, <3>1, <4>2
      <4>6. MissingAt(k, j)'
        BY <1>13, <2>1, <3>2, <4>2, <4>4, <4>5 DEF MissingAt
      <4>7. k \in 1..(j - 1)
        BY <3>1, <4>2, <4>3
      <4>8. QED
        BY <1>10, <3>1, <4>2, <4>6, <4>7 DEF SeenAt
    <3>5. QED
      BY <3>3, <3>4
  <2>7. CASE how = "rewritten"
    <3>1. Shown(d) = IF r \in Last(rows) THEN {} ELSE {k + 1}
      BY <1>5, <2>1, <2>7 DEF Shown
    <3>2. r \notin Last(rows) /\ j = k + 1
      BY <3>1
    <3>3. /\ x.sequence = k /\ x.prev = r.prev /\ x.event = r.event /\ x.decision = r.decision
          /\ x.audit_id = r.audit_id /\ x.payload \in Payloads /\ x.payload # r.payload
          /\ x.chain = Append(r.prev, x.payload)
      BY <1>16, <2>2, <2>7 DEF Altered
    <3>4. x.chain # r.chain /\ Len(x.chain) = Len(r.chain)
      BY <1>6, <3>3, HashesDiffer
    <3>5. x.payload # NULL
      BY <3>3, ChainAssumption
    <3>6. k # 1 => \E s \in rows' : s.sequence = k - 1 /\ x.prev = s.chain
      BY <1>12, <3>3
    <3>7. Sound(x)'
      BY <1>5, <1>6, <3>3, <3>4, <3>5, <3>6 DEF Sound
    <3>8. FilledBelow(k + 1)'
      <4>1. \A s \in rows' : s.sequence < k + 1 => Sound(s)'
        BY <1>8, <1>9, <2>1, <3>7
      <4>2. \A i \in 1..((k + 1) - 1) : \E s \in rows' : s.sequence = i
        BY <1>10, <2>1, <3>3 DEF FilledBelow
      <4>3. QED
        BY <4>1, <4>2 DEF FilledBelow
    <3>9. UnlinkedAt(k + 1)'
      <4>1. PICK t \in rows' : t.sequence = k + 1 /\ t.prev = r.chain
        BY <1>11, <3>2
      <4>2. x \in rows' /\ x.sequence = (k + 1) - 1 /\ t.prev # x.chain
        BY <2>1, <3>3, <3>4, <4>1
      <4>3. QED
        BY <4>1, <4>2 DEF UnlinkedAt
    <3>10. QED
      BY <3>2, <3>8, <3>9 DEF SeenAt
  <2>8. CASE how = "reference"
    <3>1. Shown(d) = {y.sequence : y \in {y \in {x} : y.event \notin Decided \/ ~Names(y, Known)}}
      BY <2>1, <2>8 DEF Shown
    <3>2. j = k /\ (x.event \notin Decided \/ ~Names(x, Known))
      BY <2>2, <2>8, <3>1
    <3>3. AlteredAt(k)'
      BY <2>1, <2>2, <2>8, <3>2 DEF AlteredAt, Names
    <3>4. QED
      BY <1>10, <3>2, <3>3 DEF SeenAt
  <2>9. QED
    BY <2>3, <2>4, <2>5, <2>6, <2>7, <2>8 DEF Kinds
<1>17. QED
  BY <1>1, <1>15, <1>16

LEMMA StepDamageKept == TxInv /\ Chained /\ DamageKept /\ [Next]_vars => DamageKept'
<1> SUFFICES ASSUME TxInv, Chained, DamageKept, [Next]_vars PROVE DamageKept'
  OBVIOUS
<1>1. \A d : Shown(d)' = Shown(d)
  BY DEF Shown, Names
<1>2. ASSUME NEW w \in Appends, AppendStep(w) PROVE DamageKept'
  <2>1. damage' = damage
    BY <1>2 DEF AppendStep, ReadStart, ReadHead, Insert, InsertRefused, Commit, Abort
  <2>2. ASSUME NEW d \in damage, NEW j \in Shown(d) PROVE j \in Nat /\ SeenAt(j)'
    BY <1>2, <2>2, DamageStaysSeen DEF DamageKept
  <2>3. QED
    BY <1>1, <2>1, <2>2 DEF DamageKept
<1>3. CASE Damage
  BY <1>1, <1>3, DamageIsSeen DEF DamageKept
<1>4. CASE UNCHANGED vars
  <2>1. UNCHANGED <<rows, pc, head, damage>>
    BY <1>4 DEF vars
  <2>2. \A j : SeenAt(j) => SeenAt(j)'
    BY <2>1 DEF SeenAt, FilledBelow, AlteredAt, UnlinkedAt, MissingAt, Sound, InFlight, Last, Names
  <2>3. QED
    BY <1>1, <2>1, <2>2 DEF DamageKept
<1>5. QED
  BY <1>2, <1>3, <1>4 DEF Next

\* verify() points at what was damaged, or stops before at an orphan.
LEMMA SeenIsReported ==
  ASSUME TypeOK, Unique, NEW j \in Nat, SeenAt(j)
  PROVE  \E v \in verify :
            \/ v.sequence = j
            \/ v.sequence < j /\ \E r \in Orphans : r.sequence = v.sequence
<1>1. \A r \in rows : r \in Row /\ r.sequence \in Nat
  BY DEF TypeOK, Row
<1>2. ASSUME NEW x \in rows, x.sequence = j, Defect(x) # "none",
             \A s \in rows : s.sequence < j => Sound(s)
      PROVE  \E v \in verify :
                \/ v.sequence = j
                \/ v.sequence < j /\ \E r \in Orphans : r.sequence = v.sequence
  <2>1. PICK t \in rows : /\ Defect(t) # "none" /\ t.sequence <= x.sequence
                          /\ [sequence |-> t.sequence, reason |-> Defect(t)] \in verify
    BY <1>2, VerifyFinds
  <2>2. ASSUME t.sequence < j PROVE t \in Orphans
    <3>1. Sound(t) /\ \A s \in rows : s.sequence <= t.sequence => Sound(s)
      BY <1>1, <1>2, <2>2
    <3>2. ~Names(t, Known)
      BY <2>1, <3>1, SoundDefect
    <3>3. QED
      BY <3>1, <3>2 DEF Orphans, Sound
  <2>3. t.sequence = j \/ t.sequence < j
    BY <1>1, <1>2, <2>1
  <2>4. PICK v \in verify : v.sequence = t.sequence
    BY <2>1
  <2>5. QED
    BY <2>2, <2>3, <2>4
<1>3. ASSUME FilledBelow(j), AlteredAt(j) PROVE \E x \in rows : x.sequence = j /\ Defect(x) # "none"
  <2>1. PICK x \in rows : /\ x.sequence = j
                          /\ \/ x.payload = NULL \/ x.chain # chain_hash(x.prev, x.payload)
                             \/ x.event \notin Decided \/ ~Names(x, Known)
    BY <1>3 DEF AlteredAt, chain_hash
  <2>2. Defect(x) # "none"
    BY <2>1 DEF Defect
  <2>3. QED
    BY <2>1, <2>2
<1>4. ASSUME FilledBelow(j), UnlinkedAt(j) PROVE \E x \in rows : x.sequence = j /\ Defect(x) # "none"
  <2>1. PICK x \in rows : /\ x.sequence = j
                          /\ \/ j = 1 /\ x.prev # << >>
                             \/ \E s \in rows : s.sequence = j - 1 /\ x.prev # s.chain
    BY <1>4 DEF UnlinkedAt
  <2>2. CASE j = 1 /\ x.prev # << >>
    <3>1. Before(x) = {}
      BY <1>1, <1>4, <2>1, <2>2 DEF Before, FilledBelow, Sound
    <3>2. Defect(x) # "none"
      BY <2>2, <3>1 DEF Defect, GENESIS_HASH
    <3>3. QED
      BY <2>1, <3>2
  <2>3. ASSUME NEW s \in rows, s.sequence = j - 1, x.prev # s.chain
        PROVE  \E y \in rows : y.sequence = j /\ Defect(y) # "none"
    <3>1. s \in Before(x) /\ \A t \in Before(x) : t.sequence <= s.sequence /\ (t.sequence = s.sequence => t = s)
      BY <1>1, <2>1, <2>3 DEF Before, Unique
    <3>2. (CHOOSE t \in Last(Before(x)) : TRUE) = s
      <4>1. Last(Before(x)) = {s}
        BY <1>1, <3>1 DEF Last, Before
      <4>2. QED
        BY <4>1
    <3>3. Defect(x) # "none"
      BY <2>3, <3>1, <3>2 DEF Defect
    <3>4. QED
      BY <2>1, <3>3
  <2>4. QED
    BY <2>1, <2>2, <2>3
<1>5. ASSUME NEW k \in 1..(j - 1), FilledBelow(k), MissingAt(k, j)
      PROVE  /\ \E x \in rows : x.sequence = j /\ Defect(x) # "none"
             /\ \A s \in rows : s.sequence < j => Sound(s)
  <2>1. PICK x \in rows : x.sequence = j /\ x.prev # << >>
    BY <1>5 DEF MissingAt
  <2>2. \A t \in rows : t.sequence < j => t.sequence < k
    BY <1>1, <1>5 DEF MissingAt
  <2>3. \A s \in Before(x) : s.sequence # x.sequence - 1
    BY <1>1, <1>5, <2>1, <2>2 DEF Before
  <2>4. Defect(x) # "none"
    BY <2>1, <2>3 DEF Defect, GENESIS_HASH
  <2>5. QED
    BY <1>5, <2>1, <2>2, <2>4 DEF FilledBelow
<1>6. CASE FilledBelow(j) /\ (AlteredAt(j) \/ UnlinkedAt(j))
  <2>1. \A s \in rows : s.sequence < j => Sound(s)
    BY <1>6 DEF FilledBelow
  <2>2. PICK x \in rows : x.sequence = j /\ Defect(x) # "none"
    BY <1>3, <1>4, <1>6
  <2>3. QED
    BY <1>2, <2>1, <2>2
<1>7. CASE \E k \in 1..(j - 1) : FilledBelow(k) /\ MissingAt(k, j)
  BY <1>2, <1>5, <1>7
<1>8. QED
  BY <1>6, <1>7 DEF SeenAt

\* Whatever is done to a row of a whole chain and whatever is appended later,
\* verify() points at the first row that does not fit, or stops before at a row
\* whose append named an unknown decision, for chains of any length
\* (audit/verify.py).
THEOREM DamageAlwaysReported == Spec => []DamageIsReported
<1>1. TxInv /\ DamageKept => DamageIsReported
  BY SeenIsReported DEF DamageIsReported, DamageKept, TxInv
<1>2. QED
  BY InitTxInv, StepTxInv, InitChained, StepChained, StepDamageKept, <1>1, PTL DEF Spec

-----------------------------------------------------------------------------
(* The log the rows are.                                                   *)

LogEntry == [by : Appends, record : Events \X (Decisions \cup {NULL}) \X (Payloads \cup {NULL})]

EntryOf(r) == [by |-> r.audit_id, record |-> <<r.event, r.decision, r.payload>>]

UpTo(R, m) == {s \in R : s.sequence <= m}

\* LogOfRows, for any set of rows.
LogOf(R) ==
    [i \in 1..Cardinality(R) |->
        EntryOf(CHOOSE r \in R : Cardinality(UpTo(R, r.sequence)) = i)]

\* R holds one row for each of 1..n.
Contiguous(R, n) ==
    /\ R \subseteq Row
    /\ \A r, s \in R : r.sequence = s.sequence => r = s
    /\ \A r \in R : r.sequence \in 1..n
    /\ \A j \in 1..n : \E r \in R : r.sequence = j

\* As many rows as sequence numbers, up to any of them.
LEMMA RowsUpTo ==
  ASSUME NEW R, NEW n \in Nat, Contiguous(R, n), NEW m \in 0..n
  PROVE  Cardinality(UpTo(R, m)) = m
<1> DEFINE S == UpTo(R, m)
           f == [i \in 1..m |-> CHOOSE r \in R : r.sequence = i]
<1>1. \A i \in 1..m : f[i] \in R /\ f[i].sequence = i
  BY DEF Contiguous
<1> HIDE DEF f
<1>2. f \in Bijection(1..m, S)
  <2>1. DOMAIN f = 1..m /\ f = [i \in 1..m |-> f[i]]
    BY DEF f
  <2>2. f \in [1..m -> S]
    BY <1>1, <2>1 DEF UpTo
  <2>3. \A a, b \in 1..m : f[a] = f[b] => a = b
    BY <1>1
  <2>4. \A t \in S : \E i \in 1..m : f[i] = t
    <3> SUFFICES ASSUME NEW t \in S PROVE \E i \in 1..m : f[i] = t
      OBVIOUS
    <3>1. t.sequence \in 1..m
      BY DEF Contiguous, UpTo
    <3>2. f[t.sequence] = t
      BY <1>1, <3>1 DEF Contiguous, UpTo
    <3>3. QED
      BY <3>1, <3>2
  <2>5. QED
    BY <2>2, <2>3, <2>4, Fun_IsBij
<1>3. ExistsBijection(1..m, S)
  BY <1>2, Fun_ExistsBij
<1>4. QED
  BY <1>3, FS_CountingElements

\* The log has the entry of a row at the row's sequence.
LEMMA LogShape ==
  ASSUME NEW R, NEW n \in Nat, Contiguous(R, n)
  PROVE  /\ LogOf(R) \in Seq(LogEntry) /\ Len(LogOf(R)) = n
         /\ \A r \in R : LogOf(R)[r.sequence] = EntryOf(r)
<1>1. Cardinality(R) = n
  <2>1. UpTo(R, n) = R
    BY DEF Contiguous, UpTo
  <2>2. n \in 0..n
    OBVIOUS
  <2>3. QED
    BY <2>1, <2>2, RowsUpTo
<1>2. \A r \in R : Cardinality(UpTo(R, r.sequence)) = r.sequence
  <2>1. \A r \in R : r.sequence \in 0..n
    BY DEF Contiguous
  <2>2. QED
    BY <2>1, RowsUpTo
<1>3. ASSUME NEW r \in R
      PROVE  (CHOOSE t \in R : Cardinality(UpTo(R, t.sequence)) = r.sequence) = r
  BY <1>2 DEF Contiguous
<1>4. \A r \in R : r.sequence \in 1..n /\ LogOf(R)[r.sequence] = EntryOf(r) /\ EntryOf(r) \in LogEntry
  BY <1>1, <1>3 DEF LogOf, Contiguous, EntryOf, LogEntry, Row
<1>5. DOMAIN LogOf(R) = 1..n /\ LogOf(R) = [i \in 1..n |-> LogOf(R)[i]]
  BY <1>1 DEF LogOf
<1>6. \A i \in 1..n : LogOf(R)[i] \in LogEntry
  BY <1>4 DEF Contiguous
<1>7. LogOf(R) \in [1..n -> LogEntry]
  BY <1>5, <1>6
<1>8. QED
  BY <1>4, <1>7

\* Adding the next row adds its entry at the end.
LEMMA LogGrows ==
  ASSUME NEW R, NEW n \in Nat, Contiguous(R, n), NEW r \in Row, r.sequence = n + 1
  PROVE  /\ Contiguous(R \cup {r}, n + 1)
         /\ LogOf(R \cup {r}) = Append(LogOf(R), EntryOf(r))
<1>1. Contiguous(R \cup {r}, n + 1)
  BY DEF Contiguous
<1>2. /\ LogOf(R) \in Seq(LogEntry) /\ Len(LogOf(R)) = n
      /\ \A s \in R : LogOf(R)[s.sequence] = EntryOf(s)
  BY LogShape
<1>3. /\ LogOf(R \cup {r}) \in Seq(LogEntry) /\ Len(LogOf(R \cup {r})) = n + 1
      /\ \A s \in R \cup {r} : LogOf(R \cup {r})[s.sequence] = EntryOf(s)
  <2>1. n + 1 \in Nat
    OBVIOUS
  <2>2. QED
    BY <1>1, <2>1, LogShape
<1>4. EntryOf(r) \in LogEntry
  BY DEF EntryOf, LogEntry, Row
<1> DEFINE new == LogOf(R \cup {r})
           long == Append(LogOf(R), EntryOf(r))
<1>5. /\ long \in Seq(LogEntry) /\ Len(long) = n + 1
      /\ \A i \in 1..n : long[i] = LogOf(R)[i]
      /\ long[n + 1] = EntryOf(r)
  BY <1>2, <1>4, AppendProperties
<1>6. \A i \in 1..(n + 1) : new[i] = long[i]
  <2> SUFFICES ASSUME NEW i \in 1..(n + 1) PROVE new[i] = long[i]
    OBVIOUS
  <2>1. CASE i = n + 1
    BY <1>3, <1>5, <2>1
  <2>2. CASE i # n + 1
    <3>1. PICK s \in R : s.sequence = i
      BY <2>2 DEF Contiguous
    <3>2. s \in R \cup {r} /\ i \in 1..n
      BY <2>2
    <3>3. new[s.sequence] = EntryOf(s)
      BY <1>3, <3>2
    <3>4. LogOf(R)[i] = EntryOf(s)
      BY <1>2, <3>1
    <3>5. QED
      BY <1>5, <3>1, <3>2, <3>3, <3>4
  <2>3. QED
    BY <2>1, <2>2
<1>7. new = long
  <2> HIDE DEF new, long
  <2>1. QED
    BY <1>3, <1>5, <1>6, SeqEqual DEF new
<1>8. QED
  BY <1>1, <1>7

LEMMA LogOfRowsIs == LogOfRows = LogOf(rows)
BY DEF LogOfRows, LogOf, UpTo, EntryOf

\* An append's commit is one record at the end of the log.
LEMMA CommitRecords ==
  ASSUME TxInv, Chained, damage = {}, NEW w \in Appends, Commit(w)
  PROVE  Log!Record(w)
<1> USE DEF TxInv, TypeOK
<1>1. /\ pc[w] = "inserted" /\ rows' = rows \cup {NewRow(w)} /\ damage' = damage
      /\ answer' \in {answer, [answer EXCEPT ![w] = NewRow(w).sequence]}
  BY DEF Commit, TxOK
<1>2. PICK n \in Nat : {r.sequence : r \in rows} = 1..n
  BY DEF Chained
<1>3. Contiguous(rows, n)
  <2>1. (\A r \in rows : r.sequence \in 1..n) /\ \A j \in 1..n : \E r \in rows : r.sequence = j
    BY <1>2
  <2>2. QED
    BY <2>1 DEF Contiguous, Unique
<1>4. PICK new \in Row : /\ new = NewRow(w)
                         /\ EntryOf(new) = [by |-> w, record |-> <<EventOf[w], DecisionOf[w], PayloadOf[w]>>]
  <2>1. PICK new \in Row : new = NewRow(w)
    BY NewRowType DEF TxOK
  <2>2. new.audit_id = w /\ new.event = EventOf[w] /\ new.decision = DecisionOf[w] /\ new.payload = PayloadOf[w]
    BY <2>1 DEF NewRow
  <2>3. QED
    BY <2>1, <2>2, Zenon DEF EntryOf
<1>5. new.sequence = n + 1
  BY <1>1, <1>2, <1>4, CommitExtends
<1>6. LogOf(rows \cup {new}) = Append(LogOf(rows), EntryOf(new))
  BY <1>3, <1>5, LogGrows
<1>7. LogOfRows' = Append(LogOfRows, [by |-> w, record |-> <<EventOf[w], DecisionOf[w], PayloadOf[w]>>])
  <2>1. LogOfRows' = LogOf(rows')
    BY DEF LogOfRows, LogOf, UpTo, EntryOf
  <2>2. QED
    BY <1>1, <1>4, <1>6, <2>1, LogOfRowsIs
<1>8. /\ DOMAIN LogOfRows = 1..n /\ Len(LogOfRows) = n
      /\ \A r \in rows : LogOfRows[r.sequence].by = r.audit_id
  <2>1. /\ LogOf(rows) \in Seq(LogEntry) /\ Len(LogOf(rows)) = n
        /\ \A r \in rows : LogOf(rows)[r.sequence] = EntryOf(r)
    BY <1>3, LogShape
  <2>2. DOMAIN LogOf(rows) = 1..n
    BY <2>1
  <2>3. \A r \in rows : EntryOf(r).by = r.audit_id
    BY DEF EntryOf
  <2>4. QED
    BY <2>1, <2>2, <2>3, LogOfRowsIs
<1>9. \A i \in DOMAIN LogOfRows : LogOfRows[i].by # w
  <2> SUFFICES ASSUME NEW i \in 1..n PROVE LogOfRows[i].by # w
    BY <1>8
  <2>1. PICK r \in rows : r.sequence = i
    BY <1>3 DEF Contiguous
  <2>2. pc[r.audit_id] = "done"
    BY DEF Chained
  <2>3. QED
    BY <1>1, <1>8, <2>1, <2>2
<1>10. Len(LogOfRows') = n + 1
  <2>1. Len(LogOf(rows \cup {new})) = n + 1
    <3>1. Contiguous(rows \cup {new}, n + 1)
      BY <1>3, <1>5, LogGrows, Zenon
    <3>2. n + 1 \in Nat
      OBVIOUS
    <3>3. QED
      BY <3>1, <3>2, LogShape
  <2>2. LogOfRows' = LogOf(rows \cup {new})
    BY <1>1, <1>4 DEF LogOfRows, LogOf, UpTo, EntryOf
  <2>3. QED
    BY <2>1, <2>2
<1>11. answer' \in {answer, [answer EXCEPT ![w] = Len(LogOfRows')]}
  BY <1>1, <1>4, <1>5, <1>10
<1>12. (damage # {})' = (damage # {})
  BY <1>1
<1>13. QED
  BY <1>7, <1>9, <1>11, <1>12 DEF Log!Record

\* The table of the appends is an append-only log: each step is one step of the
\* log or changes nothing in it (audit/append.py:1-10).
THEOREM ChainImplementsLog == Spec => ImplementsLog
<1>1. Init => Log!Init
  <2> SUFFICES ASSUME Init PROVE Log!Init
    OBVIOUS
  <2>1. Cardinality(rows) = 0
    BY FS_EmptySet DEF Init
  <2>2. LogOfRows = << >>
    BY <2>1 DEF LogOfRows
  <2>3. QED
    BY <2>2 DEF Init, Log!Init
<1>2. TxInv /\ Chained /\ [Next]_vars => [Log!Next]_(Log!vars)
  <2> SUFFICES ASSUME TxInv, Chained, [Next]_vars PROVE Log!Next \/ UNCHANGED Log!vars
    OBVIOUS
  <2>1. CASE damage' # {}
    BY <2>1 DEF Log!Next
  <2>2. CASE damage' = {}
    <3>1. damage = {} /\ ~Damage
      <4>1. ~Damage
        BY <2>2, DamageGrows
      <4>2. QED
        BY <2>2, <4>1 DEF Next, AppendStep, ReadStart, ReadHead, Insert, InsertRefused, Commit,
                          Abort, vars
    <3>2. ASSUME NEW w \in Appends, Commit(w) PROVE Log!Next
      BY <3>1, <3>2, CommitRecords DEF Log!Next
    <3>3. CASE UNCHANGED <<rows, answer>>
      <4>1. LogOfRows' = LogOfRows
        BY <3>3 DEF LogOfRows
      <4>2. QED
        BY <2>2, <3>1, <3>3, <4>1 DEF Log!vars
    <3>4. QED
      BY <3>1, <3>2, <3>3 DEF Next, AppendStep, ReadStart, ReadHead, Insert, InsertRefused, Abort, vars
  <2>3. QED
    BY <2>1, <2>2
<1>3. QED
  BY InitTxInv, StepTxInv, InitChained, StepChained, <1>1, <1>2, PTL DEF Spec, Log!Spec, ImplementsLog

=============================================================================
