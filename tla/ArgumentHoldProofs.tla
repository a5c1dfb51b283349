-------------------------- MODULE ArgumentHoldProofs --------------------------
(***************************************************************************)
(* The invariants of ArgumentHold for any number of threads, events and    *)
(* payloads, any limits and any number of calls of hold().                 *)
(***************************************************************************)
EXTENDS ArgumentHold, FiniteSetTheorems, TLAPS

-----------------------------------------------------------------------------
(* The bytes held.                                                         *)

\* A counter past one step, from a number that was not zero, is past one.
LEMMA Increments == \A n \in Nat : n # 0 => n + 1 # 0 /\ n + 1 # 1
OBVIOUS

EntryMap == [Events -> Entry \cup {None}]

\* The arguments of an event that becomes held add their size, once.
LEMMA BytesAdded ==
  ASSUME NEW d \in EntryMap, IsFiniteSet(HeldBytes(d)),
         NEW e \in Events, d[e] = None, NEW entry \in Entry
  PROVE  /\ IsFiniteSet(HeldBytes([d EXCEPT ![e] = entry]))
         /\ Cardinality(HeldBytes([d EXCEPT ![e] = entry])) =
              Cardinality(HeldBytes(d)) + SizeOf[entry.arg]
<1>0. PICK d2 : d2 = [d EXCEPT ![e] = entry]
  OBVIOUS
<1>1. entry # None
  BY HoldAssumption DEF Entry
<1>2. PICK size \in Nat : size = SizeOf[entry.arg]
  BY HoldAssumption DEF Entry
<1>3. Held(d2) = Held(d) \cup {e} /\ d2[e] = entry /\ \A f \in Held(d) : f # e /\ d2[f] = d[f]
  BY <1>0, <1>1 DEF Held, EntryMap
<1> DEFINE own == BytesOf(d2, e)
<1>4. own = {e} \X (1..size)
  BY <1>2, <1>3 DEF BytesOf
<1>5. IsFiniteSet(own) /\ Cardinality(own) = size
  <2>1. IsFiniteSet({e}) /\ Cardinality({e}) = 1
    BY FS_Singleton
  <2>2. IsFiniteSet(1..size) /\ Cardinality(1..size) = size
    BY FS_Interval
  <2>3. /\ IsFiniteSet({e} \X (1..size))
        /\ Cardinality({e} \X (1..size)) = Cardinality({e}) * Cardinality(1..size)
    BY <2>1, <2>2, FS_Product, Zenon
  <2>4. Cardinality({e}) * Cardinality(1..size) = size
    BY <2>1, <2>2
  <2>5. QED
    BY <1>4, <2>3, <2>4, Zenon
<1>6. \A f \in Held(d) : BytesOf(d2, f) = BytesOf(d, f)
  BY <1>3 DEF BytesOf
<1>7. HeldBytes(d2) = HeldBytes(d) \cup own
  BY <1>3, <1>6 DEF HeldBytes
<1>8. HeldBytes(d) \cap own = {}
  BY <1>3 DEF HeldBytes, BytesOf
<1> HIDE DEF own
<1>9. /\ IsFiniteSet(HeldBytes(d2))
      /\ Cardinality(HeldBytes(d2)) =
           Cardinality(HeldBytes(d)) + Cardinality(own) - Cardinality(HeldBytes(d) \cap own)
  BY <1>5, <1>7, FS_Union
<1>10. Cardinality(HeldBytes(d)) \in Nat /\ Cardinality(HeldBytes(d) \cap own) = 0
  BY <1>8, FS_CardinalityType, FS_EmptySet
<1>11. Cardinality(HeldBytes(d2)) = Cardinality(HeldBytes(d)) + SizeOf[entry.arg]
  BY <1>2, <1>5, <1>9, <1>10
<1>12. QED
  BY <1>0, <1>9, <1>11, Zenon

\* The arguments of an event that is released take their size with them.
LEMMA BytesRemoved ==
  ASSUME NEW d \in EntryMap, IsFiniteSet(HeldBytes(d)),
         NEW e \in Events, d[e] # None,
         NEW d2, d2 = [d EXCEPT ![e] = None]
  PROVE  /\ IsFiniteSet(HeldBytes(d2))
         /\ Cardinality(HeldBytes(d2)) = Cardinality(HeldBytes(d)) - SizeOf[d[e].arg]
<1>1. d2 \in EntryMap /\ d2[e] = None /\ d[e] \in Entry
  BY DEF EntryMap
<1>2. d = [d2 EXCEPT ![e] = d[e]]
  BY DEF EntryMap
<1>3. HeldBytes(d2) \subseteq HeldBytes(d)
  BY DEF HeldBytes, BytesOf, Held, EntryMap
<1>4. IsFiniteSet(HeldBytes(d2))
  BY <1>3, FS_Subset
<1>5. Cardinality(HeldBytes(d)) = Cardinality(HeldBytes(d2)) + SizeOf[d[e].arg]
  BY <1>1, <1>2, <1>4, BytesAdded
<1>6. Cardinality(HeldBytes(d2)) \in Nat /\ SizeOf[d[e].arg] \in Nat
  BY <1>1, <1>4, FS_CardinalityType, HoldAssumption DEF Entry
<1>7. QED
  BY <1>4, <1>5, <1>6

-----------------------------------------------------------------------------
(* Types and bytes.                                                        *)

Hold == [op : {"hold"}, event : Events, arg : Args, now : Nat, expires : Nat]
Query == [op : {"get"}, event : Events, now : Nat]

CallsOK ==
    /\ call \in [Threads -> Hold \cup Query \cup {NoCall}]
    /\ \A t \in Threads : pc[t] # "idle" => call[t] \in Hold \cup Query /\ call[t].now <= clock
    /\ DOMAIN found = Threads

BytesOK ==
    /\ IsFiniteSet(HeldBytes(entries))
    /\ BytesAreAccounted

TypeInv == TypeOK /\ CallsOK /\ BytesOK

LEMMA InitTypeInv == Init => TypeInv
<1> SUFFICES ASSUME Init PROVE TypeInv
  OBVIOUS
<1>1. TypeOK /\ CallsOK
  BY HoldAssumption DEF Init, TypeOK, CallsOK
<1>2. HeldBytes(entries) = {}
  BY DEF Init, HeldBytes, Held
<1>3. BytesOK
  <2>1. IsFiniteSet(HeldBytes(entries)) /\ Cardinality(HeldBytes(entries)) = 0
    BY <1>2, FS_EmptySet
  <2>2. total = 0 /\ total <= MaxTotalBytes
    BY HoldAssumption DEF Init
  <2>3. \A e \in Events : entries[e] = None /\ digests[e] = None
    BY DEF Init
  <2>4. QED
    BY <2>1, <2>2, <2>3 DEF BytesOK, BytesAreAccounted
<1>4. QED
  BY <1>1, <1>3 DEF TypeInv

\* The byte count moves with the entries, in release() and in hold().
LEMMA ReleaseBytes ==
  ASSUME TypeInv, NEW t \in Threads, NEW e \in Events, Release(t, e)
  PROVE  /\ entries' \in EntryMap /\ digests' \in [Events -> Args \cup {None}] /\ total' \in Nat
         /\ BytesOK'
<1> USE HoldAssumption DEF TypeInv, TypeOK, EntryMap
<1>1. entries' \in EntryMap /\ digests' \in [Events -> Args \cup {None}]
  BY DEF Release
<1>2. \A f \in Events : digests'[f] = IF entries'[f] = None THEN None ELSE entries'[f].arg
  BY DEF Release, BytesOK, BytesAreAccounted
<1>3. CASE entries[e] = None
  <2>1. entries' = entries /\ total' = total
    BY <1>3 DEF Release
  <2>2. QED
    BY <1>1, <1>2, <2>1 DEF BytesOK, BytesAreAccounted
<1>4. CASE entries[e] # None
  <2>1. /\ IsFiniteSet(HeldBytes(entries'))
        /\ Cardinality(HeldBytes(entries')) = Cardinality(HeldBytes(entries)) - SizeOf[entries[e].arg]
    BY <1>4, BytesRemoved DEF Release, BytesOK
  <2>2. total' = total - SizeOf[entries[e].arg] /\ SizeOf[entries[e].arg] \in Nat
    BY <1>4 DEF Release, Entry
  <2>3. total' = Cardinality(HeldBytes(entries')) /\ total' \in Nat
    BY <2>1, <2>2, FS_CardinalityType DEF BytesOK, BytesAreAccounted
  <2>4. QED
    BY <1>1, <1>2, <2>1, <2>2, <2>3 DEF BytesOK, BytesAreAccounted
<1>5. QED
  BY <1>3, <1>4

LEMMA HoldBytes ==
  ASSUME TypeInv, NEW t \in Threads, HoldNew(t)
  PROVE  /\ entries' \in EntryMap /\ digests' \in [Events -> Args \cup {None}] /\ total' \in Nat
         /\ BytesOK'
<1> USE HoldAssumption DEF TypeInv, TypeOK, EntryMap
<1>1. PICK e \in Events, a \in Args, entry \in Entry :
        /\ digests[e] = None /\ Fits(a) /\ entry.arg = a
        /\ entries' = [entries EXCEPT ![e] = entry]
        /\ digests' = [digests EXCEPT ![e] = a]
        /\ total' = total + SizeOf[a]
  <2>1. call[t] \in Hold
    BY DEF HoldNew, Ready, CallsOK, Hold, Query, NoCall
  <2>2. call[t].event \in Events /\ call[t].arg \in Args
        /\ [arg |-> call[t].arg, expires |-> call[t].expires] \in Entry
    BY <2>1 DEF Hold, Entry
  <2>3. QED
    BY <2>2 DEF HoldNew
<1>2. entry # None /\ SizeOf[a] \in Nat
  BY DEF Entry
<1>3. entries' \in EntryMap /\ digests' \in [Events -> Args \cup {None}] /\ total' \in Nat
  BY <1>1, <1>2
<1>4. entries[e] = None
  BY <1>1 DEF BytesOK, BytesAreAccounted, Entry
<1>5. /\ IsFiniteSet(HeldBytes(entries'))
      /\ Cardinality(HeldBytes(entries')) = Cardinality(HeldBytes(entries)) + SizeOf[a]
  <2>1. entries \in EntryMap /\ IsFiniteSet(HeldBytes(entries))
    BY DEF BytesOK
  <2>2. entries' = [entries EXCEPT ![e] = entry] /\ entry.arg = a
    BY <1>1
  <2>3. /\ IsFiniteSet(HeldBytes([entries EXCEPT ![e] = entry]))
        /\ Cardinality(HeldBytes([entries EXCEPT ![e] = entry])) =
             Cardinality(HeldBytes(entries)) + SizeOf[entry.arg]
    BY <1>4, <2>1, BytesAdded, Zenon
  <2>4. QED
    BY <2>2, <2>3, Zenon
<1>6. \A f \in Events : digests'[f] = IF entries'[f] = None THEN None ELSE entries'[f].arg
  BY <1>1, <1>2 DEF BytesOK, BytesAreAccounted, Entry
<1>7. QED
  BY <1>1, <1>3, <1>5, <1>6 DEF BytesOK, BytesAreAccounted, Fits

LEMMA StepTypeInv == TypeInv /\ [Next]_vars => TypeInv'
<1> SUFFICES ASSUME TypeInv, [Next]_vars PROVE TypeInv'
  OBVIOUS
<1>0. entries' = entries /\ digests' = digests /\ total' = total => BytesOK'
  BY DEF TypeInv, BytesOK, BytesAreAccounted
<1> USE HoldAssumption DEF TypeInv, TypeOK, CallsOK
<1>1. CASE Tick
  BY <1>0, <1>1 DEF Tick, Hold, Query
<1>2. ASSUME NEW t \in Threads, NEW e \in Events, CallGet(t, e) PROVE TypeInv'
  BY <1>0, <1>2 DEF CallGet, Begin, Query
<1>3. ASSUME NEW t \in Threads, NEW e \in Events, NEW a \in Args, CallHold(t, e, a) PROVE TypeInv'
  <2>1. PICK life \in 0..TTL :
          Begin(t, [op |-> "hold", event |-> e, arg |-> a, now |-> clock, expires |-> clock + life])
    BY <1>3 DEF CallHold
  <2> DEFINE c == [op |-> "hold", event |-> e, arg |-> a, now |-> clock, expires |-> clock + life]
  <2>2. c \in Hold /\ c.now = clock
    BY DEF Hold
  <2>3. /\ holds[e] < MaxHolds[e] /\ holds' = [holds EXCEPT ![e] = @ + 1]
    BY <1>3 DEF CallHold
  <2> HIDE DEF c
  <2>4. Begin(t, c)
    BY <2>1 DEF c
  <2>5. QED
    <3>1. TypeOK'
      BY <2>3, <2>4 DEF Begin
    <3>2. CallsOK'
      BY <2>2, <2>3, <2>4 DEF Begin
    <3>3. BytesOK'
      BY <1>0, <2>4 DEF Begin
    <3>4. QED
      BY <3>1, <3>2, <3>3
<1>4. ASSUME NEW t \in Threads, IterationEnds(t) PROVE TypeInv'
  BY <1>0, <1>4 DEF IterationEnds, Expired, Held
<1>5. ASSUME NEW t \in Threads, IterationRaises(t) \/ HoldNothing(t) PROVE TypeInv'
  <2>1. Idle(t) /\ UNCHANGED <<clock, entries, digests, total, holds, doomed, found>>
    BY <1>5 DEF IterationRaises, HoldNothing
  <2>2. QED
    BY <1>0, <2>1 DEF Idle
<1>6. ASSUME NEW t \in Threads, Evict(t) PROVE TypeInv'
  <2>1. PICK e \in doomed[t] : Release(t, e) /\ doomed' = [doomed EXCEPT ![t] = @ \ {e}]
    BY <1>6 DEF Evict
  <2>2. /\ entries' \in EntryMap /\ digests' \in [Events -> Args \cup {None}] /\ total' \in Nat
        /\ BytesOK'
    BY <2>1, ReleaseBytes
  <2>3. UNCHANGED <<clock, holds, pc, call, seen, found>>
    BY <1>6 DEF Evict
  <2>4. QED
    <3>1. TypeOK'
      BY <2>1, <2>2, <2>3 DEF EntryMap
    <3>2. CallsOK'
      BY <2>3
    <3>3. QED
      BY <2>2, <3>1, <3>2
<1>7. ASSUME NEW t \in Threads, HoldNew(t) PROVE TypeInv'
  <2>1. /\ UNCHANGED <<clock, holds, doomed, found>> /\ Idle(t)
    BY <1>7 DEF HoldNew
  <2>2. QED
    BY <1>7, <2>1, HoldBytes DEF Idle, EntryMap
<1>8. ASSUME NEW t \in Threads, Get(t) PROVE TypeInv'
  BY <1>0, <1>8 DEF Get, Idle
<1>9. CASE UNCHANGED vars
  BY <1>0, <1>9 DEF vars
<1>10. QED
  BY <1>1, <1>2, <1>3, <1>4, <1>5, <1>6, <1>7, <1>8, <1>9 DEF Next, Progress

\* Threads that evict, register and look up at the same time keep the types
\* (argument_hold.cfg checks it for two threads and two events).
THEOREM HoldTypes == Spec => []TypeOK
<1>1. TypeInv => TypeOK
  BY DEF TypeInv
<1>2. QED
  BY InitTypeInv, StepTypeInv, <1>1, PTL DEF Spec

\* The byte count is exact and within its limit whatever the threads release
\* twice, for any number of them (argument_hold.py, hold and release).
THEOREM BytesAlwaysAccounted == Spec => []BytesAreAccounted
<1>1. TypeInv => BytesAreAccounted
  BY DEF TypeInv, BytesOK
<1>2. QED
  BY InitTypeInv, StepTypeInv, <1>1, PTL DEF Spec

-----------------------------------------------------------------------------
(* An event held once.  Until its hold() registers there is no entry of it,  *)
(* neither in the dictionary nor in what a thread saw or is about to         *)
(* release; afterwards there is at most that one entry.                      *)

Pending(t, e) == pc[t] # "idle" /\ call[t].op = "hold" /\ call[t].event = e

Untouched(e) ==
    /\ entries[e] = None
    /\ \A t \in Threads : seen[t][e] = None /\ e \notin doomed[t]

OneEntry(e) ==
    entries[e] # None =>
        \A t \in Threads :
            /\ seen[t][e] \in {None, entries[e]}
            /\ e \in doomed[t] => entries[e].expires <= clock
            /\ pc[t] = "evicting" /\ seen[t][e] # None /\ entries[e].expires <= call[t].now =>
                 e \in doomed[t]

Once(e) ==
    /\ holds[e] = 0 => Untouched(e) /\ \A t \in Threads : ~Pending(t, e)
    /\ holds[e] = 1 =>
         /\ \A t \in Threads :
              Pending(t, e) => Untouched(e) /\ \A u \in Threads : Pending(u, e) => u = t
         /\ OneEntry(e)

HeldOnce == \A e \in Events : Once(e)

LiveFound(f) == f.before = None \/ (f.before = f.entry /\ f.entry.expires > f.asked)

FoundOK ==
    \A t \in Threads :
        \/ found[t] = Nothing
        \/ /\ found[t].event \in Events /\ holds[found[t].event] > 0
           /\ holds[found[t].event] = 1 => LiveFound(found[t])

LEMMA InitHeldOnce == Init => HeldOnce /\ FoundOK
BY DEF Init, HeldOnce, Once, Untouched, Pending, OneEntry, FoundOK

\* What every thread is doing, typed.
LEMMA CallTypes ==
  ASSUME TypeInv, NEW t \in Threads, pc[t] # "idle"
  PROVE  /\ call[t].event \in Events /\ call[t].now \in Nat /\ call[t].now <= clock /\ clock \in Nat
         /\ call[t].op = "hold" => call[t].arg \in Args /\ call[t].expires \in Nat
<1>1. call[t] \in Hold \/ call[t] \in Query
  BY DEF TypeInv, CallsOK
<1>2. clock \in Nat /\ call[t].now <= clock
  BY HoldAssumption DEF TypeInv, TypeOK, CallsOK
<1>3. CASE call[t] \in Hold
  BY <1>2, <1>3 DEF Hold
<1>4. CASE call[t] \in Query
  BY <1>2, <1>4 DEF Query
<1>5. QED
  BY <1>1, <1>3, <1>4

LEMMA StepHeldOnce == TypeInv /\ HeldOnce /\ [Next]_vars => HeldOnce'
<1> SUFFICES ASSUME TypeInv, HeldOnce, [Next]_vars, NEW e \in Events PROVE Once(e)'
  BY DEF HeldOnce
<1>0. Once(e) /\ holds[e] \in Nat /\ (entries[e] # None => entries[e].expires \in Nat) /\ clock \in Nat
  BY HoldAssumption DEF HeldOnce, TypeInv, TypeOK, Entry
<1> USE DEF TypeInv, TypeOK, CallsOK
<1>1. CASE Tick
  <2>1. clock' = clock + 1 /\ UNCHANGED <<entries, digests, total, holds, pc, call, seen, doomed, found>>
    BY <1>1 DEF Tick
  <2>2. QED
    BY <1>0, <2>1 DEF Once, Untouched, Pending, OneEntry
<1>2. ASSUME NEW t \in Threads, NEW f \in Events, NEW c, Begin(t, c), c.event = f,
             \/ c.op # "hold" /\ UNCHANGED holds
             \/ holds' = [holds EXCEPT ![f] = @ + 1]
      PROVE  Once(e)'
  <2>1. /\ UNCHANGED <<clock, entries, doomed>> /\ pc'[t] = "iterating" /\ call'[t] = c
        /\ seen'[t] = entries
        /\ \A u \in Threads : u # t => pc'[u] = pc[u] /\ call'[u] = call[u] /\ seen'[u] = seen[u]
    BY <1>2 DEF Begin
  <2>2. \/ holds'[e] = holds[e] /\ (c.op # "hold" \/ c.event # e)
        \/ holds'[e] = holds[e] + 1
    BY <1>2
  <2>3. CASE holds'[e] = holds[e] /\ (c.op # "hold" \/ c.event # e)
    <3>1. ~Pending(t, e)'
      BY <2>1, <2>3 DEF Pending
    <3>2. \A u \in Threads : Pending(u, e)' => Pending(u, e)
      BY <2>1, <3>1 DEF Pending
    <3>3. Untouched(e) => Untouched(e)'
      BY <2>1 DEF Untouched
    <3>4. OneEntry(e) => OneEntry(e)'
      BY <2>1 DEF OneEntry
    <3>5. QED
      BY <1>0, <2>3, <3>2, <3>3, <3>4 DEF Once
  <2>4. CASE holds'[e] = holds[e] + 1 /\ holds[e] = 0
    <3>1. Untouched(e)'
      BY <1>0, <2>1, <2>4 DEF Once, Untouched
    <3>2. \A u \in Threads : Pending(u, e)' => u = t
      BY <1>0, <2>1, <2>4 DEF Once, Pending
    <3>3. QED
      BY <2>4, <3>1, <3>2 DEF Once, OneEntry, Untouched
  <2>5. CASE holds'[e] = holds[e] + 1 /\ holds[e] # 0
    <3>1. holds'[e] # 0 /\ holds'[e] # 1
      <4>1. PICK n \in Nat : n = holds[e]
        BY <1>0
      <4>2. n # 0 /\ holds'[e] = n + 1
        BY <2>5, <4>1
      <4>3. n + 1 # 0 /\ n + 1 # 1
        BY <4>2, Increments
      <4>4. QED
        BY <4>2, <4>3, Zenon
    <3>2. QED
      BY <3>1 DEF Once
  <2>6. QED
    BY <2>2, <2>3, <2>4, <2>5
<1>3. ASSUME NEW t \in Threads, NEW f \in Events, CallGet(t, f) PROVE Once(e)'
  BY <1>2, <1>3 DEF CallGet
<1>4. ASSUME NEW t \in Threads, NEW f \in Events, NEW a \in Args, CallHold(t, f, a) PROVE Once(e)'
  BY <1>2, <1>4 DEF CallHold
<1>5. ASSUME NEW t \in Threads, IterationEnds(t) PROVE Once(e)'
  <2>1. PICK some \in SUBSET (Expired(seen[t], call[t].now) \cup Expired(entries, call[t].now)) :
          /\ Expired(seen[t], call[t].now) \cap Expired(entries, call[t].now) \subseteq some
          /\ doomed' = [doomed EXCEPT ![t] = some]
    BY <1>5 DEF IterationEnds
  <2>2. /\ pc[t] = "iterating" /\ pc' = [pc EXCEPT ![t] = "evicting"]
        /\ UNCHANGED <<clock, entries, holds, call, seen>>
    BY <1>5 DEF IterationEnds
  <2>3. \A u \in Threads : Pending(u, e)' <=> Pending(u, e)
    BY <2>2 DEF Pending
  <2>4. Untouched(e) => Untouched(e)'
    BY <2>1, <2>2 DEF Untouched, Expired, Held
  <2>5. call[t].now \in Nat /\ call[t].now <= clock
    BY <2>2, CallTypes
  <2>6. OneEntry(e) => OneEntry(e)'
    BY <1>0, <2>1, <2>2, <2>5 DEF OneEntry, Expired, Held
  <2>7. QED
    BY <1>0, <2>2, <2>3, <2>4, <2>6 DEF Once
<1>6. ASSUME NEW t \in Threads, Idle(t), UNCHANGED <<clock, entries, holds, doomed>> PROVE Once(e)'
  <2>1. \A u \in Threads : Pending(u, e)' => Pending(u, e)
    BY <1>6 DEF Idle, Pending
  <2>2. Untouched(e) => Untouched(e)'
    BY <1>6 DEF Untouched, Idle
  <2>3. OneEntry(e) => OneEntry(e)'
    BY <1>6 DEF OneEntry, Idle
  <2>4. QED
    BY <1>0, <1>6, <2>1, <2>2, <2>3 DEF Once
<1>7. ASSUME NEW t \in Threads, IterationRaises(t) \/ HoldNothing(t) \/ Get(t) PROVE Once(e)'
  BY <1>6, <1>7 DEF IterationRaises, HoldNothing, Get
<1>8. ASSUME NEW t \in Threads, Evict(t) PROVE Once(e)'
  <2>1. PICK f \in doomed[t] : Release(t, f) /\ doomed' = [doomed EXCEPT ![t] = @ \ {f}]
    BY <1>8 DEF Evict
  <2>2. entries' = [entries EXCEPT ![f] = None] /\ UNCHANGED <<clock, holds, pc, call, seen>>
    BY <1>8, <2>1 DEF Evict, Release
  <2>3. \A u \in Threads : Pending(u, e)' <=> Pending(u, e)
    BY <2>2 DEF Pending
  <2>4. Untouched(e) => Untouched(e)'
    BY <2>1, <2>2 DEF Untouched
  <2>5. OneEntry(e) => OneEntry(e)'
    BY <2>1, <2>2 DEF OneEntry
  <2>6. QED
    BY <1>0, <2>2, <2>3, <2>4, <2>5 DEF Once
<1>9. ASSUME NEW t \in Threads, HoldNew(t) PROVE Once(e)'
  <2>1. Pending(t, call[t].event) /\ call[t].event \in Events
    BY <1>9, CallTypes DEF HoldNew, Ready, Pending
  <2>2. /\ entries' = [entries EXCEPT ![call[t].event] =
                         [arg |-> call[t].arg, expires |-> call[t].expires]]
        /\ Idle(t) /\ UNCHANGED <<clock, holds, doomed>>
    BY <1>9 DEF HoldNew
  <2>3. \A u \in Threads : Pending(u, e)' => Pending(u, e) /\ u # t
    BY <2>2 DEF Idle, Pending
  <2>4. CASE e = call[t].event
    <3>1. holds[e] # 0
      BY <1>0, <2>1, <2>4 DEF Once
    <3>2. holds[e] = 1 => Untouched(e) /\ \A u \in Threads : ~Pending(u, e)'
      BY <1>0, <2>1, <2>3, <2>4 DEF Once
    <3>3. holds[e] = 1 => OneEntry(e)'
      BY <2>2, <3>2 DEF Untouched, OneEntry, Idle
    <3>4. QED
      BY <2>2, <3>1, <3>2, <3>3 DEF Once
  <2>5. CASE e # call[t].event
    <3>1. entries'[e] = entries[e]
      BY <2>2, <2>5
    <3>2. Untouched(e) => Untouched(e)'
      BY <2>2, <3>1 DEF Untouched, Idle
    <3>3. OneEntry(e) => OneEntry(e)'
      BY <2>2, <3>1 DEF OneEntry, Idle
    <3>4. QED
      BY <1>0, <2>2, <2>3, <3>2, <3>3 DEF Once
  <2>6. QED
    BY <2>4, <2>5
<1>10. CASE UNCHANGED vars
  BY <1>0, <1>10 DEF vars, Once, Untouched, Pending, OneEntry
<1>11. QED
  BY <1>1, <1>3, <1>4, <1>5, <1>7, <1>8, <1>9, <1>10 DEF Next, Progress

\* Eviction, which decides before it takes the lock, drops no live entry of an
\* event held once, whatever the other threads register and release meanwhile
\* (argument_hold.py, _evict_expired).
THEOREM LiveEntryAlwaysStays == Spec => LiveEntryStays
<1>1. ASSUME TypeInv, HeldOnce, [Next]_vars, NEW e \in Held(entries),
             entries[e].expires > clock, holds[e] = 1
      PROVE  entries'[e] = entries[e]
  <2>1. e \in Events /\ entries[e] # None /\ entries[e].expires \in Nat /\ clock \in Nat
    BY <1>1, HoldAssumption DEF Held, TypeInv, TypeOK, Entry
  <2>2. OneEntry(e)
    BY <1>1, <2>1 DEF HeldOnce, Once
  <2>3. ASSUME NEW t \in Threads, Evict(t) PROVE entries'[e] = entries[e]
    <3>1. PICK f \in doomed[t] : Release(t, f)
      BY <2>3 DEF Evict
    <3>2. f # e
      BY <1>1, <2>1, <2>2, <3>1 DEF OneEntry
    <3>3. QED
      BY <1>1, <3>1, <3>2 DEF Release, TypeInv, TypeOK
  <2>4. ASSUME NEW t \in Threads, HoldNew(t) PROVE entries'[e] = entries[e]
    <3>1. digests[call[t].event] = None
      BY <2>4 DEF HoldNew
    <3>2. digests[e] # None
      BY <1>1, <2>1, HoldAssumption DEF TypeInv, TypeOK, BytesOK, BytesAreAccounted, Entry
    <3>3. QED
      BY <1>1, <2>4, <3>1, <3>2 DEF HoldNew, TypeInv, TypeOK
  <2>5. CASE ~\E t \in Threads : Evict(t) \/ HoldNew(t)
    BY <1>1, <2>5 DEF Next, Progress, Tick, CallGet, CallHold, Begin, IterationEnds, IterationRaises,
                      HoldNothing, Get, vars
  <2>6. QED
    BY <2>3, <2>4, <2>5
<1>2. TypeInv /\ HeldOnce /\ [Next]_vars =>
        [\A e \in Held(entries) :
           entries[e].expires > clock /\ holds[e] = 1 => entries'[e] = entries[e]]_vars
  BY <1>1
<1>3. QED
  BY InitTypeInv, StepTypeInv, InitHeldOnce, StepHeldOnce, <1>2, PTL DEF Spec, LiveEntryStays

LEMMA StepFoundOK == TypeInv /\ HeldOnce /\ FoundOK /\ [Next]_vars => FoundOK'
<1> SUFFICES ASSUME TypeInv, HeldOnce, FoundOK, [Next]_vars, NEW t \in Threads
             PROVE  \/ found'[t] = Nothing
                    \/ /\ found'[t].event \in Events /\ holds'[found'[t].event] > 0
                       /\ holds'[found'[t].event] = 1 => LiveFound(found'[t])
  BY DEF FoundOK
<1>1. CASE UNCHANGED holds /\ found'[t] \in {found[t], Nothing}
  BY <1>1 DEF FoundOK
<1>2. CASE \E u \in Threads, f \in Events, a \in Args : CallHold(u, f, a)
  <2>1. PICK u \in Threads, f \in Events, a \in Args : CallHold(u, f, a)
    BY <1>2
  <2>2. holds' = [holds EXCEPT ![f] = @ + 1] /\ found' = [found EXCEPT ![u] = Nothing]
    BY <2>1 DEF CallHold, Begin
  <2>3. CASE found'[t] = Nothing
    BY <2>3
  <2>4. CASE found'[t] # Nothing
    <3>1. found'[t] = found[t]
      BY <2>2, <2>4 DEF TypeInv, CallsOK
    <3>2. found[t].event \in Events /\ holds[found[t].event] > 0
          /\ (holds[found[t].event] = 1 => LiveFound(found[t]))
      BY <2>4, <3>1 DEF FoundOK
    <3>3. \A g \in Events : holds'[g] = holds[g] \/ (holds'[g] = holds[g] + 1 /\ holds[g] \in Nat)
      BY <2>2 DEF TypeInv, TypeOK
    <3>4. QED
      BY <3>1, <3>2, <3>3
  <2>5. QED
    BY <2>3, <2>4
<1>3. CASE \E u \in Threads : Get(u)
  <2>1. PICK u \in Threads : Get(u)
    BY <1>3
  <2> DEFINE e == call[u].event
  <2>2. /\ UNCHANGED holds /\ pc[u] = "evicting" /\ doomed[u] = {}
        /\ found' = [found EXCEPT ![u] =
                       IF entries[e] = None THEN Nothing
                       ELSE [event |-> e, asked |-> call[u].now,
                             entry |-> entries[e], before |-> seen[u][e]]]
    BY <2>1 DEF Get, Ready
  <2>3. CASE t = u /\ entries[e] # None
    <3>1. found'[t] = [event |-> e, asked |-> call[u].now, entry |-> entries[e], before |-> seen[u][e]]
      BY <2>2, <2>3 DEF TypeInv, CallsOK
    <3>2. e \in Events /\ call[u].now \in Nat
      BY <2>2, CallTypes
    <3>3. Once(e) /\ holds[e] \in Nat /\ entries[e].expires \in Nat
      BY <2>3, <3>2 DEF HeldOnce, TypeInv, TypeOK, Entry
    <3>4. holds[e] > 0
      BY <2>3, <3>3 DEF Once, Untouched
    <3>5. ASSUME holds[e] = 1, seen[u][e] # None
          PROVE  seen[u][e] = entries[e] /\ entries[e].expires > call[u].now
      BY <2>2, <2>3, <3>2, <3>3, <3>5 DEF Once, OneEntry
    <3>6. QED
      BY <2>2, <3>1, <3>2, <3>4, <3>5 DEF LiveFound
  <2>4. CASE t # u \/ entries[e] = None
    BY <1>1, <2>2, <2>4 DEF TypeInv, CallsOK
  <2>5. QED
    BY <2>3, <2>4
<1>4. CASE \E u \in Threads, f \in Events : CallGet(u, f)
  BY <1>1, <1>4 DEF CallGet, Begin, TypeInv, CallsOK
<1>5. CASE UNCHANGED <<holds, found>>
  BY <1>1, <1>5
<1>6. CASE \/ Tick \/ UNCHANGED vars
           \/ \E u \in Threads : IterationEnds(u) \/ IterationRaises(u) \/ Evict(u) \/ HoldNothing(u)
                                 \/ HoldNew(u)
  BY <1>5, <1>6 DEF Tick, vars, IterationEnds, IterationRaises, Evict, HoldNothing, HoldNew
<1>7. QED
  BY <1>2, <1>3, <1>4, <1>6 DEF Next, Progress

\* What get_with_digest() returns had not expired when it was called, for an
\* event held once, unless it was registered during the call.
THEOREM FoundAlwaysLive == Spec => []FoundIsLive
<1>1. FoundOK => FoundIsLive
  BY DEF FoundOK, FoundIsLive, LiveFound
<1>2. QED
  BY InitTypeInv, StepTypeInv, InitHeldOnce, StepHeldOnce, StepFoundOK, <1>1, PTL DEF Spec
=============================================================================
