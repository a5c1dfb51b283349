---------------------------- MODULE ArgumentHold ----------------------------
(***************************************************************************)
(* InMemoryArgumentHold (hitl/argument_hold.py) under threads: the HITL    *)
(* branch of pre_hook calls hold(), resume calls get_with_digest().  Each  *)
(* call first evicts what expired, reading the dictionary without the lock *)
(* and releasing one entry at a time, and then enters the lock.            *)
(*                                                                         *)
(* An entry's arguments stand for their digest.  One action per stretch    *)
(* that no other thread can interleave with: the two ends of the unlocked  *)
(* iteration, each release, the final critical section.                    *)
(***************************************************************************)
EXTENDS Integers, FiniteSets

CONSTANTS
    Threads,
    Events,         \* event ids
    Args,           \* argument payloads
    SizeOf,         \* their sizes in bytes
    MaxArgBytes,    \* max_held_argument_bytes
    MaxTotalBytes,  \* max_held_total_bytes
    TTL,            \* an entry is registered with at most this time to live
    MaxTime,        \* bound: the clock stops here
    None,           \* no entry
    MaxHolds        \* bound: calls of hold() for each event id

ASSUME HoldAssumption ==
    /\ SizeOf \in [Args -> Nat]
    /\ None \notin Args \cup [arg : Args, expires : Nat]
    /\ {MaxArgBytes, MaxTotalBytes, TTL, MaxTime} \subseteq Nat
    /\ MaxHolds \in [Events -> Nat]

VARIABLES
    clock,
    entries,   \* _entries: a partial function on events, None where absent
    digests,   \* _digest_by_event
    total,     \* _total_bytes
    holds,     \* calls of hold() per event so far
    pc,        \* where each thread is in its call
    call,      \* what it asks for
    seen,      \* _entries when its unlocked iteration began
    doomed,    \* the expired events it still has to release
    found      \* what its last get_with_digest() returned

vars == <<clock, entries, digests, total, holds, pc, call, seen, doomed, found>>

Entry == [arg : Args, expires : Nat]

Held(d) == {e \in Events : d[e] # None}

NoCall == [op |-> "none"]

Nothing == [event |-> None]

TypeOK ==
    /\ clock \in 0..MaxTime
    /\ entries \in [Events -> Entry \cup {None}]
    /\ digests \in [Events -> Args \cup {None}]
    /\ total \in Nat
    /\ holds \in [Events -> Nat] /\ \A e \in Events : holds[e] <= MaxHolds[e]
    /\ pc \in [Threads -> {"idle", "iterating", "evicting"}]
    /\ seen \in [Threads -> [Events -> Entry \cup {None}]]
    /\ doomed \in [Threads -> SUBSET Events]

Init ==
    /\ clock = 0
    /\ entries = [e \in Events |-> None]
    /\ digests = [e \in Events |-> None]
    /\ total = 0
    /\ holds = [e \in Events |-> 0]
    /\ pc = [t \in Threads |-> "idle"]
    /\ call = [t \in Threads |-> NoCall]
    /\ seen = [t \in Threads |-> [e \in Events |-> None]]
    /\ doomed = [t \in Threads |-> {}]
    /\ found = [t \in Threads |-> Nothing]

Idle(t) ==
    /\ pc' = [pc EXCEPT ![t] = "idle"]
    /\ call' = [call EXCEPT ![t] = NoCall]
    /\ seen' = [seen EXCEPT ![t] = [e \in Events |-> None]]

\* hold() or get() fixes now and begins _evict_expired.
Begin(t, c) ==
    /\ pc[t] = "idle"
    /\ pc' = [pc EXCEPT ![t] = "iterating"]
    /\ call' = [call EXCEPT ![t] = c]
    /\ seen' = [seen EXCEPT ![t] = entries]
    /\ found' = [found EXCEPT ![t] = Nothing]
    /\ UNCHANGED <<clock, entries, digests, total, doomed>>

\* An argument over its own limit is refused before anything else.  expires_at
\* was fixed when the request began, so it may even have passed by now.
CallHold(t, e, a) ==
    /\ holds[e] < MaxHolds[e]
    /\ SizeOf[a] <= MaxArgBytes
    /\ holds' = [holds EXCEPT ![e] = @ + 1]
    /\ \E life \in 0..TTL :
         Begin(t, [op |-> "hold", event |-> e, arg |-> a, now |-> clock, expires |-> clock + life])

CallGet(t, e) ==
    /\ Begin(t, [op |-> "get", event |-> e, now |-> clock])
    /\ UNCHANGED holds

\* Mutant: eviction drops what expires within the next time unit, too.
ExpiredEarly(d, now) == {e \in Held(d) : d[e].expires <= now + 1}

\* Mutant: an entry lives one time unit longer.
ExpiredLate(d, now) == {e \in Held(d) : d[e].expires < now}

Expired(d, now) == {e \in Held(d) : d[e].expires <= now}

\* The list comprehension over _entries ends.  It raises RuntimeError when the
\* dictionary changed its size meanwhile; otherwise each entry was read at
\* some moment between the two ends.
IterationEnds(t) ==
    LET before == Expired(seen[t], call[t].now)
        after  == Expired(entries, call[t].now)
    IN
    /\ pc[t] = "iterating"
    /\ Cardinality(Held(entries)) = Cardinality(Held(seen[t]))
    /\ \E some \in SUBSET (before \cup after) :
         /\ before \cap after \subseteq some
         /\ doomed' = [doomed EXCEPT ![t] = some]
    /\ pc' = [pc EXCEPT ![t] = "evicting"]
    /\ UNCHANGED <<clock, entries, digests, total, holds, call, seen, found>>

IterationRaises(t) ==
    /\ pc[t] = "iterating"
    /\ Cardinality(Held(entries)) # Cardinality(Held(seen[t]))
    /\ Idle(t)
    /\ UNCHANGED <<clock, entries, digests, total, holds, doomed, found>>

\* Mutant: the bytes are given back for the entry that was seen expired,
\* although another thread may have released it already.
ReleaseTwice(t, e) ==
    /\ entries' = [entries EXCEPT ![e] = None]
    /\ digests' = [digests EXCEPT ![e] = None]
    /\ total' = IF seen[t][e] = None THEN total ELSE total - SizeOf[seen[t][e].arg]

\* Mutant: the digest stays behind.
ReleaseEntryOnly(t, e) ==
    /\ entries' = [entries EXCEPT ![e] = None]
    /\ total' = IF entries[e] = None THEN total ELSE total - SizeOf[entries[e].arg]
    /\ UNCHANGED digests

\* release() of one expired entry, inside the lock; another thread may have
\* released it already.
Release(t, e) ==
    /\ entries' = [entries EXCEPT ![e] = None]
    /\ digests' = [digests EXCEPT ![e] = None]
    /\ total' = IF entries[e] = None THEN total ELSE total - SizeOf[entries[e].arg]

Evict(t) ==
    /\ pc[t] = "evicting"
    /\ \E e \in doomed[t] :
         /\ Release(t, e)
         /\ doomed' = [doomed EXCEPT ![t] = @ \ {e}]
    /\ UNCHANGED <<clock, holds, pc, call, seen, found>>

Ready(t, op) == pc[t] = "evicting" /\ doomed[t] = {} /\ call[t].op = op

Fits(a) == total + SizeOf[a] <= MaxTotalBytes

\* hold(), inside the lock, with nothing to register: an idempotent hit on the
\* same digest, a HoldConflictError on another one, or a HoldCapacityError.
HoldNothing(t) ==
    LET c == call[t] IN
    /\ Ready(t, "hold")
    /\ digests[c.event] # None \/ ~Fits(c.arg)
    /\ Idle(t)
    /\ UNCHANGED <<clock, entries, digests, total, holds, doomed, found>>

HoldNew(t) ==
    LET c == call[t] IN
    /\ Ready(t, "hold")
    /\ digests[c.event] = None
    /\ Fits(c.arg)
    /\ entries' = [entries EXCEPT ![c.event] = [arg |-> c.arg, expires |-> c.expires]]
    /\ digests' = [digests EXCEPT ![c.event] = c.arg]
    /\ total' = total + SizeOf[c.arg]
    /\ Idle(t)
    /\ UNCHANGED <<clock, holds, doomed, found>>

\* get_with_digest(), inside the lock.
Get(t) ==
    LET c == call[t] IN
    /\ Ready(t, "get")
    /\ found' = [found EXCEPT ![t] =
                   IF entries[c.event] = None THEN Nothing
                   ELSE [event |-> c.event, asked |-> c.now,
                         entry |-> entries[c.event], before |-> seen[t][c.event]]]
    /\ Idle(t)
    /\ UNCHANGED <<clock, entries, digests, total, holds, doomed>>

Tick ==
    /\ clock < MaxTime
    /\ clock' = clock + 1
    /\ UNCHANGED <<entries, digests, total, holds, pc, call, seen, doomed, found>>

Progress(t) ==
    \/ IterationEnds(t) \/ IterationRaises(t) \/ Evict(t)
    \/ HoldNothing(t) \/ HoldNew(t) \/ Get(t)

Next ==
    \/ Tick
    \/ \E t \in Threads :
         \/ Progress(t)
         \/ \E e \in Events :
              \/ CallGet(t, e)
              \/ \E a \in Args : CallHold(t, e, a)

Spec == Init /\ [][Next]_vars

-----------------------------------------------------------------------------

\* The bytes of the arguments held in d, each with its event and its place.
BytesOf(d, e) == {e} \X (1..SizeOf[d[e].arg])
HeldBytes(d) == UNION {BytesOf(d, e) : e \in Held(d)}

\* The byte count is that of the entries and within its limit, and the digests
\* are those of the entries, whoever releases what twice (argument_hold.py,
\* hold and release).
BytesAreAccounted ==
    /\ total <= MaxTotalBytes
    /\ total = Cardinality(HeldBytes(entries))
    /\ \A e \in Events : digests[e] = IF entries[e] = None THEN None ELSE entries[e].arg

\* Eviction never drops an entry that has not expired, although it decides
\* what to drop before it takes the lock, as long as the event id is passed to
\* hold() once, as pre_hook does.  (Were it held again, a thread still busy
\* evicting its expired entry would drop the new one.)
LiveEntryStays ==
    [][\A e \in Held(entries) :
         entries[e].expires > clock /\ holds[e] = 1 => entries'[e] = entries[e]]_vars

\* An entry that had already expired when get_with_digest() was called is not
\* what it returns, even if other threads evict and register meanwhile; one
\* registered during the call may be.
FoundIsLive ==
    \A t \in Threads : LET f == found[t] IN
        f # Nothing /\ holds[f.event] = 1 =>
            \/ f.before = None
            \/ f.before = f.entry /\ f.entry.expires > f.asked

=============================================================================
