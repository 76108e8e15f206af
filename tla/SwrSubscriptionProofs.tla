------------------------ MODULE SwrSubscriptionProofs ------------------------
(***************************************************************************)
(* Proofs about the subscribers of SwrMachine and what the post-rules do    *)
(* for them, for every value of the constants.  Three invariants are        *)
(* inductive beside IInv:                                                   *)
(*   - HandlesInv relates each live handle to the entry it pins, and the    *)
(*     subscribers of each entry to its handles; it holds the reason why no *)
(*     watched entry stays dirty;                                           *)
(*   - TimersInv relates the generations of the timers asleep to those of   *)
(*     the entries; it holds the reason why polling neither stops nor       *)
(*     multiplies and why an idle entry is collected;                       *)
(*   - DelaysInv relates the countdowns to the ledger of SwrDelays; it      *)
(*     holds the reason why no entry goes before its time.                  *)
(* All are proved by the shapes of a step (SwrHandlerProofs), not by its    *)
(* actions.                                                                 *)
(***************************************************************************)
EXTENDS SwrHandlerProofs, SwrDelays

-----------------------------------------------------------------------------
(* Handles *)

HandlesOf(k) == {h \in handles : h.key = k}

\* hs are the handles whose options are in the aggregate of e.
Counts(e, hs) ==
    /\ e.subscribers = Cardinality(hs)
    /\ {s.id : s \in e.subs} = {h.sub_id : h \in hs}
    /\ \A s, u \in e.subs : s.id = u.id => s = u

\* The entry that a handle subscribed to is there, and not dirty for good.
Watched(h) ==
    /\ h.sub_id < next_sub_id
    /\ Present(h.key)
    /\ entries[h.key].incarnation = h.incarnation
    /\ h.supplied =>
         /\ entries[h.key].fetcher
         /\ entries[h.key].invalidated => 0 < entries[h.key].mutation_active

HandlesInv ==
    /\ IsFiniteSet(handles)
    /\ \A h \in handles : Watched(h)
    /\ \A h, g \in handles : h.sub_id = g.sub_id => h = g
    /\ \A k \in Keys : Present(k) => Counts(entries[k], HandlesOf(k))

LEMMA HandleFields ==
    ASSUME IInv
    PROVE  /\ next_sub_id \in Nat
           /\ \A h \in handles : h.key \in Keys /\ h.sub_id \in Nat
  BY DEF IInv, TypeOK, Handle

LEMMA FiniteHandles ==
    ASSUME HandlesInv, NEW k
    PROVE  IsFiniteSet(HandlesOf(k)) /\ Cardinality(HandlesOf(k)) \in Nat
<1>1. HandlesOf(k) \in SUBSET handles
  BY DEF HandlesOf
<1> QED
  BY <1>1, FS_Subset, FS_CardinalityType DEF HandlesInv

\* No handle waits for an entry that is not there yet.
LEMMA CreatedCounts ==
    ASSUME IInv, HandlesInv, NEW k \in Keys
    PROVE  Counts(EntryOrCreate(k), HandlesOf(k))
<1>1. CASE Present(k)
  BY <1>1 DEF HandlesInv, EntryOrCreate
<1>2. CASE ~Present(k)
  <2>1. HandlesOf(k) = {}
    BY <1>2 DEF HandlesInv, Watched, HandlesOf
  <2>2. EntryOrCreate(k).subscribers = 0 /\ EntryOrCreate(k).subs = {}
    BY <1>2 DEF EntryOrCreate, NewEntry
  <2> QED
    BY <2>1, <2>2, FS_EmptySet DEF Counts
<1> QED
  BY <1>1, <1>2

\* A handle that outlives a dispatch still watches a clean entry, if the
\* dispatch counted it.
LEMMA StillWatched ==
    ASSUME IInv, HandlesInv, NEW replies, NEW now, NEW ended, NEW fired,
           Served(replies, now, ended, fired),
           NEW h \in handles, IsActive(entries'[h.key]),
           next_sub_id' >= next_sub_id, next_sub_id' \in Nat
    PROVE  Watched(h)'
<1> DEFINE k == h.key
           e == entries[k]
           n == entries'[k]
<1>1. /\ k \in Keys /\ h.sub_id \in Nat /\ next_sub_id \in Nat
      /\ h.sub_id < next_sub_id /\ Present(k) /\ e.incarnation = h.incarnation
      /\ h.supplied => e.fetcher /\ (e.invalidated => 0 < e.mutation_active)
  BY HandleFields DEF HandlesInv, Watched
<1>2. Present(k)' /\ n.incarnation = h.incarnation
  BY <1>1, ServedEntries
<1>3. ASSUME h.supplied
      PROVE  n.fetcher /\ (n.invalidated => 0 < n.mutation_active)
  <2>1. CASE k \notin DOMAIN replies
    BY <1>1, <1>3, <2>1, ServedEntries
  <2>2. CASE k \in DOMAIN replies
    <3> DEFINE r == replies[k]
    <3>1. /\ n = Settle(r, now) /\ r.entry \in Entry /\ EntryOrCreate(k) = e
      BY <1>1, <2>2, ServedEntries DEF EntryOrCreate
    <3>2. Footprint(e, r)
      BY <2>2, <3>1 DEF Served
    <3>3. /\ n.fetcher = r.entry.fetcher /\ n.invalidated = r.entry.invalidated
          /\ n.mutation_active = r.entry.mutation_active
          /\ n.subscribers = r.entry.subscribers
      BY <3>1, SettleFields
    <3>4. r.entry.mutation_active \in Nat /\ e.mutation_active \in Nat
      BY <1>1, <3>1, ServedEntries, EntryFields, <2>2
    <3>5. IsActive(r.entry)
      BY <3>3 DEF IsActive
    <3> HIDE DEF r, e, n
    <3> QED
      BY <1>1, <1>3, <3>2, <3>3, <3>4, <3>5 DEF Footprint
  <2> QED
    BY <2>1, <2>2
<1> QED
  BY <1>1, <1>2, <1>3 DEF Watched

LEMMA CountedActive ==
    ASSUME NEW e, NEW hs, IsFiniteSet(hs), Counts(e, hs), NEW h \in hs
    PROVE  IsActive(e)
<1>1. Cardinality(hs) \in Nat /\ Cardinality(hs) # 0
  BY FS_CardinalityType, FS_EmptySet
<1> QED
  BY <1>1 DEF Counts, IsActive

\* A dispatch that counts every handle leaves every handle an entry.
LEMMA ServedHandles ==
    ASSUME IInv, HandlesInv, NEW replies, NEW now, NEW ended, NEW fired,
           Served(replies, now, ended, fired),
           IsFiniteSet(handles'),
           \A h \in handles' \ handles : Watched(h)',
           \A h, g \in handles' : h.sub_id = g.sub_id => h = g,
           \A h \in handles' : h.key \in Keys,
           \A k \in DOMAIN replies : Counts(replies[k].entry, HandlesOf(k)'),
           \A k \in Keys : k \notin DOMAIN replies => HandlesOf(k)' = HandlesOf(k),
           next_sub_id' >= next_sub_id, next_sub_id' \in Nat
    PROVE  HandlesInv'
<1>1. ASSUME NEW k \in Keys, Present(k)'
      PROVE  Counts(entries'[k], HandlesOf(k)')
  <2>1. CASE k \in DOMAIN replies
    <3>1. entries'[k] = Settle(replies[k], now) /\ replies[k].entry \in Entry
      BY <2>1, ServedEntries
    <3>2. entries'[k].subs = replies[k].entry.subs
          /\ entries'[k].subscribers = replies[k].entry.subscribers
      BY <3>1, SettleFields
    <3>3. Counts(replies[k].entry, HandlesOf(k)')
      BY <2>1
    <3> QED
      BY <3>2, <3>3 DEF Counts
  <2>2. CASE k \notin DOMAIN replies
    <3>1. entries'[k] = entries[k]
      BY <2>2, ServedEntries
    <3>2. Present(k)
      BY <1>1, <3>1 DEF Present
    <3>3. Counts(entries[k], HandlesOf(k))
      BY <3>2 DEF HandlesInv
    <3> QED
      BY <2>2, <3>1, <3>3
  <2> QED
    BY <2>1, <2>2
<1>2. ASSUME NEW h \in handles', h \in handles
      PROVE  Watched(h)'
  <2>1. h.key \in Keys /\ Present(h.key)
    BY <1>2 DEF HandlesInv, Watched
  <2>2. Present(h.key)'
    BY <2>1, ServedEntries
  <2>3. HandlesOf(h.key)' \in SUBSET handles' /\ h \in HandlesOf(h.key)'
    BY <1>2 DEF HandlesOf
  <2>4. IsFiniteSet(HandlesOf(h.key)')
    BY <2>3, FS_Subset
  <2>5. IsActive(entries'[h.key])
    BY <1>1, <2>1, <2>2, <2>3, <2>4, CountedActive
  <2> QED
    BY <1>2, <2>5, StillWatched
<1> QED
  BY <1>1, <1>2 DEF HandlesInv

LEMMA PassiveHandles ==
    ASSUME IInv, HandlesInv, PassiveStep
    PROVE  HandlesInv'
<1>1. PICK replies, now, ended, fired :
        /\ Served(replies, now, ended, fired)
        /\ \A k \in DOMAIN replies : Passive(EntryOrCreate(k), replies[k])
  BY DEF PassiveStep
<1>2. handles' = handles /\ next_sub_id' = next_sub_id
  BY DEF PassiveStep
<1>3. \A k : HandlesOf(k)' = HandlesOf(k)
  BY <1>2 DEF HandlesOf
<1>4. ASSUME NEW k \in DOMAIN replies
      PROVE  Counts(replies[k].entry, HandlesOf(k)')
  <2>1. k \in Keys
    BY <1>1, ServedEntries
  <2>2. Counts(EntryOrCreate(k), HandlesOf(k))
    BY <2>1, CreatedCounts
  <2>3. Passive(EntryOrCreate(k), replies[k])
    BY <1>1
  <2> QED
    BY <1>3, <2>2, <2>3 DEF Counts, Passive
<1>5. next_sub_id \in Nat /\ \A h \in handles : h.key \in Keys
  BY HandleFields
<1>6. IsFiniteSet(handles) /\ \A h, g \in handles : h.sub_id = g.sub_id => h = g
  BY DEF HandlesInv
<1>7. \A h \in handles' \ handles : Watched(h)'
  BY <1>2
<1> QED
  BY <1>1, <1>2, <1>3, <1>4, <1>5, <1>6, <1>7, ServedHandles

LEMMA SubscribeHandles ==
    ASSUME IInv, HandlesInv, NEW k \in Keys, NEW supplied \in BOOLEAN, NEW opts \in Options,
           SubscribeStepOf(k, supplied, opts)
    PROVE  HandlesInv'
<1> DEFINE e == EntryOrCreate(k)
           id == next_sub_id
<1>0. PICK h : h = [key |-> k, sub_id |-> id, incarnation |-> e.incarnation,
                    supplied |-> supplied]
  OBVIOUS
<1>1. PICK r, now :
        /\ Served([x \in {k} |-> r], now, {}, {})
        /\ r.entry.subs = e.subs \cup {[id |-> id, opts |-> opts]}
        /\ r.entry.subscribers = e.subscribers + 1
        /\ supplied => r.entry.fetcher
        /\ supplied /\ r.entry.invalidated => 0 < r.entry.mutation_active
  BY DEF SubscribeStepOf
<1> DEFINE A == [x \in {k} |-> r]
<1>2. DOMAIN A = {k} /\ A[k] = r /\ Served(A, now, {}, {})
  BY <1>1
<1>3. /\ id \in Nat /\ next_sub_id' = id + 1 /\ handles' = handles \cup {h}
      /\ \A g \in handles : g.key \in Keys /\ g.sub_id \in Nat /\ g.sub_id < id
  BY <1>0, HandleFields DEF SubscribeStepOf, HandlesInv, Watched
<1>4. h.key = k /\ h.sub_id = id /\ h.incarnation = e.incarnation /\ h.supplied = supplied
  BY <1>0
<1> HIDE DEF A
<1>5. h \notin handles
  BY <1>3, <1>4
<1>6. /\ HandlesOf(k)' = HandlesOf(k) \cup {h}
      /\ \A x \in Keys : x # k => HandlesOf(x)' = HandlesOf(x)
  BY <1>3, <1>4 DEF HandlesOf
<1>7. Counts(e, HandlesOf(k))
  BY CreatedCounts
<1>8. Counts(r.entry, HandlesOf(k)')
  <2>1. h \notin HandlesOf(k) /\ IsFiniteSet(HandlesOf(k))
    BY <1>5, FiniteHandles DEF HandlesOf
  <2>2. Cardinality(HandlesOf(k) \cup {h}) = Cardinality(HandlesOf(k)) + 1
    BY <2>1, FS_AddElement
  <2>3. {s.id : s \in r.entry.subs} = {g.sub_id : g \in HandlesOf(k)'}
    <3> DEFINE hs == HandlesOf(k)
               ss == e.subs
               sub == [id |-> id, opts |-> opts]
    <3>1. {s.id : s \in ss} = {g.sub_id : g \in hs}
      BY <1>7 DEF Counts
    <3>2. sub.id = id /\ r.entry.subs = ss \cup {sub} /\ HandlesOf(k)' = hs \cup {h}
      BY <1>1, <1>6
    <3> HIDE DEF hs, ss, sub
    <3>3. {s.id : s \in ss \cup {sub}} = {s.id : s \in ss} \cup {id}
      BY <3>2
    <3>4. {g.sub_id : g \in hs \cup {h}} = {g.sub_id : g \in hs} \cup {id}
      BY <1>4
    <3> QED
      BY <3>1, <3>2, <3>3, <3>4
  <2>4. \A s \in e.subs : s.id # id
    <3>1. \A g \in HandlesOf(k) : g.sub_id # id
      BY <1>3 DEF HandlesOf
    <3> QED
      BY <1>7, <3>1 DEF Counts
  <2>5. \A s, u \in r.entry.subs : s.id = u.id => s = u
    BY <1>1, <1>7, <2>4 DEF Counts
  <2>6. r.entry.subscribers = Cardinality(HandlesOf(k)')
    BY <1>1, <1>6, <1>7, <2>2 DEF Counts
  <2> QED
    BY <2>3, <2>5, <2>6 DEF Counts
<1>9. Watched(h)'
  <2>1. /\ Present(k)' /\ entries'[k] = Settle(r, now) /\ r.entry \in Entry
        /\ r.entry.incarnation = e.incarnation
    BY <1>2, ServedEntries
  <2>2. /\ entries'[k].incarnation = r.entry.incarnation
        /\ entries'[k].fetcher = r.entry.fetcher
        /\ entries'[k].invalidated = r.entry.invalidated
        /\ entries'[k].mutation_active = r.entry.mutation_active
    BY <2>1, SettleFields
  <2> HIDE DEF e
  <2> QED
    BY <1>1, <1>3, <1>4, <2>1, <2>2 DEF Watched
<1>10. IsFiniteSet(handles') /\ next_sub_id' >= next_sub_id /\ next_sub_id' \in Nat
  BY <1>3, FS_AddElement DEF HandlesInv
<1>11. \A x, g \in handles' : x.sub_id = g.sub_id => x = g
  BY <1>3, <1>4 DEF HandlesInv
<1>12. \A g \in handles' : g.key \in Keys
  BY <1>3, <1>4
<1>13. \A g \in handles' \ handles : Watched(g)'
  BY <1>3, <1>9
<1> HIDE DEF e, id
<1> QED
  BY <1>2, <1>6, <1>8, <1>10, <1>11, <1>12, <1>13, ServedHandles

LEMMA DropHandles ==
    ASSUME IInv, HandlesInv, NEW h \in handles, DropStepOf(h)
    PROVE  HandlesInv'
<1> DEFINE k == h.key
           e == entries[k]
<1>1. PICK replies, now :
        /\ Served(replies, now, {}, {})
        /\ DOMAIN replies = {x \in {k} : Present(x)}
        /\ \A x \in DOMAIN replies :
             /\ replies[x].entry.subs = {s \in entries[x].subs : s.id # h.sub_id}
             /\ replies[x].entry.subscribers = Decrement(entries[x].subscribers)
  BY DEF DropStepOf
<1>2. /\ k \in Keys /\ Present(k) /\ DOMAIN replies = {k}
      /\ handles' = handles \ {h} /\ next_sub_id' = next_sub_id
      /\ next_sub_id \in Nat /\ \A g \in handles : g.key \in Keys
  BY <1>1, HandleFields DEF DropStepOf, HandlesInv, Watched
<1>3. /\ HandlesOf(k)' = HandlesOf(k) \ {h} /\ h \in HandlesOf(k)
      /\ \A x \in Keys : x # k => HandlesOf(x)' = HandlesOf(x)
  BY <1>2 DEF HandlesOf
<1>4. Counts(e, HandlesOf(k))
  BY <1>2 DEF HandlesInv
<1>5. Counts(replies[k].entry, HandlesOf(k)')
  <2>1. IsFiniteSet(HandlesOf(k)) /\ Cardinality(HandlesOf(k)) \in Nat
    BY FiniteHandles
  <2>2. Cardinality(HandlesOf(k) \ {h}) = Cardinality(HandlesOf(k)) - 1
        /\ Cardinality(HandlesOf(k)) # 0
    BY <1>3, <2>1, FS_RemoveElement, FS_EmptySet
  <2>3. replies[k].entry.subscribers = Cardinality(HandlesOf(k)) - 1
    BY <1>1, <1>2, <1>4, <2>1, <2>2 DEF Counts, Decrement
  <2>4. \A g \in HandlesOf(k) : g.sub_id = h.sub_id => g = h
    BY DEF HandlesInv, HandlesOf
  <2>5. replies[k].entry.subs = {s \in e.subs : s.id # h.sub_id}
    BY <1>1, <1>2
  <2>6. {s.id : s \in replies[k].entry.subs} = {g.sub_id : g \in HandlesOf(k) \ {h}}
    <3>1. ASSUME NEW s \in replies[k].entry.subs
          PROVE  \E g \in HandlesOf(k) \ {h} : s.id = g.sub_id
      BY <1>4, <2>5, <3>1 DEF Counts
    <3>2. ASSUME NEW g \in HandlesOf(k) \ {h}
          PROVE  \E s \in replies[k].entry.subs : s.id = g.sub_id
      BY <1>4, <2>4, <2>5, <3>2 DEF Counts
    <3> QED
      BY <3>1, <3>2
  <2>7. \A s, u \in replies[k].entry.subs : s.id = u.id => s = u
    BY <1>4, <2>5 DEF Counts
  <2> QED
    BY <1>3, <2>2, <2>3, <2>6, <2>7 DEF Counts
<1>6. IsFiniteSet(handles') /\ \A x, g \in handles' : x.sub_id = g.sub_id => x = g
  BY <1>2, FS_Subset DEF HandlesInv
<1>7. \A g \in handles' \ handles : Watched(g)'
  BY <1>2
<1>8. next_sub_id' >= next_sub_id /\ \A g \in handles' : g.key \in Keys
  BY <1>2
<1> HIDE DEF k, e
<1> QED
  BY <1>1, <1>2, <1>3, <1>5, <1>6, <1>7, <1>8, ServedHandles

\* The countdown takes only an entry that no handle counts on.
LEMMA GcHandles ==
    ASSUME IInv, HandlesInv, NEW t \in timers, GcTimer(t)
    PROVE  HandlesInv'
<1>1. handles' = handles /\ next_sub_id' = next_sub_id /\ \A k : HandlesOf(k)' = HandlesOf(k)
  BY DEF GcTimer, HandlesOf
<1>2. ASSUME NEW k \in Keys, entries'[k] # entries[k]
      PROVE  HandlesOf(k) = {} /\ ~Present(k)'
  <2>1. k = t.key /\ Present(k) /\ Collects(entries[k], t.generation) /\ entries'[k] = None
    BY <1>2 DEF GcTimer, IInv, TypeOK
  <2>2. Cardinality(HandlesOf(k)) = 0
    BY <2>1 DEF HandlesInv, Counts, Collects, IsQuiescent
  <2> QED
    BY <2>1, <2>2, FiniteHandles, FS_EmptySet DEF Present
<1>3. ASSUME NEW h \in handles
      PROVE  entries'[h.key] = entries[h.key]
  BY <1>2, HandleFields DEF HandlesOf
<1>4. ASSUME NEW h \in handles
      PROVE  Watched(h)'
  BY <1>1, <1>3 DEF HandlesInv, Watched, Present
<1>5. ASSUME NEW k \in Keys, Present(k)'
      PROVE  Counts(entries'[k], HandlesOf(k)')
  <2>1. entries'[k] = entries[k]
    BY <1>2, <1>5
  <2> QED
    BY <1>1, <1>5, <2>1 DEF HandlesInv, Present
<1> QED
  BY <1>1, <1>4, <1>5 DEF HandlesInv

LEMMA InitHandles == Init => HandlesInv
  BY FS_EmptySet DEF Init, HandlesInv, Present

LEMMA ShapeHandles ==
    ASSUME IInv, HandlesInv, StepShape
    PROVE  HandlesInv'
<1>1. CASE PassiveStep
  BY <1>1, PassiveHandles
<1>2. CASE \E k \in Keys, supplied \in BOOLEAN, opts \in Options :
             SubscribeStepOf(k, supplied, opts)
  BY <1>2, SubscribeHandles
<1>3. CASE \E h \in handles : DropStepOf(h)
  BY <1>3, DropHandles
<1>4. CASE \E t \in timers : GcTimer(t)
  BY <1>4, GcHandles
<1>5. CASE StillStep
  BY <1>5 DEF StillStep, HandlesInv, Watched, Present, HandlesOf
<1> QED
  BY <1>1, <1>2, <1>3, <1>4, <1>5 DEF StepShape

LEMMA HandlesInductive == Spec => []HandlesInv
  BY InitHandles, ShapeHandles, NextShape, Inductive, PTL DEF Spec

LEMMA HandlesPin ==
    ASSUME HandlesInv
    PROVE  HandlesPinEntry
<1>1. ASSUME NEW k \in Keys, Present(k)
      PROVE  Cardinality(entries[k].subs) = Cardinality(HandlesOf(k))
  <2> DEFINE S == entries[k].subs
             hs == HandlesOf(k)
             f == [h \in hs |-> CHOOSE s \in S : s.id = h.sub_id]
  <2>1. Counts(entries[k], hs)
    BY <1>1 DEF HandlesInv
  <2>2. \A h \in hs : f[h] \in S /\ f[h].id = h.sub_id
    BY <2>1 DEF Counts
  <2>3. \A h, g \in hs : f[h] = f[g] => h = g
    <3>1. \A h, g \in hs : h.sub_id = g.sub_id => h = g
      BY DEF HandlesInv, HandlesOf
    <3> HIDE DEF f, S, hs
    <3> QED
      BY <2>2, <3>1
  <2>4. ASSUME NEW s \in S
        PROVE  \E h \in hs : f[h] = s
    <3>1. PICK h \in hs : h.sub_id = s.id
      BY <2>1 DEF Counts
    <3> QED
      BY <2>1, <2>2, <3>1 DEF Counts
  <2>5. f \in [hs -> S]
    BY <2>2
  <2> HIDE DEF f, S, hs
  <2>6. f \in Bijection(hs, S)
    BY <2>3, <2>4, <2>5 DEF Bijection, Injection, IsInjective, Surjection
  <2>7. IsFiniteSet(hs)
    BY FiniteHandles DEF hs
  <2>8. Cardinality(hs) = Cardinality(S)
    BY <2>6, <2>7, FS_Bijection DEF ExistsBijection
  <2> QED
    BY <2>8 DEF S, hs
<1> QED
  BY <1>1 DEF HandlesInv, Watched, Counts, HandlesPinEntry, HandlesOf

\* A live QueryHandle keeps its entry: the countdown never collects it, and the
\* number of subscribers and their options are those of the handles alive,
\* however many there are.
THEOREM HandlesAreCounted == Spec => []HandlesPinEntry
  BY HandlesPin, HandlesInductive, PTL

LEMMA WatchedAreClean ==
    ASSUME IInv, HandlesInv
    PROVE  ActiveInvalidationConverges
<1> SUFFICES ASSUME NEW h \in handles, h.supplied, entries[h.key].invalidated,
                    Mutating(h.key) = {}
    PROVE  FALSE
  BY DEF ActiveInvalidationConverges
<1>1. h.key \in Keys /\ Present(h.key) /\ 0 < entries[h.key].mutation_active
  BY HandleFields DEF HandlesInv, Watched
<1>2. entries[h.key].mutation_active = Cardinality(Mutating(h.key))
  BY <1>1 DEF IInv, MutationsPinEntry
<1> QED
  BY <1>1, <1>2, FS_EmptySet

\* No subscriber with a fetcher is left with a dirty entry: invalidate() starts
\* a fetch at once, or a running mutation will when it ends.
THEOREM InvalidationConverges == Spec => []ActiveInvalidationConverges
  BY WatchedAreClean, Inductive, HandlesInductive, PTL

-----------------------------------------------------------------------------
(* Timers *)

\* What on_timer_refresh could tell two ticks apart by, and the incarnation that
\* armed them, which it cannot see.
Alike(t, u) ==
    /\ t.kind = "Refresh" /\ u.kind = "Refresh"
    /\ t.key = u.key /\ t.born = u.born /\ t.generation = u.generation

\* An incarnation arms one tick per generation, whether or not its entry is
\* still there.
TicksDiffer == \A t, u \in timers : Alike(t, u) => t = u

\* No timer is of an entry or of a generation to come: that is why a bump of
\* the generation, or a new incarnation, is enough to retire a tick.
TimersArePast ==
    /\ \A k \in Keys : Present(k) => entries[k].incarnation < next_incarnation
    /\ \A t \in timers : t.born < next_incarnation
    /\ \A t \in timers :
         t.kind = "Refresh" /\ Present(t.key) /\ t.born = entries[t.key].incarnation
         => t.generation <= entries[t.key].refresh_gen

TimersInv ==
    /\ TimersArePast
    /\ TicksDiffer
    /\ RefreshKeepsTicking
    /\ IdleEntriesExpire

LEMMA CheckedLater ==
    ASSUME NEW a \in Nat, NEW b \in Nat, a <= b, NEW d \in Nat, CheckedAdd(a, d) = None
    PROVE  CheckedAdd(b, d) = None
  BY InstantAssumption, NoneAssumption DEF CheckedAdd

LEMMA ArmedTimers ==
    ASSUME NEW k, NEW r, NEW now
    PROVE  LET n == Settle(r, now)
           IN  /\ \A t \in Armed(k, r, now) :
                    /\ t.key = k /\ t.born = n.incarnation
                    /\ t.kind = "Refresh" =>
                         /\ RefreshDeadline(r, now) # None
                         /\ t = Timer(k, "Refresh", RefreshDeadline(r, now),
                                      n.refresh_gen, n.incarnation)
                         /\ t.generation = n.refresh_gen
               /\ RefreshDeadline(r, now) # None =>
                    \E t \in Armed(k, r, now) :
                       /\ t.kind = "Refresh" /\ t.key = k
                       /\ t.generation = n.refresh_gen /\ t.born = n.incarnation
               /\ GcRestarts(r) /\ CheckedAdd(now, GcTime(r.entry)) # None =>
                    \E t \in Armed(k, r, now) :
                       /\ t.kind = "Gc" /\ t.key = k
                       /\ t.generation = n.gc_gen /\ t.born = n.incarnation
<1> DEFINE n == Settle(r, now)
           gcAt == IF GcRestarts(r) THEN CheckedAdd(now, GcTime(r.entry)) ELSE None
           refreshAt == RefreshDeadline(r, now)
           gc == Timer(k, "Gc", gcAt, n.gc_gen, n.incarnation)
           tick == Timer(k, "Refresh", refreshAt, n.refresh_gen, n.incarnation)
<1>1. /\ \A t \in Armed(k, r, now) : t = gc \/ (t = tick /\ refreshAt # None)
      /\ refreshAt # None => tick \in Armed(k, r, now)
      /\ gcAt # None => gc \in Armed(k, r, now)
  <2> HIDE DEF n
  <2>1. Armed(k, r, now) = {gc : x \in {gcAt} \ {None}} \cup {tick : x \in {refreshAt} \ {None}}
    BY DEF Armed, n
  <2> HIDE DEF gc, tick, gcAt, refreshAt
  <2> QED
    BY <2>1
<1>2. /\ gc.key = k /\ gc.kind = "Gc" /\ gc.generation = n.gc_gen
      /\ gc.born = n.incarnation
      /\ tick.key = k /\ tick.kind = "Refresh" /\ tick.generation = n.refresh_gen
      /\ tick.born = n.incarnation
  <2> HIDE DEF n, gcAt, refreshAt
  <2> QED
    BY DEF Timer
<1>3. GcRestarts(r) => gcAt = CheckedAdd(now, GcTime(r.entry))
  OBVIOUS
<1> HIDE DEF gc, gcAt, n
<1>4. \A t \in Armed(k, r, now) : t.kind = "Refresh" => t = tick /\ refreshAt # None
  BY <1>1, <1>2
<1> HIDE DEF tick, refreshAt
<1> QED
  BY <1>1, <1>2, <1>3, <1>4 DEF n, tick, refreshAt

\* The post-rules ask of the entry that the handler left what the invariants
\* ask of the entry that they leave.
LEMMA SettledBasis ==
    ASSUME NEW r, r.entry \in Entry, NEW now
    PROVE  LET n == Settle(r, now)
           IN  /\ IsActive(n) = IsActive(r.entry)
               /\ IsQuiescent(n) = IsQuiescent(r.entry)
               /\ RefreshInterval(n) = RefreshInterval(r.entry)
               /\ GcTime(n) = GcTime(r.entry)
  BY SettleFields DEF IsActive, IsQuiescent, RefreshInterval, GcTime, SubOptions

LEMMA ServedTimers ==
    ASSUME NEW replies, NEW now, NEW ended, NEW fired,
           Served(replies, now, ended, fired)
    PROVE  /\ timers \ fired \subseteq timers'
           /\ \A k \in DOMAIN replies : Armed(k, replies[k], now) \subseteq timers'
           /\ \A t \in timers' : t \in timers \/
                /\ t.key \in DOMAIN replies
                /\ t \in Armed(t.key, replies[t.key], now)
<1>1. timers' = (timers \ fired)
                  \cup UNION {Armed(k, replies[k], now) : k \in DOMAIN replies}
  BY DEF Served, Dispatch
<1> QED
  BY <1>1, ArmedTimers

\* A tick is armed under a generation that no timer has yet.
LEMMA ServedGenerations ==
    ASSUME IInv, NEW replies, NEW now, NEW ended, NEW fired,
           Served(replies, now, ended, fired),
           NEW k \in Keys, Present(k)
    PROVE  /\ entries[k].refresh_gen \in Nat /\ entries'[k].refresh_gen \in Nat
           /\ entries[k].refresh_gen <= entries'[k].refresh_gen
           /\ k \in DOMAIN replies /\ RefreshDeadline(replies[k], now) # None =>
                entries[k].refresh_gen < entries'[k].refresh_gen
<1> DEFINE e == entries[k]
<1>1. e.refresh_gen \in Nat
  BY DEF IInv, EntryOK, Entry
<1>2. CASE k \in DOMAIN replies
  <2> DEFINE r == replies[k]
  <2>1. entries'[k] = Settle(r, now) /\ r.entry \in Entry /\ EntryOrCreate(k) = e
    BY <1>2, ServedEntries DEF EntryOrCreate
  <2>2. r.entry.refresh_gen = e.refresh_gen
    BY <1>2, <2>1 DEF Served, Footprint
  <2> HIDE DEF e, r
  <2> QED
    BY <1>1, <2>1, <2>2, SettleFields DEF e, r
<1>3. CASE k \notin DOMAIN replies
  BY <1>1, <1>3, ServedEntries
<1> QED
  BY <1>1, <1>2, <1>3

LEMMA TimerFields ==
    ASSUME IInv
    PROVE  /\ \A t \in timers : t.key \in Keys /\ t.generation \in Nat /\ t.born \in Nat
           /\ next_incarnation \in Nat /\ clock \in Nat
           /\ \A k \in Keys : Present(k) => entries[k].incarnation \in Nat
  BY DEF IInv, TypeOK, TimerType, EntryOK, Entry

\* What is known of a timer after a dispatch: it was there, or it was armed now.
LEMMA ServedPast ==
    ASSUME IInv, TimersArePast, NEW replies, NEW now, NEW ended, NEW fired,
           Served(replies, now, ended, fired)
    PROVE  TimersArePast'
<1>0. /\ next_incarnation \in Nat /\ next_incarnation' \in Nat
      /\ next_incarnation <= next_incarnation'
  BY TimerFields, ServedEntries
<1>1. ASSUME NEW k \in Keys, Present(k)'
      PROVE  entries'[k].incarnation < next_incarnation'
  <2>1. CASE Present(k)
    BY <1>0, <1>1, <2>1, ServedEntries, TimerFields DEF TimersArePast
  <2>2. CASE ~Present(k)
    BY <1>0, <1>1, <2>2, ServedEntries
  <2> QED
    BY <2>1, <2>2
<1>2. ASSUME NEW t \in timers'
      PROVE  /\ t.born < next_incarnation'
             /\ t.kind = "Refresh" /\ Present(t.key)' /\ t.born = entries'[t.key].incarnation
                => t.generation <= entries'[t.key].refresh_gen
  <2>1. CASE t \in timers
    <3>1. t.key \in Keys /\ t.generation \in Nat /\ t.born \in Nat /\ t.born < next_incarnation
      BY <2>1, TimerFields DEF TimersArePast
    <3>2. ASSUME t.kind = "Refresh", Present(t.key)', t.born = entries'[t.key].incarnation
          PROVE  t.generation <= entries'[t.key].refresh_gen
      <4>1. Present(t.key) /\ t.born = entries[t.key].incarnation
        BY <3>1, <3>2, ServedEntries
      <4>2. t.generation <= entries[t.key].refresh_gen
        BY <2>1, <3>2, <4>1 DEF TimersArePast
      <4> QED
        BY <3>1, <4>1, <4>2, ServedGenerations
    <3> QED
      BY <1>0, <3>1, <3>2
  <2>2. CASE t \notin timers
    <3> DEFINE k == t.key
    <3>1. k \in DOMAIN replies /\ t \in Armed(k, replies[k], now)
      BY <1>2, <2>2, ServedTimers
    <3>2. k \in Keys /\ Present(k)' /\ entries'[k] = Settle(replies[k], now)
          /\ replies[k].entry \in Entry /\ EntryOK(replies[k].entry)
      BY <3>1, ServedEntries
    <3>3. t.born = entries'[k].incarnation
          /\ (t.kind = "Refresh" => t.generation = entries'[k].refresh_gen)
      BY <3>1, <3>2, ArmedTimers
    <3>4. entries'[k].refresh_gen \in Nat
      <4>1. EntryOK(Settle(replies[k], now))
        BY <3>2, SettleOK
      <4>2. entries'[k] \in Entry
        BY <3>2, <4>1 DEF EntryOK
      <4> QED
        BY <4>2 DEF Entry
    <3> HIDE DEF k
    <3> QED
      BY <1>1, <3>2, <3>3, <3>4 DEF k
  <2> QED
    BY <2>1, <2>2
<1> QED
  BY <1>1, <1>2 DEF TimersArePast

\* Whatever incarnation a tick is of, it is the only one of its generation.
LEMMA TicksAreSingle ==
    ASSUME TimersInv
    PROVE  TicksDoNotMultiply
  BY DEF TimersInv, TicksDiffer, Alike, TicksDoNotMultiply, PassesForCurrent

LEMMA ServedTicks ==
    ASSUME IInv, TimersArePast, TicksDiffer,
           NEW replies, NEW now, NEW ended, NEW fired,
           Served(replies, now, ended, fired)
    PROVE  TicksDiffer'
\* A tick that was armed now has no rival among the timers that were there.
<1>1. ASSUME NEW t \in timers', NEW u \in timers', Alike(t, u), t \notin timers
      PROVE  t = u
  <2> DEFINE k == t.key
             r == replies[k]
  <2>1. k \in DOMAIN replies /\ t \in Armed(k, r, now)
    BY <1>1, ServedTimers
  <2>2. k \in Keys /\ Present(k)' /\ entries'[k] = Settle(r, now)
    BY <2>1, ServedEntries
  <2> DEFINE tick == Timer(k, "Refresh", RefreshDeadline(r, now),
                           entries'[k].refresh_gen, entries'[k].incarnation)
  <2>3. /\ t = tick /\ RefreshDeadline(r, now) # None
        /\ t.generation = entries'[k].refresh_gen /\ t.born = entries'[k].incarnation
    BY <1>1, <2>1, <2>2, ArmedTimers DEF Alike
  <2>4. CASE u \in timers
    <3>1. /\ u.kind = "Refresh" /\ u.key = k
          /\ u.generation = entries'[k].refresh_gen
          /\ u.born = entries'[k].incarnation
      BY <1>1, <2>3 DEF Alike
    <3>2. u.born < next_incarnation
      BY <2>4 DEF TimersArePast
    <3>3. next_incarnation \in Nat
      BY TimerFields
    <3>4. Present(k)
      BY <2>2, <3>1, <3>2, <3>3, ServedEntries
    <3>5. u.born = entries[k].incarnation
      BY <2>2, <3>1, <3>4, ServedEntries
    <3>6. u.generation <= entries[k].refresh_gen
      BY <2>4, <3>1, <3>4, <3>5 DEF TimersArePast
    <3>7. entries[k].refresh_gen < entries'[k].refresh_gen
          /\ entries[k].refresh_gen \in Nat /\ entries'[k].refresh_gen \in Nat
      BY <2>1, <2>2, <2>3, <3>4, ServedGenerations
    <3> QED
      BY <3>1, <3>6, <3>7
  <2>5. CASE u \notin timers
    <3>1. u \in Armed(k, r, now)
      BY <1>1, <2>5, ServedTimers DEF Alike
    <3>2. u = tick
      BY <1>1, <2>2, <3>1, ArmedTimers DEF Alike
    <3> QED
      BY <2>3, <3>2
  <2> QED
    BY <2>4, <2>5
<1>2. ASSUME NEW t \in timers', NEW u \in timers', Alike(t, u)
      PROVE  t = u
  <2>1. CASE t \notin timers
    BY <1>1, <1>2, <2>1
  <2>2. CASE u \notin timers
    <3>1. Alike(u, t)
      BY <1>2 DEF Alike
    <3> QED
      BY <1>1, <2>2, <3>1
  <2>3. CASE t \in timers /\ u \in timers
    BY <1>2, <2>3 DEF TicksDiffer
  <2> QED
    BY <2>1, <2>2, <2>3
<1> QED
  BY <1>2 DEF TicksDiffer, Alike

\* A handler that changes the subscribers lets both post-rules look again.
Rebased(k, r) == Passive(EntryOrCreate(k), r) \/ {"touched", "refresh"} \subseteq r.marks

LEMMA ServedTicking ==
    ASSUME IInv, RefreshKeepsTicking,
           NEW replies, NEW now, NEW ended, NEW fired,
           Served(replies, now, ended, fired),
           \A k \in DOMAIN replies : Rebased(k, replies[k])
    PROVE  RefreshKeepsTicking'
<1> SUFFICES ASSUME NEW k \in Keys, Present(k)', IsActive(entries'[k]),
                    RefreshInterval(entries'[k]) # None,
                    CheckedAdd(clock', RefreshInterval(entries'[k])) # None
             PROVE  \E t \in timers' : /\ t.kind = "Refresh" /\ t.key = k
                                      /\ t.generation = entries'[k].refresh_gen
                                      /\ t.born = entries'[k].incarnation
  BY DEF RefreshKeepsTicking
<1> DEFINE n == entries'[k]
           r == replies[k]
<1>1. clock' = clock /\ clock \in Nat /\ now \in Nat /\ now <= clock
  BY TimerFields DEF Served, Sampled
<1>2. CASE k \in DOMAIN replies /\ "refresh" \in r.marks
  <2>1. n = Settle(r, now) /\ r.entry \in Entry /\ EntryOK(r.entry)
    BY <1>2, ServedEntries
  <2>2. IsActive(r.entry) /\ RefreshInterval(r.entry) = RefreshInterval(n)
    BY <2>1, SettledBasis
  <2>3. RefreshInterval(n) \in Nat
    BY <2>1, <2>2, RefreshIntervalType
  <2>4. CheckedAdd(now, RefreshInterval(n)) # None
    BY <1>1, <2>3, CheckedLater
  <2>5. RefreshDeadline(r, now) # None
    BY <1>2, <2>2, <2>4 DEF RefreshDeadline
  <2>6. PICK t \in Armed(k, r, now) : /\ t.kind = "Refresh" /\ t.key = k
                                     /\ t.generation = n.refresh_gen
                                     /\ t.born = n.incarnation
    BY <2>1, <2>5, ArmedTimers
  <2>7. t \in timers'
    BY <1>2, <2>6, ServedTimers
  <2> QED
    BY <2>6, <2>7
<1>3. CASE ~(k \in DOMAIN replies /\ "refresh" \in r.marks)
  <2>1. /\ Present(k) /\ IsActive(entries[k])
        /\ RefreshInterval(entries[k]) = RefreshInterval(n)
        /\ entries[k].refresh_gen = n.refresh_gen
        /\ entries[k].incarnation = n.incarnation
    <3>1. CASE k \notin DOMAIN replies
      BY <3>1, ServedEntries DEF Present
    <3>2. CASE k \in DOMAIN replies
      <4>1. n = Settle(r, now) /\ r.entry \in Entry
        BY <3>2, ServedEntries
      <4>2. Passive(EntryOrCreate(k), r) /\ "refresh" \notin r.marks
        BY <1>3, <3>2 DEF Rebased
      <4>3. IsActive(EntryOrCreate(k))
        BY <4>1, <4>2, SettledBasis DEF Passive, IsActive
      <4>4. Present(k) /\ EntryOrCreate(k) = entries[k]
        BY <4>3 DEF EntryOrCreate, IsActive, NewEntry
      <4>5. RefreshInterval(r.entry) = RefreshInterval(entries[k])
        BY <4>2, <4>4 DEF Passive, RefreshInterval, SubOptions
      <4>6. n.refresh_gen = r.entry.refresh_gen
        BY <4>1, <4>2, SettleFields DEF RefreshCancelled, RefreshDeadline
      <4>7. r.entry.refresh_gen = entries[k].refresh_gen
        BY <3>2, <4>4 DEF Served, Footprint
      <4>8. n.incarnation = entries[k].incarnation
        BY <4>4, ServedEntries
      <4> HIDE DEF n, r
      <4> QED
        BY <4>1, <4>3, <4>4, <4>5, <4>6, <4>7, <4>8, SettledBasis DEF n
    <3> QED
      BY <3>1, <3>2
  <2>2. PICK t \in timers : /\ t.kind = "Refresh" /\ t.key = k
                           /\ t.generation = entries[k].refresh_gen
                           /\ t.born = entries[k].incarnation
    <3> HIDE DEF n
    <3>1. CheckedAdd(clock, RefreshInterval(entries[k])) # None
          /\ RefreshInterval(entries[k]) # None
      BY <1>1, <2>1 DEF n
    <3> QED
      BY <2>1, <3>1 DEF RefreshKeepsTicking
  <2>3. t \notin fired
    BY <1>3, <2>1, <2>2 DEF Served
  <2>4. t \in timers'
    BY <2>2, <2>3, ServedTimers
  <2> QED
    BY <2>1, <2>2, <2>4
<1> QED
  BY <1>2, <1>3

LEMMA ServedIdle ==
    ASSUME IInv, IdleEntriesExpire,
           NEW replies, NEW now, NEW ended, NEW fired,
           Served(replies, now, ended, fired)
    PROVE  IdleEntriesExpire'
<1> SUFFICES ASSUME NEW k \in Keys, Present(k)', IsQuiescent(entries'[k]),
                    CheckedAdd(clock', GcTime(entries'[k])) # None
             PROVE  \E t \in timers' : /\ t.kind = "Gc" /\ t.key = k
                                      /\ t.generation = entries'[k].gc_gen
                                      /\ t.born = entries'[k].incarnation
  BY DEF IdleEntriesExpire
<1> DEFINE n == entries'[k]
           r == replies[k]
<1>1. clock' = clock /\ clock \in Nat /\ now \in Nat /\ now <= clock
  BY TimerFields DEF Served, Sampled
<1>2. CASE k \in DOMAIN replies /\ "touched" \in r.marks
  <2>1. n = Settle(r, now) /\ r.entry \in Entry /\ EntryOK(r.entry)
    BY <1>2, ServedEntries
  <2>2. IsQuiescent(r.entry) /\ GcTime(r.entry) = GcTime(n)
    BY <2>1, SettledBasis
  <2>3. GcTime(n) \in Nat
    BY <2>1, <2>2, GcTimeType
  <2>4. CheckedAdd(now, GcTime(n)) # None
    BY <1>1, <2>3, CheckedLater
  <2>5. PICK t \in Armed(k, r, now) : /\ t.kind = "Gc" /\ t.key = k
                                     /\ t.generation = n.gc_gen
                                     /\ t.born = n.incarnation
    BY <1>2, <2>1, <2>2, <2>4, ArmedTimers DEF GcRestarts
  <2>6. t \in timers'
    BY <1>2, <2>5, ServedTimers
  <2> QED
    BY <2>5, <2>6
<1>3. CASE ~(k \in DOMAIN replies /\ "touched" \in r.marks)
  <2>1. /\ Present(k) /\ IsQuiescent(entries[k])
        /\ GcTime(entries[k]) = GcTime(n)
        /\ entries[k].gc_gen = n.gc_gen
        /\ entries[k].incarnation = n.incarnation
    <3>1. CASE k \notin DOMAIN replies
      BY <3>1, ServedEntries DEF Present
    <3>2. CASE k \in DOMAIN replies
      <4>1. n = Settle(r, now) /\ r.entry \in Entry
        BY <3>2, ServedEntries
      <4>2. "touched" \notin r.marks /\ Present(k) /\ r.entry = EntryOrCreate(k)
        BY <1>3, <3>2 DEF Served, Footprint
      <4>3. r.entry = entries[k]
        BY <4>2 DEF EntryOrCreate
      <4>4. n.gc_gen = r.entry.gc_gen
        BY <4>1, <4>2, SettleFields DEF GcRestarts
      <4>5. n.incarnation = entries[k].incarnation
        BY <4>2, ServedEntries
      <4> HIDE DEF n, r
      <4> QED
        BY <4>1, <4>2, <4>3, <4>4, <4>5, SettledBasis DEF n
    <3> QED
      BY <3>1, <3>2
  <2>2. PICK t \in timers : /\ t.kind = "Gc" /\ t.key = k
                           /\ t.generation = entries[k].gc_gen
                           /\ t.born = entries[k].incarnation
    <3> HIDE DEF n
    <3>1. CheckedAdd(clock, GcTime(entries[k])) # None
      BY <1>1, <2>1 DEF n
    <3> QED
      BY <2>1, <3>1 DEF IdleEntriesExpire
  <2>3. t \notin fired
    BY <2>2 DEF Served
  <2>4. t \in timers'
    BY <2>2, <2>3, ServedTimers
  <2> QED
    BY <2>1, <2>2, <2>4
<1> QED
  BY <1>2, <1>3

LEMMA RebasedTimers ==
    ASSUME IInv, TimersInv, NEW replies, NEW now, NEW ended, NEW fired,
           Served(replies, now, ended, fired),
           \A k \in DOMAIN replies : Rebased(k, replies[k])
    PROVE  TimersInv'
  BY ServedPast, ServedTicks, ServedTicking, ServedIdle DEF TimersInv

\* A countdown that wakes takes its entry along or was not the current one.
LEMMA GcTimers ==
    ASSUME IInv, TimersInv, NEW t \in timers, GcTimer(t)
    PROVE  TimersInv'
<1>1. /\ timers' = timers \ {t} /\ t.kind = "Gc" /\ t.key \in Keys
      /\ clock' = clock /\ next_incarnation' = next_incarnation
  BY TimerFields DEF GcTimer
<1>2. ASSUME NEW k \in Keys, Present(k)'
      PROVE  /\ Present(k) /\ entries'[k] = entries[k]
             /\ k = t.key /\ t.generation = entries[k].gc_gen => ~IsQuiescent(entries[k])
  BY <1>2 DEF GcTimer, Present, Collects, IInv, TypeOK
<1>3. TimersArePast'
  BY <1>1, <1>2, TimerFields DEF TimersInv, TimersArePast, Present
<1>4. TicksDiffer'
  BY <1>1 DEF TimersInv, TicksDiffer, Alike
<1>5. RefreshKeepsTicking'
  <2> SUFFICES ASSUME NEW k \in Keys, Present(k)', IsActive(entries'[k]),
                      RefreshInterval(entries'[k]) # None,
                      CheckedAdd(clock', RefreshInterval(entries'[k])) # None
               PROVE  \E u \in timers' : /\ u.kind = "Refresh" /\ u.key = k
                                        /\ u.generation = entries'[k].refresh_gen
                                        /\ u.born = entries'[k].incarnation
    BY DEF RefreshKeepsTicking
  <2>1. PICK u \in timers : /\ u.kind = "Refresh" /\ u.key = k
                           /\ u.generation = entries[k].refresh_gen
                           /\ u.born = entries[k].incarnation
    BY <1>1, <1>2 DEF TimersInv, RefreshKeepsTicking
  <2> QED
    BY <1>1, <1>2, <2>1
<1>6. IdleEntriesExpire'
  <2> SUFFICES ASSUME NEW k \in Keys, Present(k)', IsQuiescent(entries'[k]),
                      CheckedAdd(clock', GcTime(entries'[k])) # None
               PROVE  \E u \in timers' : /\ u.kind = "Gc" /\ u.key = k
                                        /\ u.generation = entries'[k].gc_gen
                                        /\ u.born = entries'[k].incarnation
    BY DEF IdleEntriesExpire
  <2>1. PICK u \in timers : /\ u.kind = "Gc" /\ u.key = k
                           /\ u.generation = entries[k].gc_gen
                           /\ u.born = entries[k].incarnation
    BY <1>1, <1>2 DEF TimersInv, IdleEntriesExpire
  <2>2. u # t
    BY <1>2, <2>1
  <2> QED
    BY <1>1, <1>2, <2>1, <2>2
<1> QED
  BY <1>3, <1>4, <1>5, <1>6 DEF TimersInv

\* As time passes a deadline can only become unrepresentable.
LEMMA StillTimers ==
    ASSUME IInv, IInv', TimersInv, StillStep
    PROVE  TimersInv'
<1>1. UNCHANGED <<entries, timers, next_incarnation>> /\ \A k : Present(k)' <=> Present(k)
  BY DEF StillStep, Present
<1>2. clock \in Nat /\ clock' \in Nat /\ clock <= clock'
  BY DEF StillStep, IInv, TypeOK
<1>3. \A k \in Keys : Present(k) =>
        EntryOK(entries[k]) /\ entries[k] \in Entry
  BY DEF IInv, EntryOK
<1>4. RefreshKeepsTicking'
  <2>1. ASSUME NEW k \in Keys, Present(k), RefreshInterval(entries[k]) # None,
               CheckedAdd(clock, RefreshInterval(entries[k])) = None
        PROVE  CheckedAdd(clock', RefreshInterval(entries[k])) = None
    BY <1>2, <1>3, <2>1, RefreshIntervalType, CheckedLater
  <2> QED
    BY <1>1, <2>1 DEF TimersInv, RefreshKeepsTicking
<1>5. IdleEntriesExpire'
  <2>1. ASSUME NEW k \in Keys, Present(k), CheckedAdd(clock, GcTime(entries[k])) = None
        PROVE  CheckedAdd(clock', GcTime(entries[k])) = None
    BY <1>2, <1>3, <2>1, GcTimeType, CheckedLater
  <2> QED
    BY <1>1, <2>1 DEF TimersInv, IdleEntriesExpire
<1> QED
  BY <1>1, <1>4, <1>5 DEF TimersInv, TimersArePast, TicksDiffer, Alike

LEMMA InitTimers == Init => TimersInv
  BY DEF Init, TimersInv, TimersArePast, TicksDiffer, RefreshKeepsTicking,
         IdleEntriesExpire, Present

LEMMA ShapeTimers ==
    ASSUME IInv, IInv', TimersInv, StepShape
    PROVE  TimersInv'
<1>1. CASE PassiveStep
  <2>1. PICK replies, now, ended, fired :
          /\ Served(replies, now, ended, fired)
          /\ \A k \in DOMAIN replies : Passive(EntryOrCreate(k), replies[k])
    BY <1>1 DEF PassiveStep
  <2> QED
    BY <2>1, RebasedTimers DEF Rebased
<1>2. ASSUME NEW k \in Keys, NEW supplied \in BOOLEAN, NEW opts \in Options,
             SubscribeStepOf(k, supplied, opts)
      PROVE  TimersInv'
  <2>1. PICK r, now : Served([x \in {k} |-> r], now, {}, {})
                      /\ {"touched", "refresh"} \subseteq r.marks
    BY <1>2 DEF SubscribeStepOf
  <2> DEFINE A == [x \in {k} |-> r]
  <2>2. Served(A, now, {}, {}) /\ \A x \in DOMAIN A : Rebased(x, A[x])
    BY <2>1 DEF Rebased
  <2> HIDE DEF A
  <2> QED
    BY <2>2, RebasedTimers
<1>3. ASSUME NEW h \in handles, DropStepOf(h) PROVE TimersInv'
  <2>1. PICK replies, now :
          /\ Served(replies, now, {}, {})
          /\ \A k \in DOMAIN replies : {"touched", "refresh"} \subseteq replies[k].marks
    BY <1>3 DEF DropStepOf
  <2> QED
    BY <2>1, RebasedTimers DEF Rebased
<1>4. CASE \E t \in timers : GcTimer(t)
  BY <1>4, GcTimers
<1>5. CASE StillStep
  BY <1>5, StillTimers
<1> QED
  BY <1>1, <1>2, <1>3, <1>4, <1>5 DEF StepShape

LEMMA TimersInductive == Spec => []TimersInv
  BY InitTimers, ShapeTimers, NextShape, Inductive, PTL DEF Spec

\* Polling does not multiply: of the ticks that one incarnation armed, however
\* often, at most one would be answered, by its own entry or by one rebuilt
\* under its key after it was collected.
THEOREM TicksStaySingle == Spec => []TicksDoNotMultiply
<1>1. TimersInv => TicksDoNotMultiply
  BY TicksAreSingle
<1> QED
  BY <1>1, TimersInductive, PTL

\* Polling does not stop: a watched entry with a refresh interval always has
\* its next tick asleep, whatever answered, joined or retired the ones before.
THEOREM RefreshGoesOn == Spec => []RefreshKeepsTicking
<1>1. TimersInv => RefreshKeepsTicking
  BY DEF TimersInv
<1> QED
  BY <1>1, TimersInductive, PTL

\* No idle entry leaks: every handler that leaves an entry idle restarts its
\* countdown, and nothing takes the countdown away but the entry's use.
THEOREM IdleEntriesAreCounted == Spec => []IdleEntriesExpire
<1>1. TimersInv => IdleEntriesExpire
  BY DEF TimersInv
<1> QED
  BY <1>1, TimersInductive, PTL

-----------------------------------------------------------------------------
(* Delays *)

\* No countdown of an entry is of a generation to come, and no entry was used in
\* the future.
DelaysInv ==
    /\ used_at \in [Keys -> Nat]
    /\ \A k \in Keys : used_at[k] <= clock
    /\ \A t \in timers :
         t.kind = "Gc" /\ Present(t.key) /\ t.born = entries[t.key].incarnation
         => t.generation <= entries[t.key].gc_gen
    /\ CountdownsAreOnTime

\* The ledger in a step: a changed entry was used now.
Noted ==
    used_at' = [k \in Keys |-> IF entries'[k] # entries[k] THEN clock ELSE used_at[k]]

LEMMA ArmedCountdowns ==
    ASSUME NEW k, NEW r, NEW now, NEW t \in Armed(k, r, now), t.kind = "Gc"
    PROVE  /\ GcRestarts(r) /\ CheckedAdd(now, GcTime(r.entry)) # None
           /\ t.at = CheckedAdd(now, GcTime(r.entry))
           /\ t.generation = Settle(r, now).gc_gen
<1> DEFINE n == Settle(r, now)
           gcAt == IF GcRestarts(r) THEN CheckedAdd(now, GcTime(r.entry)) ELSE None
           refreshAt == RefreshDeadline(r, now)
           gc == Timer(k, "Gc", gcAt, n.gc_gen, n.incarnation)
           tick == Timer(k, "Refresh", refreshAt, n.refresh_gen, n.incarnation)
<1>1. (t = gc /\ gcAt # None) \/ t = tick
  <2> HIDE DEF n
  <2>1. Armed(k, r, now) = {gc : x \in {gcAt} \ {None}} \cup {tick : x \in {refreshAt} \ {None}}
    BY DEF Armed, n
  <2> HIDE DEF gc, tick, gcAt, refreshAt
  <2> QED
    BY <2>1
<1>2. gc.at = gcAt /\ gc.generation = n.gc_gen /\ tick.kind = "Refresh"
  <2> HIDE DEF n, gcAt, refreshAt
  <2> QED
    BY DEF Timer
<1>3. gcAt # None => GcRestarts(r) /\ gcAt = CheckedAdd(now, GcTime(r.entry))
  OBVIOUS
<1> HIDE DEF gc, tick, gcAt, refreshAt
<1> QED
  BY <1>1, <1>2, <1>3

\* A handler that leaves an idle entry untouched leaves it as it was.
LEMMA UntouchedIdle ==
    ASSUME NEW e \in Entry, NEW r, Footprint(e, r), NEW now,
           "touched" \notin r.marks, IsQuiescent(Settle(r, now))
    PROVE  Settle(r, now) = e
<1>1. r.entry = e /\ (r.marks # {} => IsActive(e))
  BY DEF Footprint
<1>2. ~IsActive(e)
  BY <1>1, SettledBasis, EntryFields DEF IsQuiescent, IsActive
<1>3. r.marks = {}
  BY <1>1, <1>2
<1>4. Settle(r, now) = [e EXCEPT !.gc_gen = e.gc_gen, !.refresh_gen = e.refresh_gen,
                                 !.snap_version = e.snap_version]
  BY <1>1, <1>3 DEF Settle, GcRestarts, RefreshCancelled, RefreshDeadline
<1> QED
  BY <1>4 DEF Entry

\* A touched entry that is left idle is past every countdown it had.
LEMMA ServedCountdownGen ==
    ASSUME IInv, NEW replies, NEW now, NEW ended, NEW fired,
           Served(replies, now, ended, fired), NEW k \in Keys, Present(k)
    PROVE  /\ entries[k].gc_gen \in Nat /\ entries'[k].gc_gen \in Nat
           /\ entries[k].gc_gen <= entries'[k].gc_gen
           /\ k \in DOMAIN replies /\ GcRestarts(replies[k]) =>
                entries[k].gc_gen < entries'[k].gc_gen
<1> DEFINE e == entries[k]
<1>1. e.gc_gen \in Nat
  BY DEF IInv, EntryOK, Entry
<1>2. CASE k \in DOMAIN replies
  <2> DEFINE r == replies[k]
  <2>1. entries'[k] = Settle(r, now) /\ r.entry \in Entry /\ EntryOrCreate(k) = e
    BY <1>2, ServedEntries DEF EntryOrCreate
  <2>2. r.entry.gc_gen \in {e.gc_gen, e.gc_gen + 1}
    BY <1>2, <2>1 DEF Served, Footprint
  <2> HIDE DEF e, r
  <2> QED
    BY <1>1, <2>1, <2>2, SettleFields DEF e, r
<1>3. CASE k \notin DOMAIN replies
  BY <1>1, <1>3, ServedEntries
<1> QED
  BY <1>1, <1>2, <1>3

LEMMA ServedCountdownsPast ==
    ASSUME IInv, TimersArePast, DelaysInv, NEW replies, NEW now, NEW ended, NEW fired,
           Served(replies, now, ended, fired),
           NEW t \in timers', t.kind = "Gc", Present(t.key)',
           t.born = entries'[t.key].incarnation
    PROVE  t.generation <= entries'[t.key].gc_gen
<1>1. CASE t \in timers
  <2>1. t.key \in Keys /\ t.generation \in Nat /\ t.born \in Nat
        /\ t.born < next_incarnation /\ next_incarnation \in Nat
    BY <1>1, TimerFields DEF TimersArePast
  <2>2. Present(t.key) /\ t.born = entries[t.key].incarnation
    BY <2>1, ServedEntries
  <2>3. t.generation <= entries[t.key].gc_gen
    BY <1>1, <2>2 DEF DelaysInv
  <2> QED
    BY <2>1, <2>2, <2>3, ServedCountdownGen
<1>2. CASE t \notin timers
  <2> DEFINE k == t.key
  <2>1. k \in DOMAIN replies /\ t \in Armed(k, replies[k], now)
    BY <1>2, ServedTimers
  <2>2. k \in Keys /\ entries'[k] = Settle(replies[k], now) /\ EntryOK(replies[k].entry)
    BY <2>1, ServedEntries
  <2>3. t.generation = entries'[k].gc_gen
    BY <2>1, <2>2, ArmedCountdowns
  <2>4. entries'[k].gc_gen \in Nat
    <3>1. EntryOK(Settle(replies[k], now))
      BY <2>2, SettleOK
    <3>2. entries'[k] \in Entry
      BY <2>2, <3>1 DEF EntryOK
    <3> QED
      BY <3>2 DEF Entry
  <2> QED
    BY <2>3, <2>4
<1> QED
  BY <1>1, <1>2

\* What CountdownsAreOnTime asks of one key.
OnTime(k) ==
    Present(k) /\ IsQuiescent(entries[k]) =>
        LET due == used_at[k] + GcTime(entries[k])
        IN  /\ Countdowns(k) = {} => due > MaxInstant
            /\ \A t \in Countdowns(k) : t.at <= due /\ due <= t.at + MaxLag

\* The countdown of an entry that a dispatch touched starts at the time that the
\* dispatch had read, and no other is still obeyed.
LEMMA TouchedOnTime ==
    ASSUME IInv, TimersArePast, DelaysInv, Noted,
           NEW replies, NEW now, NEW ended, NEW fired,
           Served(replies, now, ended, fired),
           NEW k \in DOMAIN replies, "touched" \in replies[k].marks,
           IsQuiescent(entries'[k])
    PROVE  OnTime(k)'
<1> DEFINE n == entries'[k]
           r == replies[k]
<1>1. /\ k \in Keys /\ Present(k)' /\ n = Settle(r, now)
      /\ r.entry \in Entry /\ EntryOK(r.entry)
  BY ServedEntries
<1>2. IsQuiescent(r.entry) /\ GcTime(r.entry) = GcTime(n) /\ GcTime(n) \in Nat
  BY <1>1, SettledBasis, GcTimeType
<1>3. GcRestarts(r)
  BY <1>2 DEF GcRestarts
<1>4. /\ clock \in Nat /\ now \in Nat /\ now <= clock /\ clock <= now + MaxLag
      /\ MaxLag \in Nat /\ MaxInstant \in Nat
  BY TimerFields, BoundsAssumption, InstantAssumption DEF Served, Sampled
<1>5. used_at'[k] = clock
  <2>1. Present(k) => n.gc_gen # entries[k].gc_gen
    BY <1>1, <1>3, ServedCountdownGen
  <2>2. n # entries[k]
    BY <1>1, <2>1 DEF Present
  <2> QED
    BY <1>1, <2>2 DEF Noted
<1>6. ASSUME NEW t \in Countdowns(k)'
      PROVE  t \in Armed(k, r, now) /\ t.kind = "Gc"
  <2>1. /\ t \in timers' /\ t.kind = "Gc" /\ t.key = k
        /\ t.generation = n.gc_gen /\ t.born = n.incarnation
    BY <1>6 DEF Countdowns
  <2>2. CASE t \in timers
    <3>1. t.born < next_incarnation /\ next_incarnation \in Nat
      BY <2>2, TimerFields DEF TimersArePast
    <3>2. Present(k) /\ t.born = entries[k].incarnation
      BY <1>1, <2>1, <3>1, ServedEntries
    <3>3. t.generation <= entries[k].gc_gen
      BY <2>1, <2>2, <3>2 DEF DelaysInv
    <3>4. entries[k].gc_gen < n.gc_gen /\ entries[k].gc_gen \in Nat /\ n.gc_gen \in Nat
      BY <1>1, <1>3, <3>2, ServedCountdownGen
    <3> HIDE DEF n
    <3> QED
      BY <2>1, <3>3, <3>4
  <2>3. CASE t \notin timers
    BY <2>1, <2>3, ServedTimers
  <2> QED
    BY <2>1, <2>2, <2>3
<1>7. \A t \in Countdowns(k)' : t.at = now + GcTime(n)
  <2>1. ASSUME NEW t \in Countdowns(k)'
        PROVE  t.at = now + GcTime(n)
    <3>1. CheckedAdd(now, GcTime(n)) # None /\ t.at = CheckedAdd(now, GcTime(n))
      BY <1>2, <1>6, ArmedCountdowns
    <3> QED
      BY <3>1 DEF CheckedAdd
  <2> QED
    BY <2>1
<1>8. CheckedAdd(now, GcTime(n)) # None => Countdowns(k)' # {}
  <2> SUFFICES ASSUME CheckedAdd(now, GcTime(n)) # None PROVE Countdowns(k)' # {}
    OBVIOUS
  <2>1. PICK t \in Armed(k, r, now) : /\ t.kind = "Gc" /\ t.key = k
                                     /\ t.generation = n.gc_gen
                                     /\ t.born = n.incarnation
    BY <1>1, <1>2, <1>3, ArmedTimers
  <2>2. t \in timers'
    BY <2>1, ServedTimers
  <2> QED
    BY <2>1, <2>2 DEF Countdowns
<1> DEFINE d == GcTime(n)
<1>9. d \in Nat /\ (CheckedAdd(now, d) = None => now + d > MaxInstant)
  BY <1>2, <1>4, InstantAssumption, NoneAssumption DEF CheckedAdd
<1>10. /\ Countdowns(k)' = {} => clock + d > MaxInstant
       /\ \A t \in Countdowns(k)' : t.at <= clock + d /\ clock + d <= t.at + MaxLag
  <2> HIDE DEF d, n, r
  <2> QED
    BY <1>4, <1>7, <1>8, <1>9 DEF d
<1> HIDE DEF r
<1> QED
  BY <1>5, <1>10 DEF OnTime

\* Everything else that a dispatch does to an idle entry is nothing at all.
LEMMA UntouchedOnTime ==
    ASSUME IInv, DelaysInv, Noted,
           NEW replies, NEW now, NEW ended, NEW fired,
           Served(replies, now, ended, fired),
           NEW k \in Keys, Present(k)', IsQuiescent(entries'[k]),
           k \in DOMAIN replies => "touched" \notin replies[k].marks
    PROVE  OnTime(k)'
<1>1. Present(k) /\ entries'[k] = entries[k]
  <2>1. CASE k \in DOMAIN replies
    <3>1. /\ entries'[k] = Settle(replies[k], now)
          /\ Footprint(EntryOrCreate(k), replies[k]) /\ EntryOrCreate(k) \in Entry
      BY <2>1, ServedEntries DEF Served
    <3>2. Present(k)
      BY <2>1 DEF Served
    <3> QED
      BY <2>1, <3>1, <3>2, UntouchedIdle DEF EntryOrCreate
  <2>2. CASE k \notin DOMAIN replies
    BY <2>2, ServedEntries DEF Present
  <2> QED
    BY <2>1, <2>2
<1>2. used_at'[k] = used_at[k]
  BY <1>1 DEF Noted
<1>3. Countdowns(k)' = Countdowns(k)
  <2>1. ASSUME NEW t \in Countdowns(k)
        PROVE  t \in Countdowns(k)'
    <3>1. t \in timers /\ t.kind = "Gc"
      BY <2>1 DEF Countdowns
    <3>2. t \notin fired
      BY <3>1 DEF Served
    <3>3. t \in timers'
      BY <3>1, <3>2, ServedTimers
    <3> QED
      BY <1>1, <2>1, <3>3 DEF Countdowns
  <2>2. ASSUME NEW t \in Countdowns(k)'
        PROVE  t \in Countdowns(k)
    <3>1. t \in timers' /\ t.kind = "Gc" /\ t.key = k
      BY <2>2 DEF Countdowns
    <3>2. t \in timers
      BY <3>1, ServedTimers, ArmedCountdowns DEF GcRestarts
    <3> QED
      BY <1>1, <2>2, <3>2 DEF Countdowns
  <2> QED
    BY <2>1, <2>2
<1>4. OnTime(k)
  BY DEF DelaysInv, CountdownsAreOnTime, OnTime
<1> QED
  BY <1>1, <1>2, <1>3, <1>4 DEF OnTime

LEMMA NotedTimes ==
    ASSUME IInv, IInv', DelaysInv, Noted, clock <= clock'
    PROVE  used_at' \in [Keys -> Nat] /\ \A k \in Keys : used_at'[k] <= clock'
<1>1. clock \in Nat /\ clock' \in Nat
  BY DEF IInv, TypeOK
<1>2. \A k \in Keys : used_at'[k] = clock \/ used_at'[k] = used_at[k]
  BY DEF Noted
<1>3. \A k \in Keys : used_at[k] \in Nat /\ used_at[k] <= clock
  BY DEF DelaysInv
<1>4. \A k \in Keys : used_at'[k] \in Nat /\ used_at'[k] <= clock'
  BY <1>1, <1>2, <1>3
<1> QED
  BY <1>4 DEF Noted

LEMMA ServedDelays ==
    ASSUME IInv, IInv', TimersArePast, DelaysInv, Noted,
           NEW replies, NEW now, NEW ended, NEW fired,
           Served(replies, now, ended, fired)
    PROVE  DelaysInv'
<1>1. used_at' \in [Keys -> Nat] /\ \A k \in Keys : used_at'[k] <= clock'
  BY NotedTimes, TimerFields DEF Served
<1>2. \A k \in Keys : OnTime(k)'
  BY TouchedOnTime, UntouchedOnTime DEF OnTime
<1>3. CountdownsAreOnTime'
  BY <1>2 DEF OnTime, CountdownsAreOnTime
<1> QED
  BY <1>1, <1>3, ServedCountdownsPast DEF DelaysInv

\* A countdown that wakes takes its entry along or was not the current one.
LEMMA GcDelays ==
    ASSUME IInv, IInv', DelaysInv, Noted, NEW t \in timers, GcTimer(t)
    PROVE  DelaysInv'
<1>1. timers' = timers \ {t} /\ t.kind = "Gc" /\ t.key \in Keys /\ clock' = clock
  BY TimerFields DEF GcTimer
<1>2. ASSUME NEW k \in Keys, Present(k)'
      PROVE  /\ Present(k) /\ entries'[k] = entries[k]
             /\ k = t.key /\ t.generation = entries[k].gc_gen => ~IsQuiescent(entries[k])
  BY <1>2 DEF GcTimer, Present, Collects, IInv, TypeOK
<1>3. used_at' \in [Keys -> Nat] /\ \A k \in Keys : used_at'[k] <= clock'
  BY <1>1, NotedTimes, TimerFields
<1>4. ASSUME NEW k \in Keys, Present(k)', IsQuiescent(entries'[k])
      PROVE  OnTime(k)'
  <2>1. used_at'[k] = used_at[k] /\ entries'[k] = entries[k] /\ Present(k)
    BY <1>2, <1>4 DEF Noted
  <2>2. t \notin Countdowns(k)
    BY <1>2, <1>4, <2>1 DEF Countdowns
  <2>3. Countdowns(k)' = Countdowns(k)
    BY <1>1, <2>1, <2>2 DEF Countdowns
  <2> QED
    BY <2>1, <2>3 DEF DelaysInv, CountdownsAreOnTime, OnTime
<1>5. CountdownsAreOnTime'
  BY <1>4 DEF OnTime, CountdownsAreOnTime
<1>6. \A u \in timers' :
        u.kind = "Gc" /\ Present(u.key)' /\ u.born = entries'[u.key].incarnation
        => u.generation <= entries'[u.key].gc_gen
  BY <1>1, <1>2, TimerFields DEF DelaysInv
<1> QED
  BY <1>3, <1>5, <1>6 DEF DelaysInv

LEMMA StillDelays ==
    ASSUME IInv, IInv', DelaysInv, Noted, StillStep
    PROVE  DelaysInv'
<1>1. UNCHANGED <<entries, timers>> /\ clock <= clock'
  BY DEF StillStep
<1>2. used_at' = used_at
  BY <1>1 DEF Noted, DelaysInv
<1>3. \A k \in Keys : used_at'[k] <= clock'
  BY <1>1, NotedTimes
<1> QED
  BY <1>1, <1>2, <1>3 DEF DelaysInv, CountdownsAreOnTime, Countdowns, Present

LEMMA ShapeDelays ==
    ASSUME IInv, IInv', TimersArePast, DelaysInv, Noted, StepShape
    PROVE  DelaysInv'
<1>0. CASE \E replies, now, ended, fired : Served(replies, now, ended, fired)
  BY <1>0, ServedDelays
<1>1. CASE PassiveStep
  BY <1>0, <1>1 DEF PassiveStep
<1>2. CASE \E x \in Keys, supplied \in BOOLEAN, opts \in Options :
             SubscribeStepOf(x, supplied, opts)
  BY <1>0, <1>2 DEF SubscribeStepOf
<1>3. CASE \E h \in handles : DropStepOf(h)
  BY <1>0, <1>3 DEF DropStepOf
<1>4. CASE \E t \in timers : GcTimer(t)
  BY <1>4, GcDelays
<1>5. CASE StillStep
  BY <1>5, StillDelays
<1> QED
  BY <1>1, <1>2, <1>3, <1>4, <1>5 DEF StepShape

\* Only a countdown takes an entry away.
LEMMA CollectedByCountdown ==
    ASSUME IInv, StepShape, NEW k \in Keys, Present(k), entries'[k] = None
    PROVE  \E t \in timers : GcTimer(t)
<1>0. ASSUME NEW replies, NEW now, NEW ended, NEW fired,
             Served(replies, now, ended, fired)
      PROVE  FALSE
  BY <1>0, ServedEntries DEF Present
<1> QED
  BY <1>0 DEF StepShape, PassiveStep, SubscribeStepOf, DropStepOf, StillStep, Present

LEMMA DelayInvariants == DelaySpec => [](IInv /\ TimersInv /\ DelaysInv)
<1>1. DelayInit => IInv /\ TimersInv /\ DelaysInv
  BY InitIInv, InitTimers DEF DelayInit, Init, DelaysInv, CountdownsAreOnTime, Present
<1>2. IInv /\ TimersInv /\ DelaysInv /\ [DelayNext]_delayVars
        => IInv' /\ TimersInv' /\ DelaysInv'
  <2> SUFFICES ASSUME IInv, TimersInv, DelaysInv, [DelayNext]_delayVars
               PROVE  IInv' /\ TimersInv' /\ DelaysInv'
    OBVIOUS
  <2>1. [Next]_vars /\ Noted
    BY DEF DelayNext, delayVars, Noted, vars, DelaysInv
  <2>2. IInv'
    BY <2>1, NextIInv, IdleStep
  <2>3. StepShape
    BY <2>1, NextShape
  <2> QED
    BY <2>1, <2>2, <2>3, ShapeTimers, ShapeDelays DEF TimersInv
<1> QED
  BY <1>1, <1>2, PTL DEF DelaySpec

\* An idle entry counts down from its last use, by the clock that its last
\* dispatch had read: at most MaxLag early and never late, whatever gc_time is
\* asked for, and not at all if the deadline is past the end of time.
THEOREM CountdownsStayOnTime == DelaySpec => []CountdownsAreOnTime
<1>1. DelaysInv => CountdownsAreOnTime
  BY DEF DelaysInv
<1> QED
  BY <1>1, DelayInvariants, PTL

\* No entry is collected before its gc_time, but for what its dispatches' reading
\* of the clock lagged behind, unless by a countdown of an entry before it.
THEOREM EntriesAreKept == DelaySpec => EntriesLastTheirTime
<1> DEFINE Lasts ==
             \A k \in Keys : Present(k) /\ entries'[k] = None =>
                \/ used_at[k] + GcTime(entries[k]) <= clock + MaxLag
                \/ \E t \in timers \ timers' : t.born # entries[k].incarnation
<1>1. IInv /\ DelaysInv /\ [DelayNext]_delayVars => Lasts
  <2> SUFFICES ASSUME IInv, DelaysInv, [DelayNext]_delayVars,
                      NEW k \in Keys, Present(k), entries'[k] = None
               PROVE  \/ used_at[k] + GcTime(entries[k]) <= clock + MaxLag
                      \/ \E t \in timers \ timers' : t.born # entries[k].incarnation
    OBVIOUS
  <2>1. StepShape
    BY NextShape DEF DelayNext, delayVars, vars
  <2>2. PICK t \in timers : GcTimer(t)
    BY <2>1, CollectedByCountdown
  <2>3. /\ t.key = k /\ Collects(entries[k], t.generation) /\ t.kind = "Gc"
        /\ t.at <= clock /\ timers' = timers \ {t}
    BY <2>2 DEF GcTimer, Present, IInv, TypeOK
  <2>4. CASE t.born = entries[k].incarnation
    <3>1. t \in Countdowns(k) /\ IsQuiescent(entries[k])
      BY <2>3, <2>4 DEF Countdowns, Collects
    <3>2. used_at[k] + GcTime(entries[k]) <= t.at + MaxLag
      BY <3>1 DEF DelaysInv, CountdownsAreOnTime
    <3>3. /\ t.at \in Nat /\ MaxLag \in Nat /\ clock \in Nat
          /\ used_at[k] \in Nat /\ GcTime(entries[k]) \in Nat
      BY GcTimeType, BoundsAssumption DEF DelaysInv, IInv, TypeOK, TimerType
    <3> QED
      BY <2>3, <3>2, <3>3
  <2>5. CASE t.born # entries[k].incarnation
    BY <2>3, <2>5
  <2> QED
    BY <2>4, <2>5
<1> QED
  BY <1>1, DelayInvariants, PTL DEF DelaySpec, EntriesLastTheirTime
=============================================================================
