----------------------------- MODULE SwrMachine -----------------------------
(***************************************************************************)
(* The client seen as one machine: the cache behind the single lock (Inner  *)
(* in machine.rs), the fetch tasks and timers that its effects spawned      *)
(* (run_effects in client.rs), and the callers that hold query handles and  *)
(* mutation guards.  An action is one dispatch(): a whole handler with its  *)
(* post-rules, and the StartFetch and ScheduleTimer effects it emits.       *)
(*                                                                         *)
(* Spawning a task or a timer only makes a later action possible, so adding *)
(* it in the step of the handler is the same as adding it right after the   *)
(* lock is released.  dispatch() reads the clock before it takes the lock:  *)
(* a handler may see a time MaxLag ticks old.                               *)
(***************************************************************************)
EXTENDS SwrEntry, SequencesExt

CONSTANTS
    Keys,           \* query keys: records with a type_id and segments
    KeyPrefixes,    \* sequences of segments that callers invalidate
    Mutators,       \* callers that run mutate() futures
    OptionChoices,  \* the QueryOptions that subscribers use
    FlagChoices,    \* the MutateFlags that mutators use
    Results,        \* the results mutation futures return
    Policies,       \* the policies that reads use
    EventKinds,     \* the environment events the host feeds
    Apis,           \* bound: the client calls that are made
    MaxHandles,     \* bound: handles alive at a time
    MaxCalls,       \* bound: calls of the client API
    MaxTime,        \* bound: the clock, but for armed GC countdowns
    MaxLag          \* how far a dispatch's reading of the clock may lag

MutateFlags ==
    [rollback_on_error : BOOLEAN, populate : BOOLEAN, revalidate : BOOLEAN]

ASSUME ChoicesAssumption ==
    /\ OptionChoices \subseteq Options
    /\ FlagChoices \subseteq MutateFlags
    /\ Results \subseteq {"value", "unit", "error"}
    /\ Policies \subseteq {"CacheOnly", "StaleWhileRevalidate", "EnsureFresh"}
    /\ EventKinds \subseteq {"Focus", "Online"}
    /\ Apis \subseteq {"fetch", "subscribe", "observe", "revalidate", "set",
                       "mutate", "invalidate", "broadcast"}
ASSUME BoundsAssumption ==
    {MaxHandles, MaxCalls, MaxTime, MaxLag} \subseteq Nat
ASSUME FiniteAssumption == IsFiniteSet(Mutators)

VARIABLES
    entries,            \* Inner.entries: None where the map has no entry
    next_sub_id,        \* Inner.next_sub_id
    next_incarnation,   \* Inner.next_incarnation
    clock,              \* the runtime's clock
    tasks,              \* fetch tasks that have not reported back
    timers,             \* timers asleep, or awake and not dispatched
    handles,            \* live QueryHandles
    muts,               \* each mutator's token, or None
    calls               \* API calls made so far

vars == <<entries, next_sub_id, next_incarnation, clock, tasks, timers,
          handles, muts, calls>>

Init ==
    /\ entries = [k \in Keys |-> None]
    /\ next_sub_id = 0
    /\ next_incarnation = 0
    /\ clock = 0
    /\ tasks = {}
    /\ timers = {}
    /\ handles = {}
    /\ muts = [m \in Mutators |-> None]
    /\ calls = 0

-----------------------------------------------------------------------------
Present(k) == entries[k] # None

EntryOrCreate(k) == IF Present(k) THEN entries[k] ELSE NewEntry(next_incarnation)

\* What dispatch() may have read from the clock.
Sampled == {n \in 0 .. clock : clock <= n + MaxLag}

\* One handle() call and its effects: `replies` maps the keys the event met
\* to what the handler left there; `ended` and `fired` are the task or timer
\* that dispatched the event.
Dispatch(replies, now, ended, fired) ==
    /\ entries' = [k \in Keys |-> IF k \in DOMAIN replies
                                  THEN Settle(replies[k], now) ELSE entries[k]]
    /\ next_incarnation' = IF \E k \in DOMAIN replies : ~Present(k)
                           THEN next_incarnation + 1 ELSE next_incarnation
    /\ tasks' = (tasks \ ended) \cup UNION {Started(k, replies[k]) : k \in DOMAIN replies}
    /\ timers' = (timers \ fired) \cup UNION {Armed(k, replies[k], now) : k \in DOMAIN replies}

\* The reply for one key; no reply where the handler finds no entry.
At(k, reply) == [x \in {k} |-> reply]
Existing(ks, OnEntry(_)) == [k \in {x \in ks : Present(x)} |-> OnEntry(entries[k])]

Calling(api) == api \in Apis /\ calls < MaxCalls /\ calls' = calls + 1

-----------------------------------------------------------------------------
(* Reads, subscriptions, revalidation *)

\* The dispatch of one read, which always brings its fetcher and the client's
\* default options.
ReadAt(k, policy, now) ==
    LET OnEntry(e) == OnRead(e, policy, TRUE, Defaults, now)
    IN  /\ Dispatch(IF policy = "CacheOnly" THEN Existing({k}, OnEntry)
                    ELSE At(k, OnEntry(EntryOrCreate(k))),
                    now, {}, {})
        /\ UNCHANGED <<next_sub_id, clock, handles, muts>>

\* fetch(), up to its first await.
Fetch(k, policy) ==
    /\ Calling("fetch")
    /\ \E now \in Sampled : ReadAt(k, policy, now)

\* subscribe() brings a fetcher, observe() none.
Subscribe(k, supplied, opts) ==
    /\ Calling(IF supplied THEN "subscribe" ELSE "observe")
    /\ Cardinality(handles) < MaxHandles
    /\ \E now \in Sampled :
         Dispatch(At(k, OnSubscribe(EntryOrCreate(k), next_sub_id, supplied, opts, now)),
                  now, {}, {})
    /\ next_sub_id' = next_sub_id + 1
    /\ handles' = handles \cup
         {[key |-> k, sub_id |-> next_sub_id,
           incarnation |-> EntryOrCreate(k).incarnation, supplied |-> supplied]}
    /\ UNCHANGED <<clock, muts>>

\* QueryHandle::drop
DropHandle(h) ==
    /\ handles' = handles \ {h}
    /\ LET OnEntry(e) == OnUnsubscribe(e, h.sub_id)
       IN  \E now \in Sampled : Dispatch(Existing({h.key}, OnEntry), now, {}, {})
    /\ UNCHANGED <<next_sub_id, clock, muts, calls>>

RequestRevalidation(k) ==
    /\ \E now \in Sampled :
         Dispatch(Existing({k}, OnRevalidateRequested), now, {}, {})
    /\ UNCHANGED <<next_sub_id, clock, handles, muts>>

Revalidate(k) == Calling("revalidate") /\ RequestRevalidation(k)

-----------------------------------------------------------------------------
(* Fetch tasks report back *)

FetchOk(t) ==
    /\ \E now \in Sampled :
         LET OnEntry(e) == OnCommitOk(e, t.incarnation, t.seq, now)
         IN  Dispatch(Existing({t.key}, OnEntry), now, {t}, {})
    /\ UNCHANGED <<next_sub_id, clock, handles, muts, calls>>

FetchErr(t) ==
    /\ LET OnEntry(e) == OnCommitErr(e, t.incarnation, t.seq)
       IN  \E now \in Sampled : Dispatch(Existing({t.key}, OnEntry), now, {t}, {})
    /\ UNCHANGED <<next_sub_id, clock, handles, muts, calls>>

-----------------------------------------------------------------------------
(* Local writes and mutations *)

Set(k) ==
    /\ Calling("set")
    /\ \E now \in Sampled :
         Dispatch(At(k, OnMutateSet(EntryOrCreate(k), now)), now, {}, {})
    /\ UNCHANGED <<next_sub_id, clock, handles, muts>>

\* mutate() before its future runs: the guard keeps the token and the flags.
MutateBegin(m, k, optimistic, flags) ==
    /\ muts[m] = None
    /\ Calling("mutate")
    /\ LET r == OnMutateBegin(EntryOrCreate(k), optimistic)
       IN  /\ \E now \in Sampled : Dispatch(At(k, r), now, {}, {})
           /\ muts' = [muts EXCEPT ![m] =
                [key |-> k,
                 written_seq |-> IF optimistic THEN r.entry.seq ELSE None,
                 rollback_on_error |-> flags.rollback_on_error,
                 populate |-> flags.populate,
                 revalidate |-> flags.revalidate]]
    /\ UNCHANGED <<next_sub_id, clock, handles>>

\* mutate() after its future returned.
MutateCommit(m, result) ==
    /\ muts[m] # None
    /\ muts' = [muts EXCEPT ![m] = None]
    /\ \E now \in Sampled :
         LET OnEntry(e) == OnMutateCommit(e, muts[m], result, now)
         IN  Dispatch(Existing({muts[m].key}, OnEntry), now, {}, {})
    /\ UNCHANGED <<next_sub_id, clock, handles, calls>>

\* MutationGuard::drop: the mutate() future was dropped before it returned.
MutateAbort(m) ==
    /\ muts[m] # None
    /\ muts' = [muts EXCEPT ![m] = None]
    /\ LET OnEntry(e) == OnMutateAbort(e, muts[m])
       IN  \E now \in Sampled : Dispatch(Existing({muts[m].key}, OnEntry), now, {}, {})
    /\ UNCHANGED <<next_sub_id, clock, handles, calls>>

-----------------------------------------------------------------------------
(* Invalidation and environment events scan the whole table *)

\* The type id of a key takes no part in prefix matching.
MatchesPrefix(k, prefix) == IsPrefix(prefix, k.segments)

Invalidate(prefix) ==
    /\ Calling("invalidate")
    /\ \E now \in Sampled :
         Dispatch(Existing({k \in Keys : MatchesPrefix(k, prefix)}, OnInvalidate),
                  now, {}, {})
    /\ UNCHANGED <<next_sub_id, clock, handles, muts>>

Broadcast(ev) ==
    /\ Calling("broadcast")
    /\ \E now \in Sampled :
         LET OnEntry(e) == OnBroadcast(e, ev, now)
         IN  Dispatch(Existing(Keys, OnEntry), now, {}, {})
    /\ UNCHANGED <<next_sub_id, clock, handles, muts>>

-----------------------------------------------------------------------------
(* Timers and the clock.  A timer wakes at its deadline or any time later. *)

GcTimer(t) ==
    /\ t.kind = "Gc"
    /\ t.at <= clock
    /\ timers' = timers \ {t}
    /\ entries' = IF Present(t.key) /\ Collects(entries[t.key], t.generation)
                  THEN [entries EXCEPT ![t.key] = None] ELSE entries
    /\ UNCHANGED <<next_sub_id, next_incarnation, clock, tasks, handles, muts, calls>>

RefreshTimer(t) ==
    /\ t.kind = "Refresh"
    /\ \E now \in {n \in Sampled : t.at <= n} :
         LET OnEntry(e) == OnTimerRefresh(e, t.generation)
         IN  Dispatch(Existing({t.key}, OnEntry), now, {}, {t})
    /\ UNCHANGED <<next_sub_id, clock, handles, muts, calls>>

\* Past MaxTime the clock only runs out the GC countdowns.
Tick ==
    /\ clock < MaxTime \/ \E t \in timers : t.kind = "Gc" /\ clock < t.at
    /\ clock' = clock + 1
    /\ UNCHANGED <<entries, next_sub_id, next_incarnation, tasks, timers,
                   handles, muts, calls>>

-----------------------------------------------------------------------------
Next ==
    \/ \E k \in Keys, policy \in Policies : Fetch(k, policy)
    \/ \E k \in Keys, supplied \in BOOLEAN, opts \in OptionChoices :
          Subscribe(k, supplied, opts)
    \/ \E h \in handles : DropHandle(h)
    \/ \E k \in Keys : Revalidate(k)
    \/ \E t \in tasks : FetchOk(t)
    \/ \E t \in tasks : FetchErr(t)
    \/ \E k \in Keys : Set(k)
    \/ \E m \in Mutators, k \in Keys, optimistic \in BOOLEAN, flags \in FlagChoices :
          MutateBegin(m, k, optimistic, flags)
    \/ \E m \in Mutators, result \in Results : MutateCommit(m, result)
    \/ \E m \in Mutators : MutateAbort(m)
    \/ \E prefix \in KeyPrefixes : Invalidate(prefix)
    \/ \E ev \in EventKinds : Broadcast(ev)
    \/ \E t \in timers : GcTimer(t)
    \/ \E t \in timers : RefreshTimer(t)
    \/ Tick

Spec == Init /\ [][Next]_vars

\* The runtime's part: time passes, and a timer that is due is dispatched.
\* Nothing is assumed of callers, of fetches or of mutations.
Fairness ==
    /\ WF_vars(Tick)
    /\ WF_vars(\E t \in timers : GcTimer(t))

-----------------------------------------------------------------------------
(* Type invariant *)

Entry ==
    [incarnation : Nat,
     data : Value \cup {None}, error : Error \cup {None},
     data_seq : Nat, error_seq : Nat, updated_at : Nat \cup {None},
     seq : Nat, inflight : Nat \cup {None}, mutation_active : Nat,
     invalidated : BOOLEAN, optimistic : OptimisticSnapshot \cup {None},
     subscribers : Nat, gc_gen : Nat, refresh_gen : Nat,
     focus_blocked_until : Nat \cup {None},
     fetcher : BOOLEAN, subs : SUBSET [id : Nat, opts : Options],
     last_touch_gc_time : Nat \cup {None}, snap_version : Nat]

TimerType == [key : Keys, kind : {"Gc", "Refresh"}, at : Nat, generation : Nat,
              born : Nat]

Task == [key : Keys, incarnation : Nat, seq : Nat]

Handle == [key : Keys, sub_id : Nat, incarnation : Nat, supplied : BOOLEAN]

Token == [key : Keys, written_seq : Nat \cup {None}, rollback_on_error : BOOLEAN,
          populate : BOOLEAN, revalidate : BOOLEAN]

ASSUME AbsenceAssumption == None \notin Entry \cup Token \cup Task

\* Every field holds a value of its Rust type.
TypeOK ==
    /\ entries \in [Keys -> Entry \cup {None}]
    /\ next_sub_id \in Nat
    /\ next_incarnation \in Nat
    /\ clock \in Nat
    /\ tasks \subseteq Task
    /\ timers \subseteq TimerType
    /\ handles \subseteq Handle
    /\ muts \in [Mutators -> Token \cup {None}]
    /\ calls \in 0 .. MaxCalls

-----------------------------------------------------------------------------
(* Safety *)

\* The mutations of k that have begun and neither committed nor aborted.
Mutating(k) == {m \in Mutators : muts[m] # None /\ muts[m].key = k}

\* The asserts of the commit path (machine.rs: "inflight seq must equal the
\* entry seq", "invalidated must be false on the commit-apply path"), as facts
\* of every state and not only of those a commit reaches: nothing is written
\* to an entry between the start of its flight and the flight's landing.
FlightIsLatest ==
    \A k \in Keys : Present(k) /\ entries[k].inflight # None =>
        /\ entries[k].inflight = entries[k].seq
        /\ entries[k].mutation_active = 0
        /\ ~entries[k].invalidated
        /\ [key |-> k, incarnation |-> entries[k].incarnation,
            seq |-> entries[k].inflight] \in tasks

\* data_seq is the seq that produced data, after every race of fetches, local
\* writes, optimistic writes and rollbacks: a value and its seq are never
\* updated one without the other, and no data has seq 0.
DataHasItsSeq ==
    \A k \in Keys : Present(k) =>
        LET e == entries[k]
        IN  IF e.data = None THEN e.data_seq = 0
            ELSE e.data.seq = e.data_seq /\ 0 < e.data_seq /\ e.data_seq <= e.seq

\* The `expect`s of the wait loop (client.rs, wait): a reader whose target is
\* met by data_seq finds data, and one whose target is met by error_seq but not
\* by data_seq finds an error, whatever rollbacks and local writes happened in
\* between; this holds too of the state that a rollback would restore.
WaitersFindTheirResult ==
    \A k \in Keys : Present(k) =>
        LET e == entries[k]
        IN  \A target \in 1 .. e.seq :
              /\ e.data_seq >= target => e.data # None
              /\ e.error_seq >= target /\ e.data_seq < target => e.error # None
              /\ e.optimistic # None
                    /\ e.error_seq >= target /\ e.optimistic.prev_data_seq < target
                 => e.optimistic.prev_error # None

\* mutation_active counts exactly the mutations that will still end, so the
\* veto on fetch commits is lifted by the last of them and no entry stays
\* wedged; the entry they began on is still there for each of them.
MutationsPinEntry ==
    /\ \A k \in Keys : Present(k) =>
          entries[k].mutation_active = Cardinality(Mutating(k))
    /\ \A m \in Mutators : muts[m] # None => Present(muts[m].key)

\* The rollback slot belongs to a mutation that is still running, and what it
\* saved is older than the value shown, which is that mutation's optimistic
\* value: the rollback's comparison of data_seq with written_seq never fails
\* once the slot is found to be its own.
SlotIsOwned ==
    \A k \in Keys : Present(k) /\ entries[k].optimistic # None =>
        LET e == entries[k]
            s == entries[k].optimistic
        IN  /\ s.written_seq = e.data_seq
            /\ s.prev_data_seq < s.written_seq
            /\ (s.prev_data = None) = (s.prev_data_seq = 0)
            /\ s.prev_data # None => s.prev_data.seq = s.prev_data_seq
            /\ \E m \in Mutating(k) : muts[m].written_seq = s.written_seq

\* A live QueryHandle pins the entry it subscribed to: that incarnation is
\* never collected, so its watch channel stays open, and its options stay in
\* the aggregate exactly as long as it lives.
HandlesPinEntry ==
    /\ \A h \in handles : Present(h.key) /\ entries[h.key].incarnation = h.incarnation
    /\ \A k \in Keys : Present(k) =>
          LET hs == {h \in handles : h.key = k}
          IN  /\ entries[k].subscribers = Cardinality(hs)
              /\ {s.id : s \in entries[k].subs} = {h.sub_id : h \in hs}
              /\ Cardinality(entries[k].subs) = Cardinality(hs)

\* An entry that is idle is on its way out: the countdown of its current
\* generation is running, unless its deadline is not representable.
IdleEntriesExpire ==
    \A k \in Keys : Present(k) /\ IsQuiescent(entries[k]) =>
        \/ CheckedAdd(clock, GcTime(entries[k])) = None
        \/ \E t \in timers :
              /\ t.kind = "Gc" /\ t.key = k
              /\ t.generation = entries[k].gc_gen
              /\ t.born = entries[k].incarnation

\* A subscribed entry with a refresh interval always has the next tick of its
\* current generation ahead, whatever fetches, mutations and subscribers
\* interfered with the ticks before.
RefreshKeepsTicking ==
    \A k \in Keys :
        Present(k) /\ IsActive(entries[k]) /\ RefreshInterval(entries[k]) # None =>
        \/ CheckedAdd(clock, RefreshInterval(entries[k])) = None
        \/ \E t \in timers :
              /\ t.kind = "Refresh" /\ t.key = k
              /\ t.generation = entries[k].refresh_gen
              /\ t.born = entries[k].incarnation

\* Whether on_timer_refresh, which tells timers apart by their generation
\* only, would take t for the tick of the entry it finds.
PassesForCurrent(t) ==
    /\ t.kind = "Refresh"
    /\ Present(t.key)
    /\ t.generation = entries[t.key].refresh_gen

\* However often subscribers, commits and ticks arm the next tick, of those that
\* one incarnation of the entry armed at most one would be obeyed: polling never
\* multiplies.  This is asked of ticks of collected incarnations too, which an
\* entry rebuilt under the key may obey beside its own: each leaves it one at
\* most, and obeying that one outdates all others of its generation.
TicksDoNotMultiply ==
    \A t, u \in timers :
        /\ PassesForCurrent(t) /\ PassesForCurrent(u)
        /\ t.key = u.key /\ t.born = u.born
        => t = u

\* An entry that a subscriber with a fetcher watches is dirty only while a
\* mutation runs: every other invalidation has a fetch under way.
ActiveInvalidationConverges ==
    \A h \in handles :
        h.supplied /\ entries[h.key].invalidated => Mutating(h.key) # {}

-----------------------------------------------------------------------------
(* Action properties *)

Visible(e) == <<e.data, e.error, e.data_seq, e.error_seq, e.inflight,
                e.mutation_active > 0, e.updated_at>>

\* What a snapshot shows never changes without a new snapshot version, and one
\* handler publishes at most one: no watcher misses the last state of an entry.
Published ==
    [][\A k \in Keys :
         (Present(k) /\ entries'[k] # None) =>
            LET e == entries[k]
                n == entries'[k]
            IN  /\ Visible(n) # Visible(e) => n.snap_version = e.snap_version + 1
                /\ n.snap_version \in e.snap_version .. e.snap_version + 1]_vars

-----------------------------------------------------------------------------
(* Refinement *)

\* The flight that may still write is the task whose incarnation and seq the
\* entry waits for.
Race == INSTANCE LatestWins WITH
    running <- tasks,
    live <- [k \in Keys |->
              IF Present(k) /\ entries[k].inflight # None
              THEN [key |-> k, incarnation |-> entries[k].incarnation,
                    seq |-> entries[k].inflight]
              ELSE None],
    shown <- [k \in Keys |-> IF Present(k) THEN entries[k].data ELSE None],
    saved <- [k \in Keys |->
              IF Present(k) /\ entries[k].optimistic # None
              THEN entries[k].optimistic.prev_data ELSE None],
    dirty <- {k \in Keys : Present(k) /\ (\/ entries[k].mutation_active > 0
                                         \/ entries[k].invalidated)},
    Fetched <- LAMBDA flight : [src |-> "fetch", seq |-> flight.seq],
    Local <- [src : {"local", "optimistic"}, seq : Nat]

\* The seqs, the incarnation fence and the mutation veto together let only the
\* latest flight write, and only if nothing happened to its key meanwhile.
LatestFlightWins == Race!Spec

-----------------------------------------------------------------------------
(* Liveness *)

Idle(k) == Present(k) /\ IsQuiescent(entries[k])

\* An entry does not stay idle: it is used again or collected, unless its delay
\* ends beyond what the clock can represent.
IdleEntriesLeave ==
    \A k \in Keys :
        (Idle(k) /\ CheckedAdd(clock, GcTime(entries[k])) # None) ~> ~Idle(k)
=============================================================================
