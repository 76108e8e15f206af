------------------------------ MODULE SwrEntry ------------------------------
(***************************************************************************)
(* One cache entry of swr-core and what every event does to it: the pure    *)
(* part of crates/swr-core/src/machine.rs.  An entry is a record with the   *)
(* fields of EntryCore (its EntryOptions flattened into it).  A handler     *)
(* maps the entry it finds to a reply: the entry it leaves and the marks it *)
(* makes in Ctx.  Settle and Armed are the post-rules that handle() runs    *)
(* over those marks: the GC countdown, the refresh tick and the merged      *)
(* notification.  Nothing here has state; SwrMachine holds the variables.   *)
(*                                                                         *)
(* Values are abstracted to their provenance: who wrote them and at which   *)
(* seq.  A fetcher is abstracted to its presence, and the structural-       *)
(* sharing comparator is left out: it only chooses between two equal Arcs.  *)
(***************************************************************************)
EXTENDS Naturals, FiniteSets

CONSTANTS
    None,           \* Rust's Option::None
    MaxInstant,     \* the last representable Instant
    Defaults        \* the client's default QueryOptions

\* Durations and instants count the same ticks; an option record has the
\* fields of QueryOptions.
Options == [stale_time : Nat, gc_time : Nat, refresh_interval : Nat \cup {None},
            revalidate_on_focus : BOOLEAN, revalidate_on_online : BOOLEAN,
            focus_throttle : Nat]

\* A cached value is known by who produced it and the seq it was written at,
\* an error by who reported it.
Value == [src : {"fetch", "local", "optimistic"}, seq : Nat]
Error == {"fetch", "mutation"}

OptimisticSnapshot ==
    [prev_data : Value \cup {None}, prev_error : Error \cup {None},
     prev_data_seq : Nat, prev_updated_at : Nat \cup {None}, written_seq : Nat]

ASSUME NoneAssumption == None \notin Nat \cup Value \cup Error \cup OptimisticSnapshot
ASSUME InstantAssumption == MaxInstant \in Nat
ASSUME DefaultsAssumption == Defaults \in Options

-----------------------------------------------------------------------------
\* Mutant: a sum that is not representable is cut off.
SaturatingAdd(t, d) == IF t + d <= MaxInstant THEN t + d ELSE MaxInstant

\* Instant::checked_add: None when the sum is not representable.
CheckedAdd(t, d) == IF t + d <= MaxInstant THEN t + d ELSE None

MinOr(ds, default) ==
    IF ds = {} THEN default ELSE CHOOSE d \in ds : \A x \in ds : d <= x

MaxOr(ds, default) ==
    IF ds = {} THEN default ELSE CHOOSE d \in ds : \A x \in ds : d >= x

SubOptions(e) == {s.opts : s \in e.subs}

GcTime(e) ==
    MaxOr({o.gc_time : o \in SubOptions(e)} \cup ({e.last_touch_gc_time} \ {None}),
          Defaults.gc_time)

RefreshInterval(e) ==
    MinOr({o.refresh_interval : o \in SubOptions(e)} \ {None}, None)

-----------------------------------------------------------------------------
NewEntry(incarnation) ==
    [incarnation |-> incarnation,
     data |-> None, error |-> None, data_seq |-> 0, error_seq |-> 0,
     updated_at |-> None,
     seq |-> 0, inflight |-> None, mutation_active |-> 0,
     invalidated |-> FALSE, optimistic |-> None,
     subscribers |-> 0, gc_gen |-> 0, refresh_gen |-> 0,
     focus_blocked_until |-> None,
     fetcher |-> FALSE, subs |-> {}, last_touch_gc_time |-> None,
     snap_version |-> 0]

CanStartFetch(e) == e.fetcher /\ e.mutation_active = 0 /\ e.inflight = None

\* An unrepresentable deadline means the entry never goes stale by time.
IsStale(e, stale_time, now) ==
    \/ e.invalidated
    \/ e.updated_at = None
    \/ LET deadline == CheckedAdd(e.updated_at, stale_time)
       IN  deadline # None /\ now >= deadline

IsActive(e) == e.subscribers > 0

\* Mutants: an entry counts as idle under subscribers, under mutations, or with
\* a flight in the air.
QuiescentUnderSubscribers(e) == e.mutation_active = 0 /\ e.inflight = None
QuiescentUnderMutations(e) == e.subscribers = 0 /\ e.inflight = None
QuiescentInFlight(e) == e.subscribers = 0 /\ e.mutation_active = 0

IsQuiescent(e) == e.subscribers = 0 /\ e.mutation_active = 0 /\ e.inflight = None

\* Mutant: the flight that is discarded gives its seq back.
DiscardReturnsSeq(e) == [e EXCEPT !.seq = @ - 1, !.inflight = None]

DiscardFlight(e) == [e EXCEPT !.seq = @ + 1, !.inflight = None]

\* Mutant: a local write lets the flight in the air go on.
LocalWriteKeepsFlight(e, now) ==
    [e EXCEPT !.seq = @ + 1,
              !.data = [src |-> "local", seq |-> e.seq + 1],
              !.data_seq = e.seq + 1,
              !.updated_at = now,
              !.error = None,
              !.invalidated = FALSE]

LocalWrite(e, now) ==
    [e EXCEPT !.seq = @ + 1,
              !.data = [src |-> "local", seq |-> e.seq + 1],
              !.data_seq = e.seq + 1,
              !.updated_at = now,
              !.error = None,
              !.invalidated = FALSE,
              !.inflight = None]

StartFetch(e) ==
    [e EXCEPT !.seq = @ + 1, !.inflight = e.seq + 1, !.invalidated = FALSE]

\* What a handler leaves behind: the entry and its marks in Ctx ("fetch"
\* stands for a StartFetch effect).
Reply(e, marks) == [entry |-> e, marks |-> marks]

Launch(e, marks) == Reply(StartFetch(e), marks \cup {"fetch", "notify"})

LaunchIf(condition, e, marks) == IF condition THEN Launch(e, marks) ELSE Reply(e, marks)

-----------------------------------------------------------------------------
\* Reads.  `supplied` says whether the caller passed a fetcher.
FreshHit(e, opts, now) == e.data # None /\ ~IsStale(e, opts.stale_time, now)

OnRead(e, policy, supplied, opts, now) ==
    LET read == [e EXCEPT !.fetcher = IF supplied THEN TRUE ELSE @,
                          !.last_touch_gc_time = opts.gc_time]
    IN  LaunchIf(/\ policy # "CacheOnly"
                 /\ ~FreshHit(e, opts, now)
                 /\ CanStartFetch(read),
                 read, {"touched"})

\* What the caller of that read gets back: the snapshot at once, the seq to
\* wait for (the flight it joined or started, or the seq of the mutation it
\* waits out), or nothing to run.
OutcomeOfRead(e, policy, supplied, opts, now) ==
    LET after == OnRead(e, policy, supplied, opts, now).entry
    IN  IF \/ policy = "CacheOnly"
           \/ FreshHit(e, opts, now)
           \/ policy = "StaleWhileRevalidate" /\ e.data # None
        THEN [kind |-> "Ready", data |-> after.data, error |-> after.error]
        ELSE IF after.inflight # None THEN [kind |-> "Wait", target |-> after.inflight]
        ELSE IF after.mutation_active > 0 THEN [kind |-> "Wait", target |-> after.seq]
        ELSE [kind |-> "NoFetcher"]

OnSubscribe(e, sub_id, supplied, opts, now) ==
    LET subscribed == [e EXCEPT !.fetcher = IF supplied THEN TRUE ELSE @,
                                !.last_touch_gc_time = opts.gc_time,
                                !.subs = @ \cup {[id |-> sub_id, opts |-> opts]},
                                !.subscribers = @ + 1,
                                !.gc_gen = @ + 1]
    IN  LaunchIf(/\ e.data = None \/ IsStale(e, opts.stale_time, now)
                 /\ CanStartFetch(subscribed),
                 subscribed, {"touched", "refresh"})

\* usize::saturating_sub(1)
Decrement(n) == IF n = 0 THEN 0 ELSE n - 1

\* Mutant: a dropped subscriber leaves its options in the aggregate.
UnsubscribeKeepsOptions(e, sub_id) ==
    Reply([e EXCEPT !.subscribers = Decrement(@)], {"touched", "refresh"})

OnUnsubscribe(e, sub_id) ==
    Reply([e EXCEPT !.subscribers = Decrement(@),
                    !.subs = {s \in @ : s.id # sub_id}],
          {"touched", "refresh"})

OnRevalidateRequested(e) ==
    IF e.fetcher THEN LaunchIf(CanStartFetch(e), e, {"touched"}) ELSE Reply(e, {})

-----------------------------------------------------------------------------
\* Mutants: a commit is checked against the entry but not the flight, or
\* against the flight but not the entry.
AcceptsAnyFlight(e, incarnation, seq) ==
    e.incarnation = incarnation /\ e.mutation_active = 0 /\ e.inflight # None
AcceptsAnyIncarnation(e, incarnation, seq) == e.mutation_active = 0 /\ e.inflight = seq

\* Fetch results.  A commit lands only on the entry and the flight it left
\* from, and never while a mutation is active.
Accepts(e, incarnation, seq) ==
    e.incarnation = incarnation /\ e.mutation_active = 0 /\ e.inflight = seq

\* Mutant: the commit path forgets that the entry may now be idle.
CommittedUntouched(e) == Reply([e EXCEPT !.inflight = None], {"notify", "refresh"})

Committed(e) == Reply([e EXCEPT !.inflight = None], {"touched", "notify", "refresh"})

OnCommitOk(e, incarnation, seq, now) ==
    IF Accepts(e, incarnation, seq)
    THEN Committed([e EXCEPT !.data = [src |-> "fetch", seq |-> seq],
                             !.data_seq = seq,
                             !.updated_at = now,
                             !.error = None,
                             !.optimistic = None])
    ELSE Reply(e, {})

\* Mutant: the error is reported, and the entry goes on waiting for the flight.
CommitErrKeepsFlight(e, incarnation, seq) ==
    IF Accepts(e, incarnation, seq)
    THEN Reply([e EXCEPT !.error = "fetch", !.error_seq = seq],
               {"touched", "notify", "refresh"})
    ELSE Reply(e, {})

OnCommitErr(e, incarnation, seq) ==
    IF Accepts(e, incarnation, seq)
    THEN Committed([e EXCEPT !.error = "fetch", !.error_seq = seq])
    ELSE Reply(e, {})

-----------------------------------------------------------------------------
\* Local writes and mutations.  A token has the written_seq of the optimistic
\* write, or None, and the flags of MutateFlags.
OnMutateSet(e, now) ==
    Reply([LocalWrite(e, now) EXCEPT !.optimistic = None], {"touched", "notify"})

OnMutateBegin(e, optimistic) ==
    LET begun == [DiscardFlight(e) EXCEPT !.mutation_active = @ + 1]
        written == begun.seq + 1
    IN  Reply(IF optimistic
              THEN [begun EXCEPT
                      !.seq = written,
                      !.optimistic = [prev_data |-> e.data, prev_error |-> e.error,
                                      prev_data_seq |-> e.data_seq,
                                      prev_updated_at |-> e.updated_at,
                                      written_seq |-> written],
                      !.data = [src |-> "optimistic", seq |-> written],
                      !.data_seq = written]
              ELSE begun,
              {"touched", "notify"})

\* The rollback slot is still the one this token's optimistic write took.
OwnsSlot(e, token) ==
    /\ token.written_seq # None
    /\ e.optimistic # None
    /\ e.optimistic.written_seq = token.written_seq

\* Mutant: a successful mutation keeps its rollback slot.
ClearsNothing(e, token) == e

ClearOwnOptimistic(e, token) ==
    IF OwnsSlot(e, token) THEN [e EXCEPT !.optimistic = None] ELSE e

\* Mutants: the rollback restores the data without its seq, or without the
\* error that stood beside it.
RollbackKeepsSeq(e, token) ==
    IF OwnsSlot(e, token) /\ token.rollback_on_error
    THEN [e EXCEPT !.data = e.optimistic.prev_data, !.optimistic = None]
    ELSE e
RollbackClearsError(e, token) ==
    IF OwnsSlot(e, token) /\ token.rollback_on_error
    THEN [e EXCEPT !.data = e.optimistic.prev_data, !.error = None,
                   !.data_seq = e.optimistic.prev_data_seq, !.optimistic = None]
    ELSE e

RollbackIfUnclobbered(e, token) ==
    IF ~OwnsSlot(e, token) THEN e
    ELSE IF token.rollback_on_error /\ e.data_seq = token.written_seq
    THEN [e EXCEPT !.data = e.optimistic.prev_data,
                   !.error = e.optimistic.prev_error,
                   !.data_seq = e.optimistic.prev_data_seq,
                   !.updated_at = e.optimistic.prev_updated_at,
                   !.optimistic = None]
    ELSE [e EXCEPT !.optimistic = None]

\* Mutants: the end of a mutation ignores the invalidations it put off, or
\* publishes no snapshot.
FinishForgetsInvalidation(e, token) ==
    LaunchIf(token.revalidate /\ CanStartFetch(e), e, {"touched", "notify"})
FinishInSilence(e, token) ==
    LaunchIf(/\ e.mutation_active = 0
             /\ token.revalidate \/ e.invalidated
             /\ CanStartFetch(e),
             e, {"touched"})

FinishMutation(e, token) ==
    LaunchIf(/\ e.mutation_active = 0
             /\ token.revalidate \/ e.invalidated
             /\ CanStartFetch(e),
             e, {"touched", "notify"})

\* result is "value" for Ok(Some(v)), "unit" for Ok(None), "error" for Err.
OnMutateCommit(e, token, result, now) ==
    LET left == [e EXCEPT !.mutation_active = Decrement(@)]
        applied ==
            IF result = "error"
            THEN RollbackIfUnclobbered([left EXCEPT !.error = "mutation"], token)
            ELSE IF result = "value" /\ token.populate
            THEN [LocalWrite(left, now) EXCEPT !.optimistic = None]
            ELSE ClearOwnOptimistic(left, token)
    IN  FinishMutation(applied, token)

\* Mutant: a dropped mutation stays in the count.
AbortStaysCounted(e, token) == FinishMutation(RollbackIfUnclobbered(e, token), token)

OnMutateAbort(e, token) ==
    FinishMutation(
        RollbackIfUnclobbered([e EXCEPT !.mutation_active = Decrement(@)], token), token)

-----------------------------------------------------------------------------
\* Mutants: an invalidation leaves the flight in the air to answer it, or asks
\* whether it may fetch before it discards that flight.
InvalidateKeepsFlight(e) ==
    LaunchIf(IsActive(e) /\ CanStartFetch(e),
             [e EXCEPT !.invalidated = TRUE], {"touched", "notify"})
InvalidateJoinsFlight(e) ==
    IF e.mutation_active > 0
    THEN Reply([e EXCEPT !.invalidated = TRUE], {"touched"})
    ELSE LaunchIf(IsActive(e) /\ CanStartFetch(e),
                  [DiscardFlight(e) EXCEPT !.invalidated = TRUE], {"touched", "notify"})

\* Invalidation and environment events, as they meet one entry.
OnInvalidate(e) ==
    IF e.mutation_active > 0
    THEN Reply([e EXCEPT !.invalidated = TRUE], {"touched"})
    ELSE LET dirty == [(IF e.inflight # None THEN DiscardFlight(e) ELSE e)
                          EXCEPT !.invalidated = TRUE]
         IN  LaunchIf(IsActive(dirty) /\ dirty.fetcher, dirty, {"touched", "notify"})

Enabled(e, ev) ==
    \E o \in SubOptions(e) :
        IF ev = "Focus" THEN o.revalidate_on_focus ELSE o.revalidate_on_online

Throttled(e, now) == e.focus_blocked_until # None /\ now < e.focus_blocked_until

OnBroadcast(e, ev, now) ==
    LET stale_time == MinOr({o.stale_time : o \in SubOptions(e)}, Defaults.stale_time)
        throttle == MinOr({o.focus_throttle : o \in SubOptions(e)}, Defaults.focus_throttle)
    IN  IF /\ IsActive(e)
           /\ Enabled(e, ev)
           /\ ~(ev = "Focus" /\ Throttled(e, now))
           /\ IsStale(e, stale_time, now)
           /\ CanStartFetch(e)
        THEN Launch([e EXCEPT !.focus_blocked_until =
                        IF ev = "Focus" THEN CheckedAdd(now, throttle) ELSE @],
                    {"touched"})
        ELSE Reply(e, {})

-----------------------------------------------------------------------------
\* Mutant: a countdown is obeyed whatever was done to the entry since.
CollectsAnyGeneration(e, generation) == IsQuiescent(e)

\* Timers.  The GC timer removes the entry (SwrMachine) when Collects holds.
Collects(e, generation) == generation = e.gc_gen /\ IsQuiescent(e)

\* Mutant: a tick that finds the entry busy is not armed again.
BusyTickIsLost(e, generation) ==
    IF generation = e.refresh_gen /\ IsActive(e) /\ CanStartFetch(e)
    THEN Launch(e, {"touched", "refresh"})
    ELSE Reply(e, {})

OnTimerRefresh(e, generation) ==
    IF generation # e.refresh_gen \/ ~IsActive(e) THEN Reply(e, {})
    ELSE IF CanStartFetch(e) THEN Launch(e, {"touched", "refresh"})
    ELSE Reply(e, {"refresh"})

\* Post-rules: an entry left idle (re)starts its GC countdown, a changed
\* refresh basis re-arms or cancels the tick, a notified entry gets one new
\* snapshot version.
GcRestarts(r) == "touched" \in r.marks /\ IsQuiescent(r.entry)

RefreshDeadline(r, now) ==
    IF /\ "refresh" \in r.marks
       /\ IsActive(r.entry)
       /\ RefreshInterval(r.entry) # None
    THEN CheckedAdd(now, RefreshInterval(r.entry))
    ELSE None

RefreshCancelled(r) == "refresh" \in r.marks /\ ~IsActive(r.entry)

\* Mutant: a tick is armed beside the one before it.
SettleKeepsTicks(r, now) ==
    [r.entry EXCEPT
        !.gc_gen = IF GcRestarts(r) THEN @ + 1 ELSE @,
        !.refresh_gen = IF RefreshCancelled(r) THEN @ + 1 ELSE @,
        !.snap_version = IF "notify" \in r.marks THEN @ + 1 ELSE @]

Settle(r, now) ==
    [r.entry EXCEPT
        !.gc_gen = IF GcRestarts(r) THEN @ + 1 ELSE @,
        !.refresh_gen = IF RefreshCancelled(r) \/ RefreshDeadline(r, now) # None
                        THEN @ + 1 ELSE @,
        !.snap_version = IF "notify" \in r.marks THEN @ + 1 ELSE @]

\* The ScheduleTimer effects of a batch.  The code's timers carry no
\* incarnation: `born` is kept only so that properties can tell whose they are.
Timer(k, kind, at, generation, born) ==
    [key |-> k, kind |-> kind, at |-> at, generation |-> generation, born |-> born]

\* Mutant: the countdown is given the generation before it is bumped.
ArmedBeforeBump(k, r, now) ==
    LET gcAt == IF GcRestarts(r) THEN CheckedAdd(now, GcTime(r.entry)) ELSE None
    IN  {Timer(k, "Gc", gcAt, r.entry.gc_gen, r.entry.incarnation) :
            x \in {gcAt} \ {None}}

Armed(k, r, now) ==
    LET e == Settle(r, now)
        gcAt == IF GcRestarts(r) THEN CheckedAdd(now, GcTime(r.entry)) ELSE None
        refreshAt == RefreshDeadline(r, now)
    IN  {Timer(k, "Gc", gcAt, e.gc_gen, e.incarnation) : x \in {gcAt} \ {None}}
        \cup {Timer(k, "Refresh", refreshAt, e.refresh_gen, e.incarnation) :
                 x \in {refreshAt} \ {None}}

\* The StartFetch effects of a batch.
Started(k, r) ==
    IF "fetch" \in r.marks
    THEN {[key |-> k, incarnation |-> r.entry.incarnation, seq |-> r.entry.seq]}
    ELSE {}
=============================================================================
