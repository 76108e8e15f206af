# swr-rs in TLA+

`swr` is a stale-while-revalidate cache for Rust: callers read values by key,
the cache answers with what it has and fetches again in the background,
deduplicates fetches, applies local writes and optimistic mutations, and
collects entries nobody uses. The interesting part is `crates/swr-core`: a
single lock around a table of entries (`machine.rs`), a shell of async calls,
spawned fetches and timers around it (`client.rs`), and rules ("post-rules")
that must run after every event. This directory models that part, the retry
combinator and the web event source around it, checks them with TLC and proves
every safety property that the runs check, and the refinement, with TLAPS.

Paths below are relative to `src/crates/swr-core/src/` unless they say
otherwise.

## 1. The system

| Component | State | Operations | How it interacts |
|---|---|---|---|
| State machine, `machine.rs` | `Inner`: map of keys to `EntryCore`, two id counters. An entry has data, error, their seqs, the entry seq, `inflight`, `mutation_active`, `invalidated`, the rollback slot, subscriber options, generations of its two timers, snapshot version | `handle(event)`: Read, Subscribe, Unsubscribe, RevalidateRequested, CommitOk, CommitErr, MutateSet, MutateBegin, MutateCommit, MutateAbort, Invalidate, Broadcast, TimerFired; then the post-rules | Called under the lock by `dispatch`; returns effects (StartFetch, ScheduleTimer, Notify) |
| Client, `client.rs` | `Shared`: the lock, the runtime, default options; each `mutate()` future owns a `MutationGuard` | fetch, subscribe, observe, set, mutate, invalidate, revalidate, broadcast | Samples the clock, takes the lock, runs the effects after releasing it; fetch tasks and timers dispatch their event when they end |
| Handles, `handle.rs`, `snapshot.rs` | key, sub id, watch receiver | snapshot, changed, revalidate, drop | Drop dispatches Unsubscribe |
| Keys, `key.rs` | type id, segments | equality, prefix match | Invalidate matches by segments only |
| Options, `options.rs` | values | aggregation over subscribers happens in `machine.rs` | |
| Retry, `retry.rs` | attempt number | a loop of fetch and sleep | inside one fetch task |
| Fetchers, `fetcher.rs`, `erased.rs`, `marker.rs`, `error.rs` | none | boxing, downcasts | |
| Runtime trait, `runtime.rs`; `swr-runtime-tokio`, `swr-runtime-web` | the web one: a registry of event sources | now, spawn, sleep_until; web: attach, detach, broadcast of DOM events | |
| `swr-gpui` | one watcher task per query | forwards snapshots into a gpui entity | holds a `QueryHandle` |
| `swr-reqwest`, `swr-ureq` | none | one HTTP exchange | `swr-ureq` uses one thread per running fetch |

What is hard about it, and what being correct means:

* **Races of fetches.** Several fetches of one key may run at once, and report
  in any order, around local writes, mutations, invalidations and collections.
  Only the last-started one may write, and only if nothing happened to the key
  since. The code gets this from four devices: `seq`, `inflight`, the veto
  while `mutation_active > 0`, and `incarnation`.
* **Overlapping mutations.** There is a single rollback slot; a mutation may
  commit, fail or be dropped at any await. The count must come back to zero and
  a rollback must never undo what is not its own.
* **Waiting readers.** The wait loop panics if `data_seq` or `error_seq` reaches
  its target without data or error; it sleeps forever if no notification comes.
* **Collection.** An entry in use must never go; an idle one must not stay.
  Timers are never cancelled, only outdated by a generation.
* **Refresh.** A tick that meets a busy entry must arm the next one.
* **Time.** Deadlines may be unrepresentable; `dispatch` reads the clock before
  it takes the lock; a timer may wake late.
* **Effects outside the lock.** Two batches of notifications may be sent in the
  wrong order, and a watcher or a waiting reader must still end up with the latest.
* **Retries.** A loop that goes on inside one flight outlasts discards and
  countdowns; it must end, and must not be collected under its own feet.
* **Ownership.** Fetchers are stored in the cache and may own handles or clients of
  it: the cache must not keep itself alive, and what drops under the lock must not want it.
* **Shared listeners.** Event sources come and go, also from inside the delivery of an event.

`PROJECT.json` lists each of these hazards at the line where it bites, with the
properties that cover it.

## 2. The modules

| Module | What it is |
|---|---|
| `SwrEntry` | One entry and what every event does to it: the handlers as pure operators from an entry to a *reply* (the entry left, and the marks the handler made in `Ctx`), and the post-rules over a reply |
| `SwrMachine` | The state: the table, the clock, running fetch tasks, sleeping timers, live handles, running mutations. One action per client call and per event, each a whole `dispatch()`. Invariants, action properties, liveness |
| `LatestWins` | Abstract specification of race control, without seqs or counters |
| `SwrShell` | `SwrMachine` composed with what runs outside the lock: batches of Notify effects sent in any order, watch channels with their version guard, the wait loop of `fetch()`, and the loops that follow a query handle (`swr-gpui`) |
| `SwrRetry` | `SwrMachine` composed with the retry loop inside every fetch task |
| `SwrLifetime` | Who owns clients, handles and fetchers, and so keeps the cache alive; a machine reduced to fetchers, subscribers and flights |
| `SwrWebEvents` | The registry of event sources of `swr-runtime-web` and the delivery of browser events |
| `SwrDelays` | `SwrMachine` with a ledger of when entries were last used, and how long they are kept |
| `SwrClaims` | A statement of a comment that the code does not keep, with the ledger it needs |
| `MC*` | Constants for TLC |
| `SwrMachineProofs`, `SwrHandlerProofs`, `SwrSubscriptionProofs`, `SwrRaceProofs` | Theorems about `SwrMachine`, each module on top of the one before; the third also about `SwrDelays` |
| `SwrRetryProofs`, `SwrShellProofs` | Theorems about the two compositions, on top of those |
| `SwrLifetimeProofs`, `SwrWebEventsProofs` | Theorems about the modules of these names |

The operators marked "Mutant" above a definition are faulty variants of it; nothing
uses them, they are there to show that the properties notice.

### Correspondence

`entries[k]` is `Inner.entries.get(k)`: `None` or a record with the fields of
`EntryCore` (its `EntryOptions` flattened in). A handler of the code that takes
`&mut EntryCore` and `ctx` becomes an operator that returns
`[entry, marks]`: `"touched"`, `"notify"` and `"refresh"` are the three lists of keys
of `Ctx`, and `"fetch"` stands for the `StartFetch` effect. `Dispatch` applies the
replies, runs `Settle` (GC generation, refresh generation, snapshot version), and adds
the tasks (`Started`) and timers (`Armed`) that the effects spawn. Spawning only makes
a later action possible, so doing it in the handler's step loses no behaviour.

| Code | Model |
|---|---|
| `Inner::handle` and each `on_*` | `On*` in `SwrEntry`, the action of the same event in `SwrMachine` |
| `start_fetch`, `discard_flight`, `local_write`, `clear_own_optimistic`, `rollback_if_unclobbered`, `finish_mutation` | operators of the same names |
| `post_rules`, `flush_notifies` | `GcRestarts`, `RefreshDeadline`, `RefreshCancelled`, `Settle`, `Armed` |
| `Shared::dispatch` reads `now`, then locks | `\E now \in Sampled`: a time up to `MaxLag` ticks old |
| a spawned fetch | a member of `tasks`; `FetchOk` or `FetchErr` at any later time, or never |
| a spawned timer | a member of `timers`; it fires at its deadline or any time later |
| `QueryHandle` | a member of `handles` |
| `MutationGuard`, `MutationToken`, `MutateFlags` | `muts[m]` |
| `run_effects`, a `Notify` | a member of `pending`, with who sends it; `Send` at any later time. Whoever sends goes on only after (`Sending`) |
| a watch channel | `channels[incarnation]`; it is open while its entry or a `Notify` of it exists |
| `fetch_inner` and `wait` | `readers[r].phase`: idle, check, poke, parked, closed, done |
| `QueryHandle::changed`/`snapshot` in `Query::new` of `swr-gpui` | `watchers[id].phase`: new, parked, woken; `shown` is the state on the screen |
| `Retry::fetch` | `loops[task]`: fetching, sleeping until a deadline, or panicked |
| `Weak::upgrade` | `Alive` in `SwrLifetime` |
| a `Drop` under the lock that dispatches | `holder` in `SwrLifetime`: its thread waits for itself, and nobody gets the lock again |
| `Registry`, `broadcast_all` | `clients`, `listeners`; `snapshot` and `delivered` are the loop's copy and index |

Abstractions: a value is its provenance (`fetch`, `local` or `optimistic`, and
the seq it was written at), an error is its reporter, a fetcher is its presence (in
`SwrLifetime`: what it captured), time is a natural number whose largest representable instant is
`MaxInstant`. The structural-sharing
comparator is left out (it picks one of two equal `Arc`s). Counters are unbounded
naturals, as `u64`s that are only incremented are in practice. `born` in a timer,
`floor` in a reader, `failed_at` and `tries` in a retry loop are ghost fields: no handler reads them. The
ledgers `used_at` (`SwrDelays`) and `deferred` (`SwrClaims`) only watch the steps of the machine.
A tokio watch channel counts sends; as every send that counts carries a higher
version, `SwrShell` compares versions. In `SwrRetry` time jumps to the next deadline
of a sleeping loop: what happens on the way happens before or after the jump. In `SwrLifetime` a pending
`fetch()` does not count as an owner of the fetcher it brought, although `fetch_inner` keeps an `Arc` of it until it
returns: a fetcher is dropped there somewhat earlier than in the code when its `fetch()` is still waiting.

## 3. What the runs check

| Run | Question | Instance |
|---|---|---|
| `races` | Does race control hold up? `TypeOK`, `FlightIsLatest`, `DataHasItsSeq`, `WaitersFindTheirResult`, `MutationsPinEntry`, `SlotIsOwned`, `ActiveInvalidationConverges`, `Published`, and the refinement `LatestFlightWins` | one key, two mutators, every API, three results, three flag sets, focus events, 4 calls, no time |
| `gc` | Is collection safe, prompt and not early, and does the incarnation fence work? `HandlesPinEntry`, `MutationsPinEntry`, `IdleEntriesExpire`, `CountdownsAreOnTime`, `EntriesLastTheirTime`, `LatestFlightWins`, `IdleEntriesLeave` | one key, a handle, a mutator that succeeds or fails, delays of one tick, of two and of more than the clock can represent, 3 calls, time to 2 and until countdowns run out, clock lagging by 1 |
| `refresh` | Does the refresh tick survive whatever meets it, and does an entry arm no two that count? `RefreshKeepsTicking`, `TicksDoNotMultiply` | one key, two handles with a refresh interval or without, a mutator, focus events, entries collected as soon as they are idle and rebuilt, 2 calls, time to 3 |
| `prefix` | Do the events that scan the table keep several keys consistent? `HandlesPinEntry`, `ActiveInvalidationConverges`, `LatestFlightWins` | two keys under one prefix, two handles, a mutator, online events, 4 calls |
| `shell_wait` | Is no wakeup lost, and is what `fetch()` returns news? `ShellTypeOK`, `ChannelsConverge`, `SleepersAreOwedAnAnswer`, `ReadersGetNews` | one reader, a mutator, set, invalidate, revalidate, entries collected at once, 2 calls beside the reader's |
| `shell_return` | Does every `fetch()` return? `ReadersReturn` | one reader, fetches that fail or succeed, a mutation that fails, invalidation, collection, 2 calls |
| `shell_live` | Does a watcher miss nothing and catch up? `WatchersShowLatest`, `WatchersCatchUp` | a handle that refreshes every tick, a mutation, focus events, 2 calls, time to 1 |
| `retry` | Are loops bounded, back-offs kept, entries pinned, and does every flight end? `RetryTypeOK`, `RetriesAreBounded`, `BackoffIsHonoured`, `RetryDefersCollection`, `FlightsEnd` | one key, 3 retries, the doubling capped at the second (8 in the code), a handle, a mutator, 2 calls |
| `lifetime` | Do subscribers have owners, and is the cache freed? `SubscribersAreOwned`, `WindsDown` | two keys, the fetcher of one needs the other, captures of a weak client, a strong client and a handle, 2 clients, 3 calls |
| `web_events` | Are listeners kept exactly while needed, and events delivered once? `ListenersFollowSources`, `EveryoneHearsOnce` | 4 sources of two clients, 3 events |
| `claim_deferred`, `claim_drop` | see below | |

The properties, in words:

* `FlightIsLatest`: between the start of a flight and its landing nothing writes
  to its entry. The two `debug_assert`s of `on_commit_ok` follow for every state.
* `DataHasItsSeq`: data and `data_seq` are written, replaced and rolled back together.
* `WaitersFindTheirResult`: the two `expect`s of the wait loop, in every state
  and in every state that a rollback could restore.
* `MutationsPinEntry`: `mutation_active` is the number of mutations that will
  still end, and their entries exist (the `debug_assert`s of `on_mutate_commit`).
* `SlotIsOwned`: the rollback slot belongs to a running mutation whose value is the one shown.
  So the check of `data_seq` against `written_seq` in `rollback_if_unclobbered` is redundant.
  (The property tests' `check_invariants` in `machine/proptests.rs` asks for parts of these five;
  here they hold for every interleaving.)
* `HandlesPinEntry`: a handle's entry is never collected, and options leave the
  aggregate with their handle.
* `IdleEntriesExpire`, `IdleEntriesLeave`: an idle entry has a countdown of its
  current generation; with fair time it is used again or collected.
* `CountdownsAreOnTime`, `EntriesLastTheirTime`: that countdown is due `gc_time` after the entry was last used, less at
  most the clock's lag, and is missing only if that instant is not representable; so no entry goes before its time. A
  countdown of an earlier entry of the key is excepted: generations restart at 0, and the code does obey it.
* `RefreshKeepsTicking`: a subscribed entry with an interval has its next tick ahead.
* `TicksDoNotMultiply`: of the ticks that one incarnation of an entry armed at most one would be obeyed, by this entry or,
  once it is collected, by the one rebuilt under its key. Two ticks of different incarnations may both pass, as
  the code compares generations only; the one that is obeyed first outdates the other.
* `ActiveInvalidationConverges`: an entry watched by a subscriber with a
  fetcher is dirty only while a mutation runs.
* `Published`: no visible change without exactly one new snapshot version.
* `LatestFlightWins`: `SwrMachine` implements `LatestWins`. The mapping takes the live
  flight to be the running task with the entry's incarnation and `inflight`, and a key to be dirty while it is
  invalidated or under a mutation. A mutation that begins, and an invalidation, must take the flight's right to write at once.
* `ChannelsConverge`: when all that was emitted is sent, in whatever order, a channel shows its entry's
  latest state. It rests on `Published` and on the version guard of `run_effects`.
* `SleepersAreOwedAnAnswer`: a reader that sleeps and has seen all that was sent either has a
  flight or a mutation to wait for, or its channel is closed. A reader sleeps after one poke, so this is
  what keeps it from sleeping forever; `ReadersReturn` is the same under fairness, collection and re-reads included.
* `ReadersGetNews`: a reader that waited gets something newer than what it found, in the seq space of
  the entry that serves it.
* `WatchersShowLatest`, `WatchersCatchUp`: a loop that follows a handle misses nothing between subscribing,
  its first snapshot, and each wake-up and its snapshot; its channel stays open as long as the handle lives.
* `RetriesAreBounded`, `BackoffIsHonoured`, `FlightsEnd`: a loop begins one attempt and at most `max_retries`
  retries, counted by a ghost and not by the loop's own counter; the n-th waits at least `interval << min(n, 8)`; and no
  entry stays in flight.
* `RetryDefersCollection`: an entry is not collected under a loop that may still write to it, however long it sleeps.
* `SubscribersAreOwned`: the cache's subscribers are exactly the handles that a caller, a stored fetcher or
  a running one owns.
* `WindsDown`: when no fetcher captured a strong client, the cache goes with the callers' last client and the
  fetches under way (the promise of `WeakSwrClient`), unless a thread of it is wedged (`claim_drop`).
* `ListenersFollowSources`, `EveryoneHearsOnce`: DOM listeners exist exactly while a source is attached;
  whoever was attached when an event came hears it once, whatever is attached and dropped in its course.

### Bounds

Every property of the machine is about one key at a time, but for the scans, which `prefix` runs on two related
keys. Two mutators are the fewest that fight over the rollback slot, and a third adds
no new relation: the slot relates its owner to whoever took it. Four calls are
enough for both mutators to meet a subscriber and an invalidation, or three writers and a
reader; fetches, timers, drops, mutation ends and aborts are not calls and are not counted.
`MaxInstant = 1` in `races` makes `Forever` unrepresentable at once, so that run has
no timers; the other runs have time. `gc` goes on ticking while a countdown
is armed, so that every entry can be collected. In `refresh` two calls are enough to subscribe, let the entry go, and
subscribe to the one rebuilt, or to subscribe under a tick, a mutation or another subscriber. `gc` needs no
`invalidate` or `revalidate`: a countdown does not depend on why its entry was used; what matters is that the delay
changes (reads and writes bring `Patient`, subscribers `Brief` or `Immutable`), and that a dispatch may be late.

The shell adds, to each step of the machine, every order of sending what it emitted, so its runs have one key and one
reader or one watcher; two readers of one entry interact only through pokes, which `revalidate` calls of
`shell_wait` stand for. Two calls beside the reader's are enough for a mutation to discard its flight and an invalidation or a
write to discard the next. In `shell_wait` and `shell_return` an idle entry is collected at once, so a
reader may find its channel closed at any point.
`retry` caps the doubling at `MaxShift = 2` so that 3 retries reach the cap, and keeps `MaxInstant` above every deadline.
`lifetime` leaves refresh ticks out: a tick's fetch can overlap the dependent fetches and keep the cache alive through
them for as long as it ticks, which the words of `WeakSwrClient` do not speak of; so could two fetchers that need each other.

The bounds `MaxHandles`, `MaxCalls`, `MaxTime`, `MaxSources`, `MaxEvents`, `MaxClients` and `Apis` are in the guards of
the model; `CHECK_DEADLOCK` is off because a
client that is done with its calls may really stop.

### Fairness

* `Fairness` of `SwrMachine` (`gc`, in `FairDelaySpec`) assumes that time passes and that a GC timer which is due is dispatched
  (`Runtime::sleep_until` promises that much). Nothing is assumed of callers, of fetches (they may hang) or
  of mutations (they may never return).
* `ShellFairness` (`shell_return`, `shell_live`): threads send what they emitted, woken futures are polled, and fetches and
  mutations end. The last two are assumptions about the users' futures; without them a
  `fetch()` may wait forever, as the code says.
* `RetryFairness` (`retry`): attempts end, time passes, sleepers wake.
* `FairSpec` of `SwrLifetime` (`lifetime`, `claim_drop`): fetch tasks that can go on do. Nothing is assumed of callers and timers.

### Where the code and its words disagree

Two have a run that finds a behaviour:

| Run | The words | The code |
|---|---|---|
| `claim_drop` | `handle.rs:15` "Dropping the handle unsubscribes." | a handle that a fetcher captured is dropped by `handle()` when that fetcher is replaced or its entry collected; its `Drop` dispatches and waits for the lock that its own thread holds |
| `claim_deferred` | `machine.rs:994` "only mark; the mutation-closing revalidation converges later" | a local write, even the mutation's own, clears the mark |

Others were met while modelling and can be read off the model's definitions, without a run of their own:

* `options.rs:76` "Revalidate once the last concurrent mutation finishes." Only the flags of the mutation that ends last count (`FinishMutation`).
* `options.rs:27` "Background refresh interval while subscribed." The last tick of a subscriber that left still fetches if another without interval stays (`RefreshDeadline`).
* `machine.rs:111` "Stale generations are ignored.", `machine/tests.rs:455` "the generation fences stale timers after all subscribers leave", `options.rs:25` "Delay before an idle entry is garbage-collected." Generations start over in an entry that is rebuilt, so a timer of the collected one can carry the current generation again: its tick fetches early, its countdown collects early (`RefreshTimer`, `GcTimer`).
* `machine.rs:893` "optimistic values never count as fresh". They inherit the rest of the freshness window (`OnMutateBegin`).
* `machine.rs:691` "Wait for the mutation to settle." The target under an optimistic write is already met (`OutcomeOfRead`).
* `client.rs:313` "Mutation errors never set error_seq, so they are never returned here." A mutation's error replaces a fetch's beside the `error_seq` it left, and a reader that looks late returns it (`OnMutateCommit`, `Checked`).
* `machine.rs:740` "the watch channel's current value already is the snapshot". The batch of an earlier event may not have been sent yet; the notification that follows repairs it (`Subscribing`).
* `swr-ureq/src/lib.rs:9` "one flight at a time". A discarded flight keeps its thread beside its successor (`Launch`).
* `retry.rs:130` "retry deadline representable". The delay saturates at `Duration::MAX`, and adding that to an `Instant` does not fit (`Backoff`).

Two more things that no sentence of the repository contradicts: a
fetcher that panics leaves `inflight` set for good, and a subscriber whose first load
is discarded by a mutation with `revalidate = false` is not loaded again.

## 4. What is proved

For every value of the constants, every invariant and every action property that a passing run checks, and the
refinement of `LatestWins`. Liveness is only model-checked (end of this section). The assumptions are the
ASSUMEs of the modules: `None` is not one of the values it stands beside (`NoneAssumption`, `AbsenceAssumption`),
constants have their types (`InstantAssumption`, `DefaultsAssumption`, `ChoicesAssumption`, `BoundsAssumption`,
`RetryAssumption`, `PowerAssumption`, `LifetimeAssumption`, `WebAssumption`), and `Mutators` is finite
(`FiniteAssumption`, needed to count).

| Theorem | Says of the specification | Rests on |
|---|---|---|
| `TypeCorrect`, `FlightsAreLatest`, `DataKeepsItsSeq`, `WaitersAreServed`, `MutationsAreCounted`, `SlotsAreOwned` | `TypeOK`, `FlightIsLatest`, `DataHasItsSeq`, `WaitersFindTheirResult`, `MutationsPinEntry`, `SlotIsOwned` | `IInv` |
| `SnapshotsArePublished` | `Published` | `IInv`, `Footprint` of every handler |
| `HandlesAreCounted`, `InvalidationConverges` | `HandlesPinEntry`, `ActiveInvalidationConverges` | `HandlesInv` |
| `TicksStaySingle`, `RefreshGoesOn`, `IdleEntriesAreCounted` | `TicksDoNotMultiply`, `RefreshKeepsTicking`, `IdleEntriesExpire` | `TimersInv` |
| `CountdownsStayOnTime`, `EntriesAreKept` (of `SwrDelays`) | `CountdownsAreOnTime`, `EntriesLastTheirTime` | `DelaysInv` |
| `LatestFlightAlwaysWins` | `LatestFlightWins`, step by step | `TasksArePast`, `FlightOK` |
| `LoopsFollowTasks`, `LoopsAreBounded`, `BackoffsAreHonoured`, `RetriesDeferCollection` | `RetryTypeOK`, `RetriesAreBounded`, `BackoffIsHonoured`, `RetryDefersCollection` | `RInv` |
| `MachineSurvivesRetries`, `MachineSurvivesShell` | the machine's properties, in the two compositions | the shapes of a step |
| `ShellTypesAreCorrect`, `LateSendsAreHarmless`, `NoWakeupIsLost`, `WaitingPaysOff`, `LoopsShowLatest` | `ShellTypeOK`, `ChannelsConverge`, `SleepersAreOwedAnAnswer`, `ReadersGetNews`, `WatchersShowLatest` | `ShellInv` |
| `SubscriptionsFollowOwners` | `SubscribersAreOwned` | `LifeInv` |
| `ListenersFollow`, `EventsReachEveryone` | `ListenersFollowSources`, `EveryoneHearsOnce` | `WebInv` |

### The machine

The inductive invariant `IInv` has four parts:

1. `TypeOK`.
2. `EntryOK` for each entry. None of its conjuncts is inductive alone.
   `FlightOK` needs that a discard bumps `seq`. `ErrorOK` (an `error_seq` above
   `data_seq` has an error beside it) is what the wait loop needs, and a rollback
   keeps it only because `SlotOK` says the same of what the slot saved. `SlotOK` also
   holds that the slot implies a running mutation and that its value is the one shown: a fetch cannot
   commit under it and a local write empties it. A flight's task is in `tasks`.
   `subs` is finite, so that the aggregates over it are defined.
3. `MutationsPinEntry`: without the count, the last mutation to end could find the counter at 0.
4. `Owned`: the slot's owner is still running. It gives 3 and `SlotOK` their link: when the owner
   ends, the slot goes with it.

The proof is in three layers. For each handler, a lemma says that an `EntryOK` entry gives a good
reply (`ReplyOK`) and what happens to count and slot (`Bystander`: nothing, or the
slot is emptied; `EndsMutation`: the count drops and the ended token does not own the slot). `DispatchOK` says
that good replies make a good table, through `Settle`, `Armed` and `Started`. Then one lemma
per action, and `NextIInv` puts them together.

`SwrHandlerProofs` says the rest that matters of each handler, once: the marks that a change comes with
(`Footprint`, GC generations included), what becomes of the subscribers (`Passive`), and what it does to the flight, the value shown and the value a
rollback would restore (`Raced`). From these, every step of the machine has one of five shapes (`StepShape`): a dispatch
that leaves the subscribers alone, a subscription, a drop of a handle, a GC timer, or a step that touches no entry. The
later invariants are proved by these shapes and never look at an action again:

* `HandlesInv`: each handle's entry is there, with its incarnation; the subscribers of an entry are its handles, counted and
  by id. Ids are not reused. An entry watched with a fetcher is dirty only under a mutation: this is here
  and not apart because it needs the count, which says that an entry with a handle is active and will be fetched again.
* `TimersInv`: no timer is of an incarnation to come, or of a generation to come of the entry that armed it (`TimersArePast`).
  Without it a bump of the generation could make an old tick current again. `TicksDiffer` says that no two ticks
  agree in key, incarnation and generation, whether that incarnation still exists or not; `TicksDoNotMultiply` follows.
* `DelaysInv`: no ledger entry and no countdown of the current incarnation is of the future, and `CountdownsAreOnTime`. A
  dispatch that changes an entry either arms a countdown from a time at most `MaxLag` ago, or leaves it in use; and it
  bumps the generation, which retires the countdowns before it only because none is of a generation to come.
* `TasksArePast`: no running fetch is of a seq or an incarnation to come, or a new flight could be mistaken for an old one.
  With it each shape maps, key by key, to a step of `LatestWins` or to a stutter.

### The compositions

A step of `SwrRetry` or `SwrShell` is a step of the machine, by its shape, or leaves the machine alone. So `HandlesInv`, `TimersInv`,
`TasksArePast` and the refinement hold there too (`MachineSurvivesRetries`, `MachineSurvivesShell`), although
a discarded loop goes on, and although readers poke entries as often as they like.

`RInv` adds to `IInv` that every task has a loop, that a loop's attempts are bounded, and that one which sleeps has its
deadline at `failed_at + Delay(attempt)`. `PowerAssumption` says that powers of two up to the cap are naturals, which the
provers do not know and TLC evaluates. `RetriesDeferCollection` follows from `FlightPinsEntry`: only a GC timer removes an
entry, and never one in flight.

`ShellInv` adds to `IInv` and `HandlesInv`:

* `IncarnationsDiffer`: no two entries share a channel.
* `ChannelsInv`: a snapshot that carries the version of its entry *is* the state of that entry, and the one with the newest version is in the
  channel or about to be sent. This is inductive because of `Published`: a change without a new version would leave two
  snapshots of one version.
* `ReadersInv`: a reader waits on the entry it asked, whose fetcher its own read brought. One that pokes or sleeps and has seen the
  latest version was not served by it; if it sleeps, a flight or a mutation is under way. A handler that ends the last of
  those publishes, so the reader has then not seen the latest version. The seq it waits for is above what it found.
* `WatchersInv`: a loop's channel is the one of its handle's incarnation, and what it shows is as new as what it has seen.

### Ownership and events

`LifeInv` has types; `Fresh`: names of handles and fetchers are below `next`; `Unshared`: a handle is in one fetcher or with the caller,
never both, and a fetcher is stored under one key; and `Pinned`: `SubscribersAreOwned`, handle by handle. `Unshared` is needed
because the drop of a fetcher unsubscribes its handle without asking who else has it. `QuietStep`, `PutStep` and `UnsubscribeStep` are the three ways in which an
action can touch this; a cache that is gone never comes back, so nothing is claimed of it and nothing has to be.

`WebInv` says that ids are below `next_id` and distinct, in the registry and in the copy that a delivery walks, that listeners are
there exactly while the registry is not empty, and that a source has heard the event exactly if the walk has come past it.

### Only model-checked

Liveness: `IdleEntriesLeave`, `ReadersReturn`, `WatchersCatchUp`, `FlightsEnd`, `WindsDown`. Temporal reasoning under fairness needs
ENABLED, which is out of the prover's reach. The theorems above are the safety half of each: an idle entry has its
countdown, a sleeping reader is owed an answer, a loop that has seen all shows the latest, a loop's attempts are bounded.

## 5. What is not modelled

* Type erasure, boxing and downcasts (`erased.rs`, `marker.rs`), and the typed view `QueryState`: no state.
* The conversions of Rust values to key segments (`key.rs`): one constructor each. A key is its type and its
  segments; that `1u64` and the literal `1` (an `i32`) are different segments is a fact about those constructors.
* `swr-reqwest`, `swr-ureq`: one exchange per fetch, pure I/O. `swr-runtime-tokio`, `WebRuntime`, `GpuiRuntime`: each method delegates to
  the executor below; what the models assume of them is stated under Fairness. The facade `swr` re-exports.
* A fetcher that panics: to the model, a task that never reports. So every safety property covers it, no liveness property does.
* Dropping an event source whose client is the last one, while the web registry is borrowed: what the cache's values own, and
  would drop there, is outside this repository.
* A gpui state entity released before its `Query`: the loop ends one wake-up earlier and shows nothing to nobody.
* `force_remove`, a hook of the tests.

## 6. Plan

1. A property of focus throttling, with a ledger of the last focus fetch, and its theorem by the handlers' lemmas.
2. What `SwrDelays` says of countdowns for refresh ticks: how early one may come, in terms of `MaxLag`.
3. The safety half of `WindsDown` as an invariant: who may keep a cache alive without a caller.
