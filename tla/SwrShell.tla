------------------------------ MODULE SwrShell ------------------------------
(***************************************************************************)
(* The machine with the part of the client that runs outside the lock: the  *)
(* snapshots that run_effects sends to the watch channels after the lock is *)
(* released, in any order among the threads that send (client.rs), the wait *)
(* loop of fetch() (client.rs), and the loops that follow a QueryHandle and *)
(* keep its latest snapshot on show (handle.rs, swr-gpui).                  *)
(*                                                                         *)
(* A channel is named by the incarnation of the entry it was made for.  A   *)
(* tokio watch channel counts its sends and a receiver remembers the count  *)
(* it saw last; as every send that counts carries a higher snapshot         *)
(* version, the version serves as the count.                                *)
(***************************************************************************)
EXTENDS SwrMachine

CONSTANT Readers    \* callers that await fetch()

VARIABLES
    channels,   \* the snapshot in each channel, by incarnation
    pending,    \* Notify effects emitted under the lock and not yet sent
    readers,    \* each reader's place in fetch()
    watchers    \* the loop that follows each live handle, by sub_id

shellVars == <<vars, channels, pending, readers, watchers>>

Snapshot(e) ==
    [data |-> e.data, error |-> e.error, data_seq |-> e.data_seq,
     error_seq |-> e.error_seq, inflight |-> e.inflight,
     is_mutating |-> e.mutation_active > 0, updated_at |-> e.updated_at,
     version |-> e.snap_version]

\* Snapshot::empty()
EmptySnapshot == Snapshot(NewEntry(0))

NotCalled == [phase |-> "idle", key |-> None, policy |-> None, rx |-> None,
              target |-> None, floor |-> 0, seen |-> 0, result |-> None]

ShellInit ==
    /\ Init
    /\ channels = <<>>
    /\ pending = {}
    /\ readers = [r \in Readers |-> NotCalled]
    /\ watchers = <<>>

-----------------------------------------------------------------------------
(* Effects *)

\* The Notify effects of a step that `by` dispatches: one for each entry that
\* took a new snapshot version.
VersionBefore(k) ==
    IF Present(k) /\ entries[k].incarnation = entries'[k].incarnation
    THEN entries[k].snap_version ELSE 0

Notifies(by) ==
    {[rx |-> entries'[k].incarnation, snapshot |-> Snapshot(entries'[k]), by |-> by] :
        k \in {x \in Keys : entries'[x] # None /\ entries'[x].snap_version # VersionBefore(x)}}

\* A new entry opens its channel under the lock; what it shows is sent later.
Effects(by) ==
    /\ channels' = [i \in {n \in 0 .. next_incarnation' : n < next_incarnation'} |->
                       IF i \in DOMAIN channels THEN channels[i] ELSE EmptySnapshot]
    /\ pending' = pending \cup Notifies(by)

\* Mutant: the snapshot is sent without asking for its version.
SendUnguarded(n) ==
    /\ channels' = [channels EXCEPT ![n.rx] = n.snapshot]
    /\ pending' = pending \ {n}
    /\ UNCHANGED <<vars, readers, watchers>>

Send(n) ==
    /\ channels' = IF n.snapshot.version > channels[n.rx].version
                   THEN [channels EXCEPT ![n.rx] = n.snapshot] ELSE channels
    /\ pending' = pending \ {n}
    /\ UNCHANGED <<vars, readers, watchers>>

\* An actor goes on when it has sent what its last dispatch emitted.
Sending(by) == \E n \in pending : n.by = by

\* Mutant: something else keeps the sender of a collected entry.
NeverCloses(rx) == TRUE

\* The sender lives in the entry and in the Notify effects.
IsOpen(rx) ==
    \/ \E k \in Keys : Present(k) /\ entries[k].incarnation = rx
    \/ \E n \in pending : n.rx = rx

-----------------------------------------------------------------------------
(* fetch(): read, then wait for the target *)

ReadyResult(outcome) ==
    IF outcome.data # None THEN [kind |-> "ok", value |-> outcome.data]
    ELSE IF outcome.error # None THEN [kind |-> "error", value |-> outcome.error]
    ELSE [kind |-> "miss"]

Returned(reader, result) == [reader EXCEPT !.phase = "done", !.result = result]

\* What a waiting reader must get something newer than (kept for the
\* properties): the data it found, or what a mutation found running left behind.
Floor(e, outcome) == IF e.mutation_active > 0 THEN outcome.target - 1 ELSE e.data_seq

\* Mutant: a reader whose entry was collected keeps its old target.
AfterReadSameTarget(reader, e, outcome) ==
    CASE outcome.kind = "Ready" -> Returned(reader, ReadyResult(outcome))
      [] outcome.kind = "NoFetcher" -> Returned(reader, [kind |-> "no fetcher"])
      [] outcome.kind = "Wait" ->
            [reader EXCEPT !.phase = "check", !.rx = e.incarnation,
                           !.target = IF @ = None THEN outcome.target ELSE @,
                           !.floor = Floor(e, outcome)]

\* Where a reader stands after its read found entry e.
AfterRead(reader, e, outcome) ==
    CASE outcome.kind = "Ready" -> Returned(reader, ReadyResult(outcome))
      [] outcome.kind = "NoFetcher" -> Returned(reader, [kind |-> "no fetcher"])
      [] outcome.kind = "Wait" ->
            [reader EXCEPT !.phase = "check", !.rx = e.incarnation,
                           !.target = outcome.target, !.floor = Floor(e, outcome)]

Ask(r, k, policy) ==
    /\ \E now \in Sampled :
         LET e == EntryOrCreate(k)
             asked == [readers[r] EXCEPT !.key = k, !.policy = policy]
         IN  /\ ReadAt(k, policy, now)
             /\ readers' = [readers EXCEPT ![r] =
                  AfterRead(asked, e, OutcomeOfRead(e, policy, TRUE, Defaults, now))]
    /\ Effects(r)
    /\ UNCHANGED <<calls, watchers>>

Read(r, k, policy) == readers[r].phase = "idle" /\ Ask(r, k, policy)

Reread(r) == readers[r].phase = "closed" /\ Ask(r, readers[r].key, readers[r].policy)

\* Mutant: the wait loop asks for no new flight when it finds none.
CheckedNeverPokes(reader, s) ==
    IF s.data_seq >= reader.target THEN Returned(reader, [kind |-> "ok", value |-> s.data])
    ELSE IF s.error_seq >= reader.target
    THEN Returned(reader, [kind |-> "error", value |-> s.error])
    ELSE [reader EXCEPT !.seen = s.version, !.phase = "parked"]

\* One pass of the wait loop over the snapshot in the channel.
Checked(reader, s) ==
    IF s.data_seq >= reader.target THEN Returned(reader, [kind |-> "ok", value |-> s.data])
    ELSE IF s.error_seq >= reader.target
    THEN Returned(reader, [kind |-> "error", value |-> s.error])
    ELSE [reader EXCEPT !.seen = s.version,
                        !.phase = IF s.inflight = None /\ ~s.is_mutating
                                  THEN "poke" ELSE "parked"]

\* borrow_and_update()
Check(r) ==
    /\ readers[r].phase = "check"
    /\ ~Sending(r)
    /\ readers' = [readers EXCEPT ![r] = Checked(@, channels[readers[r].rx])]
    /\ UNCHANGED <<vars, channels, pending, watchers>>

\* RevalidateRequested, then the wait for changed() in any case.
Poke(r) ==
    /\ readers[r].phase = "poke"
    /\ RequestRevalidation(readers[r].key)
    /\ readers' = [readers EXCEPT ![r].phase = "parked"]
    /\ Effects(r)
    /\ UNCHANGED <<calls, watchers>>

\* changed() returns when a version is unseen, and only then looks whether the
\* channel is closed; wait() then returns, and its receiver goes with it.
Wake(r) ==
    /\ readers[r].phase = "parked"
    /\ ~Sending(r)
    /\ LET version == channels[readers[r].rx].version
       IN  \/ /\ version # readers[r].seen
              /\ readers' = [readers EXCEPT ![r].phase = "check", ![r].seen = version]
           \/ /\ version = readers[r].seen
              /\ ~IsOpen(readers[r].rx)
              /\ readers' = [readers EXCEPT ![r].phase = "closed", ![r].rx = None]
    /\ UNCHANGED <<vars, channels, pending, watchers>>

-----------------------------------------------------------------------------
(* Handles and the loops that follow them *)

\* A handle's receiver is taken under the lock: what subscribe() itself
\* emitted, and what others have not yet sent, is news to it.
Subscribing(k, supplied, opts) ==
    /\ Subscribe(k, supplied, opts)
    /\ Effects(next_sub_id)
    /\ LET rx == EntryOrCreate(k).incarnation
       IN  watchers' = [id \in DOMAIN watchers \cup {next_sub_id} |->
                IF id # next_sub_id THEN watchers[id]
                ELSE [phase |-> "new", rx |-> rx, seen |-> channels'[rx].version,
                      shown |-> None]]
    /\ UNCHANGED readers

Follow(id, phase, next) ==
    /\ watchers[id].phase = phase
    /\ ~Sending(id)
    /\ watchers' = [watchers EXCEPT ![id] = next]
    /\ UNCHANGED <<vars, channels, pending, readers>>

\* Query::new: the state shows the handle's snapshot before the loop starts.
Bind(id) ==
    Follow(id, "new",
           [watchers[id] EXCEPT !.phase = "parked", !.shown = channels[watchers[id].rx]])

\* changed()
Changed(id) ==
    /\ channels[watchers[id].rx].version # watchers[id].seen
    /\ Follow(id, "parked",
              [watchers[id] EXCEPT !.phase = "woken",
                                   !.seen = channels[watchers[id].rx].version])

\* Mutant: the state is updated only when the data is new.
ShowNewDataOnly(id) ==
    Follow(id, "woken",
           [watchers[id] EXCEPT !.phase = "parked",
                                !.shown = IF channels[watchers[id].rx].data = @.data THEN @
                                          ELSE channels[watchers[id].rx]])

\* snapshot(), which marks nothing as seen, and the update of the state.
Show(id) ==
    Follow(id, "woken",
           [watchers[id] EXCEPT !.phase = "parked", !.shown = channels[watchers[id].rx]])

\* Dropping a Query cancels its loop, and so drops the handle.
Unsubscribing(h) ==
    /\ ~Sending(h.sub_id)
    /\ DropHandle(h)
    /\ Effects(None)
    /\ watchers' = [id \in DOMAIN watchers \ {h.sub_id} |-> watchers[id]]
    /\ UNCHANGED readers

-----------------------------------------------------------------------------
(* The steps of everyone else *)

Alone(by) == Effects(by) /\ UNCHANGED <<readers, watchers>>

ByMutator(m) == ~Sending(m) /\ Alone(m)

Reports == \E t \in tasks : (FetchOk(t) \/ FetchErr(t)) /\ Alone(None)

Ends(m) ==
    /\ \/ \E result \in Results : MutateCommit(m, result)
       \/ MutateAbort(m)
    /\ ByMutator(m)

Fires == \E t \in timers : (GcTimer(t) \/ RefreshTimer(t)) /\ Alone(None)

ShellNext ==
    \/ \E n \in pending : Send(n)
    \/ \E r \in Readers, k \in Keys, policy \in Policies : Read(r, k, policy)
    \/ \E r \in Readers : Reread(r)
    \/ \E r \in Readers : Check(r)
    \/ \E r \in Readers : Poke(r)
    \/ \E r \in Readers : Wake(r)
    \/ \E k \in Keys, supplied \in BOOLEAN, opts \in OptionChoices :
          Subscribing(k, supplied, opts)
    \/ \E id \in DOMAIN watchers : Bind(id)
    \/ \E id \in DOMAIN watchers : Changed(id)
    \/ \E id \in DOMAIN watchers : Show(id)
    \/ \E h \in handles : Unsubscribing(h)
    \/ \E k \in Keys : Revalidate(k) /\ Alone(None)
    \/ Reports
    \/ \E k \in Keys : Set(k) /\ Alone(None)
    \/ \E m \in Mutators, k \in Keys, optimistic \in BOOLEAN, flags \in FlagChoices :
          MutateBegin(m, k, optimistic, flags) /\ ByMutator(m)
    \/ \E m \in Mutators : Ends(m)
    \/ \E prefix \in KeyPrefixes : Invalidate(prefix) /\ Alone(None)
    \/ \E ev \in EventKinds : Broadcast(ev) /\ Alone(None)
    \/ Fires
    \/ Tick /\ Alone(None)

ShellSpec == ShellInit /\ [][ShellNext]_shellVars

\* What the threads of the program do of themselves: send what they emitted,
\* poll the futures that can go on, finish fetches and mutations.  Nothing is
\* assumed of callers or timers.
ShellFairness ==
    /\ WF_shellVars(\E n \in pending : Send(n))
    /\ \A r \in Readers : WF_shellVars(Reread(r) \/ Check(r) \/ Poke(r) \/ Wake(r))
    /\ WF_shellVars(\E id \in DOMAIN watchers : Bind(id) \/ Changed(id) \/ Show(id))
    /\ WF_shellVars(Reports)
    /\ \A m \in Mutators : WF_shellVars(Ends(m))

FairShellSpec == ShellSpec /\ ShellFairness

-----------------------------------------------------------------------------
(* Properties *)

SnapshotType ==
    [data : Value \cup {None}, error : Error \cup {None}, data_seq : Nat,
     error_seq : Nat, inflight : Nat \cup {None}, is_mutating : BOOLEAN,
     updated_at : Nat \cup {None}, version : Nat]

IsResult(r) ==
    \/ r.kind = "ok" /\ r.value \in Value
    \/ r.kind = "error" /\ r.value \in Error
    \/ r.kind = "miss"

\* Every field holds a value of its Rust type; a reader that is done holds a
\* result of fetch() other than NoFetcher, and never one made of None: neither
\* expect() of the wait loop fails.
ShellTypeOK ==
    /\ DOMAIN channels = {i \in 0 .. next_incarnation : i < next_incarnation}
    /\ \A i \in DOMAIN channels : channels[i] \in SnapshotType
    /\ \A n \in pending : n.rx \in DOMAIN channels /\ n.snapshot \in SnapshotType
    /\ \A r \in Readers :
          IF readers[r].phase = "done" THEN IsResult(readers[r].result)
          ELSE readers[r].result = None
    /\ DOMAIN watchers = {h.sub_id : h \in handles}

Unsent(rx) == {n \in pending : n.rx = rx}

\* In whatever order the threads send what they emitted, a channel ends up with
\* the entry's latest state (client.rs: "the version guard keeps the channel
\* monotonic").
ChannelsConverge ==
    \A k \in Keys : Present(k) /\ Unsent(entries[k].incarnation) = {} =>
        channels[entries[k].incarnation] = Snapshot(entries[k])

\* No wakeup is lost: when a reader sleeps and everything sent has been seen, a
\* flight or a mutation that can still serve it is under way, or its channel is
\* closed and it is about to ask again.
SleepersAreOwedAnAnswer ==
    \A r \in Readers :
        LET reader == readers[r]
        IN  /\ reader.phase = "parked"
            /\ Unsent(reader.rx) = {}
            /\ reader.seen = channels[reader.rx].version
            /\ IsOpen(reader.rx)
            => LET e == entries[reader.key]
               IN  /\ e.incarnation = reader.rx
                   /\ e.inflight # None \/ Mutating(reader.key) # {}
                   /\ e.data_seq < reader.target /\ e.error_seq < reader.target

\* A reader that waited is served with something written after it asked: never
\* with the data it had found stale, and never for a target of an entry since
\* collected.  One that found a mutation running may be served with what was
\* written since that mutation began.
ReadersGetNews ==
    \A r \in Readers :
        LET reader == readers[r]
        IN  reader.phase = "done" /\ reader.rx # None /\ reader.result.kind = "ok" =>
              reader.result.value.seq > reader.floor

\* A loop that has seen all that was sent shows the latest state: nothing that
\* happened between subscribe(), the first snapshot() and the first changed(),
\* or between a changed() and its snapshot(), is missed; and the channel of a
\* live handle is open, so that the loop does not end under it.
WatchersShowLatest ==
    \A h \in handles :
        LET w == watchers[h.sub_id]
        IN  /\ IsOpen(w.rx)
            /\ /\ w.phase = "parked"
               /\ Unsent(w.rx) = {}
               /\ w.seen = channels[w.rx].version
               => w.shown = Snapshot(entries[h.key])

\* Every fetch() returns, whatever discards its flight or collects its entry
\* meanwhile, provided that fetches and mutations end.
ReadersReturn ==
    \A r \in Readers : readers[r].phase # "idle" ~> readers[r].phase = "done"

\* A live query catches up with its entry, or is dropped.
WatchersCatchUp ==
    \A id \in {i \in 0 .. MaxCalls : i < MaxCalls} :
        (\E h \in handles : h.sub_id = id) ~>
            \/ \A h \in handles : h.sub_id # id
            \/ \E h \in handles : h.sub_id = id /\ watchers[id].shown = Snapshot(entries[h.key])
=============================================================================
