--------------------------- MODULE SwrShellProofs ---------------------------
(***************************************************************************)
(* Proofs about SwrShell for every value of its constants: the channels,    *)
(* the readers that wait in fetch() and the loops that follow the handles.  *)
(*                                                                         *)
(* Every step of the shell is a step of the machine, by its shape, or       *)
(* leaves the machine alone, so IInv and HandlesInv carry over.  What the   *)
(* shell adds is about versions: no two incarnations share a channel, a     *)
(* snapshot that carries the version of its entry is the state of that      *)
(* entry, and the newest one is in the channel or about to be sent          *)
(* (ChannelsInv); a reader waits on the entry it asked, which its own read  *)
(* gave a fetcher, and sleeps only while something can still serve it       *)
(* (ReadersInv); what a loop shows is as new as what it has seen            *)
(* (WatchersInv).                                                           *)
(***************************************************************************)
EXTENDS SwrShell, SwrRaceProofs

-----------------------------------------------------------------------------
(* The inductive invariant *)

SnapOK(s) ==
    /\ s \in SnapshotType
    /\ IF s.data = None THEN s.data_seq = 0 ELSE s.data.seq = s.data_seq
    /\ ErrorOK(s.error, s.error_seq, s.data_seq)

\* No two entries share an incarnation, and so a channel.
IncarnationsDiffer ==
    /\ \A k \in Keys : Present(k) => entries[k].incarnation < next_incarnation
    /\ \A k, x \in Keys :
         Present(k) /\ Present(x) /\ entries[k].incarnation = entries[x].incarnation
         => k = x

\* A snapshot sent for e, now or before.
Tells(s, e) ==
    /\ s.version <= e.snap_version
    /\ s.version = e.snap_version => s = Snapshot(e)

Tuned(k) ==
    LET e == entries[k]
        rx == entries[k].incarnation
    IN  /\ Tells(channels[rx], e)
        /\ \A n \in Unsent(rx) : Tells(n.snapshot, e)
        /\ \/ channels[rx].version = e.snap_version
           \/ \E n \in Unsent(rx) : n.snapshot.version = e.snap_version

ChannelsInv ==
    /\ DOMAIN channels = {i \in 0 .. next_incarnation : i < next_incarnation}
    /\ \A i \in DOMAIN channels : SnapOK(channels[i])
    /\ \A n \in pending : n.rx \in DOMAIN channels /\ SnapOK(n.snapshot)
    /\ \A k \in Keys : Present(k) => Tuned(k)

ReaderType ==
    [phase : {"idle", "check", "poke", "parked", "closed", "done"},
     key : Keys \cup {None}, policy : Policies \cup {None},
     rx : Nat \cup {None}, target : Nat \cup {None}, floor : Nat, seen : Nat,
     result : [kind : {"ok"}, value : Value] \cup [kind : {"error"}, value : Error]
              \cup [kind : {"miss"}] \cup {None}]

\* The entry whose channel a reader waits on is the one it asked.
Waiting(d) ==
    d.phase \in {"check", "poke", "parked"} =>
        /\ d.rx \in DOMAIN channels /\ d.target \in Nat /\ d.floor < d.target
        /\ \A x \in Keys : Present(x) /\ entries[x].incarnation = d.rx =>
              x = d.key /\ entries[x].fetcher

\* A reader that has seen the latest state was not served by it, and sleeps
\* only if something is under way.
Unserved(d) ==
    d.phase \in {"poke", "parked"} =>
        /\ d.seen <= channels[d.rx].version
        /\ \A x \in Keys :
              /\ Present(x)
              /\ entries[x].incarnation = d.rx /\ entries[x].snap_version = d.seen
              => /\ entries[x].data_seq < d.target /\ entries[x].error_seq < d.target
                 /\ d.phase = "parked" =>
                      entries[x].inflight # None \/ 0 < entries[x].mutation_active

Answered(d) ==
    /\ d.phase \in {"idle", "closed"} => d.rx = None
    /\ d.phase \in {"check", "poke", "parked", "closed"} => d.key \in Keys
    /\ IF d.phase = "done"
       THEN /\ IsResult(d.result)
            /\ d.rx # None /\ d.result.kind = "ok" => d.floor < d.result.value.seq
       ELSE d.result = None

ReadersInv ==
    /\ readers \in [Readers -> ReaderType]
    /\ \A r \in Readers :
          Waiting(readers[r]) /\ Unserved(readers[r]) /\ Answered(readers[r])

WatcherType == [phase : {"new", "parked", "woken"}, rx : Nat, seen : Nat,
                shown : SnapshotType \cup {None}]

Watching(h) ==
    LET w == watchers[h.sub_id]
    IN  /\ w \in WatcherType
        /\ w.rx = h.incarnation
        /\ w.seen <= channels[w.rx].version
        /\ w.phase = "parked" =>
             /\ w.shown \in SnapshotType
             /\ w.seen <= w.shown.version
             /\ w.shown.version <= channels[w.rx].version
             /\ w.shown.version = channels[w.rx].version => w.shown = channels[w.rx]

WatchersInv ==
    /\ DOMAIN watchers = {h.sub_id : h \in handles}
    /\ \A h \in handles : Watching(h)
-----------------------------------------------------------------------------
(* Every step of the shell is one of the machine or leaves it alone *)

LEMMA ShellShape ==
    ASSUME IInv, ReadersInv, [ShellNext]_shellVars
    PROVE  StepShape /\ IInv'
<1>0. calls \in 0 .. MaxCalls
  BY DEF IInv, TypeOK
<1>1. ASSUME NEW r \in Readers, NEW k \in Keys, NEW policy, Ask(r, k, policy)
      PROVE  StepShape /\ IInv'
  <2>1. PICK now \in Sampled : ReadAt(k, policy, now)
    BY <1>1 DEF Ask
  <2>2. calls' \in 0 .. MaxCalls
    BY <1>0, <1>1 DEF Ask
  <2> QED
    BY <2>1, <2>2, FetchShape, ReadStep
<1>2. ASSUME NEW r \in Readers, Reread(r)
      PROVE  StepShape /\ IInv'
  BY <1>1, <1>2 DEF Reread, ReadersInv, Answered
<1>3. ASSUME NEW r \in Readers, Poke(r)
      PROVE  StepShape /\ IInv'
  <2>1. readers[r].key \in Keys /\ RequestRevalidation(readers[r].key)
    BY <1>3 DEF Poke, ReadersInv, Answered
  <2>2. calls' \in 0 .. MaxCalls
    BY <1>0, <1>3 DEF Poke
  <2> QED
    BY <2>1, <2>2, RevalidateShape, RequestStep
<1>4. ASSUME [Next]_vars
      PROVE  StepShape /\ IInv'
  BY <1>4, NextShape, NextIInv
<1>5. ASSUME NEW k \in Keys, NEW supplied \in BOOLEAN, NEW opts \in OptionChoices,
             Subscribing(k, supplied, opts)
      PROVE  [Next]_vars
  BY <1>5 DEF Subscribing, Next
<1>6. ASSUME NEW h \in handles, Unsubscribing(h)
      PROVE  [Next]_vars
  BY <1>6 DEF Unsubscribing, Next
<1>7. ASSUME Reports \/ Fires \/ \E m \in Mutators : Ends(m)
      PROVE  [Next]_vars
  BY <1>7 DEF Reports, Fires, Ends, Next
<1>8. ASSUME \/ \E k \in Keys : Revalidate(k) \/ Set(k)
             \/ \E m \in Mutators, k \in Keys, optimistic \in BOOLEAN, flags \in FlagChoices :
                   MutateBegin(m, k, optimistic, flags)
             \/ \E prefix \in KeyPrefixes : Invalidate(prefix)
             \/ \E ev \in EventKinds : Broadcast(ev)
             \/ Tick
      PROVE  [Next]_vars
  BY <1>8 DEF Next
<1>9. ASSUME \/ \E n \in pending : Send(n)
             \/ \E r \in Readers : Check(r) \/ Wake(r)
             \/ \E id \in DOMAIN watchers : Bind(id) \/ Changed(id) \/ Show(id)
             \/ UNCHANGED shellVars
      PROVE  [Next]_vars
  BY <1>9 DEF Send, Check, Wake, Bind, Changed, Show, Follow, shellVars
<1> QED
  BY <1>1, <1>2, <1>3, <1>4, <1>5, <1>6, <1>7, <1>8, <1>9 DEF ShellNext, Read

-----------------------------------------------------------------------------
(* Incarnations *)

\* What a step does to the incarnations: at most one entry is created, with
\* the next one.
LEMMA ShapeIncarnations ==
    ASSUME IInv, StepShape
    PROVE  /\ next_incarnation' \in {next_incarnation, next_incarnation + 1}
           /\ \A k \in Keys : ~Present(k) /\ Present(k)' =>
                next_incarnation' = next_incarnation + 1
           /\ \A k, x \in Keys :
                ~Present(k) /\ Present(k)' /\ ~Present(x) /\ Present(x)' => k = x
<1>0. CASE \E replies, now, ended, fired : Served(replies, now, ended, fired)
  BY <1>0, ServedEntries
<1>1. CASE PassiveStep
  BY <1>0, <1>1 DEF PassiveStep
<1>2. CASE \E x \in Keys, supplied \in BOOLEAN, opts \in Options :
             SubscribeStepOf(x, supplied, opts)
  BY <1>0, <1>2 DEF SubscribeStepOf
<1>3. CASE \E h \in handles : DropStepOf(h)
  BY <1>0, <1>3 DEF DropStepOf
<1>4. CASE (\E t \in timers : GcTimer(t)) \/ StillStep
  BY <1>4 DEF GcTimer, StillStep, Present, IInv, TypeOK
<1> QED
  BY <1>1, <1>2, <1>3, <1>4 DEF StepShape

\* The entry found, or created, under k: it is the only one of its incarnation.
LEMMA EntryOfChannel ==
    ASSUME IInv, IncarnationsDiffer, StepShape
    PROVE  /\ IncarnationsDiffer'
           /\ next_incarnation \in Nat /\ next_incarnation' \in Nat
           /\ next_incarnation <= next_incarnation'
           /\ \A k \in Keys : Present(k)' =>
                /\ entries'[k].incarnation \in Nat
                /\ entries'[k].incarnation = EntryOrCreate(k).incarnation
                /\ entries'[k].incarnation < next_incarnation'
                /\ entries'[k].incarnation < next_incarnation <=> Present(k)
<1>1. next_incarnation \in Nat /\ next_incarnation' \in Nat
      /\ next_incarnation <= next_incarnation'
  BY ShapeIncarnations DEF IInv, TypeOK
<1>2. ASSUME NEW k \in Keys, Present(k)'
      PROVE  /\ entries'[k].incarnation \in Nat
             /\ entries'[k].incarnation = EntryOrCreate(k).incarnation
             /\ entries'[k].incarnation < next_incarnation'
             /\ entries'[k].incarnation < next_incarnation <=> Present(k)
             /\ ~Present(k) => entries'[k].incarnation = next_incarnation
             /\ Present(k) => entries'[k].incarnation = entries[k].incarnation
  <2>1. entries'[k].incarnation = EntryOrCreate(k).incarnation
    BY <1>2, ShapeSnapshots DEF Told
  <2>2. EntryOrCreate(k).incarnation \in Nat
    BY EntryOrCreateOK DEF EntryOK, Entry
  <2>3. CASE Present(k)
    BY <1>1, <2>1, <2>2, <2>3 DEF EntryOrCreate, IncarnationsDiffer
  <2>4. CASE ~Present(k)
    <3>1. EntryOrCreate(k).incarnation = next_incarnation
      BY <2>4 DEF EntryOrCreate, NewEntry
    <3> QED
      BY <1>1, <1>2, <2>1, <2>4, <3>1, ShapeIncarnations
  <2> QED
    BY <2>3, <2>4
<1>3. ASSUME NEW k \in Keys, NEW x \in Keys, Present(k)', Present(x)',
             entries'[k].incarnation = entries'[x].incarnation
      PROVE  k = x
  <2>1. Present(k) <=> Present(x)
    BY <1>2, <1>3
  <2> QED
    BY <1>2, <1>3, <2>1, ShapeIncarnations DEF IncarnationsDiffer
<1>4. IncarnationsDiffer'
  BY <1>2, <1>3 DEF IncarnationsDiffer
<1> QED
  BY <1>1, <1>2, <1>4

-----------------------------------------------------------------------------
(* Snapshots and channels *)

LEMMA SnapshotFields ==
    ASSUME NEW e
    PROVE  /\ Snapshot(e).version = e.snap_version
           /\ Snapshot(e).data = e.data /\ Snapshot(e).data_seq = e.data_seq
           /\ Snapshot(e).error = e.error /\ Snapshot(e).error_seq = e.error_seq
           /\ Snapshot(e).inflight = e.inflight
           /\ Snapshot(e).is_mutating = (e.mutation_active > 0)
  BY DEF Snapshot

LEMMA SnapshotIsOK ==
    ASSUME NEW e, EntryOK(e)
    PROVE  SnapOK(Snapshot(e))
<1>1. Snapshot(e) \in SnapshotType
  BY DEF EntryOK, Entry, Snapshot, SnapshotType
<1> QED
  BY <1>1, SnapshotFields DEF EntryOK, DataOK, SnapOK

LEMMA NewSnapshot ==
    ASSUME NEW i \in Nat
    PROVE  /\ EmptySnapshot = Snapshot(NewEntry(i)) /\ NewEntry(i).snap_version = 0
           /\ SnapOK(EmptySnapshot) /\ EmptySnapshot.version = 0
<1>1. EmptySnapshot = Snapshot(NewEntry(i)) /\ NewEntry(i).snap_version = 0
  BY DEF EmptySnapshot, Snapshot, NewEntry
<1> QED
  BY <1>1, NewEntryOK, SnapshotIsOK, SnapshotFields

LEMMA SameVisible ==
    ASSUME NEW e, NEW n, Visible(n) = Visible(e)
    PROVE  /\ n.data = e.data /\ n.error = e.error
           /\ n.data_seq = e.data_seq /\ n.error_seq = e.error_seq
           /\ n.inflight = e.inflight /\ n.updated_at = e.updated_at
           /\ (n.mutation_active > 0) = (e.mutation_active > 0)
  BY DEF Visible

\* What told e tells what became of e, or something older.
LEMMA StillTells ==
    ASSUME NEW e, NEW n, e.snap_version \in Nat, Told(e, n),
           NEW s, s.version \in Nat, Tells(s, e)
    PROVE  Tells(s, n)
<1>1. CASE n.snap_version = e.snap_version
  <2>1. Snapshot(n) = Snapshot(e)
    BY <1>1, SameVisible DEF Told, Snapshot
  <2> QED
    BY <1>1, <2>1 DEF Tells
<1>2. CASE n.snap_version = e.snap_version + 1
  BY <1>2 DEF Tells
<1> QED
  BY <1>1, <1>2 DEF Told

LEMMA OpenChannel ==
    ASSUME IInv, IncarnationsDiffer, ChannelsInv, NEW k \in Keys, Present(k)
    PROVE  entries[k].incarnation \in DOMAIN channels
<1>1. entries[k].incarnation \in Nat /\ next_incarnation \in Nat
  BY DEF IInv, TypeOK, EntryOK, Entry
<1> QED
  BY <1>1 DEF IncarnationsDiffer, ChannelsInv

\* A channel only moves on to newer snapshots.
Grown ==
    \A i \in DOMAIN channels :
        /\ i \in DOMAIN channels'
        /\ channels[i].version <= channels'[i].version
        /\ channels'[i].version = channels[i].version => channels'[i] = channels[i]

LEMMA SnapVersion ==
    ASSUME ChannelsInv
    PROVE  /\ \A i \in DOMAIN channels : channels[i].version \in Nat
           /\ \A n \in pending : n.snapshot.version \in Nat
  BY DEF ChannelsInv, SnapOK, SnapshotType

LEMMA SendChannels ==
    ASSUME IInv, IncarnationsDiffer, ChannelsInv, NEW m \in pending, Send(m)
    PROVE  ChannelsInv' /\ Grown
<1>1. /\ UNCHANGED <<entries, next_incarnation>>
      /\ pending' = pending \ {m} /\ DOMAIN channels' = DOMAIN channels
      /\ \A i \in DOMAIN channels : channels'[i] =
            IF i = m.rx /\ m.snapshot.version > channels[i].version
            THEN m.snapshot ELSE channels[i]
  BY DEF Send, vars
<1>2. Grown
  BY <1>1, SnapVersion DEF Grown
<1>3. /\ \A i \in DOMAIN channels' : SnapOK(channels'[i])
      /\ \A n \in pending' : n.rx \in DOMAIN channels' /\ SnapOK(n.snapshot)
  BY <1>1 DEF ChannelsInv
<1>4. ASSUME NEW k \in Keys, Present(k)'
      PROVE  Tuned(k)'
  <2> DEFINE e == entries[k]
             rx == entries[k].incarnation
  <2>1. /\ entries' = entries /\ Present(k) /\ Tuned(k)
        /\ e.snap_version \in Nat
    BY <1>1, <1>4 DEF Present, ChannelsInv, IInv, EntryOK, Entry
  <2>2. rx \in DOMAIN channels
    BY <2>1, OpenChannel
  <2>3. /\ \A n \in pending : n.rx = rx => Tells(n.snapshot, e)
        /\ Tells(channels[rx], e)
        /\ \/ channels[rx].version = e.snap_version
           \/ \E n \in pending : n.rx = rx /\ n.snapshot.version = e.snap_version
    BY <2>1 DEF Tuned, Unsent
  <2>4. Tells(channels'[rx], e)
    BY <1>1, <2>2, <2>3
  <2>5. \/ channels'[rx].version = e.snap_version
        \/ \E n \in pending \ {m} : n.rx = rx /\ n.snapshot.version = e.snap_version
    <3>1. CASE channels[rx].version = e.snap_version
      BY <1>1, <2>1, <2>2, <2>3, <3>1, SnapVersion DEF Tells
    <3>2. CASE m.rx = rx /\ m.snapshot.version = e.snap_version
      BY <1>1, <2>1, <2>2, <2>3, <3>2, SnapVersion DEF Tells
    <3> QED
      BY <2>3, <3>1, <3>2
  <2>6. /\ \A n \in pending' : n.rx = rx => Tells(n.snapshot, e)
        /\ pending' = pending \ {m} /\ entries'[k] = e
    BY <1>1, <2>3
  <2> HIDE DEF e, rx
  <2>7. entries'[k].incarnation = rx
    BY <2>1 DEF rx
  <2> QED
    BY <2>4, <2>5, <2>6, <2>7, Zenon DEF Tuned, Unsent
<1> QED
  BY <1>1, <1>2, <1>3, <1>4 DEF ChannelsInv

LEMMA EffectsChannels ==
    ASSUME IInv, IInv', IncarnationsDiffer, ChannelsInv, StepShape, NEW by, Effects(by)
    PROVE  ChannelsInv' /\ Grown
<1>0. /\ next_incarnation \in Nat /\ next_incarnation' \in Nat
      /\ next_incarnation <= next_incarnation'
  BY EntryOfChannel
<1>1. /\ DOMAIN channels' = {i \in 0 .. next_incarnation' : i < next_incarnation'}
      /\ \A i \in DOMAIN channels' :
            channels'[i] = IF i \in DOMAIN channels THEN channels[i] ELSE EmptySnapshot
      /\ pending' = pending \cup Notifies(by)
  BY DEF Effects
<1>2. \A i \in DOMAIN channels : i \in DOMAIN channels'
  BY <1>0, <1>1 DEF ChannelsInv
<1>3. Grown
  BY <1>1, <1>2, SnapVersion DEF Grown
<1>4. \A i \in DOMAIN channels' : SnapOK(channels'[i])
  BY <1>0, <1>1, NewSnapshot DEF ChannelsInv
<1>5. ASSUME NEW n \in Notifies(by)
      PROVE  /\ n.rx \in DOMAIN channels' /\ SnapOK(n.snapshot)
             /\ \E k \in Keys : /\ Present(k)' /\ n.rx = entries'[k].incarnation
                              /\ n.snapshot = Snapshot(entries'[k])
  <2>1. PICK k \in Keys : /\ entries'[k] # None
                         /\ n = [rx |-> entries'[k].incarnation,
                                 snapshot |-> Snapshot(entries'[k]), by |-> by]
    BY DEF Notifies
  <2>2. n.rx = entries'[k].incarnation /\ n.snapshot = Snapshot(entries'[k])
    BY <2>1
  <2>3. Present(k)'
    BY <2>1 DEF Present
  <2>4. SnapOK(n.snapshot)
    BY <2>2, <2>3, SnapshotIsOK DEF IInv
  <2>5. n.rx \in DOMAIN channels'
    BY <1>0, <1>1, <2>2, <2>3, EntryOfChannel
  <2> QED
    BY <2>2, <2>3, <2>4, <2>5
<1>6. \A n \in pending' : n.rx \in DOMAIN channels' /\ SnapOK(n.snapshot)
  BY <1>1, <1>2, <1>5 DEF ChannelsInv
<1>7. ASSUME NEW k \in Keys, Present(k)'
      PROVE  Tuned(k)'
  <2>1. PICK e : e = EntryOrCreate(k)
    OBVIOUS
  <2>2. PICK n : n = entries'[k]
    OBVIOUS
  <2>3. PICK rx : rx = e.incarnation
    OBVIOUS
  <2>4. /\ Told(e, n) /\ e.snap_version \in Nat
        /\ n.incarnation = rx /\ rx \in DOMAIN channels'
    BY <1>0, <1>1, <1>7, <2>1, <2>2, <2>3, EntryOfChannel, EntryOrCreateOK, ShapeSnapshots
    DEF EntryOK, Entry
  <2>5. IF Present(k) THEN rx \in DOMAIN channels /\ e = entries[k]
        ELSE rx \notin DOMAIN channels /\ e.snap_version = 0 /\ EmptySnapshot = Snapshot(e)
    <3>1. CASE Present(k)
      BY <2>1, <2>3, <3>1, OpenChannel DEF EntryOrCreate
    <3>2. CASE ~Present(k)
      <4>1. e = NewEntry(next_incarnation)
        BY <2>1, <3>2 DEF EntryOrCreate
      <4>2. rx = next_incarnation
        BY <2>3, <4>1 DEF NewEntry
      <4> QED
        BY <1>0, <3>2, <4>1, <4>2, NewSnapshot DEF ChannelsInv
    <3> QED
      BY <3>1, <3>2
  <2>6. PICK c : c = channels'[rx]
    OBVIOUS
  <2>7. /\ Tells(c, e) /\ c.version \in Nat
        /\ \A m \in pending : m.rx = rx => Tells(m.snapshot, e)
        /\ \/ c.version = e.snap_version
           \/ \E m \in pending : m.rx = rx /\ m.snapshot.version = e.snap_version
    <3>1. CASE Present(k)
      <4>1. Tuned(k) /\ e = entries[k] /\ rx \in DOMAIN channels /\ c = channels[rx]
        BY <1>1, <2>4, <2>5, <2>6, <3>1 DEF ChannelsInv
      <4> QED
        BY <2>3, <4>1, SnapVersion DEF Tuned, Unsent
    <3>2. CASE ~Present(k)
      <4>1. c = EmptySnapshot /\ c = Snapshot(e) /\ e.snap_version = 0
        BY <1>1, <2>4, <2>5, <2>6, <3>2
      <4>2. c.version = 0
        BY <4>1, SnapshotFields
      <4>3. \A m \in pending : m.rx # rx
        BY <2>5, <3>2 DEF ChannelsInv
      <4> QED
        BY <4>1, <4>2, <4>3 DEF Tells
    <3> QED
      BY <3>1, <3>2
  <2>8. Tells(c, n) /\ \A m \in pending : m.rx = rx => Tells(m.snapshot, n)
    BY <2>4, <2>7, StillTells, SnapVersion
  <2>9. Tells(Snapshot(n), n)
    BY <2>4, SnapshotFields DEF Told, Tells
  <2>10. \A m \in Notifies(by) : m.rx = rx => Tells(m.snapshot, n)
    BY <1>5, <1>7, <2>2, <2>4, <2>9, EntryOfChannel DEF IncarnationsDiffer
  <2>11. \A m \in pending' : m.rx = rx => Tells(m.snapshot, n)
    BY <1>1, <2>8, <2>10
  <2>12. \/ c.version = n.snap_version
         \/ \E m \in pending' : m.rx = rx /\ m.snapshot.version = n.snap_version
    <3>1. CASE n.snap_version = e.snap_version
      BY <1>1, <2>7, <3>1
    <3>2. CASE n.snap_version # e.snap_version
      <4>1. VersionBefore(k) = e.snap_version
        BY <2>2, <2>3, <2>4, <2>5 DEF VersionBefore
      <4> DEFINE m == [rx |-> entries'[k].incarnation,
                       snapshot |-> Snapshot(entries'[k]), by |-> by]
      <4>2. m \in Notifies(by)
        BY <1>7, <2>2, <3>2, <4>1 DEF Notifies, Present
      <4>3. m.rx = rx /\ m.snapshot.version = n.snap_version
        BY <2>2, <2>4, SnapshotFields
      <4> HIDE DEF m
      <4> QED
        BY <1>1, <4>2, <4>3
    <3> QED
      BY <3>1, <3>2
  <2>13. entries'[k].incarnation = rx /\ n = entries'[k] /\ c = channels'[rx]
    BY <2>2, <2>4, <2>6
  <2> QED
    BY <2>8, <2>11, <2>12, <2>13, Zenon DEF Tuned, Unsent
<1> QED
  BY <1>1, <1>3, <1>4, <1>6, <1>7 DEF ChannelsInv

LEMMA StillChannels ==
    ASSUME ChannelsInv, UNCHANGED <<entries, next_incarnation, channels, pending>>
    PROVE  ChannelsInv' /\ Grown
<1>1. \A i \in DOMAIN channels : channels[i].version \in Nat
  BY SnapVersion
<1> QED
  BY <1>1 DEF ChannelsInv, Present, Tuned, Unsent, Grown

LEMMA ShellEffects ==
    ASSUME [ShellNext]_shellVars
    PROVE  \/ \E n \in pending : Send(n)
           \/ \E by : Effects(by)
           \/ UNCHANGED <<entries, next_incarnation, channels, pending>>
<1>1. ASSUME \/ \E r \in Readers : Reread(r) \/ Poke(r)
             \/ \E r \in Readers, k \in Keys, policy \in Policies : Read(r, k, policy)
             \/ \E k \in Keys, supplied \in BOOLEAN, opts \in OptionChoices :
                   Subscribing(k, supplied, opts)
             \/ \E h \in handles : Unsubscribing(h)
             \/ Alone(None)
             \/ Reports
             \/ Fires
             \/ \E m \in Mutators : Ends(m) \/ ByMutator(m)
      PROVE  \E by : Effects(by)
  BY <1>1 DEF Reread, Read, Ask, Poke, Subscribing, Unsubscribing, Alone, Reports, Fires,
     Ends, ByMutator
<1>2. ASSUME \/ \E r \in Readers : Check(r) \/ Wake(r)
             \/ \E id \in DOMAIN watchers : Bind(id) \/ Changed(id) \/ Show(id)
             \/ UNCHANGED shellVars
      PROVE  UNCHANGED <<entries, next_incarnation, channels, pending>>
  BY <1>2 DEF Check, Wake, Bind, Changed, Show, Follow, shellVars, vars
<1> QED
  BY <1>1, <1>2 DEF ShellNext

\* Every step leaves the channels sound and only moves them on.
LEMMA ShellChannels ==
    ASSUME IInv, IInv', IncarnationsDiffer, ChannelsInv, StepShape, [ShellNext]_shellVars
    PROVE  ChannelsInv' /\ Grown
  BY ShellEffects, SendChannels, EffectsChannels, StillChannels

-----------------------------------------------------------------------------
(* Readers *)

\* The read of fetch(), which always brings its fetcher.
Asked(e, policy, now) == OnRead(e, policy, TRUE, Defaults, now)

Outcome(e, policy, now) == OutcomeOfRead(e, policy, TRUE, Defaults, now)

LEMMA AskedLeaves ==
    ASSUME NEW e, EntryOK(e), NEW policy, NEW now
    PROVE  LET after == Asked(e, policy, now).entry
           IN  /\ after.fetcher
               /\ after.data = e.data /\ after.error = e.error
               /\ after.mutation_active = e.mutation_active
               /\ \/ after.inflight = e.inflight /\ after.seq = e.seq
                  \/ after.inflight = e.seq + 1 /\ after.seq = e.seq + 1
               /\ \/ policy = "CacheOnly"
                  \/ FreshHit(e, Defaults, now)
                  \/ after.inflight # None
                  \/ 0 < after.mutation_active
<1> DEFINE read == [e EXCEPT !.fetcher = TRUE, !.last_touch_gc_time = Defaults.gc_time]
<1>1. e \in Entry /\ e.seq + 1 # None
  BY NoneAssumption DEF EntryOK, Entry
<1>2. /\ read.fetcher /\ read.data = e.data /\ read.error = e.error
      /\ read.mutation_active = e.mutation_active /\ read.inflight = e.inflight
      /\ read.seq = e.seq /\ read.data_seq = e.data_seq
      /\ e.mutation_active \in Nat
  BY <1>1 DEF Entry
<1> DEFINE launched == StartFetch(read)
<1>3. /\ launched.fetcher /\ launched.data = e.data /\ launched.error = e.error
      /\ launched.mutation_active = e.mutation_active
      /\ launched.inflight = e.seq + 1 /\ launched.seq = e.seq + 1
  BY <1>1 DEF StartFetch, Entry
<1>4. Asked(e, policy, now).entry =
        IF policy # "CacheOnly" /\ ~FreshHit(e, Defaults, now) /\ CanStartFetch(read)
        THEN launched ELSE read
  BY DEF Asked, OnRead, LaunchIf, Launch, Reply
<1> HIDE DEF read, launched
<1>5. CanStartFetch(read) <=> e.mutation_active = 0 /\ e.inflight = None
  BY <1>2 DEF CanStartFetch
<1> DEFINE after == Asked(e, policy, now).entry
           hit == FreshHit(e, Defaults, now)
<1>6. after = IF policy # "CacheOnly" /\ ~hit /\ CanStartFetch(read) THEN launched ELSE read
  BY <1>4
<1> HIDE DEF after, hit
<1> DEFINE Spared == /\ after.fetcher
                     /\ after.data = e.data /\ after.error = e.error
                     /\ after.mutation_active = e.mutation_active
                     /\ \/ after.inflight = e.inflight /\ after.seq = e.seq
                        \/ after.inflight = e.seq + 1 /\ after.seq = e.seq + 1
                     /\ \/ policy = "CacheOnly" \/ hit
                        \/ after.inflight # None \/ 0 < after.mutation_active
<1>7. ASSUME after = launched PROVE Spared
  BY <1>1, <1>3, <1>7
<1>8. ASSUME after = read, policy = "CacheOnly" \/ hit \/ ~CanStartFetch(read) PROVE Spared
  BY <1>2, <1>5, <1>8
<1> QED
  BY <1>6, <1>7, <1>8 DEF after, hit

\* A read that brings its fetcher is served at once or told what to wait for,
\* which is newer than what the entry has.
LEMMA OutcomeIsOK ==
    ASSUME NEW e, EntryOK(e), NEW policy, NEW now
    PROVE  LET o == Outcome(e, policy, now)
           IN  \/ /\ o.kind = "Ready"
                  /\ o.data \in Value \cup {None} /\ o.error \in Error \cup {None}
               \/ /\ o.kind = "Wait" /\ policy # "CacheOnly"
                  /\ o.target \in Nat /\ Floor(e, o) \in Nat /\ Floor(e, o) < o.target
<1> DEFINE after == Asked(e, policy, now).entry
           o == Outcome(e, policy, now)
           hit == FreshHit(e, Defaults, now)
<1>1. /\ after.data = e.data /\ after.error = e.error
      /\ after.mutation_active = e.mutation_active
      /\ \/ after.inflight = e.inflight /\ after.seq = e.seq
         \/ after.inflight = e.seq + 1 /\ after.seq = e.seq + 1
      /\ \/ policy = "CacheOnly" \/ hit
         \/ after.inflight # None \/ 0 < after.mutation_active
  BY AskedLeaves
<1>2. /\ e.data \in Value \cup {None} /\ e.error \in Error \cup {None}
      /\ e.seq \in Nat /\ e.data_seq \in Nat /\ e.mutation_active \in Nat
      /\ e.inflight \in Nat \cup {None}
  BY DEF EntryOK, Entry
<1>3. e.data_seq <= e.seq
  BY <1>2 DEF EntryOK, DataOK
<1>4. /\ 0 < e.mutation_active => 0 < e.seq /\ e.inflight = None
      /\ e.inflight # None => e.inflight = e.seq /\ e.data_seq < e.seq
  BY <1>2 DEF EntryOK, FlightOK
<1>5. o = IF \/ policy = "CacheOnly"
             \/ hit
             \/ policy = "StaleWhileRevalidate" /\ e.data # None
          THEN [kind |-> "Ready", data |-> after.data, error |-> after.error]
          ELSE IF after.inflight # None THEN [kind |-> "Wait", target |-> after.inflight]
          ELSE IF after.mutation_active > 0 THEN [kind |-> "Wait", target |-> after.seq]
          ELSE [kind |-> "NoFetcher"]
  BY DEF Outcome, OutcomeOfRead, Asked
<1> HIDE DEF after, o, hit
<1> DEFINE Ready == /\ o.kind = "Ready"
                    /\ o.data \in Value \cup {None} /\ o.error \in Error \cup {None}
           Wait == /\ o.kind = "Wait" /\ policy # "CacheOnly"
                   /\ o.target \in Nat /\ Floor(e, o) \in Nat /\ Floor(e, o) < o.target
<1>6. ASSUME o = [kind |-> "Ready", data |-> after.data, error |-> after.error]
      PROVE  Ready
  BY <1>1, <1>2, <1>6
<1>7. ASSUME policy # "CacheOnly", after.inflight # None,
             o = [kind |-> "Wait", target |-> after.inflight]
      PROVE  Wait
  <2>1. o.kind = "Wait" /\ o.target = after.inflight
    BY <1>7
  <2>2. o.target \in Nat /\ e.data_seq < o.target
    BY <1>1, <1>2, <1>3, <1>4, <1>7, <2>1
  <2>3. Floor(e, o) \in Nat /\ Floor(e, o) < o.target
    BY <1>2, <2>2 DEF Floor
  <2> QED
    BY <1>7, <2>1, <2>2, <2>3
<1>8. ASSUME policy # "CacheOnly", after.inflight = None, 0 < after.mutation_active,
             o = [kind |-> "Wait", target |-> after.seq]
      PROVE  Wait
  <2>1. o.kind = "Wait" /\ o.target = after.seq
    BY <1>8
  <2>2. o.target \in Nat /\ 0 < o.target /\ 0 < e.mutation_active
    BY <1>1, <1>2, <1>4, <1>8, <2>1, NoneAssumption
  <2>3. Floor(e, o) \in Nat /\ Floor(e, o) < o.target
    BY <1>2, <2>2 DEF Floor
  <2> QED
    BY <1>8, <2>1, <2>2, <2>3
<1> HIDE DEF Ready, Wait
<1>9. Ready \/ Wait
  BY <1>1, <1>2, <1>5, <1>6, <1>7, <1>8
<1> QED
  BY <1>9 DEF Ready, Wait, o

\* A reader that does nothing stays in order whatever the others do.
LEMMA ReaderStays ==
    ASSUME IInv, IncarnationsDiffer, ChannelsInv, ChannelsInv', StepShape, Grown, NEW d \in ReaderType,
           Waiting(d), Unserved(d), Answered(d)
    PROVE  Waiting(d)' /\ Unserved(d)' /\ Answered(d)'
<1>1. Answered(d)'
  BY DEF Answered, IsResult
<1>2. CASE d.phase \notin {"check", "poke", "parked"}
  BY <1>1, <1>2 DEF Waiting, Unserved
<1>3. CASE d.phase \in {"check", "poke", "parked"}
  <2>1. /\ d.rx \in DOMAIN channels /\ d.rx \in DOMAIN channels'
        /\ d.target \in Nat /\ d.floor < d.target /\ d.seen \in Nat
        /\ d.rx \in Nat /\ d.rx < next_incarnation
        /\ channels[d.rx].version <= channels'[d.rx].version
        /\ channels[d.rx].version \in Nat /\ channels'[d.rx].version \in Nat
    <3>1. d.rx \in DOMAIN channels /\ d.target \in Nat /\ d.floor < d.target
      BY <1>3 DEF Waiting
    <3>2. d.rx \in Nat /\ d.rx < next_incarnation /\ d.seen \in Nat
      BY <3>1 DEF ChannelsInv, ReaderType
    <3>3. /\ d.rx \in DOMAIN channels'
          /\ channels[d.rx].version <= channels'[d.rx].version
      BY <3>1 DEF Grown
    <3>4. channels[d.rx].version \in Nat /\ channels'[d.rx].version \in Nat
      BY <3>1, <3>3 DEF ChannelsInv, SnapOK, SnapshotType
    <3> QED
      BY <3>1, <3>2, <3>3, <3>4
  <2>2. ASSUME NEW x \in Keys, Present(x)', entries'[x].incarnation = d.rx
        PROVE  /\ Present(x) /\ entries[x].incarnation = d.rx
               /\ EntryOrCreate(x) = entries[x]
               /\ x = d.key /\ entries[x].fetcher
               /\ entries'[x].fetcher
               /\ Told(entries[x], entries'[x])
    <3>1. Present(x)
      BY <2>1, <2>2, EntryOfChannel
    <3>2. EntryOrCreate(x) = entries[x]
      BY <3>1 DEF EntryOrCreate
    <3>3. Told(entries[x], entries'[x])
      BY <2>2, <3>2, ShapeSnapshots
    <3>4. entries[x].incarnation = d.rx
      BY <2>2, <3>3 DEF Told
    <3>5. x = d.key /\ entries[x].fetcher
      BY <1>3, <3>1, <3>4 DEF Waiting
    <3>6. entries'[x].fetcher
      BY <3>3, <3>5, Zenon DEF Told
    <3> QED
      BY <3>1, <3>2, <3>3, <3>4, <3>5, <3>6
  <2>3. Waiting(d)'
    BY <2>1, <2>2, Zenon DEF Waiting
  <2>4. ASSUME d.phase = "check" PROVE Unserved(d)'
    BY <2>4 DEF Unserved
  <2>5. ASSUME d.phase \in {"poke", "parked"} PROVE Unserved(d)'
    <3>1. d.seen <= channels[d.rx].version
      BY <2>5 DEF Unserved
    <3>2. d.seen <= channels'[d.rx].version
      BY <2>1, <3>1
    <3>3. ASSUME NEW x \in Keys, Present(x)', entries'[x].incarnation = d.rx,
                 entries'[x].snap_version = d.seen
          PROVE  /\ entries'[x].data_seq < d.target /\ entries'[x].error_seq < d.target
                 /\ d.phase = "parked" =>
                      entries'[x].inflight # None \/ 0 < entries'[x].mutation_active
      <4>1. /\ Present(x) /\ entries[x].incarnation = d.rx
            /\ Told(entries[x], entries'[x])
        BY <2>2, <3>3
      <4>2. entries[x].snap_version \in Nat /\ channels[d.rx].version <= entries[x].snap_version
        BY <4>1 DEF ChannelsInv, Tuned, Tells, IInv, EntryOK, Entry
      <4>3. /\ entries'[x].snap_version = entries[x].snap_version
            /\ Visible(entries'[x]) = Visible(entries[x])
        BY <2>1, <3>1, <3>3, <4>1, <4>2 DEF Told
      <4>4. /\ entries[x].data_seq < d.target /\ entries[x].error_seq < d.target
            /\ d.phase = "parked" =>
                 entries[x].inflight # None \/ entries[x].mutation_active > 0
        BY <2>5, <3>3, <4>1, <4>3 DEF Unserved
      <4>5. (entries'[x].mutation_active > 0) = (entries[x].mutation_active > 0)
            /\ entries'[x].data_seq = entries[x].data_seq
            /\ entries'[x].error_seq = entries[x].error_seq
            /\ entries'[x].inflight = entries[x].inflight
        BY <4>3, SameVisible
      <4> QED
        BY <4>4, <4>5
    <3> QED
      BY <3>2, <3>3 DEF Unserved
  <2> QED
    BY <1>1, <1>3, <2>3, <2>4, <2>5
<1> QED
  BY <1>2, <1>3

LEMMA ReaderFields ==
    ASSUME NEW d \in ReaderType
    PROVE  /\ d.key \in Keys \cup {None} /\ d.rx \in Nat \cup {None}
           /\ d.target \in Nat \cup {None} /\ d.floor \in Nat /\ d.seen \in Nat
           /\ d.phase \in {"idle", "check", "poke", "parked", "closed", "done"}
  BY DEF ReaderType

\* What a reader returns with.
LEMMA ReturnedReader ==
    ASSUME NEW old \in ReaderType, NEW result,
           \/ \E v \in Value : result = [kind |-> "ok", value |-> v]
           \/ \E v \in Error : result = [kind |-> "error", value |-> v]
           \/ result = [kind |-> "miss"]
    PROVE  LET d == Returned(old, result)
           IN  /\ d \in ReaderType /\ d.phase = "done" /\ d.result = result
               /\ d.rx = old.rx /\ d.floor = old.floor
               /\ IsResult(result)
<1>1. result \in [kind : {"ok"}, value : Value] \cup [kind : {"error"}, value : Error]
                 \cup [kind : {"miss"}] \cup {None}
  OBVIOUS
<1>2. IsResult(result)
  BY DEF IsResult
<1> DEFINE d == [old EXCEPT !.phase = "done", !.result = result]
<1>3. d \in ReaderType
  BY <1>1, ZenonT(60) DEF ReaderType
<1>4. d.phase = "done" /\ d.result = result /\ d.rx = old.rx /\ d.floor = old.floor
  BY DEF ReaderType
<1> QED
  BY <1>2, <1>3, <1>4 DEF Returned

\* A read ends fetch(), with a result, or begins a wait for something newer.
LEMMA AfterReadIs ==
    ASSUME NEW e, EntryOK(e), NEW policy, NEW now,
           NEW asked \in ReaderType, asked.rx = None, asked.result = None
    PROVE  LET d == AfterRead(asked, e, Outcome(e, policy, now))
           IN  /\ d \in ReaderType
               /\ \/ d.phase = "done" /\ d.rx = None /\ IsResult(d.result)
                  \/ /\ d.phase = "check" /\ policy # "CacheOnly"
                     /\ d.key = asked.key /\ d.rx = e.incarnation /\ d.result = None
                     /\ d.target \in Nat /\ d.floor < d.target
<1> DEFINE o == Outcome(e, policy, now)
           d == AfterRead(asked, e, o)
           waits == [asked EXCEPT !.phase = "check", !.rx = e.incarnation,
                                  !.target = o.target, !.floor = Floor(e, o)]
           Ended == d.phase = "done" /\ d.rx = None /\ IsResult(d.result)
           Waits == /\ d.phase = "check" /\ policy # "CacheOnly"
                    /\ d.key = asked.key /\ d.rx = e.incarnation /\ d.result = None
                    /\ d.target \in Nat /\ d.floor < d.target
<1>1. asked \in ReaderType
  BY ZenonT(60) DEF ReaderType
<1>2. asked.rx = None /\ asked.result = None /\ asked.key = asked.key
  BY DEF ReaderType
<1>3. \/ /\ o.kind = "Ready"
         /\ o.data \in Value \cup {None} /\ o.error \in Error \cup {None}
      \/ /\ o.kind = "Wait" /\ policy # "CacheOnly"
         /\ o.target \in Nat /\ Floor(e, o) \in Nat /\ Floor(e, o) < o.target
  BY OutcomeIsOK
<1>4. e.incarnation \in Nat
  BY DEF EntryOK, Entry
<1> HIDE DEF o
<1>5. ASSUME o.kind = "Ready"
      PROVE  d \in ReaderType /\ Ended
  <2>1. d = Returned(asked, ReadyResult(o))
    BY <1>5 DEF AfterRead
  <2>2. \/ \E v \in Value : ReadyResult(o) = [kind |-> "ok", value |-> v]
        \/ \E v \in Error : ReadyResult(o) = [kind |-> "error", value |-> v]
        \/ ReadyResult(o) = [kind |-> "miss"]
    BY <1>3, <1>5 DEF ReadyResult
  <2> HIDE DEF d
  <2> QED
    BY <2>1, <2>2, ReturnedReader
<1>6. ASSUME o.kind = "Wait"
      PROVE  d \in ReaderType /\ Waits
  <2>1. d = waits
    BY <1>6 DEF AfterRead
  <2>2. /\ policy # "CacheOnly" /\ o.target \in Nat
        /\ Floor(e, o) \in Nat /\ Floor(e, o) < o.target
    BY <1>3, <1>6
  <2>3. PICK target : target = o.target
    OBVIOUS
  <2>4. PICK floor : floor = Floor(e, o)
    OBVIOUS
  <2>5. d = [asked EXCEPT !.phase = "check", !.rx = e.incarnation,
                          !.target = target, !.floor = floor]
    BY <2>1, <2>3, <2>4
  <2> HIDE DEF d, waits
  <2>6. d \in ReaderType
    BY <1>1, <1>2, <1>4, <2>2, <2>3, <2>4, <2>5, ZenonT(60) DEF ReaderType
  <2>7. /\ d.phase = "check" /\ d.key = asked.key /\ d.rx = e.incarnation /\ d.result = None
        /\ d.target = target /\ d.floor = floor
    BY <2>5 DEF ReaderType
  <2> QED
    BY <2>2, <2>3, <2>4, <2>6, <2>7
<1> HIDE DEF d, Ended, Waits
<1>7. d \in ReaderType /\ (Ended \/ Waits)
  BY <1>3, <1>5, <1>6
<1> QED
  BY <1>7 DEF d, Ended, Waits, o

\* The reader's own read gives the entry its fetcher.
LEMMA AskedEntry ==
    ASSUME IInv, NEW k \in Keys, NEW policy, policy # "CacheOnly", NEW now \in Sampled,
           ReadAt(k, policy, now)
    PROVE  Present(k)' /\ entries'[k].fetcher
<1> DEFINE r == Asked(EntryOrCreate(k), policy, now)
           A == [x \in {k} |-> r]
<1>1. Dispatch(A, now, {}, {})
  BY DEF ReadAt, At, Asked
<1>2. r.entry.fetcher
  BY EntryOrCreateOK, AskedLeaves
<1>3. EntryOK(r.entry)
  BY EntryOrCreateOK, OnReadOK, DefaultsAssumption DEF Asked, ReplyOK
<1>4. DOMAIN A = {k} /\ A[k] = r
  OBVIOUS
<1> HIDE DEF A, r
<1>5. entries'[k] = Settle(r, now)
  BY <1>1, <1>4 DEF Dispatch
<1>6. EntryOK(Settle(r, now))
  BY <1>3, SettleOK
<1>7. Settle(r, now).fetcher
  BY <1>2, <1>3, SettleFields DEF EntryOK
<1> QED
  BY <1>5, <1>6, <1>7, AbsenceAssumption DEF EntryOK, Present

LEMMA AskReader ==
    ASSUME IInv, IncarnationsDiffer, ChannelsInv', StepShape,
           NEW r \in Readers, NEW k \in Keys, NEW policy \in Policies \cup {None},
           Ask(r, k, policy),
           readers[r] \in ReaderType, readers[r].rx = None, readers[r].result = None
    PROVE  \E d \in ReaderType :
              /\ readers' = [readers EXCEPT ![r] = d]
              /\ Waiting(d)' /\ Unserved(d)' /\ Answered(d)'
<1> DEFINE asked == [readers[r] EXCEPT !.key = k, !.policy = policy]
<1>1. asked \in ReaderType
  BY ZenonT(60) DEF ReaderType
<1>2. asked.rx = None /\ asked.result = None /\ asked.key = k
  BY DEF ReaderType
<1>3. PICK now \in Sampled :
        /\ ReadAt(k, policy, now)
        /\ readers' = [readers EXCEPT ![r] =
             AfterRead(asked, EntryOrCreate(k), Outcome(EntryOrCreate(k), policy, now))]
  BY Zenon DEF Ask, Outcome
<1> HIDE DEF asked
<1>4. PICK d : d = AfterRead(asked, EntryOrCreate(k), Outcome(EntryOrCreate(k), policy, now))
  OBVIOUS
<1>5. readers' = [readers EXCEPT ![r] = d]
  BY <1>3, <1>4
<1>6. /\ d \in ReaderType
      /\ \/ d.phase = "done" /\ d.rx = None /\ IsResult(d.result)
         \/ /\ d.phase = "check" /\ policy # "CacheOnly"
            /\ d.key = k /\ d.rx = EntryOrCreate(k).incarnation /\ d.result = None
            /\ d.target \in Nat /\ d.floor < d.target
  BY <1>1, <1>2, <1>4, AfterReadIs, EntryOrCreateOK
<1>7. ASSUME d.phase = "done", d.rx = None, IsResult(d.result)
      PROVE  Waiting(d)' /\ Unserved(d)' /\ Answered(d)'
  BY <1>7 DEF Waiting, Unserved, Answered, IsResult
<1>8. ASSUME d.phase = "check", policy # "CacheOnly",
             d.key = k, d.rx = EntryOrCreate(k).incarnation, d.result = None,
             d.target \in Nat, d.floor < d.target
      PROVE  Waiting(d)' /\ Unserved(d)' /\ Answered(d)'
  <2>1. Present(k)' /\ entries'[k].fetcher
    BY <1>3, <1>8, AskedEntry
  <2>2. /\ entries'[k].incarnation = d.rx /\ d.rx \in Nat /\ d.rx < next_incarnation'
        /\ next_incarnation' \in Nat
    BY <1>8, <2>1, EntryOfChannel
  <2>3. d.rx \in DOMAIN channels'
    BY <2>2 DEF ChannelsInv
  <2>4. \A x \in Keys : Present(x)' /\ entries'[x].incarnation = d.rx => x = k
    BY <2>1, <2>2, EntryOfChannel DEF IncarnationsDiffer
  <2>5. Waiting(d)'
    BY <1>8, <2>1, <2>3, <2>4, Zenon DEF Waiting
  <2> QED
    BY <1>8, <2>5 DEF Unserved, Answered
<1>9. Waiting(d)' /\ Unserved(d)' /\ Answered(d)'
  BY <1>6, <1>7, <1>8
<1> QED
  BY <1>5, <1>6, <1>9, Zenon

\* One pass of the wait loop.
LEMMA CheckReader ==
    ASSUME IInv, IncarnationsDiffer, ChannelsInv,
           NEW old \in ReaderType, old.phase = "check",
           Waiting(old), Answered(old)
    PROVE  \E d \in ReaderType :
              /\ d = Checked(old, channels[old.rx])
              /\ Waiting(d) /\ Unserved(d) /\ Answered(d)
<1>1. PICK s : s = channels[old.rx]
  OBVIOUS
<1>2. PICK d : d = Checked(old, s)
  OBVIOUS
<1>3. /\ old.rx \in DOMAIN channels /\ old.target \in Nat /\ old.floor < old.target
      /\ old.key \in Keys /\ old.floor \in Nat /\ old.result = None
  BY DEF Waiting, Answered, ReaderType
<1>4. SnapOK(s)
  BY <1>1, <1>3 DEF ChannelsInv
<1>5. /\ s.version \in Nat /\ s.data_seq \in Nat /\ s.error_seq \in Nat
      /\ s.data \in Value \cup {None} /\ s.error \in Error \cup {None}
  BY <1>4 DEF SnapOK, SnapshotType
<1>6. ASSUME s.data_seq >= old.target
      PROVE  d \in ReaderType /\ Waiting(d) /\ Unserved(d) /\ Answered(d)
  <2>1. d = Returned(old, [kind |-> "ok", value |-> s.data])
    BY <1>2, <1>6 DEF Checked
  <2>2. s.data # None /\ s.data.seq = s.data_seq
    BY <1>3, <1>4, <1>5, <1>6 DEF SnapOK
  <2>3. PICK result : result = [kind |-> "ok", value |-> s.data]
    OBVIOUS
  <2>4. /\ d \in ReaderType /\ d.phase = "done" /\ d.result = result
        /\ d.floor = old.floor /\ IsResult(result)
    BY <1>5, <2>1, <2>2, <2>3, ReturnedReader
  <2>5. result.value.seq > old.floor
    BY <1>3, <1>5, <1>6, <2>2, <2>3
  <2> QED
    BY <1>3, <2>4, <2>5 DEF Waiting, Unserved, Answered
<1>7. ASSUME ~(s.data_seq >= old.target), s.error_seq >= old.target
      PROVE  d \in ReaderType /\ Waiting(d) /\ Unserved(d) /\ Answered(d)
  <2>1. d = Returned(old, [kind |-> "error", value |-> s.error])
    BY <1>2, <1>7 DEF Checked
  <2>2. s.error # None
    BY <1>3, <1>4, <1>5, <1>7 DEF SnapOK, ErrorOK
  <2>3. PICK result : result = [kind |-> "error", value |-> s.error]
    OBVIOUS
  <2>4. /\ d \in ReaderType /\ d.phase = "done" /\ d.result = result /\ IsResult(result)
    BY <1>5, <2>1, <2>2, <2>3, ReturnedReader
  <2> QED
    BY <2>3, <2>4 DEF Waiting, Unserved, Answered
<1>8. ASSUME ~(s.data_seq >= old.target), ~(s.error_seq >= old.target)
      PROVE  d \in ReaderType /\ Waiting(d) /\ Unserved(d) /\ Answered(d)
  <2>1. PICK phase : phase = IF s.inflight = None /\ ~s.is_mutating THEN "poke" ELSE "parked"
    OBVIOUS
  <2>2. d = [old EXCEPT !.seen = s.version, !.phase = phase]
    BY <1>2, <1>8, <2>1 DEF Checked
  <2>3. phase \in {"poke", "parked"}
    BY <2>1
  <2>4. d \in ReaderType
    BY <1>5, <2>2, <2>3, ZenonT(60) DEF ReaderType
  <2>5. /\ d.phase = phase /\ d.seen = s.version /\ d.rx = old.rx /\ d.key = old.key
        /\ d.target = old.target /\ d.floor = old.floor /\ d.result = None
    BY <1>3, <2>2 DEF ReaderType
  <2>6. Waiting(d)
    BY <1>3, <2>5, Zenon DEF Waiting
  <2>7. Answered(d)
    BY <1>3, <2>3, <2>5 DEF Answered
  <2>8. ASSUME NEW x \in Keys, Present(x), entries[x].incarnation = d.rx,
               entries[x].snap_version = d.seen
        PROVE  /\ entries[x].data_seq < d.target /\ entries[x].error_seq < d.target
               /\ d.phase = "parked" =>
                    entries[x].inflight # None \/ 0 < entries[x].mutation_active
    <3>1. s = Snapshot(entries[x])
      BY <1>1, <2>5, <2>8 DEF ChannelsInv, Tuned, Tells
    <3>2. /\ s.data_seq = entries[x].data_seq /\ s.error_seq = entries[x].error_seq
          /\ s.inflight = entries[x].inflight
          /\ s.is_mutating = (entries[x].mutation_active > 0)
      BY <3>1, SnapshotFields
    <3>3. s.data_seq < d.target /\ s.error_seq < d.target
      BY <1>3, <1>5, <1>8, <2>5
    <3>4. d.phase = "parked" => s.inflight # None \/ s.is_mutating
      BY <2>1, <2>5
    <3> QED
      BY <3>2, <3>3, <3>4
  <2>9. d.seen <= channels[d.rx].version
    BY <1>1, <1>5, <2>5
  <2>10. Unserved(d)
    BY <2>8, <2>9, Zenon DEF Unserved
  <2> QED
    BY <2>4, <2>6, <2>7, <2>10
<1>9. d \in ReaderType /\ Waiting(d) /\ Unserved(d) /\ Answered(d)
  BY <1>6, <1>7, <1>8
<1> QED
  BY <1>1, <1>2, <1>9, Zenon

\* One wakeup: to look again, or to leave a closed channel.
LEMMA WakeReader ==
    ASSUME ChannelsInv, NEW r \in Readers, Wake(r), readers[r] \in ReaderType,
           Waiting(readers[r]), Answered(readers[r])
    PROVE  \E d \in ReaderType :
              /\ readers' = [readers EXCEPT ![r] = d]
              /\ Waiting(d)' /\ Unserved(d)' /\ Answered(d)'
<1>1. PICK old : old = readers[r]
  OBVIOUS
<1>2. PICK version : version = channels[old.rx].version
  OBVIOUS
<1>3. /\ old.phase = "parked" /\ old \in ReaderType
      /\ old.rx \in DOMAIN channels /\ old.target \in Nat /\ old.floor < old.target
      /\ \A x \in Keys : Present(x) /\ entries[x].incarnation = old.rx =>
            x = old.key /\ entries[x].fetcher
      /\ old.key \in Keys /\ old.result = None
  BY <1>1 DEF Wake, Waiting, Answered
<1>4. UNCHANGED <<entries, channels>>
  BY DEF Wake, vars
<1>5. version \in Nat
  BY <1>2, <1>3, SnapVersion
<1>6. ASSUME readers' = [readers EXCEPT ![r].phase = "check", ![r].seen = version]
      PROVE  \E d \in ReaderType :
                /\ readers' = [readers EXCEPT ![r] = d]
                /\ Waiting(d)' /\ Unserved(d)' /\ Answered(d)'
  <2> DEFINE d == [old EXCEPT !.phase = "check", !.seen = version]
  <2>1. d \in ReaderType
    BY <1>3, <1>5, ZenonT(60) DEF ReaderType
  <2>2. /\ d.phase = "check" /\ d.rx = old.rx /\ d.key = old.key
        /\ d.target = old.target /\ d.floor = old.floor /\ d.result = None
    BY <1>3 DEF ReaderType
  <2>3. readers' = [readers EXCEPT ![r] = d]
    BY <1>1, <1>6
  <2> HIDE DEF d
  <2>4. Waiting(d)'
    BY <1>3, <1>4, <2>2, Zenon DEF Waiting, Present
  <2>5. Unserved(d)' /\ Answered(d)'
    BY <1>3, <2>2 DEF Unserved, Answered
  <2> QED
    BY <2>1, <2>3, <2>4, <2>5, Zenon
<1>7. ASSUME readers' = [readers EXCEPT ![r].phase = "closed", ![r].rx = None]
      PROVE  \E d \in ReaderType :
                /\ readers' = [readers EXCEPT ![r] = d]
                /\ Waiting(d)' /\ Unserved(d)' /\ Answered(d)'
  <2> DEFINE d == [old EXCEPT !.phase = "closed", !.rx = None]
  <2>1. d \in ReaderType
    BY <1>3, ZenonT(60) DEF ReaderType
  <2>2. d.phase = "closed" /\ d.rx = None /\ d.key = old.key /\ d.result = None
    BY <1>3 DEF ReaderType
  <2>3. readers' = [readers EXCEPT ![r] = d]
    BY <1>1, <1>7
  <2> HIDE DEF d
  <2>4. Waiting(d)' /\ Unserved(d)' /\ Answered(d)'
    BY <1>3, <2>2 DEF Waiting, Unserved, Answered
  <2> QED
    BY <2>1, <2>3, <2>4, Zenon
<1> QED
  BY <1>1, <1>2, <1>6, <1>7 DEF Wake

\* RevalidateRequested on an entry with a fetcher leaves something under way.
LEMMA PokedEntry ==
    ASSUME IInv, NEW k \in Keys, Present(k), entries[k].fetcher, RequestRevalidation(k)
    PROVE  entries'[k].inflight # None \/ 0 < entries'[k].mutation_active
<1> DEFINE e == entries[k]
           r == OnRevalidateRequested(e)
           E == [x \in {y \in {k} : Present(y)} |-> OnRevalidateRequested(entries[x])]
<1>1. PICK now \in Sampled : Dispatch(E, now, {}, {})
  BY DEF RequestRevalidation, Existing
<1>2. k \in DOMAIN E /\ E[k] = r
  OBVIOUS
<1>3. entries'[k] = Settle(r, now)
  <2> HIDE DEF E, r
  <2> QED
    BY <1>1, <1>2 DEF Dispatch
<1>4. EntryOK(e)
  BY DEF IInv
<1>5. /\ e \in Entry /\ e.mutation_active \in Nat /\ e.seq + 1 # None
  BY <1>4, NoneAssumption DEF EntryOK, Entry
<1>6. r.entry = IF CanStartFetch(e) THEN StartFetch(e) ELSE e
  BY DEF OnRevalidateRequested, LaunchIf, Launch, Reply
<1>7. StartFetch(e).inflight = e.seq + 1
  BY <1>5 DEF StartFetch, Entry
<1>8. r.entry.inflight # None \/ 0 < r.entry.mutation_active
  <2>1. CASE CanStartFetch(e)
    BY <1>5, <1>6, <1>7, <2>1
  <2>2. CASE ~CanStartFetch(e)
    BY <1>5, <1>6, <2>2 DEF CanStartFetch
  <2> QED
    BY <2>1, <2>2
<1>9. r.entry \in Entry
  BY <1>4, OnRevalidateRequestedOK DEF ReplyOK, EntryOK
<1> HIDE DEF r
<1> QED
  BY <1>3, <1>8, <1>9, SettleFields

\* The wait loop asks for a flight when it finds none, and then sleeps.
LEMMA PokeReader ==
    ASSUME IInv, IncarnationsDiffer, ChannelsInv, ChannelsInv', StepShape, Grown,
           NEW r \in Readers, Poke(r), readers[r] \in ReaderType,
           Waiting(readers[r]), Unserved(readers[r]), Answered(readers[r])
    PROVE  \E d \in ReaderType :
              /\ readers' = [readers EXCEPT ![r] = d]
              /\ Waiting(d)' /\ Unserved(d)' /\ Answered(d)'
<1>1. PICK old : old = readers[r]
  OBVIOUS
<1>2. /\ old.phase = "poke" /\ old \in ReaderType /\ old.key \in Keys /\ old.result = None
      /\ old.rx \in DOMAIN channels
      /\ RequestRevalidation(old.key) /\ Answered(old)
      /\ Waiting(old) /\ Waiting(old)' /\ Unserved(old)'
  BY <1>1, ReaderStays DEF Poke, Answered, Waiting
<1> DEFINE d == [old EXCEPT !.phase = "parked"]
<1>3. d \in ReaderType
  BY <1>2, ZenonT(60) DEF ReaderType
<1>4. /\ d.phase = "parked" /\ d.rx = old.rx /\ d.key = old.key /\ d.seen = old.seen
      /\ d.target = old.target /\ d.floor = old.floor /\ d.result = None
  BY <1>2 DEF ReaderType
<1>5. readers' = [readers EXCEPT ![r] = d]
  BY <1>1 DEF Poke
<1> HIDE DEF d
<1>6. Waiting(d)'
  BY <1>2, <1>4, Zenon DEF Waiting
<1>7. Answered(d)'
  BY <1>2, <1>4 DEF Answered
<1>8. ASSUME NEW x \in Keys, Present(x)', entries'[x].incarnation = d.rx
      PROVE  entries'[x].inflight # None \/ 0 < entries'[x].mutation_active
  <2>1. Present(x) /\ entries[x].incarnation = old.rx
    <3>1. old.rx \in Nat /\ old.rx < next_incarnation
      BY <1>2 DEF ChannelsInv
    <3>2. Present(x)
      BY <1>4, <1>8, <3>1, EntryOfChannel
    <3> QED
      BY <1>4, <1>8, <3>2, EntryOfChannel DEF EntryOrCreate
  <2>2. x = old.key /\ entries[x].fetcher
    BY <1>2, <2>1 DEF Waiting
  <2> QED
    BY <1>2, <2>1, <2>2, PokedEntry
<1>9. Unserved(d)'
  <2>1. /\ old.seen <= channels'[old.rx].version
        /\ \A x \in Keys :
              Present(x)' /\ entries'[x].incarnation = old.rx
              /\ entries'[x].snap_version = old.seen
              => entries'[x].data_seq < old.target /\ entries'[x].error_seq < old.target
    BY <1>2 DEF Unserved
  <2> QED
    BY <1>4, <1>8, <2>1, Zenon DEF Unserved
<1> QED
  BY <1>3, <1>5, <1>6, <1>7, <1>9, Zenon

\* A step moves at most one reader, which stays in order.
LEMMA ShellReaders ==
    ASSUME IInv, IncarnationsDiffer, ChannelsInv, ChannelsInv', StepShape, Grown, ReadersInv,
           [ShellNext]_shellVars
    PROVE  ReadersInv'
<1>1. ASSUME UNCHANGED readers
      PROVE  ReadersInv'
  <2>1. ASSUME NEW r \in Readers
        PROVE  (Waiting(readers[r]) /\ Unserved(readers[r]) /\ Answered(readers[r]))'
    <3>1. PICK d \in ReaderType : d = readers[r]
      BY DEF ReadersInv
    <3>2. Waiting(d) /\ Unserved(d) /\ Answered(d)
      BY <3>1 DEF ReadersInv
    <3>3. Waiting(d)' /\ Unserved(d)' /\ Answered(d)'
      BY <3>2, ReaderStays
    <3>4. readers'[r] = d
      BY <1>1, <3>1
    <3> QED
      BY <3>3, <3>4 DEF Waiting, Unserved, Answered
  <2> QED
    BY <1>1, <2>1 DEF ReadersInv
<1>2. ASSUME NEW r \in Readers, NEW d \in ReaderType,
             readers' = [readers EXCEPT ![r] = d],
             Waiting(d)', Unserved(d)', Answered(d)'
      PROVE  ReadersInv'
  <2>1. readers' \in [Readers -> ReaderType]
    BY <1>2 DEF ReadersInv
  <2>2. ASSUME NEW x \in Readers
        PROVE  (Waiting(readers[x]) /\ Unserved(readers[x]) /\ Answered(readers[x]))'
    <3>1. CASE x = r
      <4>1. readers'[x] = d
        BY <1>2, <3>1 DEF ReadersInv
      <4> QED
        BY <1>2, <4>1 DEF Waiting, Unserved, Answered
    <3>2. CASE x # r
      <4>1. PICK o \in ReaderType : o = readers[x]
        BY DEF ReadersInv
      <4>2. Waiting(o) /\ Unserved(o) /\ Answered(o)
        BY <4>1 DEF ReadersInv
      <4>3. Waiting(o)' /\ Unserved(o)' /\ Answered(o)'
        BY <4>2, ReaderStays
      <4>4. readers'[x] = o
        BY <1>2, <3>2, <4>1 DEF ReadersInv
      <4> QED
        BY <4>3, <4>4 DEF Waiting, Unserved, Answered
    <3> QED
      BY <3>1, <3>2
  <2> QED
    BY <2>1, <2>2 DEF ReadersInv
<1>3. \A r \in Readers : readers[r] \in ReaderType /\ Waiting(readers[r])
                        /\ Unserved(readers[r]) /\ Answered(readers[r])
  BY DEF ReadersInv
<1>4. ASSUME NEW r \in Readers, NEW k \in Keys, NEW policy \in Policies, Read(r, k, policy)
      PROVE  ReadersInv'
  <2>1. readers[r].rx = None /\ readers[r].result = None /\ Ask(r, k, policy)
    BY <1>3, <1>4 DEF Read, Answered
  <2> QED
    BY <1>2, <1>3, <2>1, AskReader
<1>5. ASSUME NEW r \in Readers, Reread(r)
      PROVE  ReadersInv'
  <2>1. /\ readers[r].rx = None /\ readers[r].result = None
        /\ readers[r].key \in Keys /\ readers[r].policy \in Policies \cup {None}
        /\ Ask(r, readers[r].key, readers[r].policy)
    BY <1>3, <1>5 DEF Reread, Answered, ReaderType
  <2> QED
    BY <1>2, <1>3, <2>1, AskReader
<1>6. ASSUME NEW r \in Readers, Check(r)
      PROVE  ReadersInv'
  <2>1. PICK old \in ReaderType : old = readers[r]
    BY <1>3
  <2>2. PICK d \in ReaderType :
          d = Checked(old, channels[old.rx]) /\ Waiting(d) /\ Unserved(d) /\ Answered(d)
    BY <1>3, <1>6, <2>1, CheckReader DEF Check
  <2>3. UNCHANGED <<entries, channels>> /\ readers' = [readers EXCEPT ![r] = d]
    BY <1>6, <2>1, <2>2 DEF Check, vars
  <2>4. Waiting(d)' /\ Unserved(d)' /\ Answered(d)'
    BY <2>2, <2>3 DEF Waiting, Unserved, Answered, Present, IsResult
  <2> QED
    BY <1>2, <2>3, <2>4
<1>7. ASSUME NEW r \in Readers, Poke(r)
      PROVE  ReadersInv'
  BY <1>2, <1>3, <1>7, PokeReader
<1>8. ASSUME NEW r \in Readers, Wake(r)
      PROVE  ReadersInv'
  BY <1>2, <1>3, <1>8, WakeReader
<1>9. ASSUME \/ \E n \in pending : Send(n)
             \/ \E id \in DOMAIN watchers : Bind(id) \/ Changed(id) \/ Show(id)
             \/ \E k \in Keys, supplied \in BOOLEAN, opts \in OptionChoices :
                   Subscribing(k, supplied, opts)
             \/ \E h \in handles : Unsubscribing(h)
             \/ Alone(None)
             \/ Reports
             \/ Fires
             \/ \E m \in Mutators : Ends(m) \/ ByMutator(m)
             \/ UNCHANGED shellVars
      PROVE  UNCHANGED readers
  BY <1>9 DEF Send, Bind, Changed, Show, Follow, Subscribing, Unsubscribing, Alone, Reports,
     Fires, Ends, ByMutator, shellVars
<1> QED
  BY <1>1, <1>4, <1>5, <1>6, <1>7, <1>8, <1>9 DEF ShellNext

-----------------------------------------------------------------------------
(* The loops that follow the handles *)

\* A loop that does nothing keeps in step whatever is sent meanwhile.
LEMMA WatcherStays ==
    ASSUME IInv, HandlesInv, IncarnationsDiffer, ChannelsInv, ChannelsInv', Grown,
           NEW h \in handles, Watching(h), watchers'[h.sub_id] = watchers[h.sub_id]
    PROVE  Watching(h)'
<1>1. PICK w : w = watchers[h.sub_id]
  OBVIOUS
<1>2. PICK c : c = channels[w.rx]
  OBVIOUS
<1>3. PICK after : after = channels'[w.rx]
  OBVIOUS
<1>4. /\ w \in WatcherType /\ w.rx = h.incarnation /\ w.seen <= c.version
      /\ w.phase = "parked" =>
           /\ w.shown \in SnapshotType /\ w.seen <= w.shown.version
           /\ w.shown.version <= c.version
           /\ w.shown.version = c.version => w.shown = c
  BY <1>1, <1>2 DEF Watching
<1>5. w.rx \in DOMAIN channels
  BY <1>4, HandleFields, OpenChannel DEF HandlesInv, Watched
<1>6. /\ c.version \in Nat /\ after.version \in Nat /\ w.seen \in Nat
      /\ c.version <= after.version
      /\ after.version = c.version => after = c
  <2>1. /\ w.rx \in DOMAIN channels' /\ c.version <= after.version
        /\ after.version = c.version => after = c
    BY <1>2, <1>3, <1>5 DEF Grown
  <2>2. c.version \in Nat
    BY <1>2, <1>5, SnapVersion
  <2>3. after \in SnapshotType
    BY <1>3, <2>1 DEF ChannelsInv, SnapOK
  <2>4. after.version \in Nat
    BY <2>3 DEF SnapshotType
  <2>5. w.seen \in Nat
    BY <1>4 DEF WatcherType
  <2> QED
    BY <2>1, <2>2, <2>4, <2>5
<1>7. w.seen <= after.version
  BY <1>4, <1>6
<1>8. ASSUME w.phase = "parked"
      PROVE  /\ w.shown \in SnapshotType /\ w.seen <= w.shown.version
             /\ w.shown.version <= after.version
             /\ w.shown.version = after.version => w.shown = after
  <2>1. w.shown.version \in Nat
    BY <1>4, <1>8 DEF SnapshotType
  <2> QED
    BY <1>4, <1>6, <1>8, <2>1
<1>9. watchers'[h.sub_id] = w
  BY <1>1
<1> QED
  BY <1>3, <1>4, <1>7, <1>8, <1>9 DEF Watching

\* The loop that moves.
LEMMA WatcherMoves ==
    ASSUME IInv, HandlesInv, IncarnationsDiffer, ChannelsInv, WatchersInv,
           NEW h \in handles, Bind(h.sub_id) \/ Changed(h.sub_id) \/ Show(h.sub_id)
    PROVE  Watching(h)'
<1>1. PICK w : w = watchers[h.sub_id]
  OBVIOUS
<1>2. PICK c : c = channels[w.rx]
  OBVIOUS
<1>3. w \in WatcherType /\ w.rx = h.incarnation /\ w.seen <= c.version
  BY <1>1, <1>2 DEF WatchersInv, Watching
<1>4. w.rx \in DOMAIN channels
  BY <1>3, HandleFields, OpenChannel DEF HandlesInv, Watched
<1>5. c \in SnapshotType /\ c.version \in Nat /\ w.seen \in Nat
  BY <1>2, <1>3, <1>4 DEF ChannelsInv, SnapOK, SnapshotType, WatcherType
<1>6. h.sub_id \in DOMAIN watchers
  BY DEF WatchersInv
<1>7. channels' = channels
  BY DEF Bind, Changed, Show, Follow
<1>8. ASSUME watchers' = [watchers EXCEPT ![h.sub_id] =
                            [w EXCEPT !.phase = "parked", !.shown = c]]
      PROVE  Watching(h)'
  <2> DEFINE d == [w EXCEPT !.phase = "parked", !.shown = c]
  <2>1. d \in WatcherType
    BY <1>3, <1>5, ZenonT(60) DEF WatcherType
  <2>2. d.phase = "parked" /\ d.rx = w.rx /\ d.seen = w.seen /\ d.shown = c
    BY <1>3 DEF WatcherType
  <2>3. watchers'[h.sub_id] = d
    BY <1>6, <1>8
  <2> HIDE DEF d
  <2> QED
    BY <1>2, <1>3, <1>5, <1>7, <2>1, <2>2, <2>3 DEF Watching
<1>9. ASSUME watchers' = [watchers EXCEPT ![h.sub_id] =
                            [w EXCEPT !.phase = "woken", !.seen = c.version]]
      PROVE  Watching(h)'
  <2> DEFINE d == [w EXCEPT !.phase = "woken", !.seen = c.version]
  <2>1. d \in WatcherType
    BY <1>3, <1>5, ZenonT(60) DEF WatcherType
  <2>2. d.phase = "woken" /\ d.rx = w.rx /\ d.seen = c.version
    BY <1>3 DEF WatcherType
  <2>3. watchers'[h.sub_id] = d
    BY <1>6, <1>9
  <2> HIDE DEF d
  <2> QED
    BY <1>2, <1>3, <1>5, <1>7, <2>1, <2>2, <2>3 DEF Watching
<1> QED
  BY <1>1, <1>2, <1>8, <1>9 DEF Bind, Changed, Show, Follow

\* Only subscribe() and the drop of a handle change which handles live.
LEMMA HandlesKept ==
    ASSUME [ShellNext]_shellVars
    PROVE  \/ UNCHANGED <<handles, watchers>>
           \/ \E id \in DOMAIN watchers : Bind(id) \/ Changed(id) \/ Show(id)
           \/ \E k \in Keys, supplied \in BOOLEAN, opts \in OptionChoices :
                 Subscribing(k, supplied, opts)
           \/ \E h \in handles : Unsubscribing(h)
<1>1. ASSUME NEW r, NEW k, NEW policy, Ask(r, k, policy)
      PROVE  UNCHANGED <<handles, watchers>>
  BY <1>1 DEF Ask, ReadAt
<1>2. ASSUME NEW r, Poke(r)
      PROVE  UNCHANGED <<handles, watchers>>
  BY <1>2 DEF Poke, RequestRevalidation
<1>3. ASSUME \/ \E n \in pending : Send(n)
             \/ \E r \in Readers : Check(r) \/ Wake(r)
             \/ UNCHANGED shellVars
      PROVE  UNCHANGED <<handles, watchers>>
  BY <1>3 DEF Send, Check, Wake, shellVars, vars
<1>4. ASSUME \/ \E k \in Keys : Revalidate(k) /\ Alone(None)
             \/ \E prefix \in KeyPrefixes : Invalidate(prefix) /\ Alone(None)
             \/ \E ev \in EventKinds : Broadcast(ev) /\ Alone(None)
             \/ Tick /\ Alone(None)
      PROVE  UNCHANGED <<handles, watchers>>
  BY <1>4 DEF Revalidate, RequestRevalidation, Invalidate, Broadcast, Tick, Alone
<1>5. ASSUME \/ \E k \in Keys : Set(k) /\ Alone(None)
             \/ \E m \in Mutators, k \in Keys, optimistic \in BOOLEAN, flags \in FlagChoices :
                   MutateBegin(m, k, optimistic, flags) /\ ByMutator(m)
             \/ \E m \in Mutators : Ends(m)
      PROVE  UNCHANGED <<handles, watchers>>
  BY <1>5 DEF Set, MutateBegin, Ends, MutateCommit, MutateAbort, ByMutator, Alone
<1>6. ASSUME Reports \/ Fires
      PROVE  UNCHANGED <<handles, watchers>>
  BY <1>6 DEF Reports, FetchOk, FetchErr, Fires, GcTimer, RefreshTimer, Alone
<1> QED
  BY <1>1, <1>2, <1>3, <1>4, <1>5, <1>6 DEF ShellNext, Read, Reread

LEMMA SubscribingWatchers ==
    ASSUME IInv, HandlesInv, HandlesInv', IncarnationsDiffer, ChannelsInv, ChannelsInv',
           StepShape, Grown, WatchersInv,
           NEW k \in Keys, NEW supplied \in BOOLEAN, NEW opts \in OptionChoices,
           Subscribing(k, supplied, opts)
    PROVE  WatchersInv'
<1>1. PICK rx : rx = EntryOrCreate(k).incarnation
  OBVIOUS
<1>2. PICK version : version = channels'[rx].version
  OBVIOUS
<1>0. PICK h : h = [key |-> k, sub_id |-> next_sub_id, incarnation |-> rx,
                    supplied |-> supplied]
  OBVIOUS
<1> DEFINE w == [phase |-> "new", rx |-> rx, seen |-> version, shown |-> None]
<1>3. /\ handles' = handles \cup {h}
      /\ watchers' = [id \in DOMAIN watchers \cup {next_sub_id} |->
                         IF id # next_sub_id THEN watchers[id] ELSE w]
  BY <1>0, <1>1, <1>2 DEF Subscribing, Subscribe
<1>4. h.sub_id = next_sub_id /\ h.key = k /\ h.incarnation = rx
  BY <1>0
<1>5. \A g \in handles : g.sub_id \in Nat /\ g.sub_id # next_sub_id
  BY HandleFields DEF HandlesInv, Watched
<1>6. DOMAIN watchers = {g.sub_id : g \in handles}
  BY DEF WatchersInv
<1>7. (DOMAIN watchers = {g.sub_id : g \in handles})'
  BY <1>3, <1>4, <1>6
<1>8. ASSUME NEW g \in handles
      PROVE  Watching(g)'
  <2>1. watchers'[g.sub_id] = watchers[g.sub_id]
    BY <1>3, <1>5, <1>6
  <2> QED
    BY <2>1, WatcherStays DEF WatchersInv
<1>9. Watching(h)'
  <2>1. h \in handles'
    BY <1>3
  <2>2. Present(k)'
    BY <1>4, <2>1 DEF HandlesInv, Watched
  <2>3. rx \in Nat /\ rx < next_incarnation' /\ next_incarnation' \in Nat
    BY <1>1, <2>2, EntryOfChannel
  <2>4. rx \in DOMAIN channels'
    BY <2>3 DEF ChannelsInv
  <2>5. channels'[rx] \in SnapshotType
    BY <2>4 DEF ChannelsInv, SnapOK
  <2>6. version \in Nat
    BY <1>2, <2>5 DEF SnapshotType
  <2>7. watchers'[h.sub_id] = w
    BY <1>3, <1>4
  <2>8. w \in WatcherType
    BY <2>3, <2>6 DEF WatcherType
  <2>9. w.phase = "new" /\ w.rx = rx /\ w.seen = version
    OBVIOUS
  <2> HIDE DEF w
  <2> QED
    BY <1>2, <1>4, <2>6, <2>7, <2>8, <2>9 DEF Watching
<1>10. \A g \in handles' : Watching(g)'
  BY <1>3, <1>8, <1>9
<1> QED
  BY <1>7, <1>10 DEF WatchersInv

LEMMA ShellWatchers ==
    ASSUME IInv, HandlesInv, HandlesInv', IncarnationsDiffer, ChannelsInv, ChannelsInv',
           StepShape, Grown, WatchersInv, [ShellNext]_shellVars
    PROVE  WatchersInv'
<1>1. ASSUME UNCHANGED <<handles, watchers>>
      PROVE  WatchersInv'
  BY <1>1, WatcherStays DEF WatchersInv
<1>2. ASSUME NEW id \in DOMAIN watchers, Bind(id) \/ Changed(id) \/ Show(id)
      PROVE  WatchersInv'
  <2>1. /\ handles' = handles /\ DOMAIN watchers' = DOMAIN watchers
        /\ \A x \in DOMAIN watchers : x # id => watchers'[x] = watchers[x]
    BY <1>2 DEF Bind, Changed, Show, Follow, vars
  <2>2. DOMAIN watchers' = {h.sub_id : h \in handles'}
    BY <2>1 DEF WatchersInv
  <2>3. ASSUME NEW h \in handles
        PROVE  Watching(h)'
    <3>1. CASE h.sub_id = id
      BY <1>2, <3>1, WatcherMoves
    <3>2. CASE h.sub_id # id
      BY <2>1, <3>2, WatcherStays DEF WatchersInv
    <3> QED
      BY <3>1, <3>2
  <2> QED
    BY <2>1, <2>2, <2>3 DEF WatchersInv
<1>3. ASSUME NEW h \in handles, Unsubscribing(h)
      PROVE  WatchersInv'
  <2>1. /\ handles' = handles \ {h}
        /\ watchers' = [id \in DOMAIN watchers \ {h.sub_id} |-> watchers[id]]
    BY <1>3 DEF Unsubscribing, DropHandle
  <2>2. \A g \in handles : g.sub_id = h.sub_id => g = h
    BY DEF HandlesInv
  <2>3. DOMAIN watchers' = {g.sub_id : g \in handles'}
    BY <2>1, <2>2 DEF WatchersInv
  <2>4. ASSUME NEW g \in handles'
        PROVE  Watching(g)'
    <3>1. g \in handles /\ g.sub_id # h.sub_id
      BY <2>1, <2>2
    <3>2. watchers'[g.sub_id] = watchers[g.sub_id]
      BY <2>1, <3>1 DEF WatchersInv
    <3> QED
      BY <3>1, <3>2, WatcherStays DEF WatchersInv
  <2> QED
    BY <2>3, <2>4 DEF WatchersInv
<1> QED
  BY <1>1, <1>2, <1>3, SubscribingWatchers, HandlesKept

-----------------------------------------------------------------------------
(* The induction *)

ShellInv ==
    /\ IInv
    /\ HandlesInv
    /\ IncarnationsDiffer
    /\ ChannelsInv
    /\ ReadersInv
    /\ WatchersInv

LEMMA InitShellInv == ShellInit => ShellInv
<1> SUFFICES ASSUME ShellInit PROVE ShellInv
  OBVIOUS
<1>1. IInv /\ HandlesInv
  BY InitIInv, InitHandles DEF ShellInit
<1>2. \A k \in Keys : ~Present(k)
  BY DEF ShellInit, Init, Present
<1>3. /\ next_incarnation = 0 /\ handles = {} /\ pending = {}
      /\ channels = <<>> /\ watchers = <<>>
      /\ readers = [r \in Readers |-> NotCalled]
  BY DEF ShellInit, Init
<1>4. IncarnationsDiffer
  BY <1>2 DEF IncarnationsDiffer
<1>5. ChannelsInv
  <2>1. DOMAIN channels = {} /\ {i \in 0 .. next_incarnation : i < next_incarnation} = {}
    BY <1>3
  <2> QED
    BY <1>2, <1>3, <2>1 DEF ChannelsInv
<1>6. ReadersInv
  <2>1. NotCalled \in ReaderType
    BY DEF NotCalled, ReaderType
  <2>2. NotCalled.phase = "idle" /\ NotCalled.rx = None /\ NotCalled.result = None
    BY DEF NotCalled
  <2>3. Waiting(NotCalled) /\ Unserved(NotCalled) /\ Answered(NotCalled)
    BY <2>2 DEF Waiting, Unserved, Answered
  <2>4. PICK d : d = NotCalled
    OBVIOUS
  <2>5. readers \in [Readers -> ReaderType] /\ \A r \in Readers : readers[r] = d
    BY <1>3, <2>1, <2>4
  <2> QED
    BY <2>3, <2>4, <2>5 DEF ReadersInv
<1>7. WatchersInv
  <2>1. DOMAIN watchers = {}
    BY <1>3
  <2> QED
    BY <1>3, <2>1 DEF WatchersInv
<1> QED
  BY <1>1, <1>4, <1>5, <1>6, <1>7 DEF ShellInv

LEMMA NextShellInv ==
    ASSUME ShellInv, [ShellNext]_shellVars
    PROVE  StepShape /\ ShellInv'
<1>1. /\ IInv /\ HandlesInv /\ IncarnationsDiffer /\ ChannelsInv /\ ReadersInv
      /\ WatchersInv
  BY DEF ShellInv
<1>2. StepShape /\ IInv'
  BY <1>1, ShellShape
<1>3. HandlesInv' /\ IncarnationsDiffer'
  BY <1>1, <1>2, ShapeHandles, EntryOfChannel
<1>4. ChannelsInv' /\ Grown
  BY <1>1, <1>2, ShellChannels
<1>5. ReadersInv'
  BY <1>1, <1>2, <1>4, ShellReaders
<1>6. WatchersInv'
  BY <1>1, <1>2, <1>3, <1>4, ShellWatchers
<1> QED
  BY <1>2, <1>3, <1>4, <1>5, <1>6 DEF ShellInv

LEMMA ShellInductive == ShellSpec => []ShellInv
  BY InitShellInv, NextShellInv, PTL DEF ShellSpec

-----------------------------------------------------------------------------
(* Theorems *)

\* Every snapshot, sent or on its way, holds values of its Rust types, each
\* live handle has its loop, and fetch() never returns a value or an error made
\* of None: neither expect() of the wait loop fails (client.rs, wait).
THEOREM ShellTypesAreCorrect == ShellSpec => []ShellTypeOK
<1>1. ShellInv => ShellTypeOK
  BY DEF ShellInv, ChannelsInv, SnapOK, ReadersInv, Answered, WatchersInv, ShellTypeOK
<1> QED
  BY <1>1, ShellInductive, PTL

\* A channel to which all has been sent shows the latest state of its entry,
\* in whatever order any number of threads sent what they had emitted: the
\* version guard of run_effects is enough (client.rs).
THEOREM LateSendsAreHarmless == ShellSpec => []ChannelsConverge
<1>1. ShellInv => ChannelsConverge
  <2> SUFFICES ASSUME ShellInv, NEW k \in Keys, Present(k),
                      Unsent(entries[k].incarnation) = {}
      PROVE  channels[entries[k].incarnation] = Snapshot(entries[k])
    BY DEF ChannelsConverge
  <2> QED
    BY DEF ShellInv, ChannelsInv, Tuned, Tells
<1> QED
  BY <1>1, ShellInductive, PTL

\* No reader sleeps for ever on an open channel: when it has seen all that was
\* sent, a flight or a mutation of the entry it waits on is still to report,
\* and what the entry has does not answer it yet (client.rs, wait).
THEOREM NoWakeupIsLost == ShellSpec => []SleepersAreOwedAnAnswer
<1>1. ShellInv => SleepersAreOwedAnAnswer
  <2> SUFFICES ASSUME ShellInv, NEW r \in Readers,
                      readers[r].phase = "parked", Unsent(readers[r].rx) = {},
                      readers[r].seen = channels[readers[r].rx].version,
                      IsOpen(readers[r].rx)
      PROVE  LET e == entries[readers[r].key]
             IN  /\ e.incarnation = readers[r].rx
                 /\ e.inflight # None \/ Mutating(readers[r].key) # {}
                 /\ e.data_seq < readers[r].target /\ e.error_seq < readers[r].target
    BY DEF SleepersAreOwedAnAnswer
  <2>1. PICK d \in ReaderType : d = readers[r]
    BY DEF ShellInv, ReadersInv
  <2>2. Waiting(d) /\ Unserved(d)
    BY <2>1 DEF ShellInv, ReadersInv
  <2>3. PICK k \in Keys : Present(k) /\ entries[k].incarnation = d.rx
    BY <2>1 DEF IsOpen, Unsent
  <2>4. k = d.key
    BY <2>1, <2>2, <2>3 DEF Waiting
  <2>5. entries[k].snap_version = d.seen
    BY <2>1, <2>3 DEF ShellInv, ChannelsInv, Tuned
  <2>6. /\ entries[k].data_seq < d.target /\ entries[k].error_seq < d.target
        /\ entries[k].inflight # None \/ 0 < entries[k].mutation_active
    BY <2>1, <2>2, <2>3, <2>5 DEF Unserved
  <2>7. entries[k].mutation_active = Cardinality(Mutating(k))
    BY <2>3 DEF ShellInv, IInv, MutationsPinEntry
  <2>8. entries[k].inflight # None \/ Mutating(k) # {}
    BY <2>6, <2>7, FS_EmptySet
  <2> QED
    BY <2>1, <2>3, <2>4, <2>6, <2>8
<1> QED
  BY <1>1, ShellInductive, PTL

\* fetch() never returns a value that was there, stale, when it began to wait,
\* also when the entry it waited on was collected and made anew meanwhile.
THEOREM WaitingPaysOff == ShellSpec => []ReadersGetNews
<1>1. ShellInv => ReadersGetNews
  <2> SUFFICES ASSUME ShellInv, NEW r \in Readers,
                      readers[r].phase = "done", readers[r].rx # None,
                      readers[r].result.kind = "ok"
      PROVE  readers[r].result.value.seq > readers[r].floor
    BY DEF ReadersGetNews
  <2>1. readers[r].floor < readers[r].result.value.seq
    BY DEF ShellInv, ReadersInv, Answered
  <2> QED
    BY <2>1
<1> QED
  BY <1>1, ShellInductive, PTL

\* A loop that follows a live handle never ends under it, and shows the latest
\* state once it has seen all that was sent (swr-gpui; handle.rs, changed).
THEOREM LoopsShowLatest == ShellSpec => []WatchersShowLatest
<1>1. ShellInv => WatchersShowLatest
  <2> SUFFICES ASSUME ShellInv, NEW h \in handles
      PROVE  LET w == watchers[h.sub_id]
             IN  /\ IsOpen(w.rx)
                 /\ /\ w.phase = "parked"
                    /\ Unsent(w.rx) = {}
                    /\ w.seen = channels[w.rx].version
                    => w.shown = Snapshot(entries[h.key])
    BY DEF WatchersShowLatest
  <2>1. PICK w : w = watchers[h.sub_id]
    OBVIOUS
  <2>2. /\ h.key \in Keys /\ Present(h.key) /\ entries[h.key].incarnation = h.incarnation
        /\ w.rx = h.incarnation
    BY <2>1, HandleFields DEF ShellInv, HandlesInv, Watched, WatchersInv, Watching
  <2>3. IsOpen(w.rx)
    BY <2>2 DEF IsOpen
  <2>4. ASSUME w.phase = "parked", Unsent(w.rx) = {}, w.seen = channels[w.rx].version
        PROVE  w.shown = Snapshot(entries[h.key])
    <3>1. channels[w.rx] = Snapshot(entries[h.key])
      BY <2>2, <2>4 DEF ShellInv, ChannelsInv, Tuned, Tells
    <3>2. /\ w.shown \in SnapshotType /\ w.seen \in Nat
          /\ w.seen <= w.shown.version /\ w.shown.version <= w.seen
          /\ w.shown.version = w.seen => w.shown = channels[w.rx]
      BY <2>1, <2>4 DEF ShellInv, WatchersInv, Watching, WatcherType
    <3>3. w.shown.version \in Nat
      BY <3>2 DEF SnapshotType
    <3>4. w.shown.version = w.seen
      BY <3>2, <3>3
    <3> QED
      BY <3>1, <3>2, <3>4
  <2> QED
    BY <2>1, <2>3, <2>4
<1> QED
  BY <1>1, ShellInductive, PTL

\* What is proved of the machine stays true under the shell, whose readers ask
\* and poke it as often as they like: types, the counts of mutations and of
\* handles, convergence after an invalidation, the ticks, the countdowns, one
\* snapshot per change, and that only the latest flight of a key may write.
THEOREM MachineSurvivesShell ==
    ShellSpec => /\ [](TypeOK /\ MutationsPinEntry /\ HandlesPinEntry)
                 /\ []ActiveInvalidationConverges
                 /\ [](TicksDoNotMultiply /\ RefreshKeepsTicking /\ IdleEntriesExpire)
                 /\ Published /\ LatestFlightWins
<1>1. ShellInv => /\ IInv /\ TypeOK /\ MutationsPinEntry /\ HandlesPinEntry
                 /\ ActiveInvalidationConverges
  BY HandlesPin, WatchedAreClean DEF ShellInv, IInv
<1>2. ShellInit => TimersInv /\ TasksArePast /\ Race!Init
  BY InitTimers, InitTasks, RaceInit DEF ShellInit
<1>3. TimersInv => TicksDoNotMultiply /\ RefreshKeepsTicking /\ IdleEntriesExpire
  BY TicksAreSingle DEF TimersInv
<1>4. ShellSpec => [](TimersInv /\ TasksArePast)
  BY <1>1, <1>2, NextShellInv, ShapeTimers, ShapeTasks, ShellInductive, PTL DEF ShellSpec
<1>5. ShellSpec => Published
  BY <1>1, NextShellInv, ShapePublishes, ShellInductive, PTL
     DEF ShellSpec, Published, Publishes
<1> QED
  BY <1>1, <1>2, <1>3, <1>4, <1>5, NextShellInv, ShapeRace, ShellInductive, PTL
     DEF ShellSpec, LatestFlightWins, Race!Spec
=============================================================================
