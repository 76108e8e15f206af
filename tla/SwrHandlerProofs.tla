-------------------------- MODULE SwrHandlerProofs --------------------------
(***************************************************************************)
(* What SwrMachineProofs does not say of the handlers of SwrEntry: the      *)
(* marks that a change must come with, who may be left dirty, what becomes  *)
(* of the subscribers, and what a handler does to the flight, the value     *)
(* shown and the value a rollback would restore.  From them every step of   *)
(* the machine gets one of five shapes (StepShape), which is all that the   *)
(* proofs about handles, timers, snapshots and races look at.               *)
(***************************************************************************)
EXTENDS SwrMachineProofs

\* A change without its mark would miss a post-rule: the countdown without
\* "touched", the new snapshot without "notify".  The generation of the tick
\* and the snapshot version belong to the post-rules, which have nothing to do
\* for an entry that is neither touched nor active; that of the countdown is
\* never taken back.  Only an entry that no subscriber with a fetcher watches, or
\* that was dirty, is left dirty.
Footprint(e, r) ==
    /\ "touched" \notin r.marks => r.entry = e /\ (r.marks # {} => IsActive(e))
    /\ "notify" \notin r.marks => Visible(r.entry) = Visible(e)
    /\ r.entry.gc_gen \in {e.gc_gen, e.gc_gen + 1}
    /\ r.entry.refresh_gen = e.refresh_gen
    /\ r.entry.snap_version = e.snap_version
    /\ e.fetcher => r.entry.fetcher
    /\ r.entry.invalidated /\ r.entry.mutation_active = 0 =>
         \/ e.invalidated /\ e.mutation_active = 0
         \/ ~IsActive(r.entry)
         \/ ~r.entry.fetcher

\* The subscribers and their options are as before.
Passive(e, r) == r.entry.subs = e.subs /\ r.entry.subscribers = e.subscribers

\* What callers write, and what a rollback would restore.
Written == [src : {"local", "optimistic"}, seq : Nat]

Saved(e) == IF e.optimistic = None THEN None ELSE e.optimistic.prev_data

Kept(e) == {e.data, Saved(e), None}

\* A new flight takes a new seq.  Either the flight, the value shown and the
\* value saved are as before, or the flight has lost, and every value is one
\* that was there or that a caller wrote.
Raced(e, r) ==
    /\ e.seq <= r.entry.seq
    /\ "fetch" \in r.marks => e.seq < r.entry.seq
    /\ \/ /\ r.entry.inflight = e.inflight
          /\ r.entry.data = e.data
          /\ Saved(r.entry) = Saved(e)
       \/ /\ r.entry.inflight = None \/ "fetch" \in r.marks
          /\ r.entry.data \in Kept(e) \cup Written
          /\ Saved(r.entry) \in Kept(e)

\* The flight has reported back, to an entry that is not dirty.
Landing(e, r, seq) ==
    /\ e.inflight = seq /\ r.entry.inflight = None
    /\ r.entry.mutation_active = 0 /\ ~r.entry.invalidated
    /\ r.entry.seq = e.seq
    /\ "fetch" \notin r.marks
    /\ r.entry.data \in {e.data, [src |-> "fetch", seq |-> seq]}
    /\ Saved(r.entry) = None

-----------------------------------------------------------------------------
(* Operators that several handlers share *)

LEMMA StartFetchFields ==
    ASSUME NEW n \in Entry
    PROVE  LET s == StartFetch(n)
           IN  /\ s.seq = n.seq + 1 /\ s.inflight = n.seq + 1 /\ ~s.invalidated
               /\ s.data = n.data /\ s.optimistic = n.optimistic
               /\ s.gc_gen = n.gc_gen
               /\ s.refresh_gen = n.refresh_gen /\ s.snap_version = n.snap_version
               /\ s.fetcher = n.fetcher
               /\ s.subs = n.subs /\ s.subscribers = n.subscribers
  BY DEF StartFetch, Entry

\* Starting a fetch or not, after a handler has made n of e and marked it.
LEMMA LaunchIfFoot ==
    ASSUME NEW e \in Entry, NEW n \in Entry,
           NEW marks, "touched" \in marks, "fetch" \notin marks,
           NEW condition, condition => CanStartFetch(n),
           "notify" \notin marks => Visible(n) = Visible(e),
           n.gc_gen \in {e.gc_gen, e.gc_gen + 1},
           n.refresh_gen = e.refresh_gen, n.snap_version = e.snap_version,
           e.fetcher => n.fetcher,
           ~condition /\ n.invalidated /\ n.mutation_active = 0 =>
             (e.invalidated /\ e.mutation_active = 0) \/ ~IsActive(n) \/ ~n.fetcher
    PROVE  Footprint(e, LaunchIf(condition, n, marks))
<1>1. CASE condition
  <2>1. LaunchIf(condition, n, marks)
          = [entry |-> StartFetch(n), marks |-> marks \cup {"fetch", "notify"}]
    BY <1>1 DEF LaunchIf, Launch, Reply
  <2>2. "notify" \in marks \cup {"fetch", "notify"} /\ "touched" \in marks \cup {"fetch", "notify"}
    OBVIOUS
  <2> QED
    BY <2>1, <2>2, StartFetchFields DEF Footprint
<1>2. CASE ~condition
  <2>1. LaunchIf(condition, n, marks) = [entry |-> n, marks |-> marks]
    BY <1>2 DEF LaunchIf, Reply
  <2> QED
    BY <1>2, <2>1 DEF Footprint
<1> QED
  BY <1>1, <1>2

LEMMA LaunchIfRaced ==
    ASSUME NEW e \in Entry, NEW n \in Entry, NEW marks, "fetch" \notin marks,
           NEW condition, condition => CanStartFetch(n),
           Raced(e, Reply(n, marks))
    PROVE  Raced(e, LaunchIf(condition, n, marks))
<1>1. e.seq \in Nat /\ n.seq \in Nat
  BY EntryFields
<1>2. CASE condition
  <2>1. LaunchIf(condition, n, marks)
          = [entry |-> StartFetch(n), marks |-> marks \cup {"fetch", "notify"}]
    BY <1>2 DEF LaunchIf, Launch, Reply
  <2>2. "fetch" \in marks \cup {"fetch", "notify"}
    OBVIOUS
  <2>3. n.data \in Kept(e) \cup Written /\ Saved(n) \in Kept(e) /\ e.seq <= n.seq
    BY DEF Raced, Reply, Kept
  <2>4. Saved(StartFetch(n)) = Saved(n)
    BY StartFetchFields DEF Saved
  <2> QED
    BY <1>1, <2>1, <2>2, <2>3, <2>4, StartFetchFields DEF Raced
<1>3. CASE ~condition
  BY <1>3 DEF LaunchIf
<1> QED
  BY <1>2, <1>3

LEMMA LaunchIfPassive ==
    ASSUME NEW n \in Entry, NEW marks, NEW condition
    PROVE  /\ LaunchIf(condition, n, marks).entry.subs = n.subs
           /\ LaunchIf(condition, n, marks).entry.subscribers = n.subscribers
  BY StartFetchFields DEF LaunchIf, Launch, Reply

LEMMA LaunchIfMarks ==
    ASSUME NEW n, NEW marks, NEW condition
    PROVE  marks \subseteq LaunchIf(condition, n, marks).marks
  BY DEF LaunchIf, Launch, Reply

\* A handler that does nothing.
LEMMA NoFoot ==
    ASSUME NEW e \in Entry, NEW marks, "touched" \notin marks, "fetch" \notin marks,
           marks # {} => IsActive(e)
    PROVE  /\ Footprint(e, Reply(e, marks))
           /\ Raced(e, Reply(e, marks))
           /\ Passive(e, Reply(e, marks))
  BY EntryFields DEF Footprint, Raced, Passive, Reply

-----------------------------------------------------------------------------
(* The handlers, one by one *)

LEMMA OnReadFoot ==
    ASSUME NEW e, EntryOK(e), NEW policy, NEW supplied \in BOOLEAN,
           NEW opts \in Options, NEW now
    PROVE  LET r == OnRead(e, policy, supplied, opts, now)
           IN  Footprint(e, r) /\ Passive(e, r) /\ Raced(e, r) /\ "touched" \in r.marks
<1> DEFINE f == IF supplied THEN TRUE ELSE e.fetcher
           n == [e EXCEPT !.fetcher = f, !.last_touch_gc_time = opts.gc_time]
           starts == /\ policy # "CacheOnly"
                     /\ ~FreshHit(e, opts, now)
                     /\ CanStartFetch(n)
<1>1. e \in Entry /\ opts.gc_time \in Nat \cup {None} /\ f \in BOOLEAN
  BY DEF EntryOK, Options, Entry
<1>2. OnRead(e, policy, supplied, opts, now) = LaunchIf(starts, n, {"touched"})
  BY DEF OnRead
<1>3. e.fetcher => f
  OBVIOUS
<1> HIDE DEF f
<1>4. n \in Entry
  BY <1>1, ZenonT(60) DEF Entry
<1>5. /\ n.seq = e.seq /\ n.inflight = e.inflight /\ n.data = e.data
      /\ n.data_seq = e.data_seq /\ n.error = e.error /\ n.error_seq = e.error_seq
      /\ n.optimistic = e.optimistic /\ n.mutation_active = e.mutation_active
      /\ n.updated_at = e.updated_at /\ n.invalidated = e.invalidated
      /\ n.subs = e.subs /\ n.subscribers = e.subscribers /\ n.fetcher = f
      /\ n.gc_gen = e.gc_gen
      /\ n.refresh_gen = e.refresh_gen /\ n.snap_version = e.snap_version
  BY <1>1 DEF Entry
<1>6. starts => CanStartFetch(n)
  OBVIOUS
<1> HIDE DEF n, starts
<1>7. Visible(n) = Visible(e) /\ Saved(n) = Saved(e)
  BY <1>5 DEF Visible, Saved
<1>8. Footprint(e, LaunchIf(starts, n, {"touched"}))
  BY <1>1, <1>3, <1>4, <1>5, <1>6, <1>7, LaunchIfFoot
<1>9. Raced(e, LaunchIf(starts, n, {"touched"}))
  <2>1. Raced(e, Reply(n, {"touched"}))
    BY <1>1, <1>5, <1>7, EntryFields DEF Raced, Reply
  <2> QED
    BY <1>1, <1>4, <1>6, <2>1, LaunchIfRaced
<1>10. Passive(e, LaunchIf(starts, n, {"touched"}))
  BY <1>4, <1>5, LaunchIfPassive DEF Passive
<1> QED
  BY <1>2, <1>8, <1>9, <1>10, LaunchIfMarks

\* A subscriber with a fetcher is never left with a dirty entry and no fetch.
LEMMA OnSubscribeFoot ==
    ASSUME NEW e, EntryOK(e), NEW sub_id \in Nat, NEW supplied \in BOOLEAN,
           NEW opts \in Options, NEW now
    PROVE  LET r == OnSubscribe(e, sub_id, supplied, opts, now)
           IN  /\ Footprint(e, r) /\ Raced(e, r)
               /\ r.entry.subs = e.subs \cup {[id |-> sub_id, opts |-> opts]}
               /\ r.entry.subscribers = e.subscribers + 1
               /\ supplied => r.entry.fetcher
               /\ supplied /\ r.entry.invalidated => 0 < r.entry.mutation_active
               /\ {"touched", "refresh"} \subseteq r.marks
<1> DEFINE f == IF supplied THEN TRUE ELSE e.fetcher
           ss == e.subs \cup {[id |-> sub_id, opts |-> opts]}
           n == [e EXCEPT !.fetcher = f,
                          !.last_touch_gc_time = opts.gc_time,
                          !.subs = ss,
                          !.subscribers = @ + 1,
                          !.gc_gen = @ + 1]
           starts == /\ e.data = None \/ IsStale(e, opts.stale_time, now)
                     /\ CanStartFetch(n)
           marks == {"touched", "refresh"}
<1>1. e \in Entry /\ opts.gc_time \in Nat \cup {None} /\ f \in BOOLEAN
  BY DEF EntryOK, Options, Entry
<1>2. /\ e.subscribers + 1 \in Nat /\ e.gc_gen + 1 \in Nat
      /\ ss \in SUBSET [id : Nat, opts : Options]
  BY <1>1 DEF Entry
<1>3. OnSubscribe(e, sub_id, supplied, opts, now) = LaunchIf(starts, n, marks)
  BY DEF OnSubscribe
<1>4. (e.fetcher => f) /\ (supplied => f)
  OBVIOUS
<1>5. "fetch" \notin marks /\ "touched" \in marks
  OBVIOUS
<1>6. e.invalidated /\ CanStartFetch(n) => starts
  BY DEF IsStale
<1> HIDE DEF f, ss
<1>7. n \in Entry
  BY <1>1, <1>2, ZenonT(60) DEF Entry
<1>8. /\ n.seq = e.seq /\ n.inflight = e.inflight /\ n.data = e.data
      /\ n.data_seq = e.data_seq /\ n.error = e.error /\ n.error_seq = e.error_seq
      /\ n.optimistic = e.optimistic /\ n.mutation_active = e.mutation_active
      /\ n.updated_at = e.updated_at /\ n.invalidated = e.invalidated
      /\ n.subs = ss /\ n.subscribers = e.subscribers + 1 /\ n.fetcher = f
      /\ n.gc_gen = e.gc_gen + 1
      /\ n.refresh_gen = e.refresh_gen /\ n.snap_version = e.snap_version
  BY <1>1 DEF Entry
<1>9. starts => CanStartFetch(n)
  OBVIOUS
<1> HIDE DEF n, starts, marks
<1>10. Visible(n) = Visible(e) /\ Saved(n) = Saved(e)
  BY <1>8 DEF Visible, Saved
<1>11. Footprint(e, LaunchIf(starts, n, marks))
  BY <1>1, <1>4, <1>5, <1>7, <1>8, <1>9, <1>10, LaunchIfFoot
<1>12. Raced(e, LaunchIf(starts, n, marks))
  <2>1. Raced(e, Reply(n, marks))
    BY <1>1, <1>5, <1>8, <1>10, EntryFields DEF Raced, Reply
  <2> QED
    BY <1>1, <1>5, <1>7, <1>9, <2>1, LaunchIfRaced
<1>13. /\ LaunchIf(starts, n, marks).entry.subs = ss
       /\ LaunchIf(starts, n, marks).entry.subscribers = e.subscribers + 1
       /\ LaunchIf(starts, n, marks).entry.fetcher = f
       /\ marks \subseteq LaunchIf(starts, n, marks).marks
  BY <1>7, <1>8, StartFetchFields DEF LaunchIf, Launch, Reply
<1>14. ASSUME supplied, LaunchIf(starts, n, marks).entry.invalidated
       PROVE  0 < LaunchIf(starts, n, marks).entry.mutation_active
  <2>1. ~starts
    BY <1>7, <1>14, StartFetchFields DEF LaunchIf, Launch, Reply
  <2>2. LaunchIf(starts, n, marks).entry = n
    BY <2>1 DEF LaunchIf, Reply
  <2>3. e.invalidated /\ ~CanStartFetch(n)
    BY <1>6, <1>8, <1>14, <2>1, <2>2
  <2>4. e.inflight = None /\ n.fetcher
    BY <1>4, <1>8, <1>14, <2>3 DEF EntryOK, FlightOK
  <2> QED
    BY <1>7, <1>8, <2>2, <2>3, <2>4, EntryFields DEF CanStartFetch
<1> QED
  BY <1>3, <1>4, <1>11, <1>12, <1>13, <1>14 DEF ss, marks

LEMMA OnUnsubscribeFoot ==
    ASSUME NEW e, EntryOK(e), NEW sub_id
    PROVE  LET r == OnUnsubscribe(e, sub_id)
           IN  /\ Footprint(e, r) /\ Raced(e, r)
               /\ r.entry.subs = {s \in e.subs : s.id # sub_id}
               /\ r.entry.subscribers = Decrement(e.subscribers)
               /\ {"touched", "refresh"} \subseteq r.marks
<1> DEFINE ss == {s \in e.subs : s.id # sub_id}
           n == [e EXCEPT !.subscribers = Decrement(@), !.subs = ss]
           r == OnUnsubscribe(e, sub_id)
<1>1. r = [entry |-> n, marks |-> {"touched", "refresh"}]
  BY DEF OnUnsubscribe, Reply
<1>2. e \in Entry
  BY DEF EntryOK
<1> HIDE DEF ss
<1>3. /\ n.seq = e.seq /\ n.inflight = e.inflight /\ n.data = e.data
      /\ n.data_seq = e.data_seq /\ n.error = e.error /\ n.error_seq = e.error_seq
      /\ n.optimistic = e.optimistic /\ n.mutation_active = e.mutation_active
      /\ n.updated_at = e.updated_at /\ n.invalidated = e.invalidated
      /\ n.subs = ss /\ n.subscribers = Decrement(e.subscribers)
      /\ n.fetcher = e.fetcher
      /\ n.gc_gen = e.gc_gen
      /\ n.refresh_gen = e.refresh_gen /\ n.snap_version = e.snap_version
  BY <1>2 DEF Entry
<1> HIDE DEF n
<1>4. Visible(n) = Visible(e) /\ Saved(n) = Saved(e) /\ e.seq \in Nat
  BY <1>2, <1>3, EntryFields DEF Visible, Saved
<1> QED
  BY <1>1, <1>3, <1>4 DEF Footprint, Raced, ss

LEMMA OnRevalidateRequestedFoot ==
    ASSUME NEW e, EntryOK(e)
    PROVE  LET r == OnRevalidateRequested(e)
           IN  Footprint(e, r) /\ Passive(e, r) /\ Raced(e, r)
<1>1. e \in Entry
  BY DEF EntryOK
<1>2. CASE ~e.fetcher
  <2>1. "touched" \notin {} /\ "fetch" \notin {}
    OBVIOUS
  <2> QED
    BY <1>1, <1>2, <2>1, NoFoot DEF OnRevalidateRequested
<1>3. CASE e.fetcher
  <2> DEFINE l == LaunchIf(CanStartFetch(e), e, {"touched"})
  <2>1. OnRevalidateRequested(e) = l
    BY <1>3 DEF OnRevalidateRequested
  <2>2. Footprint(e, l)
    BY <1>1, LaunchIfFoot
  <2>3. Raced(e, l)
    <3>1. Raced(e, Reply(e, {"touched"}))
      BY <1>1, EntryFields DEF Raced, Reply
    <3> QED
      BY <1>1, <3>1, LaunchIfRaced
  <2>4. Passive(e, l)
    BY <1>1, LaunchIfPassive DEF Passive
  <2> QED
    BY <2>1, <2>2, <2>3, <2>4
<1> QED
  BY <1>2, <1>3

LEMMA CommitFoot ==
    ASSUME NEW e, EntryOK(e), NEW incarnation, NEW seq \in Nat, NEW now \in Nat,
           NEW r \in {OnCommitOk(e, incarnation, seq, now), OnCommitErr(e, incarnation, seq)}
    PROVE  /\ Footprint(e, r) /\ Passive(e, r)
           /\ IF Accepts(e, incarnation, seq) THEN Landing(e, r, seq) ELSE Raced(e, r)
<1>0. e \in Entry
  BY DEF EntryOK
<1>1. CASE ~Accepts(e, incarnation, seq)
  <2>1. "touched" \notin {} /\ "fetch" \notin {}
    OBVIOUS
  <2> QED
    BY <1>0, <1>1, <2>1, NoFoot DEF OnCommitOk, OnCommitErr
<1>2. CASE Accepts(e, incarnation, seq)
  <2>1. e.inflight = seq /\ e.inflight # None /\ e.mutation_active = 0
    BY <1>2, NoneAssumption DEF Accepts
  <2>2. ~e.invalidated /\ e.optimistic = None
    BY <1>0, <2>1, EntryFields DEF EntryOK, FlightOK, SlotOK
  <2>3. \E n :
          /\ r = [entry |-> n, marks |-> {"touched", "notify", "refresh"}]
          /\ n.seq = e.seq /\ n.inflight = None /\ n.optimistic = None
          /\ n.data \in {e.data, [src |-> "fetch", seq |-> seq]}
          /\ ~n.invalidated /\ n.mutation_active = 0 /\ n.subs = e.subs /\ n.subscribers = e.subscribers
          /\ n.fetcher = e.fetcher
          /\ n.gc_gen = e.gc_gen
          /\ n.refresh_gen = e.refresh_gen /\ n.snap_version = e.snap_version
    <3>1. CASE r = OnCommitOk(e, incarnation, seq, now)
      <4> DEFINE v == [src |-> "fetch", seq |-> seq]
                 n == [e EXCEPT !.data = v, !.data_seq = seq, !.updated_at = now,
                                !.error = None, !.optimistic = None, !.inflight = None]
      <4>1. r = [entry |-> n, marks |-> {"touched", "notify", "refresh"}]
        BY <1>0, <1>2, <3>1 DEF OnCommitOk, Committed, Reply, Entry
      <4> HIDE DEF v
      <4>2. /\ n.seq = e.seq /\ n.inflight = None /\ n.optimistic = None
            /\ n.data = v /\ n.invalidated = e.invalidated
            /\ n.mutation_active = e.mutation_active
            /\ n.subs = e.subs /\ n.subscribers = e.subscribers
            /\ n.fetcher = e.fetcher
            /\ n.gc_gen = e.gc_gen
            /\ n.refresh_gen = e.refresh_gen /\ n.snap_version = e.snap_version
        BY <1>0 DEF Entry
      <4> HIDE DEF n
      <4> QED
        BY <2>1, <2>2, <4>1, <4>2 DEF v
    <3>2. CASE r = OnCommitErr(e, incarnation, seq)
      <4> DEFINE n == [e EXCEPT !.error = "fetch", !.error_seq = seq, !.inflight = None]
      <4>1. r = [entry |-> n, marks |-> {"touched", "notify", "refresh"}]
        BY <1>0, <1>2, <3>2 DEF OnCommitErr, Committed, Reply, Entry
      <4>2. /\ n.seq = e.seq /\ n.inflight = None /\ n.optimistic = e.optimistic
            /\ n.data = e.data /\ n.invalidated = e.invalidated
            /\ n.mutation_active = e.mutation_active
            /\ n.subs = e.subs /\ n.subscribers = e.subscribers
            /\ n.fetcher = e.fetcher
            /\ n.gc_gen = e.gc_gen
            /\ n.refresh_gen = e.refresh_gen /\ n.snap_version = e.snap_version
        BY <1>0 DEF Entry
      <4> HIDE DEF n
      <4> QED
        BY <2>1, <2>2, <4>1, <4>2
    <3> QED
      BY <3>1, <3>2
  <2>4. PICK n :
          /\ r = [entry |-> n, marks |-> {"touched", "notify", "refresh"}]
          /\ n.seq = e.seq /\ n.inflight = None /\ n.optimistic = None
          /\ n.data \in {e.data, [src |-> "fetch", seq |-> seq]}
          /\ ~n.invalidated /\ n.mutation_active = 0 /\ n.subs = e.subs /\ n.subscribers = e.subscribers
          /\ n.fetcher = e.fetcher
          /\ n.gc_gen = e.gc_gen
          /\ n.refresh_gen = e.refresh_gen /\ n.snap_version = e.snap_version
    BY <2>3
  <2>5. r.entry = n /\ r.marks = {"touched", "notify", "refresh"}
    BY <2>4
  <2>6. Landing(e, r, seq)
    BY <2>1, <2>4, <2>5 DEF Landing, Saved
  <2>7. Footprint(e, r) /\ Passive(e, r)
    BY <2>4, <2>5 DEF Footprint, Passive
  <2> QED
    BY <1>2, <2>6, <2>7
<1> QED
  BY <1>1, <1>2

\* What a handler that supersedes the flight may make of the rest on its way.
Carries(e, n) ==
    /\ n \in Entry
    /\ e.seq <= n.seq
    /\ n.data \in Kept(e) \cup Written
    /\ Saved(n) \in Kept(e)
    /\ n.subs = e.subs /\ n.subscribers = e.subscribers /\ n.fetcher = e.fetcher
    /\ n.gc_gen = e.gc_gen
    /\ n.refresh_gen = e.refresh_gen /\ n.snap_version = e.snap_version

LEMMA CarriesOn ==
    ASSUME NEW e \in Entry, NEW l, NEW n \in Entry, Carries(e, l),
           l.seq <= n.seq,
           n.data \in {l.data, Saved(l)} \cup Written,
           Saved(n) \in {Saved(l), None},
           n.subs = l.subs, n.subscribers = l.subscribers, n.fetcher = l.fetcher,
           n.gc_gen = l.gc_gen,
           n.refresh_gen = l.refresh_gen, n.snap_version = l.snap_version
    PROVE  Carries(e, n)
<1>1. e.seq \in Nat /\ l.seq \in Nat /\ n.seq \in Nat
  BY EntryFields DEF Carries
<1> QED
  BY <1>1 DEF Carries, Kept

LEMMA LocalWriteCarries ==
    ASSUME NEW e \in Entry, NEW l, Carries(e, l), NEW now \in Nat
    PROVE  LET n == [LocalWrite(l, now) EXCEPT !.optimistic = None]
           IN  Carries(e, n) /\ n.inflight = None /\ ~n.invalidated
<1> DEFINE v == [src |-> "local", seq |-> l.seq + 1]
           n == [l EXCEPT !.seq = @ + 1, !.data = v, !.data_seq = l.seq + 1,
                          !.updated_at = now, !.error = None,
                          !.invalidated = FALSE, !.inflight = None,
                          !.optimistic = None]
<1>1. l \in Entry /\ l.seq \in Nat /\ l.seq + 1 \in Nat
  BY EntryFields DEF Carries
<1>2. v \in Value /\ v \in Written
  BY <1>1 DEF Value, Written
<1>3. [LocalWrite(l, now) EXCEPT !.optimistic = None] = n
  BY <1>1 DEF LocalWrite, Entry
<1> HIDE DEF v
<1>4. n \in Entry
  BY <1>1, <1>2, ZenonT(60) DEF Entry
<1>5. /\ n.seq = l.seq + 1 /\ n.inflight = None /\ n.data = v /\ n.optimistic = None
      /\ ~n.invalidated
      /\ n.subs = l.subs /\ n.subscribers = l.subscribers /\ n.fetcher = l.fetcher
      /\ n.gc_gen = l.gc_gen
      /\ n.refresh_gen = l.refresh_gen /\ n.snap_version = l.snap_version
  BY <1>1 DEF Entry
<1> HIDE DEF n
<1>6. Saved(n) = None /\ l.seq <= n.seq
  BY <1>1, <1>5 DEF Saved
<1> QED
  BY <1>2, <1>3, <1>4, <1>5, <1>6, CarriesOn

\* A reply that carries on and is marked as changed.
LEMMA CarriesFoot ==
    ASSUME NEW e \in Entry, NEW n, Carries(e, n), n.inflight = None, NEW marks,
           {"touched", "notify"} \subseteq marks, "fetch" \notin marks,
           NEW condition, condition => CanStartFetch(n),
           ~condition /\ n.invalidated /\ n.mutation_active = 0 =>
             (e.invalidated /\ e.mutation_active = 0) \/ ~IsActive(n) \/ ~n.fetcher
    PROVE  LET r == LaunchIf(condition, n, marks)
           IN  Footprint(e, r) /\ Passive(e, r) /\ Raced(e, r)
<1>1. n \in Entry
  BY DEF Carries
<1>2. Footprint(e, LaunchIf(condition, n, marks))
  BY <1>1, LaunchIfFoot DEF Carries
<1>3. Raced(e, Reply(n, marks))
  BY DEF Raced, Reply, Carries
<1> QED
  BY <1>1, <1>2, <1>3, LaunchIfRaced, LaunchIfPassive DEF Passive, Carries

LEMMA CarriesItself ==
    ASSUME NEW e \in Entry PROVE Carries(e, e)
  BY EntryFields DEF Carries, Kept

LEMMA DiscardFlightCarries ==
    ASSUME NEW e \in Entry
    PROVE  /\ Carries(e, DiscardFlight(e)) /\ DiscardFlight(e).inflight = None
           /\ DiscardFlight(e).optimistic = e.optimistic
           /\ DiscardFlight(e).data = e.data
           /\ DiscardFlight(e).mutation_active = e.mutation_active
<1> DEFINE n == DiscardFlight(e)
<1>1. e.seq \in Nat /\ e.seq + 1 \in Nat
  BY EntryFields
<1>2. n \in Entry
  BY <1>1, Zenon DEF DiscardFlight, Entry
<1>3. /\ n.seq = e.seq + 1 /\ n.inflight = None /\ n.data = e.data
      /\ n.optimistic = e.optimistic /\ n.mutation_active = e.mutation_active
      /\ n.subs = e.subs /\ n.subscribers = e.subscribers /\ n.fetcher = e.fetcher
      /\ n.gc_gen = e.gc_gen
      /\ n.refresh_gen = e.refresh_gen /\ n.snap_version = e.snap_version
  BY <1>1 DEF DiscardFlight, Entry
<1> HIDE DEF n
<1>4. Saved(n) = Saved(e) /\ e.seq <= n.seq
  BY <1>1, <1>3 DEF Saved
<1> QED
  BY <1>2, <1>3, <1>4, CarriesItself, CarriesOn DEF n

LEMMA OnMutateSetFoot ==
    ASSUME NEW e, EntryOK(e), NEW now \in Nat
    PROVE  LET r == OnMutateSet(e, now)
           IN  Footprint(e, r) /\ Passive(e, r) /\ Raced(e, r) /\ "touched" \in r.marks
<1> DEFINE n == [LocalWrite(e, now) EXCEPT !.optimistic = None]
<1>1. e \in Entry
  BY DEF EntryOK
<1>2. Carries(e, n) /\ n.inflight = None /\ ~n.invalidated
  BY <1>1, CarriesItself, LocalWriteCarries
<1> HIDE DEF n
<1>3. OnMutateSet(e, now) = LaunchIf(FALSE, n, {"touched", "notify"})
  BY DEF OnMutateSet, LaunchIf, n
<1>4. "touched" \in LaunchIf(FALSE, n, {"touched", "notify"}).marks
  BY LaunchIfMarks
<1> QED
  BY <1>1, <1>2, <1>3, <1>4, CarriesFoot

LEMMA OnMutateBeginFoot ==
    ASSUME NEW e, EntryOK(e), NEW optimistic \in BOOLEAN
    PROVE  LET r == OnMutateBegin(e, optimistic)
           IN  Footprint(e, r) /\ Passive(e, r) /\ Raced(e, r) /\ "touched" \in r.marks
<1> DEFINE d == DiscardFlight(e)
           b == [d EXCEPT !.mutation_active = @ + 1]
           w == b.seq + 1
           s == [prev_data |-> e.data, prev_error |-> e.error,
                 prev_data_seq |-> e.data_seq,
                 prev_updated_at |-> e.updated_at, written_seq |-> w]
           v == [src |-> "optimistic", seq |-> w]
           o == [b EXCEPT !.seq = w, !.optimistic = s, !.data = v, !.data_seq = w]
           n == IF optimistic THEN o ELSE b
<1>1. e \in Entry
  BY DEF EntryOK
<1>2. /\ Carries(e, d) /\ d \in Entry /\ d.inflight = None
      /\ d.data = e.data /\ d.optimistic = e.optimistic
      /\ d.mutation_active \in Nat /\ d.mutation_active + 1 \in Nat
  BY <1>1, DiscardFlightCarries, EntryFields DEF Carries
<1>3. OnMutateBegin(e, optimistic) = LaunchIf(FALSE, n, {"touched", "notify"})
  BY DEF OnMutateBegin, LaunchIf
<1> HIDE DEF d
<1>4. b \in Entry
  BY <1>2 DEF Entry
<1>5. /\ b.seq = d.seq /\ b.inflight = None /\ b.data = d.data
      /\ b.optimistic = d.optimistic /\ b.mutation_active = d.mutation_active + 1
      /\ b.subs = d.subs /\ b.subscribers = d.subscribers /\ b.fetcher = d.fetcher
      /\ b.gc_gen = d.gc_gen
      /\ b.refresh_gen = d.refresh_gen /\ b.snap_version = d.snap_version
  BY <1>2 DEF Entry
<1> HIDE DEF b
<1>6. b.seq \in Nat /\ w \in Nat /\ b.seq <= w /\ d.seq <= b.seq
  BY <1>2, <1>4, <1>5, EntryFields
<1>7. Carries(e, b)
  <2>1. Saved(b) = Saved(d)
    BY <1>5 DEF Saved
  <2> QED
    BY <1>1, <1>2, <1>4, <1>5, <1>6, <2>1, CarriesOn
<1>8. Carries(e, o) /\ o.inflight = None /\ o.mutation_active = b.mutation_active
  <2>1. v \in Value /\ v \in Written
    BY <1>6 DEF Value, Written
  <2>2. s \in OptimisticSnapshot
    BY <1>1, <1>6 DEF OptimisticSnapshot, Entry
  <2>3. s.prev_data = e.data
    OBVIOUS
  <2> HIDE DEF v, s, w
  <2>4. o \in Entry
    BY <1>4, <1>6, <2>1, <2>2, ZenonT(60) DEF Entry
  <2>5. /\ o.seq = w /\ o.optimistic = s /\ o.data = v /\ o.inflight = b.inflight
        /\ o.mutation_active = b.mutation_active
        /\ o.subs = b.subs /\ o.subscribers = b.subscribers /\ o.fetcher = b.fetcher
        /\ o.gc_gen = b.gc_gen
        /\ o.refresh_gen = b.refresh_gen /\ o.snap_version = b.snap_version
    BY <1>4 DEF Entry
  <2> HIDE DEF o
  <2>6. Saved(o) \in {e.data, None}
    BY <2>3, <2>5 DEF Saved
  <2>7. e.seq <= o.seq
    BY <1>1, <1>2, <1>5, <1>6, <2>5, EntryFields DEF Carries
  <2> QED
    BY <1>1, <1>5, <1>7, <2>1, <2>4, <2>5, <2>6, <2>7 DEF Carries, Kept
<1>9. Carries(e, n) /\ n.inflight = None /\ n.mutation_active # 0
  BY <1>2, <1>5, <1>7, <1>8
<1> HIDE DEF n
<1>10. "touched" \in LaunchIf(FALSE, n, {"touched", "notify"}).marks
  BY LaunchIfMarks
<1> QED
  BY <1>1, <1>3, <1>9, <1>10, CarriesFoot

LEMMA RollbackCarries ==
    ASSUME NEW e \in Entry, NEW l, NEW token, Carries(e, l)
    PROVE  LET n == RollbackIfUnclobbered(l, token)
           IN  Carries(e, n) /\ n.inflight = l.inflight
<1> DEFINE s == l.optimistic
           c == [l EXCEPT !.optimistic = None]
           b == [l EXCEPT !.data = s.prev_data, !.error = s.prev_error,
                          !.data_seq = s.prev_data_seq,
                          !.updated_at = s.prev_updated_at, !.optimistic = None]
<1>1. l \in Entry /\ l.seq \in Nat
  BY EntryFields DEF Carries
<1>2. Carries(e, c) /\ c.inflight = l.inflight
  <2>1. c \in Entry
    BY <1>1, ZenonT(60) DEF Entry
  <2>2. /\ c.seq = l.seq /\ c.inflight = l.inflight /\ c.data = l.data
        /\ c.optimistic = None
        /\ c.subs = l.subs /\ c.subscribers = l.subscribers /\ c.fetcher = l.fetcher
        /\ c.gc_gen = l.gc_gen
        /\ c.refresh_gen = l.refresh_gen /\ c.snap_version = l.snap_version
    BY <1>1 DEF Entry
  <2> HIDE DEF c
  <2> QED
    BY <1>1, <2>1, <2>2, CarriesOn DEF Saved
<1>3. ASSUME OwnsSlot(l, token) PROVE Carries(e, b) /\ b.inflight = l.inflight
  <2>1. s \in OptimisticSnapshot /\ s # None
    BY <1>1, <1>3 DEF OwnsSlot, Entry
  <2>2. /\ s.prev_data \in Value \cup {None} /\ s.prev_error \in Error \cup {None}
        /\ s.prev_data_seq \in Nat /\ s.prev_updated_at \in Nat \cup {None}
        /\ s.prev_data = Saved(l)
    BY <2>1 DEF OptimisticSnapshot, Saved
  <2> HIDE DEF s
  <2>3. b \in Entry
    BY <1>1, <2>2, ZenonT(60) DEF Entry
  <2>4. /\ b.seq = l.seq /\ b.inflight = l.inflight /\ b.data = s.prev_data
        /\ b.optimistic = None
        /\ b.subs = l.subs /\ b.subscribers = l.subscribers /\ b.fetcher = l.fetcher
        /\ b.gc_gen = l.gc_gen
        /\ b.refresh_gen = l.refresh_gen /\ b.snap_version = l.snap_version
    BY <1>1 DEF Entry
  <2> HIDE DEF b
  <2> QED
    BY <1>1, <2>2, <2>3, <2>4, CarriesOn DEF Saved
<1> QED
  BY <1>2, <1>3 DEF RollbackIfUnclobbered

LEMMA ClearOwnCarries ==
    ASSUME NEW e \in Entry, NEW l, NEW token, Carries(e, l)
    PROVE  LET n == ClearOwnOptimistic(l, token)
           IN  Carries(e, n) /\ n.inflight = l.inflight
<1> DEFINE c == [l EXCEPT !.optimistic = None]
<1>1. l \in Entry /\ l.seq \in Nat
  BY EntryFields DEF Carries
<1>2. c \in Entry
  BY <1>1, ZenonT(60) DEF Entry
<1>3. /\ c.seq = l.seq /\ c.inflight = l.inflight /\ c.data = l.data
      /\ c.optimistic = None
      /\ c.subs = l.subs /\ c.subscribers = l.subscribers /\ c.fetcher = l.fetcher
      /\ c.gc_gen = l.gc_gen
      /\ c.refresh_gen = l.refresh_gen /\ c.snap_version = l.snap_version
  BY <1>1 DEF Entry
<1> HIDE DEF c
<1>4. Carries(e, c)
  BY <1>1, <1>2, <1>3, CarriesOn DEF Saved
<1> QED
  BY <1>3, <1>4 DEF ClearOwnOptimistic, c

LEMMA OnMutateEndFoot ==
    ASSUME NEW e, NEW token, EntryOK(e), 0 < e.mutation_active,
           NEW result, NEW now \in Nat,
           NEW r \in {OnMutateCommit(e, token, result, now), OnMutateAbort(e, token)}
    PROVE  Footprint(e, r) /\ Passive(e, r) /\ Raced(e, r)
<1> DEFINE l == [e EXCEPT !.mutation_active = Decrement(@)]
           f == [l EXCEPT !.error = "mutation"]
           applied ==
               IF result = "error" THEN RollbackIfUnclobbered(f, token)
               ELSE IF result = "value" /\ token.populate
               THEN [LocalWrite(l, now) EXCEPT !.optimistic = None]
               ELSE ClearOwnOptimistic(l, token)
<1>1. /\ OnMutateCommit(e, token, result, now) = FinishMutation(applied, token)
      /\ OnMutateAbort(e, token) = FinishMutation(RollbackIfUnclobbered(l, token), token)
  BY DEF OnMutateCommit, OnMutateAbort
<1>2. e \in Entry /\ e.mutation_active \in Nat /\ Decrement(e.mutation_active) \in Nat
  BY EntryFields, DecrementType DEF EntryOK
<1>3. e.inflight = None
  BY <1>2 DEF EntryOK, FlightOK
<1>4. Carries(e, l) /\ l.inflight = None /\ l \in Entry
  <2>1. l \in Entry
    BY <1>2 DEF Entry
  <2>2. /\ l.seq = e.seq /\ l.inflight = e.inflight /\ l.data = e.data
        /\ l.optimistic = e.optimistic
        /\ l.subs = e.subs /\ l.subscribers = e.subscribers /\ l.fetcher = e.fetcher
        /\ l.gc_gen = e.gc_gen
        /\ l.refresh_gen = e.refresh_gen /\ l.snap_version = e.snap_version
    BY <1>2 DEF Entry
  <2> HIDE DEF l
  <2>3. Saved(l) = Saved(e) /\ e.seq \in Nat
    BY <1>2, <2>2, EntryFields DEF Saved
  <2> QED
    BY <1>2, <1>3, <2>1, <2>2, <2>3, CarriesItself, CarriesOn
<1> HIDE DEF l
<1>5. Carries(e, f) /\ f.inflight = None
  <2>1. "mutation" \in Error
    BY DEF Error
  <2>2. f \in Entry
    BY <1>4, <2>1, ZenonT(60) DEF Entry
  <2>3. /\ f.seq = l.seq /\ f.inflight = l.inflight /\ f.data = l.data
        /\ f.optimistic = l.optimistic
        /\ f.subs = l.subs /\ f.subscribers = l.subscribers /\ f.fetcher = l.fetcher
        /\ f.gc_gen = l.gc_gen
        /\ f.refresh_gen = l.refresh_gen /\ f.snap_version = l.snap_version
    BY <1>4 DEF Entry
  <2> HIDE DEF f
  <2>4. Saved(f) = Saved(l) /\ l.seq \in Nat
    BY <1>4, <2>3, EntryFields DEF Saved
  <2> QED
    BY <1>2, <1>4, <2>2, <2>3, <2>4, CarriesOn
<1> HIDE DEF f
<1>6. Carries(e, applied) /\ applied.inflight = None
  BY <1>2, <1>4, <1>5, RollbackCarries, ClearOwnCarries, LocalWriteCarries
<1>7. /\ Carries(e, RollbackIfUnclobbered(l, token))
      /\ RollbackIfUnclobbered(l, token).inflight = None
  BY <1>2, <1>4, RollbackCarries
<1> HIDE DEF applied
<1>8. PICK n : r = FinishMutation(n, token) /\ Carries(e, n) /\ n.inflight = None
  BY <1>1, <1>6, <1>7
<1> DEFINE starts == /\ n.mutation_active = 0
                     /\ token.revalidate \/ n.invalidated
                     /\ CanStartFetch(n)
<1>9. r = LaunchIf(starts, n, {"touched", "notify"})
  BY <1>8 DEF FinishMutation
<1>10. starts => CanStartFetch(n)
  OBVIOUS
<1>11. ~starts /\ n.invalidated /\ n.mutation_active = 0 => ~n.fetcher
  BY <1>8 DEF CanStartFetch
<1> HIDE DEF starts
<1> QED
  BY <1>2, <1>8, <1>9, <1>10, <1>11, CarriesFoot

LEMMA OnInvalidateFoot ==
    ASSUME NEW e, EntryOK(e)
    PROVE  LET r == OnInvalidate(e)
           IN  Footprint(e, r) /\ Passive(e, r) /\ Raced(e, r)
<1>1. e \in Entry /\ e.mutation_active \in Nat
  BY EntryFields DEF EntryOK
<1>2. CASE e.mutation_active > 0
  <2> DEFINE n == [e EXCEPT !.invalidated = TRUE]
             r == LaunchIf(FALSE, n, {"touched"})
  <2>1. OnInvalidate(e) = r
    BY <1>2 DEF OnInvalidate, LaunchIf
  <2>2. n \in Entry
    BY <1>1 DEF Entry
  <2>3. /\ n.seq = e.seq /\ n.inflight = e.inflight /\ n.data = e.data
        /\ n.data_seq = e.data_seq /\ n.error = e.error /\ n.error_seq = e.error_seq
        /\ n.optimistic = e.optimistic /\ n.mutation_active = e.mutation_active
        /\ n.updated_at = e.updated_at
        /\ n.subs = e.subs /\ n.subscribers = e.subscribers /\ n.fetcher = e.fetcher
        /\ n.gc_gen = e.gc_gen
        /\ n.refresh_gen = e.refresh_gen /\ n.snap_version = e.snap_version
    BY <1>1 DEF Entry
  <2> HIDE DEF n
  <2>4. Visible(n) = Visible(e) /\ Saved(n) = Saved(e) /\ e.seq \in Nat
    BY <1>1, <2>3, EntryFields DEF Visible, Saved
  <2>5. Footprint(e, r)
    <3>1. n.mutation_active # 0
      BY <1>1, <1>2, <2>3
    <3>2. "touched" \in {"touched"} /\ "fetch" \notin {"touched"}
      OBVIOUS
    <3> QED
      BY <1>1, <2>2, <2>3, <2>4, <3>1, <3>2, LaunchIfFoot
  <2>6. Raced(e, r)
    BY <2>3, <2>4 DEF Raced, LaunchIf, Reply
  <2>7. Passive(e, r)
    BY <2>2, <2>3, LaunchIfPassive DEF Passive
  <2> QED
    BY <2>1, <2>5, <2>6, <2>7
<1>3. CASE ~(e.mutation_active > 0)
  <2> DEFINE d == IF e.inflight # None THEN DiscardFlight(e) ELSE e
             n == [d EXCEPT !.invalidated = TRUE]
             starts == IsActive(n) /\ n.fetcher
  <2>1. OnInvalidate(e) = LaunchIf(starts, n, {"touched", "notify"})
    BY <1>3 DEF OnInvalidate
  <2>2. /\ Carries(e, d) /\ d.inflight = None /\ d.mutation_active = 0
        /\ d \in Entry /\ d.seq \in Nat
    BY <1>1, <1>3, CarriesItself, DiscardFlightCarries, EntryFields DEF Carries
  <2> HIDE DEF d
  <2>3. n \in Entry
    BY <2>2, ZenonT(60) DEF Entry
  <2>4. /\ n.seq = d.seq /\ n.inflight = d.inflight /\ n.data = d.data
        /\ n.optimistic = d.optimistic /\ n.mutation_active = d.mutation_active
        /\ n.subs = d.subs /\ n.subscribers = d.subscribers /\ n.fetcher = d.fetcher
        /\ n.gc_gen = d.gc_gen
        /\ n.refresh_gen = d.refresh_gen /\ n.snap_version = d.snap_version
    BY <2>2 DEF Entry
  <2> HIDE DEF n
  <2>5. Saved(n) = Saved(d)
    BY <2>4 DEF Saved
  <2>6. Carries(e, n)
    BY <1>1, <2>2, <2>3, <2>4, <2>5, CarriesOn
  <2>7. starts => CanStartFetch(n)
    BY <2>2, <2>4 DEF CanStartFetch
  <2>8. ~starts => ~IsActive(n) \/ ~n.fetcher
    OBVIOUS
  <2> HIDE DEF starts
  <2> QED
    BY <1>1, <2>1, <2>2, <2>4, <2>6, <2>7, <2>8, CarriesFoot
<1> QED
  BY <1>2, <1>3

LEMMA OnBroadcastFoot ==
    ASSUME NEW e, EntryOK(e), NEW ev, NEW now \in Nat
    PROVE  LET r == OnBroadcast(e, ev, now)
           IN  Footprint(e, r) /\ Passive(e, r) /\ Raced(e, r)
<1> DEFINE ds == {o.focus_throttle : o \in SubOptions(e)}
           throttle == MinOr(ds, Defaults.focus_throttle)
           blocked == IF ev = "Focus" THEN CheckedAdd(now, throttle)
                      ELSE e.focus_blocked_until
           n == [e EXCEPT !.focus_blocked_until = blocked]
           r == OnBroadcast(e, ev, now)
<1>1. e \in Entry
  BY DEF EntryOK
<1>2. blocked \in Nat \cup {None}
  <2>1. ds \in SUBSET Nat
    BY <1>1, SubOptionsType DEF Options
  <2>2. Defaults.focus_throttle \in Nat
    BY DefaultsAssumption DEF Options
  <2> HIDE DEF ds
  <2>3. throttle \in Nat
    BY <2>1, <2>2, MinOrType
  <2>4. e.focus_blocked_until \in Nat \cup {None}
    BY <1>1 DEF Entry
  <2> HIDE DEF throttle
  <2> QED
    BY <2>3, <2>4, CheckedAddType
<1>3. \/ CanStartFetch(e) /\ r = LaunchIf(TRUE, n, {"touched"})
      \/ r = Reply(e, {})
  BY DEF OnBroadcast, LaunchIf
<1> HIDE DEF blocked
<1>4. n \in Entry
  BY <1>1, <1>2, ZenonT(60) DEF Entry
<1>5. /\ n.seq = e.seq /\ n.inflight = e.inflight /\ n.data = e.data
      /\ n.data_seq = e.data_seq /\ n.error = e.error /\ n.error_seq = e.error_seq
      /\ n.optimistic = e.optimistic /\ n.mutation_active = e.mutation_active
      /\ n.updated_at = e.updated_at /\ n.invalidated = e.invalidated
      /\ n.subs = e.subs /\ n.subscribers = e.subscribers /\ n.fetcher = e.fetcher
      /\ n.gc_gen = e.gc_gen
      /\ n.refresh_gen = e.refresh_gen /\ n.snap_version = e.snap_version
  BY <1>1 DEF Entry
<1> HIDE DEF n
<1>6. Visible(n) = Visible(e) /\ Saved(n) = Saved(e) /\ e.seq \in Nat
  BY <1>1, <1>5, EntryFields DEF Visible, Saved
<1>7. ASSUME CanStartFetch(e), r = LaunchIf(TRUE, n, {"touched"})
      PROVE  Footprint(e, r) /\ Passive(e, r) /\ Raced(e, r)
  <2>1. CanStartFetch(n)
    BY <1>5, <1>7 DEF CanStartFetch
  <2>2. Footprint(e, r)
    BY <1>1, <1>4, <1>5, <1>6, <1>7, <2>1, LaunchIfFoot
  <2>3. Raced(e, Reply(n, {"touched"}))
    BY <1>5, <1>6 DEF Raced, Reply
  <2>4. Raced(e, r)
    BY <1>1, <1>4, <1>7, <2>1, <2>3, LaunchIfRaced
  <2>5. Passive(e, LaunchIf(TRUE, n, {"touched"}))
    BY <1>4, <1>5, LaunchIfPassive DEF Passive
  <2> QED
    BY <1>7, <2>2, <2>4, <2>5
<1>8. "touched" \notin {} /\ "fetch" \notin {}
  OBVIOUS
<1> QED
  BY <1>1, <1>3, <1>7, <1>8, NoFoot

\* A tick that has waited for an active entry is armed again, busy or not.
LEMMA OnTimerRefreshFoot ==
    ASSUME NEW e, EntryOK(e), NEW generation
    PROVE  LET r == OnTimerRefresh(e, generation)
           IN  /\ Footprint(e, r) /\ Passive(e, r) /\ Raced(e, r)
               /\ generation = e.refresh_gen /\ IsActive(e) => "refresh" \in r.marks
<1> DEFINE r == OnTimerRefresh(e, generation)
           marks == {"touched", "refresh"}
           starts == CanStartFetch(e)
           l == LaunchIf(starts, e, marks)
<1>1. e \in Entry
  BY DEF EntryOK
<1>2. \/ r = Reply(e, {}) /\ ~(generation = e.refresh_gen /\ IsActive(e))
      \/ CanStartFetch(e) /\ r = l
      \/ r = Reply(e, {"refresh"}) /\ IsActive(e)
  BY DEF OnTimerRefresh, LaunchIf
<1>3. /\ "touched" \notin {} /\ "fetch" \notin {}
      /\ "touched" \notin {"refresh"} /\ "fetch" \notin {"refresh"}
      /\ "touched" \in marks /\ "fetch" \notin marks
  OBVIOUS
<1>4. ASSUME CanStartFetch(e), r = l
      PROVE  /\ Footprint(e, r) /\ Passive(e, r) /\ Raced(e, r)
             /\ "refresh" \in r.marks
  <2>0. starts => CanStartFetch(e)
    OBVIOUS
  <2>1. Footprint(e, l)
    <3> HIDE DEF marks, starts, r
    <3> QED
      BY <1>1, <1>3, <2>0, LaunchIfFoot
  <2>2. Raced(e, Reply(e, marks))
    BY <1>1, <1>3, EntryFields DEF Raced, Reply
  <2>3. Raced(e, l)
    <3> HIDE DEF marks, starts, r
    <3> QED
      BY <1>1, <1>3, <2>0, <2>2, LaunchIfRaced
  <2>4. Passive(e, l)
    BY <1>1, LaunchIfPassive DEF Passive
  <2>5. "refresh" \in l.marks
    BY DEF LaunchIf, Launch, Reply
  <2> HIDE DEF l, r
  <2> QED
    BY <1>4, <2>1, <2>3, <2>4, <2>5
<1>5. "refresh" \in Reply(e, {"refresh"}).marks
  BY DEF Reply
<1> HIDE DEF l, r
<1> QED
  BY <1>1, <1>2, <1>3, <1>4, <1>5, NoFoot DEF r

-----------------------------------------------------------------------------
(* The steps of the machine, by what they do to the handles *)

\* A dispatch whose replies are traced.  A task that ends while its flight may
\* still write lands it; a tick of the current generation is answered; an entry
\* is created only to be used, and alone.
Served(replies, now, ended, fired) ==
    /\ Dispatch(replies, now, ended, fired)
    /\ now \in Sampled /\ UNCHANGED clock
    /\ \A k \in DOMAIN replies :
         /\ k \in Keys
         /\ ReplyOK(EntryOrCreate(k), replies[k])
         /\ Footprint(EntryOrCreate(k), replies[k])
         /\ Present(k) \/ "touched" \in replies[k].marks
         /\ \/ Raced(EntryOrCreate(k), replies[k])
            \/ \E t \in ended :
                 /\ t.key = k /\ t.incarnation = EntryOrCreate(k).incarnation
                 /\ Landing(EntryOrCreate(k), replies[k], t.seq)
    /\ \A k, x \in DOMAIN replies : Present(k) \/ Present(x) \/ k = x
    /\ ended \subseteq tasks
    /\ \A t \in ended :
         Present(t.key) /\ t = Flight(t.key, entries[t.key]) =>
            t.key \in DOMAIN replies /\ Landing(entries[t.key], replies[t.key], t.seq)
    /\ fired \subseteq timers
    /\ \A t \in fired :
         /\ t.kind = "Refresh"
         /\ /\ Present(t.key) /\ IsActive(entries[t.key])
            /\ t.generation = entries[t.key].refresh_gen
            => t.key \in DOMAIN replies /\ "refresh" \in replies[t.key].marks

PassiveStep ==
    /\ \E replies, now, ended, fired :
         /\ Served(replies, now, ended, fired)
         /\ \A k \in DOMAIN replies : Passive(EntryOrCreate(k), replies[k])
    /\ UNCHANGED <<handles, next_sub_id>>

SubscribeStepOf(k, supplied, opts) ==
    /\ \E r, now :
         /\ Served([x \in {k} |-> r], now, {}, {})
         /\ r.entry.subs = EntryOrCreate(k).subs \cup {[id |-> next_sub_id, opts |-> opts]}
         /\ r.entry.subscribers = EntryOrCreate(k).subscribers + 1
         /\ supplied => r.entry.fetcher
         /\ supplied /\ r.entry.invalidated => 0 < r.entry.mutation_active
         /\ {"touched", "refresh"} \subseteq r.marks
    /\ next_sub_id' = next_sub_id + 1
    /\ handles' = handles \cup
         {[key |-> k, sub_id |-> next_sub_id,
           incarnation |-> EntryOrCreate(k).incarnation, supplied |-> supplied]}

DropStepOf(h) ==
    /\ \E replies, now :
         /\ Served(replies, now, {}, {})
         /\ DOMAIN replies = {k \in {h.key} : Present(k)}
         /\ \A k \in DOMAIN replies :
              /\ replies[k].entry.subs = {s \in entries[k].subs : s.id # h.sub_id}
              /\ replies[k].entry.subscribers = Decrement(entries[k].subscribers)
              /\ {"touched", "refresh"} \subseteq replies[k].marks
    /\ handles' = handles \ {h}
    /\ UNCHANGED next_sub_id

\* Time passes, or nothing happens.
StillStep ==
    /\ UNCHANGED <<entries, next_sub_id, next_incarnation, tasks, timers, handles, muts>>
    /\ clock <= clock'

StepShape ==
    \/ PassiveStep
    \/ \E k \in Keys, supplied \in BOOLEAN, opts \in Options : SubscribeStepOf(k, supplied, opts)
    \/ \E h \in handles : DropStepOf(h)
    \/ \E t \in timers : GcTimer(t)
    \/ StillStep

\* Handlers that meet the entries present among some keys.
LEMMA ExistingShape ==
    ASSUME IInv, NEW ks \in SUBSET Keys, NEW replies, NEW now \in Sampled,
           DOMAIN replies = {k \in ks : Present(k)},
           \A k \in ks : Present(k) =>
              /\ ReplyOK(entries[k], replies[k])
              /\ Footprint(entries[k], replies[k])
              /\ Raced(entries[k], replies[k]),
           UNCHANGED clock,
           NEW fired \in SUBSET timers,
           \A t \in fired :
              /\ t.kind = "Refresh" /\ t.key \in ks
              /\ /\ Present(t.key) /\ IsActive(entries[t.key])
                 /\ t.generation = entries[t.key].refresh_gen
                 => "refresh" \in replies[t.key].marks,
           Dispatch(replies, now, {}, fired)
    PROVE  /\ Served(replies, now, {}, fired)
           /\ /\ \A k \in ks : Present(k) => Passive(entries[k], replies[k])
              /\ UNCHANGED <<handles, next_sub_id>>
              => StepShape
<1>1. \A k : Present(k) => EntryOrCreate(k) = entries[k]
  BY DEF EntryOrCreate
<1>2. Served(replies, now, {}, fired)
  BY <1>1 DEF Served
<1>3. ASSUME \A k \in ks : Present(k) => Passive(entries[k], replies[k]),
             UNCHANGED <<handles, next_sub_id>>
      PROVE  StepShape
  <2>1. \A k \in DOMAIN replies : Passive(EntryOrCreate(k), replies[k])
    BY <1>1, <1>3
  <2>2. PassiveStep
    BY <1>2, <1>3, <2>1, Zenon DEF PassiveStep
  <2> QED
    BY <2>2 DEF StepShape
<1> QED
  BY <1>2, <1>3

\* Handlers that create the entry they do not find.
LEMMA CreatingShape ==
    ASSUME IInv, NEW k \in Keys, NEW r, NEW now \in Sampled,
           ReplyOK(EntryOrCreate(k), r),
           Footprint(EntryOrCreate(k), r),
           Raced(EntryOrCreate(k), r),
           "touched" \in r.marks,
           UNCHANGED clock,
           Dispatch([x \in {k} |-> r], now, {}, {})
    PROVE  /\ Served([x \in {k} |-> r], now, {}, {})
           /\ Passive(EntryOrCreate(k), r) /\ UNCHANGED <<handles, next_sub_id>>
              => StepShape
<1> DEFINE A == [x \in {k} |-> r]
<1>1. DOMAIN A = {k} /\ A[k] = r /\ Dispatch(A, now, {}, {})
  OBVIOUS
<1> HIDE DEF A
<1>2. Served(A, now, {}, {})
  BY <1>1 DEF Served
<1>3. ASSUME Passive(EntryOrCreate(k), r), UNCHANGED <<handles, next_sub_id>>
      PROVE  StepShape
  <2>1. \A x \in DOMAIN A : Passive(EntryOrCreate(x), A[x])
    BY <1>1, <1>3
  <2>2. PassiveStep
    BY <1>2, <1>3, <2>1, Zenon DEF PassiveStep
  <2> QED
    BY <2>2 DEF StepShape
<1> QED
  BY <1>2, <1>3 DEF A

LEMMA FetchShape ==
    ASSUME IInv, NEW k \in Keys, NEW policy, NEW now \in Sampled, ReadAt(k, policy, now)
    PROVE  StepShape
<1> DEFINE r == OnRead(EntryOrCreate(k), policy, TRUE, Defaults, now)
           E == [x \in {y \in {k} : Present(y)} |->
                    OnRead(entries[x], policy, TRUE, Defaults, now)]
           A == [x \in {k} |-> r]
<1>1. Dispatch(E, now, {}, {}) \/ Dispatch(A, now, {}, {})
  BY DEF ReadAt, Existing, At
<1>2. UNCHANGED <<next_sub_id, clock, handles>>
  BY DEF ReadAt
<1>3. /\ ReplyOK(EntryOrCreate(k), r) /\ Footprint(EntryOrCreate(k), r)
      /\ Passive(EntryOrCreate(k), r) /\ Raced(EntryOrCreate(k), r)
      /\ "touched" \in r.marks
  BY EntryOrCreateOK, OnReadOK, OnReadFoot, DefaultsAssumption
<1>4. /\ DOMAIN E = {y \in {k} : Present(y)} /\ {k} \in SUBSET Keys
      /\ Present(k) => E[k] = r /\ EntryOrCreate(k) = entries[k]
  BY DEF EntryOrCreate
<1> HIDE DEF E, r
<1>5. CASE Dispatch(E, now, {}, {})
  <2>1. {} \in SUBSET timers
    OBVIOUS
  <2>2. \A x \in {k} : Present(x) =>
          /\ ReplyOK(entries[x], E[x]) /\ Footprint(entries[x], E[x])
          /\ Raced(entries[x], E[x]) /\ Passive(entries[x], E[x])
    BY <1>3, <1>4
  <2> QED
    BY <1>2, <1>4, <1>5, <2>1, <2>2, ExistingShape
<1>6. CASE Dispatch(A, now, {}, {})
  BY <1>2, <1>3, <1>6, CreatingShape
<1> QED
  BY <1>1, <1>5, <1>6

LEMMA SubscribeShape ==
    ASSUME IInv, NEW k \in Keys, NEW supplied \in BOOLEAN, NEW opts \in OptionChoices,
           Subscribe(k, supplied, opts)
    PROVE  opts \in Options /\ SubscribeStepOf(k, supplied, opts)
<1> DEFINE R(now) == OnSubscribe(EntryOrCreate(k), next_sub_id, supplied, opts, now)
<1>1. PICK now \in Sampled : Dispatch([x \in {k} |-> R(now)], now, {}, {})
  BY DEF Subscribe, At
<1>2. EntryOK(EntryOrCreate(k)) /\ next_sub_id \in Nat /\ opts \in Options
  BY EntryOrCreateOK, ChoicesAssumption DEF IInv, TypeOK
<1> DEFINE r == R(now)
<1>3. ReplyOK(EntryOrCreate(k), r)
  BY <1>2, OnSubscribeOK
<1>4. /\ Footprint(EntryOrCreate(k), r) /\ Raced(EntryOrCreate(k), r)
      /\ r.entry.subs = EntryOrCreate(k).subs \cup {[id |-> next_sub_id, opts |-> opts]}
      /\ r.entry.subscribers = EntryOrCreate(k).subscribers + 1
      /\ supplied => r.entry.fetcher
      /\ supplied /\ r.entry.invalidated => 0 < r.entry.mutation_active
      /\ {"touched", "refresh"} \subseteq r.marks
  BY <1>2, OnSubscribeFoot
<1> HIDE DEF R
<1>5. Served([x \in {k} |-> r], now, {}, {})
  BY <1>1, <1>3, <1>4, CreatingShape DEF Subscribe
<1>6. /\ next_sub_id' = next_sub_id + 1
      /\ handles' = handles \cup
           {[key |-> k, sub_id |-> next_sub_id,
             incarnation |-> EntryOrCreate(k).incarnation, supplied |-> supplied]}
  BY DEF Subscribe
<1> HIDE DEF r
<1> QED
  BY <1>2, <1>4, <1>5, <1>6, Zenon DEF SubscribeStepOf

LEMMA DropHandleShape ==
    ASSUME IInv, NEW h \in handles, DropHandle(h)
    PROVE  DropStepOf(h)
<1> DEFINE E == [x \in {y \in {h.key} : Present(y)} |-> OnUnsubscribe(entries[x], h.sub_id)]
<1>1. PICK now \in Sampled : Dispatch(E, now, {}, {})
  BY DEF DropHandle, Existing
<1>2. UNCHANGED <<clock, next_sub_id>> /\ handles' = handles \ {h} /\ h.key \in Keys
  BY DEF DropHandle, IInv, TypeOK, Handle
<1>3. \A x \in {h.key} : Present(x) =>
        /\ ReplyOK(entries[x], E[x])
        /\ Footprint(entries[x], E[x]) /\ Raced(entries[x], E[x])
        /\ E[x].entry.subs = {s \in entries[x].subs : s.id # h.sub_id}
        /\ E[x].entry.subscribers = Decrement(entries[x].subscribers)
        /\ {"touched", "refresh"} \subseteq E[x].marks
  BY <1>2, OnUnsubscribeOK, OnUnsubscribeFoot DEF IInv
<1>4. DOMAIN E = {y \in {h.key} : Present(y)} /\ {h.key} \in SUBSET Keys
      /\ {} \in SUBSET timers
  BY <1>2
<1> HIDE DEF E
<1>5. Served(E, now, {}, {})
  BY <1>1, <1>2, <1>3, <1>4, ExistingShape
<1>6. \A x \in DOMAIN E :
        /\ E[x].entry.subs = {s \in entries[x].subs : s.id # h.sub_id}
        /\ E[x].entry.subscribers = Decrement(entries[x].subscribers)
        /\ {"touched", "refresh"} \subseteq E[x].marks
  BY <1>3, <1>4
<1> QED
  BY <1>2, <1>4, <1>5, <1>6, Zenon DEF DropStepOf

LEMMA RevalidateShape ==
    ASSUME IInv, NEW k \in Keys, RequestRevalidation(k)
    PROVE  StepShape
<1> DEFINE E == [x \in {y \in {k} : Present(y)} |-> OnRevalidateRequested(entries[x])]
<1>1. PICK now \in Sampled : Dispatch(E, now, {}, {})
  BY DEF RequestRevalidation, Existing
<1>2. UNCHANGED <<next_sub_id, clock, handles>>
  BY DEF RequestRevalidation
<1>3. \A x \in {k} : Present(x) =>
        /\ ReplyOK(entries[x], E[x]) /\ Footprint(entries[x], E[x])
        /\ Raced(entries[x], E[x]) /\ Passive(entries[x], E[x])
  BY OnRevalidateRequestedOK, OnRevalidateRequestedFoot DEF IInv
<1>4. DOMAIN E = {y \in {k} : Present(y)} /\ {k} \in SUBSET Keys /\ {} \in SUBSET timers
  OBVIOUS
<1> HIDE DEF E
<1> QED
  BY <1>1, <1>2, <1>3, <1>4, ExistingShape

LEMMA InvalidateShape ==
    ASSUME IInv, NEW prefix, Invalidate(prefix)
    PROVE  StepShape
<1> DEFINE ks == {k \in Keys : MatchesPrefix(k, prefix)}
           E == [x \in {y \in ks : Present(y)} |-> OnInvalidate(entries[x])]
<1>1. PICK now \in Sampled : Dispatch(E, now, {}, {})
  BY DEF Invalidate, Existing
<1>2. UNCHANGED <<next_sub_id, clock, handles>>
  BY DEF Invalidate
<1>3. \A x \in ks : Present(x) =>
        /\ ReplyOK(entries[x], E[x]) /\ Footprint(entries[x], E[x])
        /\ Raced(entries[x], E[x]) /\ Passive(entries[x], E[x])
  BY OnInvalidateOK, OnInvalidateFoot DEF IInv
<1>4. DOMAIN E = {y \in ks : Present(y)} /\ ks \in SUBSET Keys /\ {} \in SUBSET timers
  OBVIOUS
<1> HIDE DEF E, ks
<1> QED
  BY <1>1, <1>2, <1>3, <1>4, ExistingShape

LEMMA BroadcastShape ==
    ASSUME IInv, NEW ev, Broadcast(ev)
    PROVE  StepShape
<1> DEFINE E(now) == [x \in {y \in Keys : Present(y)} |-> OnBroadcast(entries[x], ev, now)]
<1>1. PICK now \in Sampled : Dispatch(E(now), now, {}, {})
  BY DEF Broadcast, Existing
<1>2. now \in Nat /\ UNCHANGED <<next_sub_id, clock, handles>>
  BY SampledType DEF Broadcast
<1>3. \A x \in Keys : Present(x) =>
        /\ ReplyOK(entries[x], E(now)[x]) /\ Footprint(entries[x], E(now)[x])
        /\ Raced(entries[x], E(now)[x]) /\ Passive(entries[x], E(now)[x])
  BY <1>2, OnBroadcastOK, OnBroadcastFoot DEF IInv
<1>4. /\ DOMAIN E(now) = {y \in Keys : Present(y)}
      /\ Keys \in SUBSET Keys /\ {} \in SUBSET timers
  OBVIOUS
<1> DEFINE F == E(now)
<1> HIDE DEF E
<1>5. Dispatch(F, now, {}, {})
  BY <1>1
<1> HIDE DEF F
<1> QED
  BY <1>2, <1>3, <1>4, <1>5, ExistingShape DEF F

LEMMA RefreshTimerShape ==
    ASSUME IInv, NEW t \in timers, RefreshTimer(t)
    PROVE  StepShape
<1> DEFINE ks == {t.key}
           fired == {t}
           E == [x \in {y \in ks : Present(y)} |->
                    OnTimerRefresh(entries[x], t.generation)]
<1>1. PICK now \in Sampled : Dispatch(E, now, {}, fired)
  BY DEF RefreshTimer, Existing
<1>2. /\ UNCHANGED <<next_sub_id, clock, handles>>
      /\ t.key \in Keys /\ t.kind = "Refresh"
  BY DEF RefreshTimer, IInv, TypeOK, TimerType
<1>3. ASSUME Present(t.key)
      PROVE  LET e == entries[t.key]
             IN  /\ ReplyOK(e, E[t.key]) /\ Footprint(e, E[t.key])
                 /\ Raced(e, E[t.key]) /\ Passive(e, E[t.key])
                 /\ t.generation = e.refresh_gen /\ IsActive(e) =>
                      "refresh" \in E[t.key].marks
  BY <1>2, <1>3, OnTimerRefreshOK, OnTimerRefreshFoot DEF IInv
<1>4. /\ DOMAIN E = {y \in ks : Present(y)}
      /\ ks \in SUBSET Keys /\ fired \in SUBSET timers
  BY <1>2
<1> HIDE DEF E
<1>5. \A x \in fired :
        /\ x.kind = "Refresh" /\ x.key \in ks
        /\ /\ Present(x.key) /\ IsActive(entries[x.key])
           /\ x.generation = entries[x.key].refresh_gen
           => "refresh" \in E[x.key].marks
  BY <1>2, <1>3
<1>6. \A x \in ks : Present(x) =>
        /\ ReplyOK(entries[x], E[x]) /\ Footprint(entries[x], E[x])
        /\ Raced(entries[x], E[x]) /\ Passive(entries[x], E[x])
  BY <1>3
<1> HIDE DEF ks, fired
<1> QED
  BY <1>1, <1>2, <1>4, <1>5, <1>6, ExistingShape

LEMMA SetShape ==
    ASSUME IInv, NEW k \in Keys, Set(k)
    PROVE  StepShape
<1> DEFINE R(now) == OnMutateSet(EntryOrCreate(k), now)
<1>1. PICK now \in Sampled : Dispatch([x \in {k} |-> R(now)], now, {}, {})
  BY DEF Set, At
<1>2. now \in Nat /\ UNCHANGED <<next_sub_id, clock, handles>>
  BY SampledType DEF Set
<1>3. /\ ReplyOK(EntryOrCreate(k), R(now)) /\ Footprint(EntryOrCreate(k), R(now))
      /\ Raced(EntryOrCreate(k), R(now)) /\ Passive(EntryOrCreate(k), R(now))
      /\ "touched" \in R(now).marks
  BY <1>2, EntryOrCreateOK, OnMutateSetOK, OnMutateSetFoot
<1> HIDE DEF R
<1> QED
  BY <1>1, <1>2, <1>3, CreatingShape

LEMMA MutateBeginShape ==
    ASSUME IInv, NEW m, NEW k \in Keys, NEW optimistic \in BOOLEAN, NEW flags,
           MutateBegin(m, k, optimistic, flags)
    PROVE  StepShape
<1> DEFINE r == OnMutateBegin(EntryOrCreate(k), optimistic)
<1>1. PICK now \in Sampled : Dispatch([x \in {k} |-> r], now, {}, {})
  BY DEF MutateBegin, At
<1>2. UNCHANGED <<next_sub_id, clock, handles>>
  BY DEF MutateBegin
<1>3. /\ ReplyOK(EntryOrCreate(k), r) /\ Footprint(EntryOrCreate(k), r)
      /\ Raced(EntryOrCreate(k), r) /\ Passive(EntryOrCreate(k), r)
      /\ "touched" \in r.marks
  BY EntryOrCreateOK, OnMutateBeginOK, OnMutateBeginFoot
<1> HIDE DEF r
<1> QED
  BY <1>1, <1>2, <1>3, CreatingShape

\* The entry that a running mutation began on is there to end it.
LEMMA EndingMutation ==
    ASSUME IInv, NEW m \in Mutators, muts[m] # None
    PROVE  LET token == muts[m]
               e == entries[token.key]
           IN  /\ token \in Token /\ token.key \in Keys /\ Present(token.key)
               /\ EntryOK(e) /\ 0 < e.mutation_active
               /\ e.optimistic # None /\ ~OwnsSlot(e, token) => 1 < e.mutation_active
<1> DEFINE token == muts[m]
           k == token.key
           e == entries[k]
           Others == Mutating(k) \ {m}
<1>1. token \in Token /\ k \in Keys /\ Present(k) /\ m \in Mutating(k)
  BY DEF IInv, TypeOK, MutationsPinEntry, Token, Mutating
<1>2. EntryOK(e) /\ e.mutation_active = Cardinality(Mutating(k)) /\ Owned(k)
  BY <1>1 DEF IInv, MutationsPinEntry
<1>3. /\ IsFiniteSet(Others) /\ Cardinality(Others) = e.mutation_active - 1
      /\ Cardinality(Others) \in Nat /\ e.mutation_active \in Nat
  BY <1>1, <1>2, FiniteMutating, FS_RemoveElement, FS_CardinalityType
<1>4. ASSUME e.optimistic # None, ~OwnsSlot(e, token)
      PROVE  Others # {}
  <2>1. PICK x \in Mutating(k) : muts[x].written_seq = e.optimistic.written_seq
    BY <1>2, <1>4 DEF Owned
  <2>2. e.optimistic.written_seq \in Nat
    BY <1>2, <1>4, EntryFields DEF EntryOK
  <2>3. x # m
    BY <1>4, <2>1, <2>2, NoneAssumption DEF OwnsSlot
  <2> QED
    BY <2>1, <2>3
<1>5. Others # {} => Cardinality(Others) # 0
  BY <1>3, FS_EmptySet
<1> QED
  BY <1>1, <1>2, <1>3, <1>4, <1>5

LEMMA MutateEndShape ==
    ASSUME IInv, NEW m \in Mutators, NEW result,
           MutateCommit(m, result) \/ MutateAbort(m)
    PROVE  StepShape
<1> DEFINE token == muts[m]
           k == token.key
           Commit(now) == [x \in {y \in {k} : Present(y)} |->
                              OnMutateCommit(entries[x], token, result, now)]
           Abort == [x \in {y \in {k} : Present(y)} |-> OnMutateAbort(entries[x], token)]
<1>1. muts[m] # None /\ UNCHANGED <<next_sub_id, clock, handles>>
  BY DEF MutateCommit, MutateAbort
<1>2. PICK now \in Sampled :
        Dispatch(Commit(now), now, {}, {}) \/ Dispatch(Abort, now, {}, {})
  BY DEF MutateCommit, MutateAbort, Existing
<1>3. PICK A \in {Commit(now), Abort} : Dispatch(A, now, {}, {})
  BY <1>2
<1>4. now \in Nat /\ k \in Keys /\ {} \in SUBSET timers
  BY <1>1, SampledType, EndingMutation
<1> DEFINE ks == {k}
<1>5. DOMAIN A = {y \in ks : Present(y)} /\ ks \in SUBSET Keys
  BY <1>3, <1>4
<1>6. Present(k) =>
        \/ A[k] = OnMutateCommit(entries[k], token, result, now)
        \/ A[k] = OnMutateAbort(entries[k], token)
  BY <1>3
<1>7. /\ EntryOK(entries[k]) /\ 0 < entries[k].mutation_active
      /\ entries[k].optimistic # None /\ ~OwnsSlot(entries[k], token) =>
           1 < entries[k].mutation_active
  BY <1>1, EndingMutation
<1> HIDE DEF token, k, Commit, Abort
<1>8. ASSUME NEW r \in {OnMutateCommit(entries[k], token, result, now),
                       OnMutateAbort(entries[k], token)}
      PROVE  /\ ReplyOK(entries[k], r) /\ Footprint(entries[k], r)
             /\ Raced(entries[k], r) /\ Passive(entries[k], r)
  <2> DEFINE e == entries[k]
  <2>1. /\ EntryOK(e) /\ 0 < e.mutation_active
        /\ e.optimistic # None /\ ~OwnsSlot(e, token) => 1 < e.mutation_active
        /\ r \in {OnMutateCommit(e, token, result, now), OnMutateAbort(e, token)}
    BY <1>7, <1>8
  <2> HIDE DEF e
  <2>2. EndsMutation(e, r, token)
    BY <1>4, <2>1, OnMutateEndOK
  <2>3. Footprint(e, r) /\ Passive(e, r) /\ Raced(e, r)
    BY <1>4, <2>1, OnMutateEndFoot
  <2> QED
    BY <2>2, <2>3 DEF EndsMutation, e
<1>9. \A x \in ks : Present(x) =>
        /\ ReplyOK(entries[x], A[x]) /\ Footprint(entries[x], A[x])
        /\ Raced(entries[x], A[x]) /\ Passive(entries[x], A[x])
  BY <1>6, <1>8
<1> DEFINE fired == {}
<1>10. /\ fired \in SUBSET timers /\ Dispatch(A, now, {}, fired)
       /\ \A t \in fired : FALSE
  BY <1>3
<1> HIDE DEF ks, fired
<1> QED
  BY <1>1, <1>5, <1>9, <1>10, ExistingShape

LEMMA ReportShape ==
    ASSUME IInv, NEW t \in tasks, FetchOk(t) \/ FetchErr(t)
    PROVE  StepShape
<1> DEFINE k == t.key
           Ok(now) == [x \in {y \in {k} : Present(y)} |->
                          OnCommitOk(entries[x], t.incarnation, t.seq, now)]
           Err == [x \in {y \in {k} : Present(y)} |->
                      OnCommitErr(entries[x], t.incarnation, t.seq)]
<1>1. PICK now \in Sampled :
        Dispatch(Ok(now), now, {t}, {}) \/ Dispatch(Err, now, {t}, {})
  BY DEF FetchOk, FetchErr, Existing
<1>2. PICK E \in {Ok(now), Err} : Dispatch(E, now, {t}, {})
  BY <1>1
<1>3. UNCHANGED <<next_sub_id, clock, handles>> /\ now \in Nat
  BY SampledType DEF FetchOk, FetchErr
<1>4. k \in Keys /\ t.incarnation \in Nat /\ t.seq \in Nat
  BY DEF IInv, TypeOK, Task
<1>5. DOMAIN E = {y \in {k} : Present(y)}
  BY <1>2
<1>6. Present(k) =>
        \/ E[k] = OnCommitOk(entries[k], t.incarnation, t.seq, now)
        \/ E[k] = OnCommitErr(entries[k], t.incarnation, t.seq)
  BY <1>2
<1> HIDE DEF Ok, Err
<1>7. ASSUME Present(k)
      PROVE  /\ EntryOrCreate(k) = entries[k]
             /\ ReplyOK(entries[k], E[k])
             /\ Footprint(entries[k], E[k]) /\ Passive(entries[k], E[k])
             /\ IF Accepts(entries[k], t.incarnation, t.seq)
                THEN Landing(entries[k], E[k], t.seq) ELSE Raced(entries[k], E[k])
  <2>1. EntryOK(entries[k])
    BY <1>4, <1>7 DEF IInv
  <2>2. \A r \in {OnCommitOk(entries[k], t.incarnation, t.seq, now),
                  OnCommitErr(entries[k], t.incarnation, t.seq)} :
          /\ ReplyOK(entries[k], r)
          /\ Footprint(entries[k], r) /\ Passive(entries[k], r)
          /\ IF Accepts(entries[k], t.incarnation, t.seq)
             THEN Landing(entries[k], r, t.seq) ELSE Raced(entries[k], r)
    BY <1>3, <1>4, <2>1, CommitOK, CommitFoot
  <2> QED
    BY <1>6, <1>7, <2>2 DEF EntryOrCreate
<1>8. ASSUME Present(k), t = Flight(k, entries[k])
      PROVE  Accepts(entries[k], t.incarnation, t.seq)
  <2>1. t.incarnation = entries[k].incarnation /\ t.seq = entries[k].inflight
    BY <1>8 DEF Flight
  <2>2. EntryOK(entries[k]) /\ entries[k].inflight # None
    BY <1>4, <1>8, <2>1, NoneAssumption DEF IInv
  <2> QED
    BY <2>1, <2>2 DEF Accepts, EntryOK, FlightOK
<1>9. \A x \in DOMAIN E : x = k /\ Present(k)
  BY <1>5
<1>10. Served(E, now, {t}, {})
  <2>1. \A x \in DOMAIN E :
          /\ x \in Keys /\ Present(x)
          /\ ReplyOK(EntryOrCreate(x), E[x])
          /\ Footprint(EntryOrCreate(x), E[x])
          /\ \/ Raced(EntryOrCreate(x), E[x])
             \/ \E u \in {t} :
                  /\ u.key = x /\ u.incarnation = EntryOrCreate(x).incarnation
                  /\ Landing(EntryOrCreate(x), E[x], u.seq)
    BY <1>4, <1>7, <1>9 DEF Accepts
  <2>2. \A u \in {t} : Present(u.key) /\ u = Flight(u.key, entries[u.key]) =>
          u.key \in DOMAIN E /\ Landing(entries[u.key], E[u.key], u.seq)
    BY <1>5, <1>7, <1>8
  <2> QED
    BY <1>2, <1>3, <2>1, <2>2 DEF Served
<1>11. \A x \in DOMAIN E : Passive(EntryOrCreate(x), E[x])
  BY <1>7, <1>9
<1> HIDE DEF k
<1>12. PassiveStep
  BY <1>3, <1>10, <1>11, Zenon DEF PassiveStep
<1> QED
  BY <1>12 DEF StepShape

\* Every step of the machine has one of the shapes.
LEMMA NextShape ==
    ASSUME IInv, [Next]_vars
    PROVE  StepShape
<1>1. ASSUME NEW k \in Keys, NEW policy \in Policies, Fetch(k, policy) PROVE StepShape
  BY <1>1, FetchShape DEF Fetch
<1>2. ASSUME NEW k \in Keys, NEW supplied \in BOOLEAN, NEW opts \in OptionChoices,
             Subscribe(k, supplied, opts)
      PROVE  StepShape
  BY <1>2, SubscribeShape DEF StepShape
<1>3. ASSUME NEW h \in handles, DropHandle(h) PROVE StepShape
  BY <1>3, DropHandleShape DEF StepShape
<1>4. ASSUME NEW k \in Keys, Revalidate(k) PROVE StepShape
  BY <1>4, RevalidateShape DEF Revalidate
<1>5. ASSUME NEW t \in tasks, FetchOk(t) \/ FetchErr(t) PROVE StepShape
  BY <1>5, ReportShape
<1>6. ASSUME NEW k \in Keys, Set(k) PROVE StepShape
  BY <1>6, SetShape
<1>7. ASSUME NEW m \in Mutators, NEW k \in Keys, NEW optimistic \in BOOLEAN,
             NEW flags \in FlagChoices, MutateBegin(m, k, optimistic, flags)
      PROVE  StepShape
  BY <1>7, MutateBeginShape
<1>8. ASSUME NEW m \in Mutators, NEW result \in Results, MutateCommit(m, result)
      PROVE  StepShape
  BY <1>8, MutateEndShape
<1>9. ASSUME NEW m \in Mutators, MutateAbort(m) PROVE StepShape
  BY <1>9, MutateEndShape
<1>10. ASSUME NEW prefix \in KeyPrefixes, Invalidate(prefix) PROVE StepShape
  BY <1>10, InvalidateShape
<1>11. ASSUME NEW ev \in EventKinds, Broadcast(ev) PROVE StepShape
  BY <1>11, BroadcastShape
<1>12. ASSUME NEW t \in timers, GcTimer(t) PROVE StepShape
  BY <1>12 DEF StepShape
<1>13. ASSUME NEW t \in timers, RefreshTimer(t) PROVE StepShape
  BY <1>13, RefreshTimerShape
<1>14. CASE Tick \/ UNCHANGED vars
  BY <1>14 DEF Tick, vars, IInv, TypeOK, StepShape, StillStep
<1> QED
  BY <1>1, <1>2, <1>3, <1>4, <1>5, <1>6, <1>7, <1>8, <1>9, <1>10, <1>11, <1>12,
     <1>13, <1>14 DEF Next

-----------------------------------------------------------------------------
(* What a dispatch leaves in the table *)

LEMMA SettleFields ==
    ASSUME NEW r, r.entry \in Entry, NEW now
    PROVE  LET n == Settle(r, now)
           IN  /\ n.incarnation = r.entry.incarnation
               /\ n.data = r.entry.data /\ n.optimistic = r.entry.optimistic
               /\ n.seq = r.entry.seq /\ n.inflight = r.entry.inflight
               /\ n.mutation_active = r.entry.mutation_active
               /\ n.invalidated = r.entry.invalidated
               /\ n.fetcher = r.entry.fetcher
               /\ n.subs = r.entry.subs /\ n.subscribers = r.entry.subscribers
               /\ n.last_touch_gc_time = r.entry.last_touch_gc_time
               /\ n.gc_gen = IF GcRestarts(r) THEN r.entry.gc_gen + 1
                             ELSE r.entry.gc_gen
               /\ n.refresh_gen =
                    IF RefreshCancelled(r) \/ RefreshDeadline(r, now) # None
                    THEN r.entry.refresh_gen + 1 ELSE r.entry.refresh_gen
               /\ n.snap_version = IF "notify" \in r.marks THEN r.entry.snap_version + 1
                                   ELSE r.entry.snap_version
               /\ Visible(n) = Visible(r.entry)
<1> DEFINE e == r.entry
           gc == IF GcRestarts(r) THEN e.gc_gen + 1 ELSE e.gc_gen
           refresh == IF RefreshCancelled(r) \/ RefreshDeadline(r, now) # None
                      THEN e.refresh_gen + 1 ELSE e.refresh_gen
           version == IF "notify" \in r.marks
                      THEN e.snap_version + 1 ELSE e.snap_version
           n == [e EXCEPT !.gc_gen = gc, !.refresh_gen = refresh,
                          !.snap_version = version]
<1>1. Settle(r, now) = n
  BY DEF Settle
<1> HIDE DEF gc, refresh, version
<1>2. /\ n.incarnation = e.incarnation
      /\ n.data = e.data /\ n.data_seq = e.data_seq /\ n.optimistic = e.optimistic
      /\ n.error = e.error /\ n.error_seq = e.error_seq /\ n.updated_at = e.updated_at
      /\ n.seq = e.seq /\ n.inflight = e.inflight
      /\ n.mutation_active = e.mutation_active
      /\ n.invalidated = e.invalidated /\ n.fetcher = e.fetcher
      /\ n.subs = e.subs /\ n.subscribers = e.subscribers
      /\ n.last_touch_gc_time = e.last_touch_gc_time
      /\ n.gc_gen = gc /\ n.refresh_gen = refresh /\ n.snap_version = version
  BY DEF Entry
<1> HIDE DEF n, e
<1>3. Visible(n) = Visible(e)
  BY <1>2 DEF Visible
<1> QED
  BY <1>1, <1>2, <1>3 DEF e, gc, refresh, version

\* Every key a dispatch does not answer keeps its entry; the others get what
\* the post-rules make of their reply.
LEMMA ServedEntries ==
    ASSUME IInv, NEW replies, NEW now, NEW ended, NEW fired,
           Served(replies, now, ended, fired)
    PROVE  /\ \A k \in DOMAIN replies :
                /\ k \in Keys /\ Present(k)'
                /\ entries'[k] = Settle(replies[k], now)
                /\ EntryOK(EntryOrCreate(k)) /\ EntryOrCreate(k) \in Entry
                /\ EntryOK(replies[k].entry) /\ replies[k].entry \in Entry
                /\ replies[k].entry.incarnation = EntryOrCreate(k).incarnation
           /\ \A k \in Keys : k \notin DOMAIN replies => entries'[k] = entries[k]
           /\ \A k \in Keys : Present(k) =>
                Present(k)' /\ entries'[k].incarnation = entries[k].incarnation
           /\ \A k \in Keys : ~Present(k) /\ Present(k)' =>
                /\ k \in DOMAIN replies
                /\ entries'[k].incarnation = next_incarnation
                /\ next_incarnation' = next_incarnation + 1
           /\ \A k, x \in Keys :
                ~Present(k) /\ Present(k)' /\ ~Present(x) /\ Present(x)' => k = x
           /\ next_incarnation' \in {next_incarnation, next_incarnation + 1}
<1>1. ASSUME NEW k \in DOMAIN replies
      PROVE  /\ k \in Keys /\ Present(k)'
             /\ entries'[k] = Settle(replies[k], now)
             /\ EntryOK(EntryOrCreate(k)) /\ EntryOrCreate(k) \in Entry
             /\ EntryOK(replies[k].entry) /\ replies[k].entry \in Entry
             /\ replies[k].entry.incarnation = EntryOrCreate(k).incarnation
             /\ entries'[k].incarnation = EntryOrCreate(k).incarnation
  <2>1. k \in Keys /\ ReplyOK(EntryOrCreate(k), replies[k])
    BY DEF Served
  <2>2. entries'[k] = Settle(replies[k], now)
    BY <2>1 DEF Served, Dispatch
  <2>3. EntryOK(replies[k].entry)
        /\ replies[k].entry.incarnation = EntryOrCreate(k).incarnation
    BY <2>1 DEF ReplyOK
  <2>4. EntryOK(entries'[k]) /\ entries'[k].incarnation = EntryOrCreate(k).incarnation
    BY <2>2, <2>3, SettleOK
  <2>5. Present(k)'
    BY <2>4, AbsenceAssumption DEF EntryOK, Present
  <2> QED
    BY <2>1, <2>2, <2>3, <2>4, <2>5, EntryOrCreateOK DEF EntryOK
<1>2. \A k \in Keys : k \notin DOMAIN replies => entries'[k] = entries[k]
  BY DEF Served, Dispatch
<1>3. \A k \in Keys : Present(k) =>
        Present(k)' /\ entries'[k].incarnation = entries[k].incarnation
  BY <1>1, <1>2 DEF Present, EntryOrCreate
<1>4. ASSUME NEW k \in Keys, ~Present(k), Present(k)'
      PROVE  /\ k \in DOMAIN replies
             /\ entries'[k].incarnation = next_incarnation
             /\ next_incarnation' = next_incarnation + 1
  <2>1. k \in DOMAIN replies
    BY <1>2, <1>4 DEF Present
  <2>2. entries'[k].incarnation = next_incarnation
    BY <1>1, <1>4, <2>1 DEF EntryOrCreate, NewEntry
  <2>3. next_incarnation' = next_incarnation + 1
    BY <1>4, <2>1 DEF Served, Dispatch
  <2> QED
    BY <2>1, <2>2, <2>3
<1>5. next_incarnation' \in {next_incarnation, next_incarnation + 1}
  BY DEF Served, Dispatch
<1>6. \A k, x \in Keys : ~Present(k) /\ Present(k)' /\ ~Present(x) /\ Present(x)' => k = x
  BY <1>4 DEF Served
<1> QED
  BY <1>1, <1>2, <1>3, <1>4, <1>5, <1>6

-----------------------------------------------------------------------------
(* Snapshots *)

\* An entry keeps its incarnation and its fetcher, and what a snapshot shows
\* of it changes only together with its version.
Told(e, n) ==
    /\ n.incarnation = e.incarnation
    /\ e.fetcher => n.fetcher
    /\ Visible(n) # Visible(e) => n.snap_version = e.snap_version + 1
    /\ n.snap_version \in e.snap_version .. e.snap_version + 1

LEMMA ServedSnapshots ==
    ASSUME IInv, NEW replies, NEW now, NEW ended, NEW fired,
           Served(replies, now, ended, fired),
           NEW k \in Keys, Present(k)'
    PROVE  Told(EntryOrCreate(k), entries'[k])
<1> DEFINE e == EntryOrCreate(k)
           n == entries'[k]
           r == replies[k]
<1>1. e.snap_version \in Nat
  BY EntryOrCreateOK DEF EntryOK, Entry
<1>2. CASE k \notin DOMAIN replies
  <2>1. n = e
    BY <1>2, ServedEntries DEF EntryOrCreate, Present
  <2> HIDE DEF e, n
  <2> QED
    BY <1>1, <2>1 DEF Told, e, n
<1>3. CASE k \in DOMAIN replies
  <2>1. n = Settle(r, now) /\ r.entry \in Entry /\ r.entry.incarnation = e.incarnation
    BY <1>3, ServedEntries
  <2>2. /\ r.entry.snap_version = e.snap_version
        /\ "notify" \notin r.marks => Visible(r.entry) = Visible(e)
        /\ e.fetcher => r.entry.fetcher
    BY <1>3, <2>1 DEF Served, Footprint
  <2>3. /\ n.snap_version = IF "notify" \in r.marks THEN r.entry.snap_version + 1
                            ELSE r.entry.snap_version
        /\ Visible(n) = Visible(r.entry)
        /\ n.incarnation = r.entry.incarnation /\ n.fetcher = r.entry.fetcher
    BY <2>1, SettleFields
  <2> HIDE DEF e, n, r
  <2>4. Told(e, n)
    BY <1>1, <2>1, <2>2, <2>3 DEF Told
  <2> QED
    BY <2>4 DEF e, n
<1> QED
  BY <1>2, <1>3

LEMMA ShapeSnapshots ==
    ASSUME IInv, StepShape, NEW k \in Keys, Present(k)'
    PROVE  Told(EntryOrCreate(k), entries'[k])
<1>0. CASE \E replies, now, ended, fired : Served(replies, now, ended, fired)
  BY <1>0, ServedSnapshots
<1>1. CASE PassiveStep
  BY <1>0, <1>1 DEF PassiveStep
<1>2. CASE \E x \in Keys, supplied \in BOOLEAN, opts \in Options :
             SubscribeStepOf(x, supplied, opts)
  BY <1>0, <1>2 DEF SubscribeStepOf
<1>3. CASE \E h \in handles : DropStepOf(h)
  BY <1>0, <1>3 DEF DropStepOf
<1>4. CASE (\E t \in timers : GcTimer(t)) \/ StillStep
  <2>1. EntryOrCreate(k).snap_version \in Nat
    BY EntryOrCreateOK DEF EntryOK, Entry
  <2>2. entries'[k] = entries[k] \/ entries'[k] = None
    BY <1>4 DEF GcTimer, StillStep, IInv, TypeOK
  <2>3. entries'[k] = EntryOrCreate(k)
    BY <2>2 DEF Present, EntryOrCreate
  <2> QED
    BY <2>1, <2>3 DEF Told
<1> QED
  BY <1>1, <1>2, <1>3, <1>4 DEF StepShape

\* What Published says of a step.
Publishes ==
    \A k \in Keys :
       (Present(k) /\ entries'[k] # None) =>
          LET e == entries[k]
              n == entries'[k]
          IN  /\ Visible(n) # Visible(e) => n.snap_version = e.snap_version + 1
              /\ n.snap_version \in e.snap_version .. e.snap_version + 1

LEMMA ShapePublishes ==
    ASSUME IInv, StepShape
    PROVE  Publishes
<1>1. \A k \in Keys : Present(k) /\ entries'[k] # None => Told(entries[k], entries'[k])
  BY ShapeSnapshots DEF Present, EntryOrCreate
<1> QED
  BY <1>1 DEF Told, Publishes

\* No watcher misses the last state of an entry: whatever a snapshot shows
\* changes only together with its version, by one publication per handler.
THEOREM SnapshotsArePublished == Spec => Published
  BY NextShape, ShapePublishes, Inductive, PTL DEF Spec, Published, Publishes

-----------------------------------------------------------------------------
(* Collection *)

\* Nothing takes an entry away while a flight may still write to it: only a
\* countdown removes entries, and only idle ones.
LEMMA FlightPinsEntry ==
    ASSUME IInv, StepShape, NEW k \in Keys, Present(k), entries[k].inflight # None
    PROVE  Present(k)'
<1>0. CASE \E replies, now, ended, fired : Served(replies, now, ended, fired)
  BY <1>0, ServedEntries
<1>1. CASE PassiveStep
  BY <1>0, <1>1 DEF PassiveStep
<1>2. CASE \E x \in Keys, supplied \in BOOLEAN, opts \in Options :
             SubscribeStepOf(x, supplied, opts)
  BY <1>0, <1>2 DEF SubscribeStepOf
<1>3. CASE \E h \in handles : DropStepOf(h)
  BY <1>0, <1>3 DEF DropStepOf
<1>4. CASE \E t \in timers : GcTimer(t)
  BY <1>4 DEF GcTimer, Present, Collects, IsQuiescent, IInv, TypeOK
<1>5. CASE StillStep
  BY <1>5 DEF StillStep, Present
<1> QED
  BY <1>1, <1>2, <1>3, <1>4, <1>5 DEF StepShape
=============================================================================
