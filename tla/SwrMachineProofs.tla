-------------------------- MODULE SwrMachineProofs --------------------------
(***************************************************************************)
(* Proofs about SwrMachine for every value of its constants.                *)
(*                                                                         *)
(* The inductive invariant IInv adds to TypeOK what holds of each entry by  *)
(* itself (EntryOK), the count of running mutations (MutationsPinEntry),    *)
(* and who owns the rollback slot (Owned).  The proof has three layers:     *)
(*   - for each handler of SwrEntry, that it takes an EntryOK entry to an   *)
(*     EntryOK reply and what it does to mutations and slot;                *)
(*   - for Dispatch, that good replies settle into a good table;            *)
(*   - for each action, that it preserves IInv.                             *)
(* The theorems at the end follow from IInv.                                *)
(***************************************************************************)
EXTENDS SwrMachine, FiniteSetTheorems, WellFoundedInduction, TLAPS

-----------------------------------------------------------------------------
(* What holds of every entry by itself *)

FlightOK(e) ==
    e.inflight # None =>
        /\ e.inflight = e.seq
        /\ 0 < e.seq
        /\ e.data_seq < e.seq /\ e.error_seq < e.seq
        /\ e.mutation_active = 0
        /\ ~e.invalidated

DataOK(data, data_seq, seq) ==
    IF data = None THEN data_seq = 0
    ELSE data.seq = data_seq /\ 0 < data_seq /\ data_seq <= seq

ErrorOK(error, error_seq, data_seq) == data_seq < error_seq => error # None

SlotOK(e) ==
    e.optimistic # None =>
        /\ 0 < e.mutation_active
        /\ e.optimistic.written_seq = e.data_seq
        /\ e.optimistic.prev_data_seq < e.data_seq
        /\ DataOK(e.optimistic.prev_data, e.optimistic.prev_data_seq, e.seq)
        /\ ErrorOK(e.optimistic.prev_error, e.error_seq, e.optimistic.prev_data_seq)

EntryOK(e) ==
    /\ e \in Entry
    /\ IsFiniteSet(e.subs)
    /\ e.error_seq <= e.seq
    /\ 0 < e.mutation_active => 0 < e.seq
    /\ FlightOK(e)
    /\ DataOK(e.data, e.data_seq, e.seq)
    /\ ErrorOK(e.error, e.error_seq, e.data_seq)
    /\ SlotOK(e)

LEMMA NewEntryOK ==
    ASSUME NEW i \in Nat PROVE EntryOK(NewEntry(i))
  BY FS_EmptySet DEF EntryOK, NewEntry, Entry, FlightOK, DataOK, ErrorOK, SlotOK

LEMMA EntryFields ==
    ASSUME NEW e \in Entry
    PROVE  /\ e.seq \in Nat /\ e.data_seq \in Nat /\ e.error_seq \in Nat
           /\ e.mutation_active \in Nat
           /\ e.optimistic # None =>
                /\ e.optimistic.prev_data_seq \in Nat
                /\ e.optimistic.written_seq \in Nat
  BY DEF Entry, OptimisticSnapshot

LEMMA StartFetchOK ==
    ASSUME NEW e, EntryOK(e), CanStartFetch(e)
    PROVE  /\ EntryOK(StartFetch(e))
           /\ StartFetch(e).inflight = StartFetch(e).seq
           /\ StartFetch(e).inflight # None
           /\ StartFetch(e).incarnation = e.incarnation
           /\ StartFetch(e).mutation_active = e.mutation_active
           /\ StartFetch(e).optimistic = e.optimistic
<1> DEFINE n == StartFetch(e)
<1>1. e \in Entry /\ e.seq \in Nat /\ e.seq + 1 \in Nat
  BY EntryFields DEF EntryOK
<1>2. n \in Entry
  BY <1>1, Zenon DEF StartFetch, Entry
<1>3. /\ n.seq = e.seq + 1 /\ n.inflight = e.seq + 1 /\ ~n.invalidated
      /\ n.data = e.data /\ n.data_seq = e.data_seq
      /\ n.error = e.error /\ n.error_seq = e.error_seq
      /\ n.optimistic = e.optimistic /\ n.mutation_active = e.mutation_active
      /\ n.subs = e.subs /\ n.incarnation = e.incarnation
  BY <1>1 DEF StartFetch, Entry
<1>4. e.mutation_active = 0 /\ e.optimistic = None
  BY EntryFields DEF EntryOK, SlotOK, CanStartFetch
<1>5. n.inflight # None
  BY <1>1, <1>3, NoneAssumption
<1> QED
  BY <1>1, <1>2, <1>3, <1>4, <1>5, EntryFields
  DEF EntryOK, FlightOK, DataOK, ErrorOK, SlotOK

LEMMA DiscardFlightOK ==
    ASSUME NEW e, EntryOK(e)
    PROVE  /\ EntryOK(DiscardFlight(e))
           /\ DiscardFlight(e).inflight = None
           /\ DiscardFlight(e).incarnation = e.incarnation
           /\ DiscardFlight(e).mutation_active = e.mutation_active
           /\ DiscardFlight(e).optimistic = e.optimistic
           /\ DiscardFlight(e).data = e.data
           /\ DiscardFlight(e).data_seq = e.data_seq
           /\ DiscardFlight(e).error = e.error
           /\ DiscardFlight(e).error_seq = e.error_seq
           /\ DiscardFlight(e).subs = e.subs
<1> DEFINE n == DiscardFlight(e)
<1>1. e \in Entry /\ e.seq \in Nat /\ e.seq + 1 \in Nat
  BY EntryFields DEF EntryOK
<1>2. n \in Entry
  BY <1>1, Zenon DEF DiscardFlight, Entry
<1>3. /\ n.seq = e.seq + 1 /\ n.inflight = None
      /\ n.data = e.data /\ n.data_seq = e.data_seq
      /\ n.error = e.error /\ n.error_seq = e.error_seq
      /\ n.optimistic = e.optimistic /\ n.mutation_active = e.mutation_active
      /\ n.subs = e.subs /\ n.incarnation = e.incarnation
  BY <1>1 DEF DiscardFlight, Entry
<1> QED
  BY <1>1, <1>2, <1>3, EntryFields
  DEF EntryOK, FlightOK, DataOK, ErrorOK, SlotOK

LEMMA LocalWriteOK ==
    ASSUME NEW e \in Entry, IsFiniteSet(e.subs), e.error_seq <= e.seq,
           NEW now \in Nat
    PROVE  LET n == [LocalWrite(e, now) EXCEPT !.optimistic = None]
           IN  /\ EntryOK(n)
               /\ n.inflight = None
               /\ n.incarnation = e.incarnation
               /\ n.mutation_active = e.mutation_active
               /\ n.optimistic = None
<1> DEFINE w == LocalWrite(e, now)
           n == [w EXCEPT !.optimistic = None]
<1>1. e \in Entry /\ e.seq \in Nat /\ e.seq + 1 \in Nat
  BY EntryFields
<1>2. w \in Entry
  <2>1. [src |-> "local", seq |-> e.seq + 1] \in Value
    BY <1>1 DEF Value
  <2> QED
    BY <1>1, <2>1, Zenon DEF LocalWrite, Entry
<1>3. n \in Entry
  BY <1>2, ZenonT(60) DEF Entry
<1>4. /\ w.seq = e.seq + 1 /\ w.inflight = None
      /\ w.data = [src |-> "local", seq |-> e.seq + 1] /\ w.data_seq = e.seq + 1
      /\ w.error_seq = e.error_seq
      /\ w.mutation_active = e.mutation_active
      /\ w.subs = e.subs /\ w.incarnation = e.incarnation
  BY <1>1 DEF LocalWrite, Entry
<1>5. /\ n.seq = w.seq /\ n.inflight = w.inflight
      /\ n.data = w.data /\ n.data_seq = w.data_seq
      /\ n.error_seq = w.error_seq /\ n.mutation_active = w.mutation_active
      /\ n.subs = w.subs /\ n.incarnation = w.incarnation /\ n.optimistic = None
  BY <1>2 DEF Entry
<1>6. w.data # None
  BY <1>1, <1>4, NoneAssumption DEF Value
<1>7. EntryOK(n)
  <2> HIDE DEF n
  <2> QED
    BY <1>1, <1>3, <1>4, <1>5, <1>6, EntryFields
    DEF EntryOK, FlightOK, DataOK, ErrorOK, SlotOK
<1> QED
  BY <1>4, <1>5, <1>7

\* The fields that race control does not look at.
LEMMA SameRaceOK ==
    ASSUME NEW e, EntryOK(e), NEW n \in Entry, IsFiniteSet(n.subs),
           n.seq = e.seq, n.inflight = e.inflight,
           n.data = e.data, n.data_seq = e.data_seq,
           n.error = e.error, n.error_seq = e.error_seq,
           n.optimistic = e.optimistic, n.mutation_active = e.mutation_active,
           n.inflight = None \/ n.invalidated = e.invalidated
    PROVE  EntryOK(n)
  BY DEF EntryOK, FlightOK, DataOK, ErrorOK, SlotOK

-----------------------------------------------------------------------------
(* What every handler leaves behind *)

ReplyOK(e, r) ==
    /\ EntryOK(r.entry)
    /\ r.entry.incarnation = e.incarnation
    /\ "fetch" \in r.marks => r.entry.inflight = r.entry.seq
    /\ r.entry.inflight # None => "fetch" \in r.marks \/ r.entry.inflight = e.inflight

\* A handler that is not a mutation's leaves the mutations alone.
Bystander(e, r) ==
    /\ r.entry.mutation_active = e.mutation_active
    /\ r.entry.optimistic \in {None, e.optimistic}

LEMMA LaunchIfOK ==
    ASSUME NEW e, NEW n, EntryOK(n), n.incarnation = e.incarnation,
           n.inflight \in {None, e.inflight},
           NEW condition, condition => CanStartFetch(n),
           NEW marks, "fetch" \notin marks
    PROVE  /\ ReplyOK(e, LaunchIf(condition, n, marks))
           /\ LaunchIf(condition, n, marks).entry.mutation_active = n.mutation_active
           /\ LaunchIf(condition, n, marks).entry.optimistic = n.optimistic
<1>1. CASE condition
  <2>1. LaunchIf(condition, n, marks)
          = [entry |-> StartFetch(n), marks |-> marks \cup {"fetch", "notify"}]
    BY <1>1 DEF LaunchIf, Launch, Reply
  <2>2. CanStartFetch(n)
    BY <1>1
  <2>3. "fetch" \in marks \cup {"fetch", "notify"}
    OBVIOUS
  <2> QED
    BY <2>1, <2>2, <2>3, StartFetchOK DEF ReplyOK
<1>2. CASE ~condition
  <2>1. LaunchIf(condition, n, marks) = [entry |-> n, marks |-> marks]
    BY <1>2 DEF LaunchIf, Reply
  <2> QED
    BY <2>1 DEF ReplyOK
<1> QED
  BY <1>1, <1>2

LEMMA UnchangedOK ==
    ASSUME NEW e, EntryOK(e), NEW marks, "fetch" \notin marks
    PROVE  ReplyOK(e, Reply(e, marks)) /\ Bystander(e, Reply(e, marks))
  BY DEF ReplyOK, Bystander, Reply

LEMMA OnReadOK ==
    ASSUME NEW e, EntryOK(e), NEW policy, NEW supplied \in BOOLEAN,
           NEW opts \in Options, NEW now
    PROVE  /\ ReplyOK(e, OnRead(e, policy, supplied, opts, now))
           /\ Bystander(e, OnRead(e, policy, supplied, opts, now))
<1> DEFINE f == IF supplied THEN TRUE ELSE e.fetcher
           n == [e EXCEPT !.fetcher = f, !.last_touch_gc_time = opts.gc_time]
           starts == /\ policy # "CacheOnly"
                     /\ ~FreshHit(e, opts, now)
                     /\ CanStartFetch(n)
<1>1. e \in Entry /\ opts.gc_time \in Nat \cup {None} /\ f \in BOOLEAN
  BY DEF EntryOK, Options, Entry
<1>2. OnRead(e, policy, supplied, opts, now) = LaunchIf(starts, n, {"touched"})
  BY DEF OnRead
<1> HIDE DEF f
<1>3. n \in Entry
  BY <1>1, ZenonT(60) DEF Entry
<1>4. /\ n.seq = e.seq /\ n.inflight = e.inflight /\ n.data = e.data
      /\ n.data_seq = e.data_seq /\ n.error = e.error /\ n.error_seq = e.error_seq
      /\ n.optimistic = e.optimistic /\ n.mutation_active = e.mutation_active
      /\ n.invalidated = e.invalidated /\ n.subs = e.subs
      /\ n.incarnation = e.incarnation
  BY <1>1 DEF Entry
<1>5. EntryOK(n)
  BY <1>3, <1>4, SameRaceOK DEF EntryOK
<1>6. starts => CanStartFetch(n)
  OBVIOUS
<1> HIDE DEF n, starts
<1> QED
  BY <1>2, <1>4, <1>5, <1>6, LaunchIfOK DEF Bystander

LEMMA OnSubscribeOK ==
    ASSUME NEW e, EntryOK(e), NEW sub_id \in Nat, NEW supplied \in BOOLEAN,
           NEW opts \in Options, NEW now
    PROVE  /\ ReplyOK(e, OnSubscribe(e, sub_id, supplied, opts, now))
           /\ Bystander(e, OnSubscribe(e, sub_id, supplied, opts, now))
<1> DEFINE f == IF supplied THEN TRUE ELSE e.fetcher
           ss == e.subs \cup {[id |-> sub_id, opts |-> opts]}
           n == [e EXCEPT !.fetcher = f,
                          !.last_touch_gc_time = opts.gc_time,
                          !.subs = ss,
                          !.subscribers = @ + 1,
                          !.gc_gen = @ + 1]
           starts == /\ e.data = None \/ IsStale(e, opts.stale_time, now)
                     /\ CanStartFetch(n)
<1>1. e \in Entry /\ opts.gc_time \in Nat \cup {None} /\ f \in BOOLEAN
  BY DEF EntryOK, Options, Entry
<1>2. /\ e.subscribers + 1 \in Nat /\ e.gc_gen + 1 \in Nat
      /\ ss \in SUBSET [id : Nat, opts : Options]
  BY <1>1 DEF Entry
<1>3. IsFiniteSet(ss)
  BY FS_AddElement DEF EntryOK
<1>4. OnSubscribe(e, sub_id, supplied, opts, now)
        = LaunchIf(starts, n, {"touched", "refresh"})
  BY DEF OnSubscribe
<1> HIDE DEF f, ss
<1>5. n \in Entry
  BY <1>1, <1>2, ZenonT(60) DEF Entry
<1>6. /\ n.seq = e.seq /\ n.inflight = e.inflight /\ n.data = e.data
      /\ n.data_seq = e.data_seq /\ n.error = e.error /\ n.error_seq = e.error_seq
      /\ n.optimistic = e.optimistic /\ n.mutation_active = e.mutation_active
      /\ n.invalidated = e.invalidated /\ n.subs = ss
      /\ n.incarnation = e.incarnation
  BY <1>1 DEF Entry
<1>7. EntryOK(n)
  BY <1>3, <1>5, <1>6, SameRaceOK
<1>8. starts => CanStartFetch(n)
  OBVIOUS
<1> HIDE DEF n, starts
<1> QED
  BY <1>4, <1>6, <1>7, <1>8, LaunchIfOK DEF Bystander

LEMMA DecrementType ==
    ASSUME NEW n \in Nat
    PROVE  Decrement(n) \in Nat /\ (0 < n => Decrement(n) = n - 1)
  BY DEF Decrement

LEMMA OnUnsubscribeOK ==
    ASSUME NEW e, EntryOK(e), NEW sub_id
    PROVE  ReplyOK(e, OnUnsubscribe(e, sub_id)) /\ Bystander(e, OnUnsubscribe(e, sub_id))
<1> DEFINE n == OnUnsubscribe(e, sub_id).entry
<1>1. n = [e EXCEPT !.subscribers = Decrement(@),
                    !.subs = {s \in @ : s.id # sub_id}]
  BY DEF OnUnsubscribe, Reply
<1>2. e \in Entry /\ Decrement(e.subscribers) \in Nat
  BY DecrementType DEF EntryOK, Entry
<1>3. n \in Entry
  BY <1>1, <1>2, ZenonT(60) DEF Entry
<1>4. /\ n.seq = e.seq /\ n.inflight = e.inflight /\ n.data = e.data
      /\ n.data_seq = e.data_seq /\ n.error = e.error /\ n.error_seq = e.error_seq
      /\ n.optimistic = e.optimistic /\ n.mutation_active = e.mutation_active
      /\ n.invalidated = e.invalidated /\ n.subs \subseteq e.subs
      /\ n.incarnation = e.incarnation
  BY <1>1, <1>2 DEF Entry
<1>5. EntryOK(n)
  BY <1>3, <1>4, SameRaceOK, FS_Subset DEF EntryOK
<1> HIDE DEF n
<1>6. OnUnsubscribe(e, sub_id) = [entry |-> n, marks |-> {"touched", "refresh"}]
  BY DEF OnUnsubscribe, Reply, n
<1> QED
  BY <1>4, <1>5, <1>6 DEF ReplyOK, Bystander

LEMMA OnRevalidateRequestedOK ==
    ASSUME NEW e, EntryOK(e)
    PROVE  ReplyOK(e, OnRevalidateRequested(e)) /\ Bystander(e, OnRevalidateRequested(e))
  BY LaunchIfOK, UnchangedOK DEF OnRevalidateRequested, Bystander

LEMMA CommitOK ==
    ASSUME NEW e, EntryOK(e), NEW incarnation, NEW seq \in Nat, NEW now \in Nat,
           NEW r \in {OnCommitOk(e, incarnation, seq, now), OnCommitErr(e, incarnation, seq)}
    PROVE  /\ ReplyOK(e, r)
           /\ Bystander(e, r)
           /\ r.entry.inflight # None => ~Accepts(e, incarnation, seq)
<1>1. CASE ~Accepts(e, incarnation, seq)
  BY <1>1, UnchangedOK DEF OnCommitOk, OnCommitErr
<1>2. CASE Accepts(e, incarnation, seq) /\ r = OnCommitOk(e, incarnation, seq, now)
  <2> DEFINE v == [src |-> "fetch", seq |-> seq]
             n == [e EXCEPT !.data = v, !.data_seq = seq, !.updated_at = now,
                            !.error = None, !.optimistic = None, !.inflight = None]
  <2>1. e \in Entry
    BY DEF EntryOK
  <2>2. r = [entry |-> n, marks |-> {"touched", "notify", "refresh"}]
    BY <1>2, <2>1 DEF OnCommitOk, Committed, Reply, Entry
  <2>3. seq = e.seq /\ seq \in Nat /\ 0 < seq
    BY <1>2, <2>1, EntryFields, NoneAssumption DEF Accepts, EntryOK, FlightOK
  <2>4. v \in Value /\ v.seq = seq
    BY <2>3 DEF Value
  <2>5. v # None
    BY <2>4, NoneAssumption
  <2> HIDE DEF v
  <2>6. n \in Entry
    BY <2>1, <2>3, <2>4, ZenonT(60) DEF Entry
  <2>7. /\ n.seq = e.seq /\ n.inflight = None /\ n.data = v /\ n.data_seq = seq
        /\ n.error = None /\ n.error_seq = e.error_seq /\ n.optimistic = None
        /\ n.mutation_active = e.mutation_active /\ n.subs = e.subs
        /\ n.incarnation = e.incarnation
    BY <2>1 DEF Entry
  <2> HIDE DEF n
  <2>8. EntryOK(n)
    BY <2>3, <2>4, <2>5, <2>6, <2>7, EntryFields
    DEF EntryOK, FlightOK, DataOK, ErrorOK, SlotOK
  <2> QED
    BY <2>2, <2>7, <2>8 DEF ReplyOK, Bystander
<1>3. CASE Accepts(e, incarnation, seq) /\ r = OnCommitErr(e, incarnation, seq)
  <2> DEFINE n == [e EXCEPT !.error = "fetch", !.error_seq = seq, !.inflight = None]
  <2>1. e \in Entry
    BY DEF EntryOK
  <2>2. r = [entry |-> n, marks |-> {"touched", "notify", "refresh"}]
    BY <1>3, <2>1 DEF OnCommitErr, Committed, Reply, Entry
  <2>3. seq = e.seq /\ seq \in Nat /\ e.mutation_active = 0
    BY <1>3, <2>1, EntryFields, NoneAssumption DEF Accepts, EntryOK, FlightOK
  <2>4. "fetch" \in Error /\ "fetch" # None
    BY NoneAssumption DEF Error
  <2>5. e.optimistic = None
    BY <2>3 DEF EntryOK, SlotOK
  <2>6. n \in Entry
    BY <2>1, <2>3, <2>4, ZenonT(60) DEF Entry
  <2>7. /\ n.seq = e.seq /\ n.inflight = None /\ n.data = e.data
        /\ n.data_seq = e.data_seq /\ n.error = "fetch" /\ n.error_seq = seq
        /\ n.optimistic = e.optimistic /\ n.mutation_active = e.mutation_active
        /\ n.subs = e.subs /\ n.incarnation = e.incarnation
    BY <2>1 DEF Entry
  <2> HIDE DEF n
  <2>8. EntryOK(n)
    BY <2>3, <2>4, <2>5, <2>6, <2>7, EntryFields
    DEF EntryOK, FlightOK, DataOK, ErrorOK, SlotOK
  <2> QED
    BY <2>2, <2>7, <2>8 DEF ReplyOK, Bystander
<1> QED
  BY <1>1, <1>2, <1>3

LEMMA OnMutateSetOK ==
    ASSUME NEW e, EntryOK(e), NEW now \in Nat
    PROVE  ReplyOK(e, OnMutateSet(e, now)) /\ Bystander(e, OnMutateSet(e, now))
<1> DEFINE n == [LocalWrite(e, now) EXCEPT !.optimistic = None]
<1>1. OnMutateSet(e, now) = [entry |-> n, marks |-> {"touched", "notify"}]
  BY DEF OnMutateSet, Reply
<1>2. /\ EntryOK(n) /\ n.inflight = None /\ n.incarnation = e.incarnation
      /\ n.mutation_active = e.mutation_active /\ n.optimistic = None
  BY LocalWriteOK DEF EntryOK
<1> HIDE DEF n
<1> QED
  BY <1>1, <1>2 DEF ReplyOK, Bystander

\* A mutation's handler changes the count by one.  The slot it leaves is the
\* one it takes itself or one that it does not own.
LEMMA OnMutateBeginOK ==
    ASSUME NEW e, EntryOK(e), NEW optimistic \in BOOLEAN
    PROVE  LET r == OnMutateBegin(e, optimistic)
           IN  /\ ReplyOK(e, r)
               /\ r.entry.mutation_active = e.mutation_active + 1
               /\ IF optimistic THEN r.entry.optimistic.written_seq = r.entry.seq
                  ELSE r.entry.optimistic = e.optimistic
<1> DEFINE d == DiscardFlight(e)
           b == [d EXCEPT !.mutation_active = @ + 1]
<1>1. /\ d \in Entry /\ EntryOK(d) /\ d.inflight = None
      /\ d.incarnation = e.incarnation /\ d.mutation_active = e.mutation_active
      /\ d.optimistic = e.optimistic /\ d.data = e.data /\ d.data_seq = e.data_seq
      /\ d.error = e.error /\ d.error_seq = e.error_seq /\ d.subs = e.subs
  BY DiscardFlightOK DEF EntryOK
<1>2. d.mutation_active + 1 \in Nat /\ d.mutation_active \in Nat /\ 0 < d.seq
  <2>1. d.seq = e.seq + 1
    BY DEF DiscardFlight, EntryOK, Entry
  <2> QED
    BY <1>1, <2>1, EntryFields DEF EntryOK
<1> HIDE DEF d
<1>3. b \in Entry
  BY <1>1, <1>2 DEF Entry
<1>4. /\ b.mutation_active = e.mutation_active + 1
      /\ b.seq = d.seq /\ b.inflight = None /\ b.data = e.data
      /\ b.data_seq = e.data_seq /\ b.error = e.error /\ b.error_seq = e.error_seq
      /\ b.optimistic = e.optimistic /\ b.subs = e.subs
      /\ b.incarnation = e.incarnation
  BY <1>1 DEF Entry
<1> HIDE DEF b
<1>5. EntryOK(b)
  BY <1>1, <1>2, <1>3, <1>4, EntryFields
  DEF EntryOK, FlightOK, DataOK, ErrorOK, SlotOK
<1>6. CASE ~optimistic
  <2>1. OnMutateBegin(e, optimistic) = [entry |-> b, marks |-> {"touched", "notify"}]
    BY <1>6 DEF OnMutateBegin, Reply, b, d
  <2> QED
    BY <1>4, <1>5, <1>6, <2>1 DEF ReplyOK
<1>7. CASE optimistic
  <2> DEFINE w == b.seq + 1
             s == [prev_data |-> e.data, prev_error |-> e.error,
                   prev_data_seq |-> e.data_seq,
                   prev_updated_at |-> e.updated_at, written_seq |-> w]
             v == [src |-> "optimistic", seq |-> w]
             n == [b EXCEPT !.seq = w, !.optimistic = s, !.data = v, !.data_seq = w]
  <2>1. OnMutateBegin(e, optimistic) = [entry |-> n, marks |-> {"touched", "notify"}]
    BY <1>7 DEF OnMutateBegin, Reply, b, d
  <2>2. b.seq \in Nat /\ w \in Nat /\ b.seq < w
    BY <1>3, EntryFields
  <2>3. v \in Value /\ v.seq = w /\ v # None
    BY <2>2, NoneAssumption DEF Value
  <2>4. e \in Entry
    BY DEF EntryOK
  <2>5. s \in OptimisticSnapshot
    BY <2>2, <2>4 DEF OptimisticSnapshot, Entry
  <2>6. /\ s.prev_data = e.data /\ s.prev_error = e.error
        /\ s.prev_data_seq = e.data_seq /\ s.written_seq = w
    OBVIOUS
  <2> HIDE DEF v, s, w
  <2>7. n \in Entry
    BY <1>3, <2>2, <2>3, <2>5, ZenonT(60) DEF Entry
  <2>8. /\ n.seq = w /\ n.optimistic = s /\ n.data = v /\ n.data_seq = w
        /\ n.mutation_active = b.mutation_active /\ n.inflight = None
        /\ n.error = e.error /\ n.error_seq = e.error_seq /\ n.subs = e.subs
        /\ n.incarnation = e.incarnation
    BY <1>3, <1>4 DEF Entry
  <2> HIDE DEF n
  <2>9. /\ DataOK(e.data, e.data_seq, b.seq)
        /\ ErrorOK(e.error, e.error_seq, e.data_seq)
        /\ e.data_seq \in Nat /\ e.error_seq \in Nat /\ e.error_seq <= b.seq
        /\ e.mutation_active \in Nat /\ IsFiniteSet(e.subs)
    BY <1>4, <1>5, <2>4, EntryFields DEF EntryOK
  <2>10. e.data_seq <= b.seq
    BY <2>2, <2>9 DEF DataOK
  <2>11. DataOK(n.data, n.data_seq, n.seq) /\ ErrorOK(n.error, n.error_seq, n.data_seq)
    BY <2>2, <2>3, <2>8, <2>9 DEF DataOK, ErrorOK
  <2>12. SlotOK(n)
    BY <1>4, <2>2, <2>6, <2>8, <2>9, <2>10 DEF DataOK, ErrorOK, SlotOK
  <2>13. EntryOK(n)
    BY <2>2, <2>7, <2>8, <2>9, <2>11, <2>12 DEF EntryOK, FlightOK
  <2>14. ReplyOK(e, OnMutateBegin(e, optimistic))
    BY <1>4, <2>1, <2>8, <2>13 DEF ReplyOK
  <2>15. OnMutateBegin(e, optimistic).entry = n
    BY <2>1
  <2> QED
    BY <1>4, <1>7, <2>6, <2>8, <2>14, <2>15, Zenon
<1> QED
  BY <1>6, <1>7

\* The entry of a mutation that has just left the count, before its result is
\* applied: the count is not yet consistent with the slot, the rest is.
Leaving(e, l, token) ==
    /\ EntryOK(e)
    /\ 0 < e.mutation_active
    /\ e.optimistic # None /\ ~OwnsSlot(e, token) => 1 < e.mutation_active
    /\ l \in Entry
    /\ l.mutation_active = e.mutation_active - 1
    /\ l.seq = e.seq /\ l.inflight = None
    /\ l.data = e.data /\ l.data_seq = e.data_seq
    /\ l.error = e.error \/ l.error # None
    /\ l.error_seq = e.error_seq
    /\ l.optimistic = e.optimistic
    /\ l.subs = e.subs /\ l.incarnation = e.incarnation

\* What its result may make of it.
Left(e, n, token) ==
    /\ EntryOK(n)
    /\ n.mutation_active = e.mutation_active - 1
    /\ n.inflight = None
    /\ n.incarnation = e.incarnation
    /\ \/ n.optimistic = None
       \/ n.optimistic = e.optimistic /\ ~OwnsSlot(e, token)

LEMMA DecrementLeaves ==
    ASSUME NEW e, NEW token, EntryOK(e), 0 < e.mutation_active,
           e.optimistic # None /\ ~OwnsSlot(e, token) => 1 < e.mutation_active
    PROVE  Leaving(e, [e EXCEPT !.mutation_active = Decrement(@)], token)
<1> DEFINE l == [e EXCEPT !.mutation_active = Decrement(@)]
<1>1. e \in Entry /\ e.mutation_active \in Nat
  BY EntryFields DEF EntryOK
<1>2. Decrement(e.mutation_active) \in Nat
      /\ Decrement(e.mutation_active) = e.mutation_active - 1
  BY <1>1, DecrementType
<1>3. l \in Entry
  BY <1>1, <1>2 DEF Entry
<1>4. e.inflight = None
  BY DEF EntryOK, FlightOK
<1>5. /\ l.mutation_active = e.mutation_active - 1
      /\ l.seq = e.seq /\ l.inflight = e.inflight
      /\ l.data = e.data /\ l.data_seq = e.data_seq
      /\ l.error = e.error /\ l.error_seq = e.error_seq
      /\ l.optimistic = e.optimistic
      /\ l.subs = e.subs /\ l.incarnation = e.incarnation
  BY <1>1, <1>2 DEF Entry
<1> HIDE DEF l
<1> QED
  BY <1>3, <1>4, <1>5 DEF Leaving, l

LEMMA ErrorLeaves ==
    ASSUME NEW e, NEW l, NEW token, Leaving(e, l, token)
    PROVE  Leaving(e, [l EXCEPT !.error = "mutation"], token)
<1> DEFINE n == [l EXCEPT !.error = "mutation"]
<1>1. l \in Entry /\ "mutation" \in Error /\ "mutation" # None
  BY NoneAssumption DEF Leaving, Error
<1>2. n \in Entry
  BY <1>1, ZenonT(60) DEF Entry
<1>3. /\ n.mutation_active = l.mutation_active
      /\ n.seq = l.seq /\ n.inflight = l.inflight
      /\ n.data = l.data /\ n.data_seq = l.data_seq
      /\ n.error = "mutation" /\ n.error_seq = l.error_seq
      /\ n.optimistic = l.optimistic
      /\ n.subs = l.subs /\ n.incarnation = l.incarnation
  BY <1>1 DEF Entry
<1> HIDE DEF n
<1> QED
  BY <1>1, <1>2, <1>3 DEF Leaving, n

LEMMA KeptSlotLeft ==
    ASSUME NEW e, NEW l, NEW token, Leaving(e, l, token), ~OwnsSlot(l, token)
    PROVE  Left(e, l, token)
<1>1. ~OwnsSlot(e, token)
  BY DEF Leaving, OwnsSlot
<1>2. EntryOK(l)
  <2>1. /\ e \in Entry /\ l \in Entry /\ e.mutation_active \in Nat
        /\ e.error_seq \in Nat /\ e.data_seq \in Nat
    BY EntryFields DEF Leaving, EntryOK
  <2>2. SlotOK(l)
    BY <1>1, <2>1 DEF Leaving, EntryOK, SlotOK
  <2> QED
    BY <2>1, <2>2 DEF Leaving, EntryOK, FlightOK, ErrorOK
<1> QED
  BY <1>1, <1>2 DEF Leaving, Left

LEMMA ClearedSlotLeft ==
    ASSUME NEW e, NEW l, NEW token, Leaving(e, l, token), OwnsSlot(l, token)
    PROVE  Left(e, [l EXCEPT !.optimistic = None], token)
<1> DEFINE n == [l EXCEPT !.optimistic = None]
<1>1. l \in Entry
  BY DEF Leaving
<1>2. n \in Entry
  BY <1>1, ZenonT(60) DEF Entry
<1>3. /\ n.mutation_active = l.mutation_active
      /\ n.seq = l.seq /\ n.inflight = l.inflight
      /\ n.data = l.data /\ n.data_seq = l.data_seq
      /\ n.error = l.error /\ n.error_seq = l.error_seq
      /\ n.optimistic = None
      /\ n.subs = l.subs /\ n.incarnation = l.incarnation
  BY <1>1 DEF Entry
<1> HIDE DEF n
<1>4. EntryOK(n)
  BY <1>2, <1>3 DEF Leaving, EntryOK, FlightOK, ErrorOK, SlotOK
<1> QED
  BY <1>3, <1>4 DEF Leaving, Left, n

LEMMA RestoredSlotLeft ==
    ASSUME NEW e, NEW l, NEW token, Leaving(e, l, token), OwnsSlot(l, token)
    PROVE  Left(e, [l EXCEPT !.data = l.optimistic.prev_data,
                             !.error = l.optimistic.prev_error,
                             !.data_seq = l.optimistic.prev_data_seq,
                             !.updated_at = l.optimistic.prev_updated_at,
                             !.optimistic = None], token)
<1> DEFINE s == l.optimistic
           n == [l EXCEPT !.data = s.prev_data, !.error = s.prev_error,
                          !.data_seq = s.prev_data_seq,
                          !.updated_at = s.prev_updated_at, !.optimistic = None]
<1>1. l \in Entry /\ s \in OptimisticSnapshot /\ s = e.optimistic /\ s # None
  BY DEF Leaving, OwnsSlot, Entry
<1>2. /\ s.prev_data \in Value \cup {None} /\ s.prev_error \in Error \cup {None}
      /\ s.prev_data_seq \in Nat /\ s.prev_updated_at \in Nat \cup {None}
  BY <1>1 DEF OptimisticSnapshot
<1> HIDE DEF s
<1>3. n \in Entry
  BY <1>1, <1>2, ZenonT(60) DEF Entry
<1>4. /\ n.mutation_active = l.mutation_active
      /\ n.seq = l.seq /\ n.inflight = l.inflight
      /\ n.data = s.prev_data /\ n.data_seq = s.prev_data_seq
      /\ n.error = s.prev_error /\ n.error_seq = l.error_seq
      /\ n.optimistic = None
      /\ n.subs = l.subs /\ n.incarnation = l.incarnation
  BY <1>1 DEF Entry
<1> HIDE DEF n
<1>5. EntryOK(n)
  BY <1>1, <1>3, <1>4 DEF Leaving, EntryOK, FlightOK, SlotOK
<1> QED
  BY <1>4, <1>5 DEF Leaving, Left, n, s

LEMMA RollbackLeft ==
    ASSUME NEW e, NEW l, NEW token, Leaving(e, l, token)
    PROVE  Left(e, RollbackIfUnclobbered(l, token), token)
  BY KeptSlotLeft, ClearedSlotLeft, RestoredSlotLeft DEF RollbackIfUnclobbered

LEMMA ClearOwnLeft ==
    ASSUME NEW e, NEW l, NEW token, Leaving(e, l, token)
    PROVE  Left(e, ClearOwnOptimistic(l, token), token)
  BY KeptSlotLeft, ClearedSlotLeft DEF ClearOwnOptimistic

LEMMA LocalWriteLeft ==
    ASSUME NEW e, NEW l, NEW token, Leaving(e, l, token), NEW now \in Nat
    PROVE  Left(e, [LocalWrite(l, now) EXCEPT !.optimistic = None], token)
<1>1. l \in Entry /\ IsFiniteSet(l.subs) /\ l.error_seq <= l.seq
  BY DEF Leaving, EntryOK
<1> QED
  BY <1>1, LocalWriteOK DEF Leaving, Left

EndsMutation(e, r, token) ==
    /\ ReplyOK(e, r)
    /\ r.entry.mutation_active = e.mutation_active - 1
    /\ \/ r.entry.optimistic = None
       \/ r.entry.optimistic = e.optimistic /\ ~OwnsSlot(e, token)

LEMMA FinishMutationOK ==
    ASSUME NEW e, NEW n, NEW token, Left(e, n, token)
    PROVE  EndsMutation(e, FinishMutation(n, token), token)
<1> DEFINE starts == /\ n.mutation_active = 0
                     /\ token.revalidate \/ n.invalidated
                     /\ CanStartFetch(n)
<1>1. FinishMutation(n, token) = LaunchIf(starts, n, {"touched", "notify"})
  BY DEF FinishMutation
<1>2. starts => CanStartFetch(n)
  OBVIOUS
<1> HIDE DEF starts
<1>3. n.incarnation = e.incarnation /\ n.inflight \in {None, e.inflight} /\ EntryOK(n)
  BY DEF Left
<1> QED
  BY <1>1, <1>2, <1>3, LaunchIfOK DEF Left, EndsMutation

LEMMA OnMutateEndOK ==
    ASSUME NEW e, NEW token, EntryOK(e), 0 < e.mutation_active,
           e.optimistic # None /\ ~OwnsSlot(e, token) => 1 < e.mutation_active,
           NEW result, NEW now \in Nat,
           NEW r \in {OnMutateCommit(e, token, result, now), OnMutateAbort(e, token)}
    PROVE  EndsMutation(e, r, token)
<1> DEFINE l == [e EXCEPT !.mutation_active = Decrement(@)]
           applied ==
               IF result = "error"
               THEN RollbackIfUnclobbered([l EXCEPT !.error = "mutation"], token)
               ELSE IF result = "value" /\ token.populate
               THEN [LocalWrite(l, now) EXCEPT !.optimistic = None]
               ELSE ClearOwnOptimistic(l, token)
<1>1. /\ OnMutateCommit(e, token, result, now) = FinishMutation(applied, token)
      /\ OnMutateAbort(e, token) = FinishMutation(RollbackIfUnclobbered(l, token), token)
  BY DEF OnMutateCommit, OnMutateAbort
<1>2. Leaving(e, l, token)
  BY DecrementLeaves
<1> HIDE DEF l
<1>3. Left(e, applied, token)
  BY <1>2, ErrorLeaves, RollbackLeft, ClearOwnLeft, LocalWriteLeft
<1>4. Left(e, RollbackIfUnclobbered(l, token), token)
  BY <1>2, RollbackLeft
<1> HIDE DEF applied
<1> QED
  BY <1>1, <1>3, <1>4, FinishMutationOK

LEMMA OnInvalidateOK ==
    ASSUME NEW e, EntryOK(e)
    PROVE  ReplyOK(e, OnInvalidate(e)) /\ Bystander(e, OnInvalidate(e))
<1>1. CASE e.mutation_active > 0
  <2> DEFINE n == [e EXCEPT !.invalidated = TRUE]
  <2>1. OnInvalidate(e) = [entry |-> n, marks |-> {"touched"}]
    BY <1>1 DEF OnInvalidate, Reply
  <2>0. e \in Entry
    BY DEF EntryOK
  <2>2. e.inflight = None
    BY <1>1, <2>0, EntryFields DEF EntryOK, FlightOK
  <2>3. n \in Entry
    BY <2>0 DEF Entry
  <2>4. /\ n.seq = e.seq /\ n.inflight = e.inflight /\ n.data = e.data
        /\ n.data_seq = e.data_seq /\ n.error = e.error /\ n.error_seq = e.error_seq
        /\ n.optimistic = e.optimistic /\ n.mutation_active = e.mutation_active
        /\ n.subs = e.subs /\ n.incarnation = e.incarnation
    BY <2>0 DEF Entry
  <2> HIDE DEF n
  <2>5. EntryOK(n)
    BY <2>2, <2>3, <2>4, SameRaceOK DEF EntryOK
  <2> QED
    BY <2>1, <2>4, <2>5 DEF ReplyOK, Bystander
<1>2. CASE ~(e.mutation_active > 0)
  <2> DEFINE d == IF e.inflight # None THEN DiscardFlight(e) ELSE e
             n == [d EXCEPT !.invalidated = TRUE]
             starts == IsActive(n) /\ n.fetcher
  <2>1. OnInvalidate(e) = LaunchIf(starts, n, {"touched", "notify"})
    BY <1>2 DEF OnInvalidate
  <2>2. /\ EntryOK(d) /\ d.inflight = None /\ d.incarnation = e.incarnation
        /\ d.mutation_active = e.mutation_active /\ d.optimistic = e.optimistic
    BY DiscardFlightOK
  <2> HIDE DEF d
  <2>3. d \in Entry
    BY <2>2 DEF EntryOK
  <2>4. n \in Entry
    BY <2>3 DEF Entry
  <2>5. /\ n.seq = d.seq /\ n.inflight = d.inflight /\ n.data = d.data
        /\ n.data_seq = d.data_seq /\ n.error = d.error /\ n.error_seq = d.error_seq
        /\ n.optimistic = d.optimistic /\ n.mutation_active = d.mutation_active
        /\ n.subs = d.subs /\ n.incarnation = d.incarnation
    BY <2>3 DEF Entry
  <2> HIDE DEF n
  <2>6. EntryOK(n)
    BY <2>2, <2>4, <2>5, SameRaceOK DEF EntryOK
  <2>7. e.mutation_active = 0
    BY <1>2, EntryFields DEF EntryOK
  <2>8. starts => CanStartFetch(n)
    BY <2>2, <2>5, <2>7 DEF CanStartFetch
  <2> HIDE DEF starts
  <2>9. "fetch" \notin {"touched", "notify"}
    OBVIOUS
  <2>10. n.incarnation = e.incarnation /\ n.inflight \in {None, e.inflight}
    BY <2>2, <2>5
  <2>11. /\ ReplyOK(e, LaunchIf(starts, n, {"touched", "notify"}))
         /\ LaunchIf(starts, n, {"touched", "notify"}).entry.mutation_active
              = n.mutation_active
         /\ LaunchIf(starts, n, {"touched", "notify"}).entry.optimistic = n.optimistic
    BY <2>6, <2>8, <2>9, <2>10, LaunchIfOK
  <2> QED
    BY <2>1, <2>2, <2>5, <2>11 DEF Bystander
<1> QED
  BY <1>1, <1>2

LEMMA LaunchOK ==
    ASSUME NEW e, EntryOK(e), CanStartFetch(e), NEW marks
    PROVE  ReplyOK(e, Launch(e, marks)) /\ Bystander(e, Launch(e, marks))
<1>1. Launch(e, marks)
        = [entry |-> StartFetch(e), marks |-> marks \cup {"fetch", "notify"}]
  BY DEF Launch, Reply
<1>2. "fetch" \in marks \cup {"fetch", "notify"}
  OBVIOUS
<1> QED
  BY <1>1, <1>2, StartFetchOK DEF ReplyOK, Bystander

LEMMA OnTimerRefreshOK ==
    ASSUME NEW e, EntryOK(e), NEW generation
    PROVE  /\ ReplyOK(e, OnTimerRefresh(e, generation))
           /\ Bystander(e, OnTimerRefresh(e, generation))
<1>1. "fetch" \notin {"refresh"}
  OBVIOUS
<1>2. "fetch" \notin {}
  OBVIOUS
<1> QED
  BY <1>1, <1>2, LaunchOK, UnchangedOK DEF OnTimerRefresh

-----------------------------------------------------------------------------
(* Aggregated options *)

LEMMA NatHasMin ==
    ASSUME NEW S \in SUBSET Nat, S # {}
    PROVE  \E x \in S : \A y \in S : x <= y
<1>1. PICK x \in S : \A y \in S : ~(<<y, x>> \in OpToRel(<, Nat))
  BY NatLessThanWellFounded, WFMin
<1>2. ASSUME NEW y \in S PROVE x <= y
  <2>1. ~(<<y, x>> \in {ss \in Nat \X Nat : ss[1] < ss[2]})
    BY <1>1 DEF OpToRel
  <2>2. x \in Nat /\ y \in Nat
    OBVIOUS
  <2>3. <<y, x>> \in Nat \X Nat /\ <<y, x>>[1] = y /\ <<y, x>>[2] = x
    BY <2>2
  <2>4. ~(y < x)
    BY <2>1, <2>3
  <2> QED
    BY <2>2, <2>4
<1> QED
  BY <1>2

LEMMA FiniteHasMax ==
    ASSUME NEW S \in SUBSET Nat, IsFiniteSet(S), S # {}
    PROVE  \E x \in S : \A y \in S : x >= y
<1> DEFINE Above(x) == {y \in S : x < y}
           T == {Cardinality(Above(x)) : x \in S}
<1>1. ASSUME NEW x \in S
      PROVE  IsFiniteSet(Above(x)) /\ Cardinality(Above(x)) \in Nat
  BY FS_Subset, FS_CardinalityType
<1>2. T \in SUBSET Nat /\ T # {}
  BY <1>1
<1>3. PICK c \in T : \A d \in T : c <= d
  <2> HIDE DEF T
  <2> QED
    BY <1>2, NatHasMin
<1>4. PICK x \in S : Cardinality(Above(x)) = c
  OBVIOUS
<1>5. ASSUME NEW y \in S, ~(x >= y) PROVE FALSE
  <2>1. x \in Nat /\ y \in Nat /\ x < y
    BY <1>5
  <2>2. Above(y) \subseteq Above(x) /\ y \in Above(x) /\ y \notin Above(y)
    <3>1. ASSUME NEW z \in S, y < z PROVE x < z
      <4>1. z \in Nat
        OBVIOUS
      <4> QED
        BY <2>1, <3>1, <4>1
    <3>2. y \in Above(x) /\ y \notin Above(y)
      BY <2>1
    <3>3. Above(y) \subseteq Above(x)
      BY <3>1, Zenon
    <3> QED
      BY <3>2, <3>3, Zenon
  <2>3. Cardinality(Above(y)) <= Cardinality(Above(x)) /\ Above(y) # Above(x)
    BY <1>1, <2>2, FS_Subset
  <2>4. Cardinality(Above(y)) < Cardinality(Above(x))
    BY <1>1, <2>2, <2>3, FS_Subset
  <2>5. Cardinality(Above(x)) <= Cardinality(Above(y))
    BY <1>3, <1>4
  <2> QED
    BY <1>1, <2>4, <2>5
<1> QED
  BY <1>5

LEMMA CheckedAddType ==
    ASSUME NEW t \in Nat, NEW d \in Nat
    PROVE  CheckedAdd(t, d) \in Nat \cup {None}
  BY DEF CheckedAdd

LEMMA MinOrType ==
    ASSUME NEW ds \in SUBSET Nat, NEW default
    PROVE  MinOr(ds, default) \in Nat \cup {default}
<1>1. CASE ds = {}
  BY <1>1 DEF MinOr
<1>2. CASE ds # {}
  <2>1. PICK d \in ds : \A x \in ds : d <= x
    BY <1>2, NatHasMin
  <2>2. MinOr(ds, default) \in ds
    BY <1>2, <2>1 DEF MinOr
  <2> QED
    BY <2>2
<1> QED
  BY <1>1, <1>2

LEMMA MaxOrType ==
    ASSUME NEW ds \in SUBSET Nat, IsFiniteSet(ds), NEW default \in Nat
    PROVE  MaxOr(ds, default) \in Nat
<1>1. CASE ds = {}
  BY <1>1 DEF MaxOr
<1>2. CASE ds # {}
  <2>1. PICK d \in ds : \A x \in ds : d >= x
    BY <1>2, FiniteHasMax
  <2>2. MaxOr(ds, default) \in ds
    BY <1>2, <2>1 DEF MaxOr
  <2> QED
    BY <2>2
<1> QED
  BY <1>1, <1>2

LEMMA SubOptionsType ==
    ASSUME NEW e \in Entry
    PROVE  SubOptions(e) \in SUBSET Options
<1>1. e.subs \in SUBSET [id : Nat, opts : Options]
  BY DEF Entry
<1> QED
  BY <1>1 DEF SubOptions

LEMMA GcTimeType ==
    ASSUME NEW e, EntryOK(e)
    PROVE  GcTime(e) \in Nat
<1> DEFINE f == [s \in e.subs |-> s.opts.gc_time]
           used == {o.gc_time : o \in SubOptions(e)}
           touch == {e.last_touch_gc_time} \ {None}
<1>1. e \in Entry /\ IsFiniteSet(e.subs)
  BY DEF EntryOK
<1>2. used = {s.opts.gc_time : s \in e.subs}
  BY DEF SubOptions
<1>3. f \in Surjection(e.subs, used)
  BY <1>2 DEF Surjection
<1>4. IsFiniteSet(used)
  BY <1>1, <1>3, FS_Surjection
<1>5. IsFiniteSet(touch)
  <2>1. IsFiniteSet({e.last_touch_gc_time})
    BY FS_Singleton
  <2>2. touch \in SUBSET {e.last_touch_gc_time}
    OBVIOUS
  <2> HIDE DEF touch
  <2> QED
    BY <2>1, <2>2, FS_Subset
<1>6. used \in SUBSET Nat
  BY <1>1, SubOptionsType DEF Options
<1>7. touch \in SUBSET Nat
  BY <1>1 DEF Entry
<1>8. Defaults.gc_time \in Nat
  BY DefaultsAssumption DEF Options
<1>9. IsFiniteSet(used \cup touch) /\ used \cup touch \in SUBSET Nat
  BY <1>4, <1>5, <1>6, <1>7, FS_Union
<1>10. GcTime(e) = MaxOr(used \cup touch, Defaults.gc_time)
  BY DEF GcTime
<1> HIDE DEF used, touch
<1> QED
  BY <1>8, <1>9, <1>10, MaxOrType

LEMMA RefreshIntervalType ==
    ASSUME NEW e \in Entry
    PROVE  RefreshInterval(e) \in Nat \cup {None}
<1> DEFINE ds == {o.refresh_interval : o \in SubOptions(e)} \ {None}
<1>1. ds \in SUBSET Nat
  BY SubOptionsType DEF Options
<1>2. RefreshInterval(e) = MinOr(ds, None)
  BY DEF RefreshInterval
<1> HIDE DEF ds
<1> QED
  BY <1>1, <1>2, MinOrType

LEMMA OnBroadcastOK ==
    ASSUME NEW e, EntryOK(e), NEW ev, NEW now \in Nat
    PROVE  ReplyOK(e, OnBroadcast(e, ev, now)) /\ Bystander(e, OnBroadcast(e, ev, now))
<1> DEFINE ds == {o.focus_throttle : o \in SubOptions(e)}
           throttle == MinOr(ds, Defaults.focus_throttle)
           blocked == IF ev = "Focus" THEN CheckedAdd(now, throttle)
                      ELSE e.focus_blocked_until
           n == [e EXCEPT !.focus_blocked_until = blocked]
<1>1. e \in Entry
  BY DEF EntryOK
<1>2. blocked \in Nat \cup {None}
  <2>1. ds \in SUBSET Nat
    BY <1>1, SubOptionsType DEF Options
  <2>2. Defaults.focus_throttle \in Nat
    BY DefaultsAssumption DEF Options
  <2> HIDE DEF ds
  <2>3. throttle \in Nat
    BY <2>1, <2>2, MinOrType
  <2>4. e.focus_blocked_until \in Nat \cup {None}
    BY <1>1 DEF Entry
  <2> HIDE DEF throttle
  <2> QED
    BY <2>3, <2>4, CheckedAddType
<1>3. \/ /\ CanStartFetch(e)
         /\ OnBroadcast(e, ev, now) = Launch(n, {"touched"})
      \/ OnBroadcast(e, ev, now) = Reply(e, {})
  BY DEF OnBroadcast
<1> HIDE DEF blocked
<1>4. n \in Entry
  BY <1>1, <1>2, ZenonT(60) DEF Entry
<1>5. /\ n.seq = e.seq /\ n.inflight = e.inflight /\ n.data = e.data
      /\ n.data_seq = e.data_seq /\ n.error = e.error /\ n.error_seq = e.error_seq
      /\ n.optimistic = e.optimistic /\ n.mutation_active = e.mutation_active
      /\ n.invalidated = e.invalidated /\ n.subs = e.subs /\ n.fetcher = e.fetcher
      /\ n.incarnation = e.incarnation
  BY <1>1 DEF Entry
<1>6. EntryOK(n)
  BY <1>4, <1>5, SameRaceOK DEF EntryOK
<1>7. CanStartFetch(e) => CanStartFetch(n)
  BY <1>5 DEF CanStartFetch
<1> HIDE DEF n
<1>8. CanStartFetch(e) =>
        /\ ReplyOK(n, Launch(n, {"touched"}))
        /\ Bystander(n, Launch(n, {"touched"}))
  BY <1>6, <1>7, LaunchOK
<1>9. CanStartFetch(e) =>
        /\ ReplyOK(e, Launch(n, {"touched"}))
        /\ Bystander(e, Launch(n, {"touched"}))
  BY <1>5, <1>8 DEF ReplyOK, Bystander
<1>10. "fetch" \notin {}
  OBVIOUS
<1> QED
  BY <1>3, <1>9, <1>10, UnchangedOK

-----------------------------------------------------------------------------
(* The post-rules *)

LEMMA SettleOK ==
    ASSUME NEW r, EntryOK(r.entry), NEW now
    PROVE  LET n == Settle(r, now)
           IN  /\ EntryOK(n)
               /\ n.incarnation = r.entry.incarnation
               /\ n.seq = r.entry.seq
               /\ n.inflight = r.entry.inflight
               /\ n.mutation_active = r.entry.mutation_active
               /\ n.optimistic = r.entry.optimistic
<1> DEFINE e == r.entry
           gc == IF GcRestarts(r) THEN e.gc_gen + 1 ELSE e.gc_gen
           refresh == IF RefreshCancelled(r) \/ RefreshDeadline(r, now) # None
                      THEN e.refresh_gen + 1 ELSE e.refresh_gen
           version == IF "notify" \in r.marks
                      THEN e.snap_version + 1 ELSE e.snap_version
           n == [e EXCEPT !.gc_gen = gc, !.refresh_gen = refresh,
                          !.snap_version = version]
<1>1. Settle(r, now) = n
  BY DEF Settle
<1>2. e \in Entry
  BY DEF EntryOK
<1>3. gc \in Nat /\ refresh \in Nat /\ version \in Nat
  BY <1>2 DEF Entry
<1> HIDE DEF gc, refresh, version, e
<1>4. n \in Entry
  BY <1>2, <1>3, ZenonT(60) DEF Entry
<1>5. /\ n.seq = e.seq /\ n.inflight = e.inflight /\ n.data = e.data
      /\ n.data_seq = e.data_seq /\ n.error = e.error /\ n.error_seq = e.error_seq
      /\ n.optimistic = e.optimistic /\ n.mutation_active = e.mutation_active
      /\ n.invalidated = e.invalidated /\ n.subs = e.subs
      /\ n.incarnation = e.incarnation /\ n.refresh_gen = refresh /\ n.gc_gen = gc
  BY <1>2 DEF Entry
<1>6. EntryOK(e)
  BY DEF e
<1> HIDE DEF n
<1>7. EntryOK(n)
  BY <1>4, <1>5, <1>6, SameRaceOK DEF EntryOK
<1> QED
  BY <1>1, <1>5, <1>7 DEF e

LEMMA ArmedType ==
    ASSUME NEW k \in Keys, NEW r, EntryOK(r.entry), NEW now \in Nat
    PROVE  Armed(k, r, now) \subseteq TimerType
<1> DEFINE e == Settle(r, now)
           gcAt == IF GcRestarts(r) THEN CheckedAdd(now, GcTime(r.entry)) ELSE None
           refreshAt == RefreshDeadline(r, now)
<1>1. gcAt \in Nat \cup {None}
  BY GcTimeType, CheckedAddType
<1>2. refreshAt \in Nat \cup {None}
  BY RefreshIntervalType, CheckedAddType DEF EntryOK, RefreshDeadline
<1>3. EntryOK(e)
  BY SettleOK
<1>4. Armed(k, r, now)
        = {Timer(k, "Gc", gcAt, e.gc_gen, e.incarnation) : x \in {gcAt} \ {None}}
          \cup {Timer(k, "Refresh", refreshAt, e.refresh_gen, e.incarnation) :
                   x \in {refreshAt} \ {None}}
  BY DEF Armed
<1> HIDE DEF e, gcAt, refreshAt
<1>5. e.gc_gen \in Nat /\ e.refresh_gen \in Nat /\ e.incarnation \in Nat
  BY <1>3 DEF EntryOK, Entry
<1> QED
  BY <1>1, <1>2, <1>4, <1>5 DEF Timer, TimerType

LEMMA StartedOK ==
    ASSUME NEW k \in Keys, NEW e, NEW r, ReplyOK(e, r)
    PROVE  /\ Started(k, r) \subseteq Task
           /\ "fetch" \in r.marks =>
                [key |-> k, incarnation |-> r.entry.incarnation,
                 seq |-> r.entry.inflight] \in Started(k, r)
<1>1. r.entry.incarnation \in Nat /\ r.entry.seq \in Nat
  BY DEF ReplyOK, EntryOK, Entry
<1> QED
  BY <1>1 DEF Started, Task, ReplyOK

-----------------------------------------------------------------------------
(* The inductive invariant *)

Flight(k, e) == [key |-> k, incarnation |-> e.incarnation, seq |-> e.inflight]

Owned(k) == entries[k].optimistic # None =>
    \E m \in Mutating(k) : muts[m].written_seq = entries[k].optimistic.written_seq

IInv ==
    /\ TypeOK
    /\ \A k \in Keys : Present(k) =>
         /\ EntryOK(entries[k])
         /\ entries[k].inflight # None => Flight(k, entries[k]) \in tasks
    /\ MutationsPinEntry
    /\ \A k \in Keys : Present(k) => Owned(k)

LEMMA FiniteMutating ==
    ASSUME NEW k
    PROVE  IsFiniteSet(Mutating(k)) /\ Cardinality(Mutating(k)) \in Nat
<1>1. Mutating(k) \in SUBSET Mutators
  BY DEF Mutating
<1> QED
  BY <1>1, FiniteAssumption, FS_Subset, FS_CardinalityType

\* An entry about to be created is as sound as one that is present.
LEMMA EntryOrCreateOK ==
    ASSUME IInv, NEW k \in Keys
    PROVE  /\ EntryOK(EntryOrCreate(k))
           /\ EntryOrCreate(k).mutation_active = Cardinality(Mutating(k))
           /\ EntryOrCreate(k).optimistic # None =>
                \E m \in Mutating(k) :
                   muts[m].written_seq = EntryOrCreate(k).optimistic.written_seq
<1>1. CASE Present(k)
  BY <1>1 DEF IInv, EntryOrCreate, MutationsPinEntry, Owned
<1>2. CASE ~Present(k)
  <2>1. EntryOrCreate(k) = NewEntry(next_incarnation) /\ next_incarnation \in Nat
    BY <1>2 DEF EntryOrCreate, IInv, TypeOK
  <2>2. Mutating(k) = {}
    BY <1>2 DEF IInv, MutationsPinEntry, Mutating
  <2>3. Cardinality(Mutating(k)) = 0
    BY <2>2, FS_EmptySet
  <2>4. EntryOrCreate(k).mutation_active = 0 /\ EntryOrCreate(k).optimistic = None
    BY <2>1 DEF NewEntry
  <2> QED
    BY <2>1, <2>3, <2>4, NewEntryOK
<1> QED
  BY <1>1, <1>2

\* The replies of a dispatch are sound, and the task it ends is no longer the
\* flight of any entry.
Sound(replies, ended) ==
    /\ \A k \in DOMAIN replies : k \in Keys /\ ReplyOK(EntryOrCreate(k), replies[k])
    /\ \A k \in Keys : \A t \in ended :
         IF k \in DOMAIN replies
         THEN \/ "fetch" \in replies[k].marks
              \/ replies[k].entry.inflight = None
              \/ t # Flight(k, replies[k].entry)
         ELSE Present(k) => t # Flight(k, entries[k])

LEMMA DispatchOK ==
    ASSUME IInv, NEW replies, NEW now \in Nat, NEW ended, NEW fired,
           Dispatch(replies, now, ended, fired), Sound(replies, ended)
    PROVE  /\ entries' \in [Keys -> Entry \cup {None}]
           /\ next_incarnation' \in Nat
           /\ tasks' \subseteq Task
           /\ timers' \subseteq TimerType
           /\ \A k \in Keys : Present(k)' =>
                /\ EntryOK(entries'[k])
                /\ entries'[k].inflight # None => Flight(k, entries'[k]) \in tasks'
           /\ \A k \in DOMAIN replies :
                /\ Present(k)'
                /\ entries'[k].mutation_active = replies[k].entry.mutation_active
                /\ entries'[k].optimistic = replies[k].entry.optimistic
           /\ \A k \in Keys \ DOMAIN replies : entries'[k] = entries[k]
<1>1. ASSUME NEW k \in DOMAIN replies
      PROVE  /\ k \in Keys
             /\ entries'[k] = Settle(replies[k], now)
             /\ EntryOK(entries'[k])
             /\ entries'[k] \in Entry
             /\ entries'[k].inflight # None => Flight(k, entries'[k]) \in tasks'
             /\ Present(k)'
             /\ entries'[k].mutation_active = replies[k].entry.mutation_active
             /\ entries'[k].optimistic = replies[k].entry.optimistic
             /\ Started(k, replies[k]) \subseteq Task
             /\ Armed(k, replies[k], now) \subseteq TimerType
  <2> DEFINE r == replies[k]
             n == Settle(r, now)
  <2>1. k \in Keys /\ ReplyOK(EntryOrCreate(k), r) /\ EntryOK(r.entry)
    BY DEF Sound, ReplyOK
  <2>2. entries'[k] = n
    BY <2>1 DEF Dispatch
  <2>3. /\ EntryOK(n) /\ n.incarnation = r.entry.incarnation
        /\ n.inflight = r.entry.inflight
        /\ n.mutation_active = r.entry.mutation_active
        /\ n.optimistic = r.entry.optimistic
    BY <2>1, SettleOK
  <2>4. n \in Entry /\ n # None
    BY <2>3, AbsenceAssumption DEF EntryOK
  <2>5. Flight(k, n) = Flight(k, r.entry)
    BY <2>3 DEF Flight
  <2>6. ASSUME n.inflight # None PROVE Flight(k, n) \in tasks'
    <3>1. tasks' = (tasks \ ended) \cup UNION {Started(x, replies[x]) : x \in DOMAIN replies}
      BY DEF Dispatch
    <3>2. CASE "fetch" \in r.marks
      <4>1. Flight(k, r.entry) \in Started(k, r)
        BY <2>1, <3>2, StartedOK DEF Flight
      <4> QED
        BY <2>5, <3>1, <4>1
    <3>3. CASE "fetch" \notin r.marks
      <4>1. /\ r.entry.inflight = EntryOrCreate(k).inflight
            /\ r.entry.incarnation = EntryOrCreate(k).incarnation
            /\ EntryOrCreate(k).inflight # None
        BY <2>1, <2>3, <2>6, <3>3 DEF ReplyOK
      <4>2. Present(k)
        BY <4>1 DEF EntryOrCreate, NewEntry
      <4>3. Flight(k, r.entry) = Flight(k, entries[k]) /\ entries[k].inflight # None
        BY <4>1, <4>2 DEF EntryOrCreate, Flight
      <4>4. Flight(k, entries[k]) \in tasks
        BY <2>1, <4>2, <4>3 DEF IInv
      <4>5. Flight(k, r.entry) \notin ended
        BY <2>1, <2>3, <2>6, <3>3 DEF Sound
      <4> QED
        BY <2>5, <3>1, <4>3, <4>4, <4>5
    <3> QED
      BY <3>2, <3>3
  <2>7. Started(k, r) \subseteq Task
    BY <2>1, StartedOK
  <2>8. Armed(k, r, now) \subseteq TimerType
    BY <2>1, ArmedType
  <2> HIDE DEF n
  <2> QED
    BY <2>1, <2>2, <2>3, <2>4, <2>6, <2>7, <2>8 DEF Present, n
<1>2. ASSUME NEW k \in Keys, k \notin DOMAIN replies
      PROVE  /\ entries'[k] = entries[k]
             /\ entries'[k] \in Entry \cup {None}
             /\ Present(k)' =>
                  /\ EntryOK(entries'[k])
                  /\ entries'[k].inflight # None => Flight(k, entries'[k]) \in tasks'
  <2>1. entries'[k] = entries[k]
    BY <1>2 DEF Dispatch
  <2>2. entries[k] \in Entry \cup {None}
    BY DEF IInv, TypeOK
  <2>3. ASSUME Present(k), entries[k].inflight # None
        PROVE  Flight(k, entries[k]) \in tasks'
    <3>1. Flight(k, entries[k]) \in tasks
      BY <2>3 DEF IInv
    <3>2. Flight(k, entries[k]) \notin ended
      BY <1>2, <2>3 DEF Sound
    <3> QED
      BY <3>1, <3>2 DEF Dispatch
  <2> QED
    BY <2>1, <2>2, <2>3 DEF IInv, Present
<1>3. entries' \in [Keys -> Entry \cup {None}]
  <2>1. entries' = [k \in Keys |-> entries'[k]]
    BY DEF Dispatch
  <2> QED
    BY <1>1, <1>2, <2>1, Zenon
<1>4. next_incarnation' \in Nat
  BY DEF IInv, TypeOK, Dispatch
<1>5. tasks' \subseteq Task
  BY <1>1 DEF IInv, TypeOK, Dispatch
<1>6. timers' \subseteq TimerType
  BY <1>1 DEF IInv, TypeOK, Dispatch
<1> QED
  BY <1>1, <1>2, <1>3, <1>4, <1>5, <1>6

-----------------------------------------------------------------------------
(* Every step keeps the invariant *)

\* What the dispatching action adds to a dispatch, mutations aside.
Aside ==
    /\ next_sub_id' \in Nat
    /\ clock' \in Nat
    /\ handles' \subseteq Handle
    /\ calls' \in 0 .. MaxCalls

LEMMA BystanderStep ==
    ASSUME IInv, NEW replies, NEW now \in Nat, NEW ended, NEW fired,
           Dispatch(replies, now, ended, fired), Sound(replies, ended),
           \A k \in DOMAIN replies : Bystander(EntryOrCreate(k), replies[k]),
           UNCHANGED muts, Aside
    PROVE  IInv'
<1>1. \A k : Mutating(k)' = Mutating(k)
  BY DEF Mutating
<1>2. TypeOK'
  BY DispatchOK DEF IInv, TypeOK, Aside
<1>3. \A k \in Keys : Present(k)' =>
        /\ EntryOK(entries'[k])
        /\ entries'[k].inflight # None => Flight(k, entries'[k]) \in tasks'
  BY DispatchOK
<1>4. ASSUME NEW k \in Keys, Present(k)'
      PROVE  /\ entries'[k].mutation_active = Cardinality(Mutating(k))
             /\ entries'[k].optimistic # None =>
                  \E m \in Mutating(k) :
                     muts[m].written_seq = entries'[k].optimistic.written_seq
  <2>1. CASE k \in DOMAIN replies
    BY <1>4, <2>1, DispatchOK, EntryOrCreateOK DEF Bystander
  <2>2. CASE k \notin DOMAIN replies
    <3>1. entries'[k] = entries[k] /\ Present(k)
      BY <1>4, <2>2, DispatchOK DEF Present
    <3> QED
      BY <3>1 DEF IInv, MutationsPinEntry, Owned
  <2> QED
    BY <2>1, <2>2
<1>5. ASSUME NEW m \in Mutators, muts[m] # None
      PROVE  Present(muts[m].key)'
  <2>1. muts[m].key \in Keys /\ Present(muts[m].key)
    BY <1>5 DEF IInv, MutationsPinEntry, TypeOK, Token
  <2> QED
    BY <2>1, DispatchOK DEF Present
<1>6. MutationsPinEntry'
  BY <1>1, <1>4, <1>5 DEF MutationsPinEntry, Present
<1>7. \A k \in Keys : Present(k)' => Owned(k)'
  BY <1>1, <1>4 DEF Owned
<1> QED
  BY <1>2, <1>3, <1>6, <1>7 DEF IInv, Present

LEMMA SampledType ==
    ASSUME IInv, NEW now \in Sampled
    PROVE  now \in Nat
  BY DEF IInv, TypeOK, Sampled

LEMMA CallingType ==
    ASSUME IInv, NEW api, Calling(api)
    PROVE  calls' \in 0 .. MaxCalls
  BY BoundsAssumption DEF IInv, TypeOK, Calling

LEMMA ReadStep ==
    ASSUME IInv, NEW k \in Keys, NEW policy, NEW now \in Sampled,
           ReadAt(k, policy, now), calls' \in 0 .. MaxCalls
    PROVE  IInv'
<1> DEFINE R == OnRead(EntryOrCreate(k), policy, TRUE, Defaults, now)
           E == [x \in {y \in {k} : Present(y)} |->
                    OnRead(entries[x], policy, TRUE, Defaults, now)]
           A == [x \in {k} |-> R]
<1>1. Dispatch(E, now, {}, {}) \/ Dispatch(A, now, {}, {})
  BY DEF ReadAt, Existing, At
<1>2. now \in Nat /\ Aside /\ UNCHANGED muts
  BY SampledType DEF ReadAt, Aside, IInv, TypeOK
<1>3. ReplyOK(EntryOrCreate(k), R) /\ Bystander(EntryOrCreate(k), R)
  BY EntryOrCreateOK, OnReadOK, DefaultsAssumption
<1>4. Present(k) => EntryOrCreate(k) = entries[k]
  BY DEF EntryOrCreate
<1>5. /\ Sound(E, {})
      /\ \A x \in DOMAIN E : Bystander(EntryOrCreate(x), E[x])
  BY <1>3, <1>4 DEF Sound
<1>6. /\ Sound(A, {})
      /\ \A x \in DOMAIN A : Bystander(EntryOrCreate(x), A[x])
  BY <1>3 DEF Sound
<1> HIDE DEF E, A
<1> QED
  BY <1>1, <1>2, <1>5, <1>6, BystanderStep

LEMMA FetchStep ==
    ASSUME IInv, NEW k \in Keys, NEW policy, Fetch(k, policy)
    PROVE  IInv'
  BY ReadStep, CallingType DEF Fetch

LEMMA SubscribeStep ==
    ASSUME IInv, NEW k \in Keys, NEW supplied \in BOOLEAN, NEW opts \in OptionChoices,
           Subscribe(k, supplied, opts)
    PROVE  IInv'
<1> DEFINE R(now) == OnSubscribe(EntryOrCreate(k), next_sub_id, supplied, opts, now)
           A(now) == [x \in {k} |-> R(now)]
<1>1. PICK now \in Sampled : Dispatch(A(now), now, {}, {})
  BY DEF Subscribe, At
<1>2. EntryOK(EntryOrCreate(k)) /\ next_sub_id \in Nat /\ opts \in Options
  BY EntryOrCreateOK, ChoicesAssumption DEF IInv, TypeOK
<1>3. now \in Nat /\ Aside /\ UNCHANGED muts
  <2>1. EntryOrCreate(k).incarnation \in Nat
    BY <1>2 DEF EntryOK, Entry
  <2>2. next_sub_id' \in Nat /\ handles' \subseteq Handle
    BY <1>2, <2>1 DEF Subscribe, IInv, TypeOK, Handle
  <2>3. now \in Nat /\ calls' \in 0 .. MaxCalls
    BY SampledType, CallingType DEF Subscribe
  <2> QED
    BY <2>2, <2>3 DEF Subscribe, Aside, IInv, TypeOK
<1>4. ReplyOK(EntryOrCreate(k), R(now)) /\ Bystander(EntryOrCreate(k), R(now))
  BY <1>2, OnSubscribeOK
<1>5. /\ Sound(A(now), {})
      /\ \A x \in DOMAIN A(now) : Bystander(EntryOrCreate(x), A(now)[x])
  BY <1>4 DEF Sound
<1> HIDE DEF A
<1> QED
  BY <1>1, <1>3, <1>5, BystanderStep

\* Handlers that meet the entries present among some keys.
LEMMA ExistingStep ==
    ASSUME IInv, NEW ks \in SUBSET Keys, NEW replies, NEW now \in Nat, NEW fired,
           DOMAIN replies = {k \in ks : Present(k)},
           \A k \in ks : Present(k) =>
              ReplyOK(entries[k], replies[k]) /\ Bystander(entries[k], replies[k]),
           Dispatch(replies, now, {}, fired), UNCHANGED muts, Aside
    PROVE  IInv'
<1>1. \A k : Present(k) => EntryOrCreate(k) = entries[k]
  BY DEF EntryOrCreate
<1>2. Sound(replies, {})
  BY <1>1 DEF Sound
<1> QED
  BY <1>1, <1>2, BystanderStep

LEMMA DropHandleStep ==
    ASSUME IInv, NEW h \in handles, DropHandle(h)
    PROVE  IInv'
<1> DEFINE E == [x \in {y \in {h.key} : Present(y)} |-> OnUnsubscribe(entries[x], h.sub_id)]
<1>1. PICK now \in Sampled : Dispatch(E, now, {}, {})
  BY DEF DropHandle, Existing
<1>2. now \in Nat /\ Aside /\ UNCHANGED muts /\ h.key \in Keys
  BY SampledType DEF DropHandle, Aside, IInv, TypeOK, Handle
<1>3. \A x \in {h.key} : Present(x) =>
        ReplyOK(entries[x], E[x]) /\ Bystander(entries[x], E[x])
  BY <1>2, OnUnsubscribeOK DEF IInv
<1>4. DOMAIN E = {y \in {h.key} : Present(y)} /\ {h.key} \in SUBSET Keys
  BY <1>2
<1> HIDE DEF E
<1> QED
  BY <1>1, <1>2, <1>3, <1>4, ExistingStep

LEMMA RequestStep ==
    ASSUME IInv, NEW k \in Keys, RequestRevalidation(k), calls' \in 0 .. MaxCalls
    PROVE  IInv'
<1> DEFINE E == [x \in {y \in {k} : Present(y)} |-> OnRevalidateRequested(entries[x])]
<1>1. PICK now \in Sampled : Dispatch(E, now, {}, {})
  BY DEF RequestRevalidation, Existing
<1>2. now \in Nat /\ Aside /\ UNCHANGED muts
  BY SampledType DEF RequestRevalidation, Aside, IInv, TypeOK
<1>3. \A x \in {k} : Present(x) =>
        ReplyOK(entries[x], E[x]) /\ Bystander(entries[x], E[x])
  BY OnRevalidateRequestedOK DEF IInv
<1>4. DOMAIN E = {y \in {k} : Present(y)} /\ {k} \in SUBSET Keys
  OBVIOUS
<1> HIDE DEF E
<1> QED
  BY <1>1, <1>2, <1>3, <1>4, ExistingStep

LEMMA RevalidateStep ==
    ASSUME IInv, NEW k \in Keys, Revalidate(k)
    PROVE  IInv'
  BY RequestStep, CallingType DEF Revalidate

LEMMA InvalidateStep ==
    ASSUME IInv, NEW prefix, Invalidate(prefix)
    PROVE  IInv'
<1> DEFINE ks == {k \in Keys : MatchesPrefix(k, prefix)}
           E == [x \in {y \in ks : Present(y)} |-> OnInvalidate(entries[x])]
<1>1. PICK now \in Sampled : Dispatch(E, now, {}, {})
  BY DEF Invalidate, Existing
<1>2. now \in Nat /\ Aside /\ UNCHANGED muts
  BY SampledType, CallingType DEF Invalidate, Aside, IInv, TypeOK
<1>3. \A x \in ks : Present(x) =>
        ReplyOK(entries[x], E[x]) /\ Bystander(entries[x], E[x])
  BY OnInvalidateOK DEF IInv
<1>4. DOMAIN E = {y \in ks : Present(y)} /\ ks \in SUBSET Keys
  OBVIOUS
<1> HIDE DEF E, ks
<1> QED
  BY <1>1, <1>2, <1>3, <1>4, ExistingStep

LEMMA BroadcastStep ==
    ASSUME IInv, NEW ev, Broadcast(ev)
    PROVE  IInv'
<1> DEFINE E(now) == [x \in {y \in Keys : Present(y)} |-> OnBroadcast(entries[x], ev, now)]
<1>1. PICK now \in Sampled : Dispatch(E(now), now, {}, {})
  BY DEF Broadcast, Existing
<1>2. now \in Nat /\ Aside /\ UNCHANGED muts
  BY SampledType, CallingType DEF Broadcast, Aside, IInv, TypeOK
<1>3. \A x \in Keys : Present(x) =>
        ReplyOK(entries[x], E(now)[x]) /\ Bystander(entries[x], E(now)[x])
  BY <1>2, OnBroadcastOK DEF IInv
<1>4. DOMAIN E(now) = {y \in Keys : Present(y)} /\ Keys \in SUBSET Keys
  OBVIOUS
<1> HIDE DEF E
<1> QED
  BY <1>1, <1>2, <1>3, <1>4, ExistingStep

LEMMA RefreshTimerStep ==
    ASSUME IInv, NEW t \in timers, RefreshTimer(t)
    PROVE  IInv'
<1> DEFINE E == [x \in {y \in {t.key} : Present(y)} |->
                    OnTimerRefresh(entries[x], t.generation)]
<1>1. PICK now \in Sampled : Dispatch(E, now, {}, {t})
  BY DEF RefreshTimer, Existing
<1>2. now \in Nat /\ Aside /\ UNCHANGED muts /\ t.key \in Keys
  BY SampledType DEF RefreshTimer, Aside, IInv, TypeOK, TimerType
<1>3. \A x \in {t.key} : Present(x) =>
        ReplyOK(entries[x], E[x]) /\ Bystander(entries[x], E[x])
  BY <1>2, OnTimerRefreshOK DEF IInv
<1>4. DOMAIN E = {y \in {t.key} : Present(y)} /\ {t.key} \in SUBSET Keys
  BY <1>2
<1> HIDE DEF E
<1> QED
  BY <1>1, <1>2, <1>3, <1>4, ExistingStep

LEMMA ReportStep ==
    ASSUME IInv, NEW t \in tasks, FetchOk(t) \/ FetchErr(t)
    PROVE  IInv'
<1> DEFINE Ok(now) == [x \in {y \in {t.key} : Present(y)} |->
                          OnCommitOk(entries[x], t.incarnation, t.seq, now)]
           Err == [x \in {y \in {t.key} : Present(y)} |->
                      OnCommitErr(entries[x], t.incarnation, t.seq)]
<1>1. PICK now \in Sampled :
        Dispatch(Ok(now), now, {t}, {}) \/ Dispatch(Err, now, {t}, {})
  BY DEF FetchOk, FetchErr, Existing
<1>2. now \in Nat /\ Aside /\ UNCHANGED muts
  BY SampledType DEF FetchOk, FetchErr, Aside, IInv, TypeOK
<1>3. t.key \in Keys /\ t.incarnation \in Nat /\ t.seq \in Nat
  BY DEF IInv, TypeOK, Task
<1>4. ASSUME NEW E \in {Ok(now), Err}
      PROVE  /\ Sound(E, {t})
             /\ \A k \in DOMAIN E : Bystander(EntryOrCreate(k), E[k])
  <2>1. DOMAIN E = {y \in {t.key} : Present(y)}
    BY <1>4
  <2>2. ASSUME Present(t.key)
        PROVE  /\ ReplyOK(EntryOrCreate(t.key), E[t.key])
               /\ Bystander(EntryOrCreate(t.key), E[t.key])
               /\ \/ "fetch" \in E[t.key].marks
                  \/ E[t.key].entry.inflight = None
                  \/ t # Flight(t.key, E[t.key].entry)
    <3> DEFINE e == entries[t.key]
               r == E[t.key]
    <3>1. EntryOK(e) /\ EntryOrCreate(t.key) = e
      BY <1>3, <2>2 DEF IInv, EntryOrCreate
    <3>2. r \in {OnCommitOk(e, t.incarnation, t.seq, now),
                 OnCommitErr(e, t.incarnation, t.seq)}
      BY <1>4, <2>2
    <3> HIDE DEF e, r
    <3>3. /\ ReplyOK(e, r) /\ Bystander(e, r)
          /\ r.entry.inflight # None => ~Accepts(e, t.incarnation, t.seq)
      <4>1. CASE r = OnCommitOk(e, t.incarnation, t.seq, now)
        BY <1>2, <1>3, <3>1, <4>1, CommitOK
      <4>2. CASE r = OnCommitErr(e, t.incarnation, t.seq)
        BY <1>2, <1>3, <3>1, <4>2, CommitOK
      <4> QED
        BY <3>2, <4>1, <4>2
    <3>4. ASSUME "fetch" \notin r.marks, r.entry.inflight # None,
                 t = Flight(t.key, r.entry)
          PROVE  FALSE
      <4>1. t.seq = r.entry.inflight /\ t.incarnation = r.entry.incarnation
        BY <3>4 DEF Flight
      <4>2. e.inflight = t.seq /\ e.incarnation = t.incarnation
        BY <3>3, <3>4, <4>1 DEF ReplyOK
      <4>3. e.mutation_active = 0
        BY <3>1, <3>3, <3>4, <4>1, <4>2 DEF EntryOK, FlightOK
      <4> QED
        BY <3>3, <3>4, <4>2, <4>3 DEF Accepts
    <3> QED
      BY <3>1, <3>3, <3>4 DEF r
  <2> HIDE DEF Ok, Err
  <2>3. \A k \in Keys : k # t.key => t # Flight(k, entries[k])
    BY DEF Flight
  <2>4. \A k \in DOMAIN E : k = t.key /\ Present(t.key)
    BY <2>1
  <2>5. Present(t.key) => t.key \in DOMAIN E
    BY <2>1
  <2> QED
    BY <1>3, <2>2, <2>3, <2>4, <2>5 DEF Sound
<1> HIDE DEF Ok, Err
<1> QED
  BY <1>1, <1>2, <1>4, BystanderStep

LEMMA SetStep ==
    ASSUME IInv, NEW k \in Keys, Set(k)
    PROVE  IInv'
<1> DEFINE R(now) == OnMutateSet(EntryOrCreate(k), now)
           A(now) == [x \in {k} |-> R(now)]
<1>1. PICK now \in Sampled : Dispatch(A(now), now, {}, {})
  BY DEF Set, At
<1>2. now \in Nat /\ Aside /\ UNCHANGED muts
  BY SampledType, CallingType DEF Set, Aside, IInv, TypeOK
<1>3. ReplyOK(EntryOrCreate(k), R(now)) /\ Bystander(EntryOrCreate(k), R(now))
  BY <1>2, EntryOrCreateOK, OnMutateSetOK
<1>4. /\ Sound(A(now), {})
      /\ \A x \in DOMAIN A(now) : Bystander(EntryOrCreate(x), A(now)[x])
  BY <1>3 DEF Sound
<1> HIDE DEF A
<1> QED
  BY <1>1, <1>2, <1>4, BystanderStep

LEMMA MutateBeginStep ==
    ASSUME IInv, NEW m \in Mutators, NEW k \in Keys, NEW optimistic \in BOOLEAN,
           NEW flags \in FlagChoices, MutateBegin(m, k, optimistic, flags)
    PROVE  IInv'
<1> DEFINE e == EntryOrCreate(k)
           r == OnMutateBegin(e, optimistic)
           A == [x \in {k} |-> r]
           token == [key |-> k,
                     written_seq |-> IF optimistic THEN r.entry.seq ELSE None,
                     rollback_on_error |-> flags.rollback_on_error,
                     populate |-> flags.populate,
                     revalidate |-> flags.revalidate]
<1>1. /\ \E now \in Sampled : Dispatch(A, now, {}, {})
      /\ muts[m] = None
      /\ muts' = [muts EXCEPT ![m] = token]
  BY DEF MutateBegin, At
<1>2. PICK now \in Sampled : Dispatch(A, now, {}, {})
  BY <1>1
<1>3. now \in Nat /\ Aside
  BY SampledType, CallingType DEF MutateBegin, Aside, IInv, TypeOK
<1>4. EntryOK(e) /\ e.mutation_active = Cardinality(Mutating(k))
  BY EntryOrCreateOK
<1>5. /\ ReplyOK(e, r)
      /\ r.entry.mutation_active = e.mutation_active + 1
      /\ optimistic => r.entry.optimistic.written_seq = r.entry.seq
      /\ ~optimistic => r.entry.optimistic = e.optimistic
  BY <1>4, OnMutateBeginOK
<1>6. token \in Token
  <2>1. r.entry.seq \in Nat
    BY <1>5 DEF ReplyOK, EntryOK, Entry
  <2>2. flags \in MutateFlags
    BY ChoicesAssumption
  <2> QED
    BY <2>1, <2>2 DEF Token, MutateFlags
<1>7. token # None
  BY <1>6, AbsenceAssumption
<1>8. token.key = k /\ (optimistic => token.written_seq = r.entry.seq)
  OBVIOUS
<1>9. muts \in [Mutators -> Token \cup {None}]
  BY DEF IInv, TypeOK
<1>10. Sound(A, {})
  BY <1>5 DEF Sound
<1>11. DOMAIN A = {k} /\ A[k] = r
  OBVIOUS
<1> HIDE DEF A, token, r
<1>12. muts' \in [Mutators -> Token \cup {None}]
  BY <1>1, <1>6, <1>9
<1>13. muts'[m] = token /\ \A x \in Mutators \ {m} : muts'[x] = muts[x]
  BY <1>1, <1>9
<1>14. Mutating(k)' = Mutating(k) \cup {m} /\ m \notin Mutating(k)
  BY <1>1, <1>7, <1>8, <1>13 DEF Mutating
<1>15. \A x : x # k => Mutating(x)' = Mutating(x)
  BY <1>1, <1>8, <1>13 DEF Mutating
<1>16. Cardinality(Mutating(k)') = Cardinality(Mutating(k)) + 1
  BY <1>14, FiniteMutating, FS_AddElement
<1>17. TypeOK'
  BY <1>2, <1>3, <1>10, <1>12, DispatchOK DEF TypeOK, Aside
<1>18. \A x \in Keys : Present(x)' =>
        /\ EntryOK(entries'[x])
        /\ entries'[x].inflight # None => Flight(x, entries'[x]) \in tasks'
  BY <1>2, <1>3, <1>10, DispatchOK
<1>19. /\ Present(k)'
       /\ entries'[k].mutation_active = r.entry.mutation_active
       /\ entries'[k].optimistic = r.entry.optimistic
  BY <1>2, <1>3, <1>10, <1>11, DispatchOK
<1>20. \A x \in Keys : x # k => entries'[x] = entries[x]
  BY <1>2, <1>3, <1>10, <1>11, DispatchOK
<1>21. MutationsPinEntry'
  <2>1. ASSUME NEW x \in Keys, Present(x)'
        PROVE  entries'[x].mutation_active = Cardinality(Mutating(x)')
    <3>1. CASE x = k
      BY <1>4, <1>5, <1>16, <1>19, <3>1
    <3>2. CASE x # k
      BY <1>15, <1>20, <2>1, <3>2 DEF IInv, MutationsPinEntry, Present
    <3> QED
      BY <3>1, <3>2
  <2>2. ASSUME NEW x \in Mutators, muts'[x] # None
        PROVE  entries'[muts'[x].key] # None
    <3>1. CASE muts'[x].key = k
      BY <1>19, <3>1 DEF Present
    <3>2. CASE muts'[x].key # k
      <4>1. x # m /\ muts'[x] = muts[x] /\ muts[x] \in Token
        BY <1>8, <1>9, <1>13, <2>2, <3>2
      <4>2. muts[x].key \in Keys /\ Present(muts[x].key)
        BY <2>2, <4>1 DEF IInv, MutationsPinEntry, Token
      <4> QED
        BY <1>20, <3>2, <4>1, <4>2 DEF Present
    <3> QED
      BY <3>1, <3>2
  <2> QED
    BY <2>1, <2>2 DEF MutationsPinEntry, Present
<1>22. ASSUME NEW x \in Keys, Present(x)' PROVE Owned(x)'
  <2>1. CASE x = k /\ optimistic
    <3>1. muts'[m].written_seq = entries'[k].optimistic.written_seq
      BY <1>5, <1>8, <1>13, <1>19, <2>1
    <3> QED
      BY <1>14, <2>1, <3>1 DEF Owned
  <2>2. CASE x = k /\ ~optimistic
    <3>1. entries'[k].optimistic = e.optimistic
      BY <1>5, <1>19, <2>2
    <3>2. e.optimistic # None =>
            \E y \in Mutating(k) : muts[y].written_seq = e.optimistic.written_seq
      BY EntryOrCreateOK
    <3>3. \A y \in Mutating(k) : y \in Mutating(k)' /\ muts'[y] = muts[y]
      BY <1>13, <1>14 DEF Mutating
    <3> HIDE DEF e
    <3> QED
      BY <2>2, <3>1, <3>2, <3>3 DEF Owned
  <2>3. CASE x # k
    <3>1. entries'[x] = entries[x] /\ Present(x) /\ Mutating(x)' = Mutating(x)
      BY <1>15, <1>20, <1>22, <2>3 DEF Present
    <3>2. \A y \in Mutating(x) : muts'[y] = muts[y]
      BY <1>1, <1>13 DEF Mutating
    <3> QED
      BY <3>1, <3>2 DEF IInv, Owned
  <2> QED
    BY <2>1, <2>2, <2>3
<1> QED
  BY <1>17, <1>18, <1>21, <1>22 DEF IInv, Present

LEMMA MutateEndStep ==
    ASSUME IInv, NEW m \in Mutators, NEW result,
           MutateCommit(m, result) \/ MutateAbort(m)
    PROVE  IInv'
<1>a. PICK token \in Token : muts[m] = token /\ token # None
  BY DEF MutateCommit, MutateAbort, IInv, TypeOK
<1> DEFINE k == token.key
           e == entries[k]
           Others == Mutating(k) \ {m}
           Commit(now) == [x \in {y \in {k} : Present(y)} |->
                              OnMutateCommit(entries[x], token, result, now)]
           Abort == [x \in {y \in {k} : Present(y)} |-> OnMutateAbort(entries[x], token)]
<1>1. /\ muts' = [muts EXCEPT ![m] = None]
      /\ \E now \in Sampled :
            Dispatch(Commit(now), now, {}, {}) \/ Dispatch(Abort, now, {}, {})
  BY <1>a DEF MutateCommit, MutateAbort, Existing
<1>b. PICK now \in Sampled :
        Dispatch(Commit(now), now, {}, {}) \/ Dispatch(Abort, now, {}, {})
  BY <1>1
<1>2. PICK A \in {Commit(now), Abort} : Dispatch(A, now, {}, {})
  BY <1>b
<1>3. now \in Nat /\ Aside
  BY SampledType DEF MutateCommit, MutateAbort, Aside, IInv, TypeOK
<1>4. k \in Keys /\ Present(k) /\ m \in Mutating(k)
  BY <1>a DEF IInv, TypeOK, MutationsPinEntry, Token, Mutating
<1>5. /\ EntryOK(e) /\ EntryOrCreate(k) = e
      /\ e.mutation_active = Cardinality(Mutating(k))
      /\ Owned(k)
  BY <1>4 DEF IInv, MutationsPinEntry, EntryOrCreate
<1>6. IsFiniteSet(Others) /\ Cardinality(Others) = e.mutation_active - 1
      /\ Cardinality(Others) \in Nat /\ e.mutation_active \in Nat
  BY <1>4, <1>5, FiniteMutating, FS_RemoveElement, FS_CardinalityType
<1>7. ASSUME e.optimistic # None, ~OwnsSlot(e, token)
      PROVE  \E x \in Others : muts[x].written_seq = e.optimistic.written_seq
  <2>1. PICK x \in Mutating(k) : muts[x].written_seq = e.optimistic.written_seq
    BY <1>5, <1>7 DEF Owned
  <2>2. e.optimistic.written_seq \in Nat
    BY <1>5, <1>7, EntryFields DEF EntryOK
  <2>3. x # m
    BY <1>a, <1>7, <2>1, <2>2, NoneAssumption DEF OwnsSlot
  <2> QED
    BY <2>1, <2>3
<1>8. 0 < e.mutation_active
  BY <1>6
<1>9. e.optimistic # None /\ ~OwnsSlot(e, token) => 1 < e.mutation_active
  <2>1. Others # {} => Cardinality(Others) # 0
    BY <1>6, FS_EmptySet
  <2> QED
    BY <1>6, <1>7, <2>1
<1>10. DOMAIN A = {k} /\ EndsMutation(e, A[k], token)
  <2>1. DOMAIN A = {k}
    BY <1>2, <1>4
  <2>2. A[k] = OnMutateCommit(e, token, result, now) \/ A[k] = OnMutateAbort(e, token)
    BY <1>2, <1>4
  <2> HIDE DEF e, Commit, Abort
  <2>3. CASE A[k] = OnMutateCommit(e, token, result, now)
    BY <1>3, <1>5, <1>8, <1>9, <2>1, <2>3, OnMutateEndOK
  <2>4. CASE A[k] = OnMutateAbort(e, token)
    BY <1>3, <1>5, <1>8, <1>9, <2>1, <2>4, OnMutateEndOK
  <2> QED
    BY <2>2, <2>3, <2>4
<1>11. muts \in [Mutators -> Token \cup {None}]
  BY DEF IInv, TypeOK
<1> HIDE DEF Commit, Abort
<1>12. Sound(A, {})
  BY <1>4, <1>5, <1>10 DEF Sound, EndsMutation
<1>13. muts' \in [Mutators -> Token \cup {None}]
       /\ muts'[m] = None /\ \A x \in Mutators \ {m} : muts'[x] = muts[x]
  BY <1>1, <1>11
<1>14. Mutating(k)' = Others
  <2>1. Mutating(k)' = {x \in Mutators : muts'[x] # None /\ muts'[x].key = k}
    BY DEF Mutating
  <2>2. Others = {x \in Mutators \ {m} : muts[x] # None /\ muts[x].key = k}
    BY DEF Mutating
  <2> HIDE DEF Others
  <2> QED
    BY <1>13, <2>1, <2>2
<1>15. \A x : x # k => Mutating(x)' = Mutating(x)
  BY <1>a, <1>13 DEF Mutating
<1>16. TypeOK'
  BY <1>2, <1>3, <1>12, <1>13, DispatchOK DEF TypeOK, Aside
<1>17. \A x \in Keys : Present(x)' =>
        /\ EntryOK(entries'[x])
        /\ entries'[x].inflight # None => Flight(x, entries'[x]) \in tasks'
  BY <1>2, <1>3, <1>12, DispatchOK
<1>18. /\ Present(k)'
       /\ entries'[k].mutation_active = e.mutation_active - 1
       /\ \/ entries'[k].optimistic = None
          \/ entries'[k].optimistic = e.optimistic /\ ~OwnsSlot(e, token)
  <2>1. /\ A[k].entry.mutation_active = e.mutation_active - 1
        /\ \/ A[k].entry.optimistic = None
           \/ A[k].entry.optimistic = e.optimistic /\ ~OwnsSlot(e, token)
    BY <1>10 DEF EndsMutation
  <2>2. k \in DOMAIN A
    BY <1>10
  <2>3. /\ Present(k)'
        /\ entries'[k].mutation_active = A[k].entry.mutation_active
        /\ entries'[k].optimistic = A[k].entry.optimistic
    BY <1>2, <1>3, <1>12, <2>2, DispatchOK
  <2> HIDE DEF e, k
  <2> QED
    BY <2>1, <2>3
<1>19. \A x \in Keys : x # k => entries'[x] = entries[x]
  BY <1>2, <1>3, <1>10, <1>12, DispatchOK
<1>20. MutationsPinEntry'
  <2>1. ASSUME NEW x \in Keys, Present(x)'
        PROVE  entries'[x].mutation_active = Cardinality(Mutating(x)')
    <3>1. CASE x = k
      BY <1>6, <1>14, <1>18, <3>1
    <3>2. CASE x # k
      BY <1>15, <1>19, <2>1, <3>2 DEF IInv, MutationsPinEntry, Present
    <3> QED
      BY <3>1, <3>2
  <2>2. ASSUME NEW x \in Mutators, muts'[x] # None
        PROVE  entries'[muts'[x].key] # None
    <3>1. muts'[x] = muts[x] /\ muts[x] \in Token
      BY <1>11, <1>13, <2>2
    <3>2. muts[x].key \in Keys /\ Present(muts[x].key)
      BY <2>2, <3>1 DEF IInv, MutationsPinEntry, Token
    <3> QED
      BY <1>18, <1>19, <3>1, <3>2 DEF Present
  <2> QED
    BY <2>1, <2>2 DEF MutationsPinEntry, Present
<1>21. ASSUME NEW x \in Keys, Present(x)' PROVE Owned(x)'
  <2>1. CASE x = k
    <3>1. \A y \in Others : muts'[y] = muts[y]
      BY <1>13 DEF Mutating
    <3>2. entries'[k].optimistic # None =>
            \E y \in Others : muts'[y].written_seq = entries'[k].optimistic.written_seq
      <4> HIDE DEF Others, e
      <4> QED
        BY <1>7, <1>18, <3>1
    <3> QED
      BY <1>14, <2>1, <3>2 DEF Owned
  <2>2. CASE x # k
    <3>1. entries'[x] = entries[x] /\ Present(x) /\ Mutating(x)' = Mutating(x)
      BY <1>15, <1>19, <1>21, <2>2 DEF Present
    <3>2. \A y \in Mutating(x) : muts'[y] = muts[y]
      BY <1>a, <1>13, <2>2 DEF Mutating
    <3> QED
      BY <3>1, <3>2 DEF IInv, Owned
  <2> QED
    BY <2>1, <2>2
<1> QED
  BY <1>16, <1>17, <1>20, <1>21 DEF IInv, Present

LEMMA GcTimerStep ==
    ASSUME IInv, NEW t \in timers, GcTimer(t)
    PROVE  IInv'
<1>1. CASE ~(Present(t.key) /\ Collects(entries[t.key], t.generation))
  <2>1. /\ UNCHANGED <<entries, next_sub_id, next_incarnation, clock, tasks,
                       handles, muts, calls>>
        /\ timers' \subseteq timers
    BY <1>1 DEF GcTimer
  <2> QED
    BY <2>1 DEF IInv, TypeOK, Present, MutationsPinEntry, Mutating, Owned
<1>2. CASE Present(t.key) /\ Collects(entries[t.key], t.generation)
  <2> DEFINE k == t.key
  <2>1. /\ UNCHANGED <<next_sub_id, next_incarnation, clock, tasks,
                       handles, muts, calls>>
        /\ timers' \subseteq timers
        /\ entries' = [entries EXCEPT ![k] = None]
    BY <1>2 DEF GcTimer
  <2>2. k \in Keys /\ entries \in [Keys -> Entry \cup {None}]
    BY DEF IInv, TypeOK, TimerType
  <2>3. /\ entries' \in [Keys -> Entry \cup {None}] /\ entries'[k] = None
        /\ \A x \in Keys : entries'[x] = entries[x] \/ entries'[x] = None
        /\ \A x \in Keys : x # k => entries'[x] = entries[x]
    BY <2>1, <2>2
  <2>4. TypeOK'
    BY <2>1, <2>3 DEF IInv, TypeOK
  <2>5. \A x : Mutating(x)' = Mutating(x)
    BY <2>1 DEF Mutating
  <2>6. Cardinality(Mutating(k)) = 0
    BY <1>2, <2>2 DEF IInv, MutationsPinEntry, Collects, IsQuiescent
  <2>7. Mutating(k) = {}
    BY <2>6, FiniteMutating, FS_EmptySet
  <2>8. ASSUME NEW x \in Mutators, muts[x] # None
        PROVE  entries'[muts[x].key] # None
    <3>1. muts[x].key \in Keys /\ Present(muts[x].key)
      BY <2>8 DEF IInv, TypeOK, Token, MutationsPinEntry
    <3>2. muts[x].key # k
      BY <2>7, <2>8 DEF Mutating
    <3> QED
      BY <2>3, <3>1, <3>2 DEF Present
  <2>9. MutationsPinEntry'
    BY <2>1, <2>3, <2>5, <2>8 DEF IInv, MutationsPinEntry, Present
  <2>10. ASSUME NEW x \in Keys, Present(x)'
         PROVE  /\ EntryOK(entries'[x])
                /\ entries'[x].inflight # None => Flight(x, entries'[x]) \in tasks'
                /\ Owned(x)'
    <3>1. entries'[x] = entries[x] /\ Present(x)
      BY <2>3, <2>10 DEF Present
    <3> QED
      BY <2>1, <2>5, <3>1 DEF IInv, Owned
  <2> QED
    BY <2>4, <2>9, <2>10 DEF IInv, Present
<1> QED
  BY <1>1, <1>2

LEMMA IdleStep ==
    ASSUME IInv, Tick \/ UNCHANGED vars
    PROVE  IInv'
<1>1. /\ UNCHANGED <<entries, next_sub_id, next_incarnation, tasks, timers,
                     handles, muts, calls>>
      /\ clock' \in Nat
  BY DEF Tick, vars, IInv, TypeOK
<1> QED
  BY <1>1 DEF IInv, TypeOK, Present, MutationsPinEntry, Mutating, Owned

LEMMA InitIInv == Init => IInv
<1> SUFFICES ASSUME Init PROVE IInv
  OBVIOUS
<1>1. TypeOK
  BY BoundsAssumption DEF Init, TypeOK
<1>2. \A k \in Keys : ~Present(k)
  BY DEF Init, Present
<1>3. \A m \in Mutators : muts[m] = None
  BY DEF Init
<1> QED
  BY <1>1, <1>2, <1>3 DEF IInv, MutationsPinEntry

LEMMA NextIInv == IInv /\ [Next]_vars => IInv'
<1> SUFFICES ASSUME IInv, [Next]_vars PROVE IInv'
  OBVIOUS
<1>1. ASSUME NEW k \in Keys, NEW policy \in Policies, Fetch(k, policy) PROVE IInv'
  BY <1>1, FetchStep
<1>2. ASSUME NEW k \in Keys, NEW supplied \in BOOLEAN, NEW opts \in OptionChoices,
             Subscribe(k, supplied, opts)
      PROVE  IInv'
  BY <1>2, SubscribeStep
<1>3. ASSUME NEW h \in handles, DropHandle(h) PROVE IInv'
  BY <1>3, DropHandleStep
<1>4. ASSUME NEW k \in Keys, Revalidate(k) PROVE IInv'
  BY <1>4, RevalidateStep
<1>5. ASSUME NEW t \in tasks, FetchOk(t) \/ FetchErr(t) PROVE IInv'
  BY <1>5, ReportStep
<1>6. ASSUME NEW k \in Keys, Set(k) PROVE IInv'
  BY <1>6, SetStep
<1>7. ASSUME NEW m \in Mutators, NEW k \in Keys, NEW optimistic \in BOOLEAN,
             NEW flags \in FlagChoices, MutateBegin(m, k, optimistic, flags)
      PROVE  IInv'
  BY <1>7, MutateBeginStep
<1>8. ASSUME NEW m \in Mutators, NEW result \in Results, MutateCommit(m, result)
      PROVE  IInv'
  BY <1>8, MutateEndStep
<1>9. ASSUME NEW m \in Mutators, MutateAbort(m) PROVE IInv'
  BY <1>9, MutateEndStep
<1>10. ASSUME NEW prefix \in KeyPrefixes, Invalidate(prefix) PROVE IInv'
  BY <1>10, InvalidateStep
<1>11. ASSUME NEW ev \in EventKinds, Broadcast(ev) PROVE IInv'
  BY <1>11, BroadcastStep
<1>12. ASSUME NEW t \in timers, GcTimer(t) PROVE IInv'
  BY <1>12, GcTimerStep
<1>13. ASSUME NEW t \in timers, RefreshTimer(t) PROVE IInv'
  BY <1>13, RefreshTimerStep
<1>14. CASE Tick \/ UNCHANGED vars
  BY <1>14, IdleStep
<1> QED
  BY <1>1, <1>2, <1>3, <1>4, <1>5, <1>6, <1>7, <1>8, <1>9, <1>10, <1>11, <1>12,
     <1>13, <1>14 DEF Next

LEMMA Inductive == Spec => []IInv
  BY InitIInv, NextIInv, PTL DEF Spec

-----------------------------------------------------------------------------
(* What follows *)

\* Every field of the cache, the tasks, the timers and the callers holds a
\* value of its Rust type in every reachable state (EntryCore, machine.rs).
THEOREM TypeCorrect == Spec => []TypeOK
<1>1. IInv => TypeOK
  BY DEF IInv
<1> QED
  BY <1>1, Inductive, PTL

\* The debug asserts of on_commit_ok and on_commit_err cannot fire: a flight
\* that may still commit is the last writer of its entry, no mutation runs, the
\* entry is clean, and its task has not reported back.
THEOREM FlightsAreLatest == Spec => []FlightIsLatest
<1>1. IInv => FlightIsLatest
  <2> SUFFICES ASSUME IInv, NEW k \in Keys, Present(k), entries[k].inflight # None
      PROVE  /\ entries[k].inflight = entries[k].seq
             /\ entries[k].mutation_active = 0
             /\ ~entries[k].invalidated
             /\ Flight(k, entries[k]) \in tasks
    BY DEF FlightIsLatest, Flight
  <2> QED
    BY DEF IInv, EntryOK, FlightOK
<1> QED
  BY <1>1, Inductive, PTL

\* data and data_seq are written and rolled back together, by every handler.
THEOREM DataKeepsItsSeq == Spec => []DataHasItsSeq
<1>1. IInv => DataHasItsSeq
  BY DEF IInv, DataHasItsSeq, EntryOK, DataOK
<1> QED
  BY <1>1, Inductive, PTL

\* The expects of the wait loop (client.rs, wait) hold: a reader whose target
\* is met finds the value or the error it was told of, also after a rollback.
THEOREM WaitersAreServed == Spec => []WaitersFindTheirResult
<1>1. IInv => WaitersFindTheirResult
  <2> SUFFICES ASSUME IInv, NEW k \in Keys, Present(k),
                      NEW target \in 1 .. entries[k].seq
      PROVE  LET e == entries[k]
             IN  /\ e.data_seq >= target => e.data # None
                 /\ e.error_seq >= target /\ e.data_seq < target => e.error # None
                 /\ e.optimistic # None
                       /\ e.error_seq >= target /\ e.optimistic.prev_data_seq < target
                    => e.optimistic.prev_error # None
    BY DEF WaitersFindTheirResult
  <2> DEFINE e == entries[k]
  <2>1. EntryOK(e)
    BY DEF IInv
  <2>2. e \in Entry
    BY <2>1 DEF EntryOK
  <2>3. /\ e.seq \in Nat /\ e.data_seq \in Nat /\ e.error_seq \in Nat
        /\ e.optimistic # None => e.optimistic.prev_data_seq \in Nat
    BY <2>2, EntryFields
  <2>4. target \in Nat /\ 0 < target
    BY <2>3
  <2> HIDE DEF e
  <2>5. e.data_seq >= target => e.data # None
    BY <2>1, <2>3, <2>4 DEF EntryOK, DataOK
  <2>6. e.error_seq >= target /\ e.data_seq < target => e.error # None
    BY <2>1, <2>3, <2>4 DEF EntryOK, ErrorOK
  <2>7. e.optimistic # None
           /\ e.error_seq >= target /\ e.optimistic.prev_data_seq < target
        => e.optimistic.prev_error # None
    BY <2>1, <2>3, <2>4 DEF EntryOK, SlotOK, ErrorOK
  <2> QED
    BY <2>5, <2>6, <2>7 DEF e
<1> QED
  BY <1>1, Inductive, PTL

\* mutation_active is the number of mutations that will still end, on an entry
\* that is still there for each of them, however many mutators there are: the
\* guard of every mutate() call is counted once and discounted once.
THEOREM MutationsAreCounted == Spec => []MutationsPinEntry
<1>1. IInv => MutationsPinEntry
  BY DEF IInv
<1> QED
  BY <1>1, Inductive, PTL

\* A rollback slot belongs to a running mutation, whose optimistic value is the
\* one shown: a rollback can only restore what it replaced.
THEOREM SlotsAreOwned == Spec => []SlotIsOwned
<1>1. IInv => SlotIsOwned
  <2> SUFFICES ASSUME IInv, NEW k \in Keys, Present(k), entries[k].optimistic # None
      PROVE  LET e == entries[k]
                 s == entries[k].optimistic
             IN  /\ s.written_seq = e.data_seq
                 /\ s.prev_data_seq < s.written_seq
                 /\ (s.prev_data = None) = (s.prev_data_seq = 0)
                 /\ s.prev_data # None => s.prev_data.seq = s.prev_data_seq
                 /\ \E m \in Mutating(k) : muts[m].written_seq = s.written_seq
    BY DEF SlotIsOwned
  <2> DEFINE e == entries[k]
             s == e.optimistic
  <2>1. EntryOK(e) /\ Owned(k)
    BY DEF IInv
  <2>2. \E m \in Mutating(k) : muts[m].written_seq = s.written_seq
    BY <2>1 DEF Owned
  <2>3. s.prev_data_seq \in Nat
    BY <2>1, EntryFields DEF EntryOK
  <2>4. /\ s.written_seq = e.data_seq
        /\ s.prev_data_seq < e.data_seq
        /\ DataOK(s.prev_data, s.prev_data_seq, e.seq)
    BY <2>1 DEF EntryOK, SlotOK
  <2> HIDE DEF e, s
  <2>5. /\ (s.prev_data = None) <=> (s.prev_data_seq = 0)
        /\ s.prev_data # None => s.prev_data.seq = s.prev_data_seq
    BY <2>3, <2>4 DEF DataOK
  <2> QED
    BY <2>2, <2>4, <2>5 DEF e, s
<1> QED
  BY <1>1, Inductive, PTL
=============================================================================
