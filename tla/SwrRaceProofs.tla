---------------------------- MODULE SwrRaceProofs ----------------------------
(***************************************************************************)
(* SwrMachine implements LatestWins, for every value of the constants: the  *)
(* seqs, the incarnation fence and the mutation veto of the code together   *)
(* let only the latest flight of a key write, and only if nothing happened  *)
(* to the key meanwhile.                                                    *)
(*                                                                         *)
(* The invariant TasksArePast says why a new flight cannot be mistaken for  *)
(* one that is still running.  Then each shape of a step (SwrHandlerProofs) *)
(* is mapped, key by key, to Quiet, Superseded or Landed.                   *)
(***************************************************************************)
EXTENDS SwrSubscriptionProofs

\* No running task is of an incarnation or of a seq to come.
TasksArePast ==
    /\ \A t \in tasks : t.incarnation < next_incarnation
    /\ \A t \in tasks :
         Present(t.key) /\ t.incarnation = entries[t.key].incarnation
         => t.seq <= entries[t.key].seq

LEMMA TaskFields ==
    ASSUME IInv
    PROVE  /\ \A t \in tasks : t \in Task /\ t # None
           /\ \A t \in tasks : t.key \in Keys /\ t.incarnation \in Nat /\ t.seq \in Nat
           /\ next_incarnation \in Nat
  BY AbsenceAssumption DEF IInv, TypeOK, Task

\* The seq of an entry only grows.
LEMMA ServedSeqs ==
    ASSUME IInv, NEW replies, NEW now, NEW ended, NEW fired,
           Served(replies, now, ended, fired)
    PROVE  /\ \A k \in DOMAIN replies :
                /\ EntryOrCreate(k).seq \in Nat /\ entries'[k].seq \in Nat
                /\ entries'[k].seq = replies[k].entry.seq
                /\ EntryOrCreate(k).seq <= entries'[k].seq
                /\ "fetch" \in replies[k].marks => EntryOrCreate(k).seq < entries'[k].seq
           /\ \A k \in Keys : Present(k) =>
                /\ entries[k].seq \in Nat /\ entries'[k].seq \in Nat
                /\ entries[k].seq <= entries'[k].seq
<1>1. ASSUME NEW k \in DOMAIN replies
      PROVE  /\ EntryOrCreate(k).seq \in Nat /\ entries'[k].seq \in Nat
             /\ entries'[k].seq = replies[k].entry.seq
             /\ EntryOrCreate(k).seq <= entries'[k].seq
             /\ "fetch" \in replies[k].marks => EntryOrCreate(k).seq < entries'[k].seq
  <2> DEFINE e == EntryOrCreate(k)
             r == replies[k]
             n == entries'[k]
  <2>1. n = Settle(r, now) /\ r.entry \in Entry /\ e \in Entry
    BY ServedEntries
  <2>2. n.seq = r.entry.seq /\ e.seq \in Nat /\ r.entry.seq \in Nat
    BY <2>1, SettleFields, EntryFields
  <2>3. Raced(e, r) \/ (r.entry.seq = e.seq /\ "fetch" \notin r.marks)
    BY DEF Served, Landing
  <2> HIDE DEF e, r, n
  <2> QED
    BY <2>2, <2>3 DEF Raced, e, r, n
<1>2. ASSUME NEW k \in Keys, Present(k)
      PROVE  /\ entries[k].seq \in Nat /\ entries'[k].seq \in Nat
             /\ entries[k].seq <= entries'[k].seq
  <2>1. entries[k].seq \in Nat /\ EntryOrCreate(k) = entries[k]
    BY <1>2, EntryFields DEF IInv, EntryOK, EntryOrCreate
  <2> QED
    BY <1>1, <2>1, ServedEntries
<1> QED
  BY <1>1, <1>2

LEMMA ServedTasks ==
    ASSUME NEW replies, NEW now, NEW ended, NEW fired,
           Served(replies, now, ended, fired)
    PROVE  /\ tasks \ ended \subseteq tasks'
           /\ \A t : t \in tasks' <=>
                \/ t \in tasks \ ended
                \/ \E k \in DOMAIN replies :
                     /\ "fetch" \in replies[k].marks
                     /\ t = [key |-> k, incarnation |-> replies[k].entry.incarnation,
                             seq |-> replies[k].entry.seq]
  BY DEF Served, Dispatch, Started

\* A task started now is the flight of its entry, and was not running before.
LEMMA StartedTask ==
    ASSUME IInv, TasksArePast, NEW replies, NEW now, NEW ended, NEW fired,
           Served(replies, now, ended, fired),
           NEW k \in DOMAIN replies, "fetch" \in replies[k].marks
    PROVE  LET t == [key |-> k, incarnation |-> replies[k].entry.incarnation,
                     seq |-> replies[k].entry.seq]
           IN  /\ t \in tasks' \ tasks
               /\ entries'[k].inflight # None
               /\ t = Flight(k, entries'[k])
               /\ entries'[k].seq = t.seq /\ entries'[k].incarnation = t.incarnation
<1> DEFINE r == replies[k]
           n == entries'[k]
           t == [key |-> k, incarnation |-> r.entry.incarnation, seq |-> r.entry.seq]
<1>1. /\ n = Settle(r, now) /\ r.entry \in Entry /\ EntryOK(r.entry) /\ k \in Keys
      /\ r.entry.incarnation = EntryOrCreate(k).incarnation
  BY ServedEntries
<1>2. n.seq = r.entry.seq /\ n.inflight = r.entry.inflight
      /\ n.incarnation = r.entry.incarnation
  BY <1>1, SettleFields
<1>3. r.entry.inflight = r.entry.seq /\ r.entry.inflight # None
  <2>1. r.entry.inflight = r.entry.seq
    BY DEF Served, ReplyOK
  <2>2. r.entry.seq \in Nat
    BY <1>1, EntryFields
  <2> QED
    BY <2>1, <2>2, NoneAssumption
<1>4. t \in tasks'
  BY ServedTasks
<1>5. EntryOrCreate(k).seq < n.seq /\ EntryOrCreate(k).seq \in Nat /\ n.seq \in Nat
  BY ServedSeqs
<1>6. t.key = k /\ t.incarnation = r.entry.incarnation /\ t.seq = r.entry.seq
  OBVIOUS
<1>7. t = Flight(k, n)
  BY <1>2, <1>3 DEF Flight
<1> HIDE DEF t, n, r
<1>8. t \notin tasks
  <2> SUFFICES ASSUME t \in tasks PROVE FALSE
    OBVIOUS
  <2>1. CASE Present(k)
    <3>1. EntryOrCreate(k) = entries[k]
      BY <2>1 DEF EntryOrCreate
    <3>2. t.seq <= entries[k].seq
      BY <1>1, <1>6, <2>1, <3>1 DEF TasksArePast
    <3> QED
      BY <1>2, <1>5, <1>6, <3>1, <3>2
  <2>2. CASE ~Present(k)
    <3>1. EntryOrCreate(k).incarnation = next_incarnation
      BY <2>2 DEF EntryOrCreate, NewEntry
    <3> QED
      BY <1>1, <1>6, <3>1, TaskFields DEF TasksArePast
  <2> QED
    BY <2>1, <2>2
<1> QED
  BY <1>2, <1>3, <1>4, <1>6, <1>7, <1>8 DEF t, n, r

LEMMA ServedTasksPast ==
    ASSUME IInv, IInv', TimersArePast', TasksArePast,
           NEW replies, NEW now, NEW ended, NEW fired,
           Served(replies, now, ended, fired)
    PROVE  TasksArePast'
<1>0. /\ next_incarnation \in Nat /\ next_incarnation' \in Nat
      /\ next_incarnation <= next_incarnation'
  BY TaskFields, ServedEntries
<1>1. ASSUME NEW t \in tasks', t \in tasks
      PROVE  /\ t.incarnation < next_incarnation'
             /\ Present(t.key)' /\ t.incarnation = entries'[t.key].incarnation
                => t.seq <= entries'[t.key].seq
  <2>1. /\ t.key \in Keys /\ t.seq \in Nat /\ t.incarnation \in Nat
        /\ t.incarnation < next_incarnation
    BY <1>1, TaskFields DEF TasksArePast
  <2>2. ASSUME Present(t.key)', t.incarnation = entries'[t.key].incarnation
        PROVE  t.seq <= entries'[t.key].seq
    <3>1. Present(t.key) /\ t.incarnation = entries[t.key].incarnation
      BY <2>1, <2>2, ServedEntries
    <3>2. t.seq <= entries[t.key].seq
      BY <1>1, <3>1 DEF TasksArePast
    <3> QED
      BY <2>1, <3>1, <3>2, ServedSeqs
  <2> QED
    BY <1>0, <2>1, <2>2
<1>2. ASSUME NEW t \in tasks', t \notin tasks
      PROVE  /\ t.incarnation < next_incarnation'
             /\ t.seq <= entries'[t.key].seq
  <2>1. PICK k \in DOMAIN replies :
          /\ "fetch" \in replies[k].marks
          /\ t = [key |-> k, incarnation |-> replies[k].entry.incarnation,
                  seq |-> replies[k].entry.seq]
    BY <1>2, ServedTasks
  <2>2. t.key = k /\ entries'[k].seq = t.seq /\ entries'[k].incarnation = t.incarnation
    BY <2>1, StartedTask
  <2>3. k \in Keys /\ Present(k)' /\ entries'[k].seq \in Nat
    BY ServedEntries, ServedSeqs
  <2> QED
    BY <2>2, <2>3 DEF TimersArePast
<1> QED
  BY <1>1, <1>2 DEF TasksArePast

LEMMA InitTasks == Init => TasksArePast
  BY DEF Init, TasksArePast

LEMMA ShapeTasks ==
    ASSUME IInv, IInv', TimersInv', TasksArePast, StepShape
    PROVE  TasksArePast'
<1>0. TimersArePast'
  BY DEF TimersInv
<1>1. CASE PassiveStep
  BY <1>0, <1>1, ServedTasksPast DEF PassiveStep
<1>2. ASSUME NEW k \in Keys, NEW supplied \in BOOLEAN, NEW opts \in Options,
             SubscribeStepOf(k, supplied, opts)
      PROVE  TasksArePast'
  BY <1>0, <1>2, ServedTasksPast DEF SubscribeStepOf
<1>3. ASSUME NEW h \in handles, DropStepOf(h) PROVE TasksArePast'
  BY <1>0, <1>3, ServedTasksPast DEF DropStepOf
<1>4. ASSUME NEW t \in timers, GcTimer(t) PROVE TasksArePast'
  <2>1. \A k \in Keys : Present(k)' => Present(k) /\ entries'[k] = entries[k]
    BY <1>4 DEF GcTimer, Present, IInv, TypeOK
  <2>2. tasks' = tasks /\ next_incarnation' = next_incarnation
    BY <1>4 DEF GcTimer
  <2> QED
    BY <2>1, <2>2, TaskFields DEF TasksArePast
<1>5. CASE StillStep
  BY <1>5 DEF StillStep, TasksArePast, Present
<1> QED
  BY <1>1, <1>2, <1>3, <1>4, <1>5 DEF StepShape

LEMMA TasksInductive == Spec => []TasksArePast
  BY InitTasks, ShapeTasks, NextShape, Inductive, TimersInductive, PTL DEF Spec

-----------------------------------------------------------------------------
(* The refinement mapping, key by key *)

Live(k) ==
    IF Present(k) /\ entries[k].inflight # None THEN Flight(k, entries[k]) ELSE None

Shown(k) == IF Present(k) THEN entries[k].data ELSE None

Restorable(k) == IF Present(k) THEN Saved(entries[k]) ELSE None

\* A mutation runs, or nothing was fetched since the last invalidation.
Dirty(k) == Present(k) /\ (entries[k].mutation_active > 0 \/ entries[k].invalidated)

\* Nothing that may still write flies to a dirty entry.
LEMMA FlightsAreClean ==
    /\ IInv => \A k \in Keys : Live(k) # None => ~Dirty(k)
    /\ IInv' => \A k \in Keys : Live(k)' # None => ~Dirty(k)'
<1>1. IInv => \A k \in Keys : Live(k) # None => ~Dirty(k)
  <2> SUFFICES ASSUME IInv, NEW k \in Keys, Live(k) # None PROVE ~Dirty(k)
    OBVIOUS
  <2>1. FlightOK(entries[k]) /\ entries[k].inflight # None /\ entries[k] \in Entry
    BY DEF IInv, EntryOK, Live
  <2> QED
    BY <2>1, EntryFields DEF FlightOK, Dirty
<1>2. IInv' => \A k \in Keys : Live(k)' # None => ~Dirty(k)'
  <2> SUFFICES ASSUME IInv', NEW k \in Keys, Live(k)' # None PROVE ~Dirty(k)'
    OBVIOUS
  <2>1. FlightOK(entries'[k]) /\ entries'[k].inflight # None /\ entries'[k] \in Entry
    BY DEF IInv, EntryOK, Live
  <2> QED
    BY <2>1, EntryFields DEF FlightOK, Dirty
<1> QED
  BY <1>1, <1>2

LEMMA RaceInit == Init => Race!Init
  BY DEF Init, Race!Init, Present

LEMMA QuietKey ==
    ASSUME NEW k \in Keys, Live(k)' = Live(k), Shown(k)' = Shown(k),
           Restorable(k)' = Restorable(k), Dirty(k)' <=> Dirty(k)
    PROVE  Race!Quiet(k)
  BY DEF Race!Quiet, Live, Shown, Restorable, Saved, Flight, Dirty

LEMMA SupersededKey ==
    ASSUME NEW k \in Keys, Live(k)' \in {None} \cup (tasks' \ tasks),
           Dirty(k)' => Live(k)' = None,
           Shown(k)' \in {Shown(k), Restorable(k), None} \cup Written,
           Restorable(k)' \in {Shown(k), Restorable(k), None}
    PROVE  Race!Superseded(k)
  BY DEF Race!Superseded, Live, Shown, Restorable, Saved, Flight, Written, Dirty

LEMMA LandedKey ==
    ASSUME NEW k \in Keys, Live(k) \in tasks \ tasks', Live(k)' = None,
           ~Dirty(k), ~Dirty(k)',
           Shown(k)' \in {Shown(k), [src |-> "fetch", seq |-> Live(k).seq]},
           Restorable(k)' = None
    PROVE  Race!Landed(k)
  BY DEF Race!Landed, Live, Shown, Restorable, Saved, Flight, Dirty

\* A key whose flight and values are as before is not dirty on either side, or has
\* no flight to lose.
LEMMA UndisturbedKey ==
    ASSUME IInv, IInv', NEW k \in Keys, Live(k)' = Live(k), Shown(k)' = Shown(k),
           Restorable(k)' = Restorable(k)
    PROVE  Race!Quiet(k) \/ Race!Superseded(k)
<1>1. CASE Live(k) = None
  BY <1>1, SupersededKey
<1>2. CASE Live(k) # None
  <2>1. ~Dirty(k)
    BY <1>2, FlightsAreClean
  <2>2. ~Dirty(k)'
    BY <1>2, FlightsAreClean
  <2> QED
    BY <2>1, <2>2, QuietKey
<1> QED
  BY <1>1, <1>2

LEMMA RaceNext ==
    ASSUME \A k \in Keys : Race!Quiet(k) \/ Race!Superseded(k) \/ Race!Landed(k),
           \A f \in tasks' \ tasks : \E k \in Keys : Live(k)' = f,
           \A k \in Keys : Live(k) \in tasks \ tasks' => Race!Landed(k)
    PROVE  Race!Next
  BY DEF Race!Next, Live, Flight

\* What the mapping makes of an entry, and of the one a dispatch creates.
LEMMA KeyBefore ==
    ASSUME NEW k
    PROVE  LET e == EntryOrCreate(k)
           IN  /\ Shown(k) = e.data /\ Restorable(k) = Saved(e)
               /\ e.inflight = None => Live(k) = None
               /\ e.inflight # None => Present(k) /\ Live(k) = Flight(k, e)
  BY DEF EntryOrCreate, NewEntry, Shown, Restorable, Saved, Live

LEMMA KeyAfter ==
    ASSUME IInv, NEW replies, NEW now, NEW ended, NEW fired,
           Served(replies, now, ended, fired), NEW k \in DOMAIN replies
    PROVE  LET e == replies[k].entry
           IN  /\ Shown(k)' = e.data /\ Restorable(k)' = Saved(e)
               /\ e.inflight = None => Live(k)' = None
               /\ e.inflight # None => Live(k)' = Flight(k, e)
<1> DEFINE r == replies[k]
           n == entries'[k]
<1>1. Present(k)' /\ n = Settle(r, now) /\ r.entry \in Entry
  BY ServedEntries
<1>2. /\ n.data = r.entry.data /\ n.optimistic = r.entry.optimistic
      /\ n.inflight = r.entry.inflight /\ n.incarnation = r.entry.incarnation
  BY <1>1, SettleFields
<1> HIDE DEF r
<1> QED
  BY <1>1, <1>2 DEF Shown, Restorable, Saved, Live, Flight, r

\* The flight of a task that ends lands.
LEMMA LandingKey ==
    ASSUME IInv, NEW replies, NEW now, NEW ended, NEW fired,
           Served(replies, now, ended, fired), NEW k \in DOMAIN replies,
           NEW t \in ended, t.key = k, t.incarnation = EntryOrCreate(k).incarnation,
           Landing(EntryOrCreate(k), replies[k], t.seq)
    PROVE  Race!Landed(k)
<1> DEFINE e == EntryOrCreate(k)
           r == replies[k]
<1>1. /\ t \in tasks /\ t \in Task /\ t.seq \in Nat /\ k \in Keys
  BY TaskFields, ServedEntries DEF Served
<1>2. e.inflight = t.seq /\ e.inflight # None
  BY <1>1, NoneAssumption DEF Landing
<1>3. Live(k) = Flight(k, e)
  BY <1>2, KeyBefore
<1>4. Flight(k, e) = t
  BY <1>1, <1>2 DEF Flight, Task
<1>5. t \notin tasks'
  <2>1. \A x \in DOMAIN replies :
          "fetch" \in replies[x].marks =>
            t # [key |-> x, incarnation |-> replies[x].entry.incarnation,
                 seq |-> replies[x].entry.seq]
    BY DEF Landing
  <2> QED
    BY <2>1, ServedTasks
<1>6. /\ r.entry.inflight = None /\ Saved(r.entry) = None
      /\ r.entry.mutation_active = 0 /\ ~r.entry.invalidated
      /\ r.entry.data \in {e.data, [src |-> "fetch", seq |-> t.seq]}
  BY DEF Landing
<1>8. ~Dirty(k)
  BY <1>1, <1>3, <1>4, TaskFields, FlightsAreClean
<1>9. ~Dirty(k)'
  <2>1. entries'[k] = Settle(r, now) /\ r.entry \in Entry
    BY ServedEntries
  <2>2. /\ entries'[k].mutation_active = r.entry.mutation_active
        /\ entries'[k].invalidated = r.entry.invalidated
    BY <2>1, SettleFields
  <2> HIDE DEF r
  <2> QED
    BY <1>6, <2>2 DEF Dirty
<1> HIDE DEF e, r
<1>7. Live(k)' = None /\ Restorable(k)' = None
      /\ Shown(k)' \in {Shown(k), [src |-> "fetch", seq |-> Live(k).seq]}
  BY <1>3, <1>4, <1>6, KeyBefore, KeyAfter DEF e, r
<1> QED
  BY <1>1, <1>3, <1>4, <1>5, <1>7, <1>8, <1>9, LandedKey

LEMMA ServedKey ==
    ASSUME IInv, IInv', TasksArePast, NEW replies, NEW now, NEW ended, NEW fired,
           Served(replies, now, ended, fired), NEW k \in Keys
    PROVE  Race!Quiet(k) \/ Race!Superseded(k) \/ Race!Landed(k)
<1>1. CASE k \notin DOMAIN replies
  <2>1. entries'[k] = entries[k]
    BY <1>1, ServedEntries
  <2>2. Live(k)' = Live(k) /\ Shown(k)' = Shown(k) /\ Restorable(k)' = Restorable(k)
    BY <2>1 DEF Live, Shown, Restorable, Present, Flight, Saved
  <2> QED
    BY <2>2, UndisturbedKey
<1>2. CASE k \in DOMAIN replies
  <2> DEFINE e == EntryOrCreate(k)
             r == replies[k]
  <2>1. r.entry.incarnation = e.incarnation
    BY <1>2, ServedEntries
  <2>2. /\ Shown(k) = e.data /\ Restorable(k) = Saved(e)
        /\ e.inflight = None => Live(k) = None
        /\ e.inflight # None => Live(k) = Flight(k, e)
    BY KeyBefore
  <2>3. /\ Shown(k)' = r.entry.data /\ Restorable(k)' = Saved(r.entry)
        /\ r.entry.inflight = None => Live(k)' = None
        /\ r.entry.inflight # None => Live(k)' = Flight(k, r.entry)
    BY <1>2, KeyAfter
  <2>4. \/ \E t \in ended : /\ t.key = k /\ t.incarnation = e.incarnation
                            /\ Landing(e, r, t.seq)
        \/ /\ r.entry.inflight = e.inflight /\ r.entry.data = e.data
           /\ Saved(r.entry) = Saved(e)
        \/ /\ r.entry.inflight = None \/ "fetch" \in r.marks
           /\ r.entry.data \in Kept(e) \cup Written
           /\ Saved(r.entry) \in Kept(e)
    BY <1>2 DEF Served, Raced
  <2>5. CASE \E t \in ended : /\ t.key = k /\ t.incarnation = e.incarnation
                             /\ Landing(e, r, t.seq)
    BY <1>2, <2>5, LandingKey
  <2>6. CASE /\ r.entry.inflight = e.inflight /\ r.entry.data = e.data
             /\ Saved(r.entry) = Saved(e)
    <3> HIDE DEF e, r
    <3>1. Live(k)' = Live(k) /\ Shown(k)' = Shown(k) /\ Restorable(k)' = Restorable(k)
      BY <2>1, <2>2, <2>3, <2>6 DEF Flight
    <3> QED
      BY <3>1, UndisturbedKey
  <2>7. CASE /\ r.entry.inflight = None \/ "fetch" \in r.marks
             /\ r.entry.data \in Kept(e) \cup Written
             /\ Saved(r.entry) \in Kept(e)
    <3>1. ASSUME "fetch" \in r.marks
          PROVE  Live(k)' \in tasks' \ tasks
      <4>1. entries'[k].inflight # None /\ Flight(k, entries'[k]) \in tasks' \ tasks
        BY <1>2, <3>1, StartedTask
      <4>2. Present(k)'
        BY <1>2, ServedEntries
      <4> QED
        BY <4>1, <4>2 DEF Live
    <3> HIDE DEF e, r
    <3>2. Live(k)' \in {None} \cup (tasks' \ tasks)
      BY <2>3, <2>7, <3>1
    <3>3. /\ Shown(k)' \in {Shown(k), Restorable(k), None} \cup Written
          /\ Restorable(k)' \in {Shown(k), Restorable(k), None}
      BY <2>2, <2>3, <2>7 DEF Kept
    <3>4. Dirty(k)' => Live(k)' = None
      BY FlightsAreClean
    <3> QED
      BY <3>2, <3>3, <3>4, SupersededKey
  <2> HIDE DEF e, r
  <2> QED
    BY <2>4, <2>5, <2>6, <2>7
<1> QED
  BY <1>1, <1>2

LEMMA ServedRace ==
    ASSUME IInv, IInv', TasksArePast, NEW replies, NEW now, NEW ended, NEW fired,
           Served(replies, now, ended, fired)
    PROVE  Race!Next
<1>1. \A k \in Keys : Race!Quiet(k) \/ Race!Superseded(k) \/ Race!Landed(k)
  BY ServedKey
<1>2. ASSUME NEW f \in tasks' \ tasks
      PROVE  \E k \in Keys : Live(k)' = f
  <2>1. PICK k \in DOMAIN replies :
          /\ "fetch" \in replies[k].marks
          /\ f = [key |-> k, incarnation |-> replies[k].entry.incarnation,
                  seq |-> replies[k].entry.seq]
    BY ServedTasks
  <2>2. f = Flight(k, entries'[k]) /\ entries'[k].inflight # None
    BY <2>1, StartedTask
  <2>3. k \in Keys /\ Present(k)'
    BY ServedEntries
  <2> QED
    BY <2>2, <2>3 DEF Live
<1>3. ASSUME NEW k \in Keys, Live(k) \in tasks \ tasks'
      PROVE  Race!Landed(k)
  <2> DEFINE t == Live(k)
  <2>1. t # None /\ t \in Task
    BY <1>3, TaskFields
  <2>2. Present(k) /\ t = Flight(k, entries[k])
    BY <2>1 DEF Live
  <2>3. t.key = k /\ t.incarnation = entries[k].incarnation /\ EntryOrCreate(k) = entries[k]
    BY <2>2 DEF Flight, EntryOrCreate
  <2>4. t \in ended
    BY <1>3, ServedTasks
  <2> HIDE DEF t
  <2>5. k \in DOMAIN replies /\ Landing(entries[k], replies[k], t.seq)
    BY <2>2, <2>3, <2>4 DEF Served
  <2> QED
    BY <2>3, <2>4, <2>5, LandingKey
<1> QED
  BY <1>1, <1>2, <1>3, RaceNext

\* A collection takes the value with it, and leaves the other keys alone.
LEMMA GcRace ==
    ASSUME IInv, IInv', NEW t \in timers, GcTimer(t)
    PROVE  Race!Next
<1>1. tasks' = tasks
  BY DEF GcTimer
<1>2. ASSUME NEW k \in Keys
      PROVE  Race!Quiet(k) \/ Race!Superseded(k)
  <2>1. CASE entries'[k] = entries[k]
    <3>1. Live(k)' = Live(k) /\ Shown(k)' = Shown(k) /\ Restorable(k)' = Restorable(k)
      BY <2>1 DEF Live, Shown, Restorable, Present, Flight, Saved
    <3> QED
      BY <3>1, UndisturbedKey
  <2>2. CASE entries'[k] # entries[k]
    <3>1. entries'[k] = None
      BY <2>2 DEF GcTimer, IInv, TypeOK
    <3>2. Live(k)' = None /\ Shown(k)' = None /\ Restorable(k)' = None
      BY <3>1 DEF Live, Shown, Restorable, Present
    <3> QED
      BY <3>2, SupersededKey
  <2> QED
    BY <2>1, <2>2
<1> QED
  BY <1>1, <1>2, RaceNext

LEMMA StillRace ==
    ASSUME IInv, IInv', StillStep
    PROVE  Race!Next
<1>1. tasks' = tasks
  BY DEF StillStep
<1>2. ASSUME NEW k \in Keys
      PROVE  Race!Quiet(k) \/ Race!Superseded(k)
  <2>1. Live(k)' = Live(k) /\ Shown(k)' = Shown(k) /\ Restorable(k)' = Restorable(k)
    BY DEF StillStep, Live, Shown, Restorable, Present, Flight, Saved
  <2> QED
    BY <2>1, UndisturbedKey
<1> QED
  BY <1>1, <1>2, RaceNext

LEMMA ShapeRace ==
    ASSUME IInv, IInv', TasksArePast, StepShape
    PROVE  Race!Next
<1>1. CASE PassiveStep
  BY <1>1, ServedRace DEF PassiveStep
<1>2. ASSUME NEW k \in Keys, NEW supplied \in BOOLEAN, NEW opts \in Options,
             SubscribeStepOf(k, supplied, opts)
      PROVE  Race!Next
  BY <1>2, ServedRace DEF SubscribeStepOf
<1>3. ASSUME NEW h \in handles, DropStepOf(h) PROVE Race!Next
  BY <1>3, ServedRace DEF DropStepOf
<1>4. CASE \E t \in timers : GcTimer(t)
  BY <1>4, GcRace
<1>5. CASE StillStep
  BY <1>5, StillRace
<1> QED
  BY <1>1, <1>2, <1>3, <1>4, <1>5 DEF StepShape

\* Of all the fetches that ever run for a key, only the latest may write, and
\* only if no local write, mutation, invalidation or collection came after it
\* started: the cache is an implementation of LatestWins.
THEOREM LatestFlightAlwaysWins == Spec => LatestFlightWins
  BY RaceInit, ShapeRace, NextShape, Inductive, TasksInductive, PTL
     DEF Spec, LatestFlightWins, Race!Spec
=============================================================================
