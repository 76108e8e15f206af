--------------------------- MODULE SwrRetryProofs ---------------------------
(***************************************************************************)
(* Proofs about SwrRetry for every value of its constants: that retrying    *)
(* leaves everything proved of the machine true, that no loop begins more   *)
(* attempts than the policy allows or wakes before its deadline, and that a *)
(* flight keeps its entry while its loop sleeps.                            *)
(***************************************************************************)
EXTENDS SwrRetry, SwrRaceProofs

Loop ==
    [phase : {"fetching", "sleeping", "panicked"}, attempt : Nat,
     deadline : Nat \cup {None}, tries : Nat, failed_at : Nat \cup {None}]

\* A loop counts every attempt it has begun, the one that is running included.
\* A loop that sleeps has failed at least once, and sleeps for as long as
\* delay() says after its last failure.
LoopOK(l) ==
    /\ MaxRetries # None => l.attempt <= MaxRetries
    /\ l.tries = IF l.phase = "fetching" THEN l.attempt + 1 ELSE l.attempt
    /\ l.phase = "sleeping" =>
         /\ l.attempt > 0
         /\ l.failed_at \in Nat
         /\ l.deadline = l.failed_at + Delay(l.attempt)

RInv ==
    /\ IInv
    /\ loops \in [tasks -> Loop]
    /\ \A t \in tasks : LoopOK(loops[t])

-----------------------------------------------------------------------------
\* What delay() returns: the interval shifted, or the largest duration.
LEMMA DelayValue ==
    ASSUME NEW n \in Nat
    PROVE  LET shift == IF n < MaxShift THEN n ELSE MaxShift
           IN  /\ Delay(n) \in Nat
               /\ Delay(n) = MaxDuration \/ Delay(n) = Interval * 2 ^ shift
<1> DEFINE shift == IF n < MaxShift THEN n ELSE MaxShift
<1>1. MaxShift \in Nat /\ Interval \in Nat /\ MaxDuration \in Nat
  BY RetryAssumption
<1>2. {n, MaxShift} # {} /\ MinOr({n, MaxShift}, 0) \in {n, MaxShift}
      /\ \A x \in {n, MaxShift} : MinOr({n, MaxShift}, 0) <= x
  <2>1. \E d \in {n, MaxShift} : \A x \in {n, MaxShift} : d <= x
    BY <1>1
  <2> QED
    BY <2>1 DEF MinOr
<1>3. MinOr({n, MaxShift}, 0) = shift
  BY <1>1, <1>2
<1>4. shift \in 0 .. MaxShift
  BY <1>1
<1> DEFINE p == Interval * 2 ^ shift
<1>5. p \in Nat
  <2>1. 2 ^ shift \in Nat
    BY <1>4, PowerAssumption
  <2> HIDE DEF shift
  <2> QED
    BY <1>1, <2>1
<1>6. Delay(n) = MinOr({MaxDuration, p}, 0)
  BY <1>3, Zenon DEF Delay
<1> HIDE DEF p
<1>7. MinOr({MaxDuration, p}, 0) \in {MaxDuration, p}
  <2>1. \E d \in {MaxDuration, p} : \A x \in {MaxDuration, p} : d <= x
    BY <1>1, <1>5
  <2> QED
    BY <2>1 DEF MinOr
<1> QED
  BY <1>1, <1>5, <1>6, <1>7 DEF p

LEMMA NewLoopOK == NewLoop \in Loop /\ LoopOK(NewLoop)
  BY RetryAssumption DEF NewLoop, Loop, LoopOK

\* Loops that start and end with their tasks.
LEMMA SpawnedStep ==
    ASSUME RInv, Spawned
    PROVE  loops' \in [tasks' -> Loop] /\ \A t \in tasks' : LoopOK(loops'[t])
<1>1. \A t \in tasks' : loops'[t] = IF t \in tasks THEN loops[t] ELSE NewLoop
  BY DEF Spawned
<1>2. \A t \in tasks' : loops'[t] \in Loop /\ LoopOK(loops'[t])
  BY <1>1, NewLoopOK DEF RInv
<1> QED
  BY <1>2 DEF Spawned

\* A failed attempt moves the loop on by one, with the delay of that retry.
LEMMA BackoffOK ==
    ASSUME NEW l \in Loop, LoopOK(l), l.phase = "fetching",
           ~Exhausted(l.attempt + 1), NEW now \in Nat
    PROVE  /\ Backoff(l, l.attempt + 1, now) \in Loop
           /\ LoopOK(Backoff(l, l.attempt + 1, now))
<1> DEFINE n == l.attempt + 1
           d == CheckedAdd(now, Delay(n))
           b == Backoff(l, n, now)
<1>1. n \in Nat /\ n > 0 /\ Delay(n) \in Nat
  BY DelayValue DEF Loop
<1>2. d = None \/ (d \in Nat /\ d = now + Delay(n))
  BY <1>1 DEF CheckedAdd
<1>3. l.tries = n
  BY DEF LoopOK
<1>4. MaxRetries # None => n <= MaxRetries
  BY <1>1, RetryAssumption DEF Exhausted
<1>5. b = [l EXCEPT !.phase = IF d = None THEN "panicked" ELSE "sleeping",
                    !.attempt = n, !.deadline = d, !.failed_at = now]
  BY DEF Backoff
<1> HIDE DEF n, d, b
<1>6. b \in Loop
  BY <1>1, <1>2, <1>3, <1>5 DEF Loop
<1>7. LoopOK(b)
  BY <1>1, <1>2, <1>3, <1>4, <1>5 DEF LoopOK
<1> QED
  BY <1>6, <1>7 DEF b, n

\* Replacing the loop of one task.
LEMMA ReplaceStep ==
    ASSUME RInv, IInv', tasks' = tasks, NEW t \in tasks, NEW l \in Loop, LoopOK(l),
           loops' = [loops EXCEPT ![t] = l]
    PROVE  RInv'
<1>1. loops' \in [tasks -> Loop]
  BY DEF RInv
<1>2. \A u \in tasks : LoopOK(loops'[u])
  BY DEF RInv
<1> QED
  BY <1>1, <1>2 DEF RInv

-----------------------------------------------------------------------------
LEMMA AttemptOkStep ==
    ASSUME RInv, NEW t \in tasks, AttemptOk(t) PROVE RInv'
<1>1. IInv'
  BY ReportStep DEF RInv, AttemptOk
<1> QED
  BY <1>1, SpawnedStep DEF RInv, AttemptOk

LEMMA AttemptErrStep ==
    ASSUME RInv, NEW t \in tasks, NEW retryable \in BOOLEAN, AttemptErr(t, retryable)
    PROVE  RInv'
<1> DEFINE n == loops[t].attempt
<1>1. n \in Nat
  BY DEF RInv, Loop
<1>2. CASE FetchErr(t) /\ Spawned
  <2>1. IInv'
    BY <1>2, ReportStep DEF RInv
  <2> QED
    BY <1>2, <2>1, SpawnedStep DEF RInv
<1>3. CASE /\ loops[t].phase = "fetching"
           /\ ~Exhausted(n + 1)
           /\ loops' = [loops EXCEPT ![t] = Backoff(loops[t], n + 1, clock)]
           /\ UNCHANGED vars
  <2>1. clock \in Nat
    BY DEF RInv, IInv, TypeOK
  <2>2. IInv' /\ tasks' = tasks
    BY <1>3, IdleStep DEF RInv, vars
  <2>3. /\ Backoff(loops[t], n + 1, clock) \in Loop
        /\ LoopOK(Backoff(loops[t], n + 1, clock))
    BY <1>3, <2>1, BackoffOK DEF RInv
  <2> HIDE DEF n
  <2> QED
    BY <1>3, <2>2, <2>3, ReplaceStep
<1> QED
  BY <1>2, <1>3 DEF AttemptErr

LEMMA AwakeStep ==
    ASSUME RInv, NEW t \in tasks, Awake(t) PROVE RInv'
<1> DEFINE l == [loops[t] EXCEPT !.phase = "fetching", !.deadline = None, !.tries = @ + 1]
<1>1. IInv' /\ tasks' = tasks
  BY IdleStep DEF RInv, Awake, vars
<1>2. loops[t] \in Loop /\ LoopOK(loops[t])
  BY DEF RInv
<1>3. /\ l \in Loop /\ l.phase = "fetching" /\ l.attempt = loops[t].attempt
      /\ l.tries = loops[t].tries + 1
  <2>1. PICK x \in Loop : x = loops[t]
    BY <1>2
  <2>2. x.tries + 1 \in Nat
    BY DEF Loop
  <2>3. PICK m \in Nat : m = x.tries + 1
    BY <2>2
  <2>4. l = [x EXCEPT !.phase = "fetching", !.deadline = None, !.tries = m]
    BY <2>1, <2>3
  <2> HIDE DEF l
  <2> QED
    BY <2>1, <2>3, <2>4 DEF Loop
<1>4. LoopOK(l)
  <2>1. loops[t].phase = "sleeping"
    BY DEF Awake
  <2> QED
    BY <1>2, <1>3, <2>1 DEF LoopOK
<1>5. loops' = [loops EXCEPT ![t] = l]
  BY DEF Awake, RInv
<1> HIDE DEF l
<1> QED
  BY <1>1, <1>3, <1>4, <1>5, ReplaceStep

LEMMA SleepOnStep ==
    ASSUME RInv, SleepOn PROVE RInv'
<1>1. Deadlines \subseteq Nat
  <2> SUFFICES ASSUME NEW t \in tasks, loops[t].phase = "sleeping"
               PROVE  loops[t].deadline \in Nat
    BY DEF Deadlines
  <2>1. loops[t] \in Loop /\ LoopOK(loops[t])
    BY DEF RInv
  <2> QED
    BY <2>1, DelayValue DEF Loop, LoopOK
<1>2. clock' \in Nat
  BY <1>1, MinOrType DEF SleepOn
<1>3. UNCHANGED <<entries, next_sub_id, next_incarnation, tasks, timers, handles,
                  muts, calls, loops>>
  BY DEF SleepOn
<1>4. IInv'
  BY <1>2, <1>3 DEF RInv, IInv, TypeOK, Present, MutationsPinEntry, Mutating, Owned
<1> QED
  BY <1>3, <1>4 DEF RInv

LEMMA RetryInductive == RetrySpec => []RInv
<1>1. RetryInit => RInv
  <2> SUFFICES ASSUME RetryInit PROVE RInv
    OBVIOUS
  <2>1. IInv /\ tasks = {} /\ loops = <<>>
    BY InitIInv DEF RetryInit, Init
  <2> QED
    BY <2>1 DEF RInv
<1>2. RInv /\ [RetryNext]_retryVars => RInv'
  <2> SUFFICES ASSUME RInv, [RetryNext]_retryVars PROVE RInv'
    OBVIOUS
  <2>1. ASSUME NEW t \in tasks, AttemptOk(t) PROVE RInv'
    BY <2>1, AttemptOkStep
  <2>2. ASSUME NEW t \in tasks, NEW retryable \in BOOLEAN, AttemptErr(t, retryable)
        PROVE  RInv'
    BY <2>2, AttemptErrStep
  <2>3. ASSUME NEW t \in tasks, Awake(t) PROVE RInv'
    BY <2>3, AwakeStep
  <2>4. CASE Elsewhere
    <3>1. IInv'
      BY <2>4, NextIInv DEF RInv, Elsewhere
    <3> QED
      BY <2>4, <3>1, SpawnedStep DEF RInv, Elsewhere
  <2>5. CASE SleepOn
    BY <2>5, SleepOnStep
  <2>6. CASE UNCHANGED retryVars
    <3>1. IInv' /\ UNCHANGED <<tasks, loops>>
      BY <2>6, IdleStep DEF RInv, retryVars, vars
    <3> QED
      BY <3>1 DEF RInv
  <2> QED
    BY <2>1, <2>2, <2>3, <2>4, <2>5, <2>6 DEF RetryNext
<1> QED
  BY <1>1, <1>2, PTL DEF RetrySpec

-----------------------------------------------------------------------------
\* Every running fetch task has a loop, no other task has, and a loop that
\* sleeps knows until when (Retry::fetch).
THEOREM LoopsFollowTasks == RetrySpec => []RetryTypeOK
<1>1. RInv => RetryTypeOK
  <2> SUFFICES ASSUME RInv PROVE RetryTypeOK
    OBVIOUS
  <2>1. DOMAIN loops = tasks
    BY DEF RInv
  <2>2. ASSUME NEW t \in tasks
        PROVE  /\ loops[t].phase \in {"fetching", "sleeping", "panicked"}
               /\ loops[t].attempt \in Nat
               /\ loops[t].phase = "sleeping" => loops[t].deadline \in Nat
    <3>1. loops[t] \in Loop /\ LoopOK(loops[t])
      BY DEF RInv
    <3> QED
      BY <3>1, DelayValue DEF Loop, LoopOK
  <2> QED
    BY <2>1, <2>2 DEF RetryTypeOK
<1> QED
  BY <1>1, RetryInductive, PTL

\* To the machine a step of the loops is one of its own, or time that passes.
LEMMA RetryShape ==
    ASSUME RInv, [RetryNext]_retryVars
    PROVE  StepShape
<1>1. IInv
  BY DEF RInv
<1>2. CASE Next \/ UNCHANGED vars
  BY <1>1, <1>2, NextShape
<1>3. CASE SleepOn
  <2>1. clock <= clock'
    BY <1>3, SleepOnStep DEF SleepOn, RInv, IInv, TypeOK
  <2>2. StillStep
    BY <1>3, <2>1 DEF SleepOn, StillStep
  <2> QED
    BY <2>2 DEF StepShape
<1>4. \A t \in tasks : FetchOk(t) \/ FetchErr(t) => Next
  BY DEF Next
<1> QED
  BY <1>2, <1>3, <1>4 DEF RetryNext, retryVars, AttemptOk, AttemptErr, Awake, Elsewhere

LEMMA RetryInvariants == RetrySpec => [](HandlesInv /\ TimersInv /\ TasksArePast)
<1>1. RetryInit => HandlesInv /\ TimersInv /\ TasksArePast
  BY InitHandles, InitTimers, InitTasks DEF RetryInit
<1>2. RInv => IInv
  BY DEF RInv
<1> QED
  BY <1>1, <1>2, RetryShape, ShapeHandles, ShapeTimers, ShapeTasks, RetryInductive, PTL
     DEF RetrySpec

\* What is proved of the machine stays true when its fetches retry: types, the
\* counts of mutations and of handles, convergence after an invalidation, the
\* ticks, the countdowns, one snapshot per change, and that only the latest
\* flight of a key may write, although a discarded loop goes on.
THEOREM MachineSurvivesRetries ==
    RetrySpec => /\ [](TypeOK /\ MutationsPinEntry /\ HandlesPinEntry)
                 /\ []ActiveInvalidationConverges
                 /\ [](TicksDoNotMultiply /\ RefreshKeepsTicking /\ IdleEntriesExpire)
                 /\ Published /\ LatestFlightWins
<1>1. RInv => IInv /\ TypeOK /\ MutationsPinEntry
  BY DEF RInv, IInv
<1>2. TimersInv => TicksDoNotMultiply /\ RefreshKeepsTicking /\ IdleEntriesExpire
  BY TicksAreSingle DEF TimersInv
<1>3. RetryInit => Race!Init
  BY RaceInit DEF RetryInit
<1>4. RetrySpec => Published
  BY <1>1, RetryShape, ShapePublishes, RetryInductive, PTL
     DEF RetrySpec, Published, Publishes
<1> QED
  BY <1>1, <1>2, <1>3, <1>4, HandlesPin, WatchedAreClean, RetryShape, ShapeRace, RetryInductive,
     RetryInvariants, PTL DEF RetrySpec, LatestFlightWins, Race!Spec

\* A flight that may still write keeps its entry, however long its loop sleeps
\* between two attempts: the countdown passes over an entry in flight.
THEOREM RetriesDeferCollection == RetrySpec => RetryDefersCollection
<1> DEFINE Stays(t) ==
             Present(t.key) /\ entries[t.key].incarnation = t.incarnation
                /\ entries[t.key].inflight = t.seq => entries'[t.key] # None
<1>1. ASSUME RInv, [RetryNext]_retryVars, NEW t \in tasks
      PROVE  Stays(t)
  <2>1. t.key \in Keys /\ t.seq # None
    BY <1>1, TaskFields, NoneAssumption DEF RInv
  <2> QED
    BY <1>1, <2>1, RetryShape, FlightPinsEntry DEF Present, RInv
<1>2. RInv /\ [RetryNext]_retryVars => \A t \in tasks : Stays(t)
  BY <1>1
<1> QED
  BY <1>2, RetryInductive, PTL DEF RetrySpec, RetryDefersCollection

\* Whatever the policy, a flight begins one attempt and at most max_retries
\* retries, also when its entry has discarded it (Retry::fetch).  The attempts are
\* counted as they begin: the loop's own count would not tell if it were lost.
THEOREM LoopsAreBounded == RetrySpec => []RetriesAreBounded
<1>1. RInv => RetriesAreBounded
  <2> SUFFICES ASSUME RInv, NEW t \in tasks, MaxRetries # None
               PROVE  loops[t].tries <= MaxRetries + 1
    BY DEF RetriesAreBounded
  <2>1. loops[t] \in Loop /\ LoopOK(loops[t]) /\ MaxRetries \in Nat
    BY RetryAssumption DEF RInv
  <2> QED
    BY <2>1 DEF Loop, LoopOK
<1> QED
  BY <1>1, RetryInductive, PTL

\* A retry never starts before delay() has passed since the failure before it
\* (Retry::fetch, RetryPolicy::delay), for any interval and number of retries.
THEOREM BackoffsAreHonoured == RetrySpec => BackoffIsHonoured
<1> DEFINE Waits(t) ==
             loops[t].phase = "sleeping" /\ loops'[t].phase = "fetching" =>
               LET n == loops[t].attempt
                   shift == IF n < MaxShift THEN n ELSE MaxShift
               IN  /\ n > 0
                   /\ \/ clock >= loops[t].failed_at + Interval * 2 ^ shift
                      \/ clock >= loops[t].failed_at + MaxDuration
           Step == \A t \in tasks \cap tasks' : Waits(t)
<1>1. RInv /\ [RetryNext]_retryVars => [Step]_retryVars
  <2> SUFFICES ASSUME RInv, RetryNext, NEW t \in tasks \cap tasks',
                      loops[t].phase = "sleeping", loops'[t].phase = "fetching"
               PROVE  Waits(t)
    BY Zenon DEF Step
  <2>1. loops[t] \in Loop /\ LoopOK(loops[t])
    BY DEF RInv
  <2>2. Spawned => loops'[t] = loops[t]
    BY DEF Spawned
  <2>3. \A l : \A u \in tasks : loops' = [loops EXCEPT ![u] = l] /\ u # t => loops'[t] = loops[t]
    BY DEF RInv
  <2>4. Awake(t)
    <3>1. ASSUME NEW u \in tasks, Awake(u) PROVE u = t
      <4>1. u # t => loops'[t] = loops[t]
        BY <3>1 DEF Awake, RInv
      <4> QED
        BY <4>1
    <3>2. ASSUME NEW u \in tasks, NEW n,
                 loops' = [loops EXCEPT ![u] = Backoff(loops[u], n, clock)]
          PROVE  FALSE
      <4>1. CASE u = t
        <5>1. loops'[t] = Backoff(loops[t], n, clock)
          BY <3>2, <4>1 DEF RInv
        <5> QED
          BY <2>1, <5>1 DEF Backoff, Loop
      <4>2. CASE u # t
        BY <2>3, <3>2, <4>2
      <4> QED
        BY <4>1, <4>2
    <3>3. ~Spawned
      BY <2>2
    <3>4. loops' # loops
      OBVIOUS
    <3> QED
      BY <3>1, <3>2, <3>3, <3>4 DEF RetryNext, AttemptOk, AttemptErr, Elsewhere, SleepOn
  <2>5. loops[t].deadline <= clock
    BY <2>4 DEF Awake
  <2> DEFINE n == loops[t].attempt
  <2>6. /\ n \in Nat /\ n > 0 /\ loops[t].failed_at \in Nat
        /\ loops[t].deadline = loops[t].failed_at + Delay(n)
    BY <2>1 DEF Loop, LoopOK
  <2> HIDE DEF n
  <2> QED
    BY <2>5, <2>6, DelayValue DEF n
<1> QED
  BY <1>1, RetryInductive, PTL DEF RetrySpec, BackoffIsHonoured
=============================================================================
