------------------------------ MODULE SwrRetry ------------------------------
(***************************************************************************)
(* The machine with fetchers wrapped in the Retry combinator (retry.rs):    *)
(* every fetch task runs a loop of attempts and back-off sleeps, and only   *)
(* the end of the loop reports to the machine.  To the entry the loop is    *)
(* one flight, which local writes, mutations and invalidations discard      *)
(* while it goes on.                                                        *)
(***************************************************************************)
EXTENDS SwrMachine

CONSTANTS
    Interval,       \* RetryPolicy::interval
    MaxRetries,     \* RetryPolicy::max_retries: None retries forever
    MaxShift,       \* doublings of the interval: 8 in the code, fewer in a run
    MaxDuration     \* Duration::MAX

ASSUME RetryAssumption ==
    /\ {Interval, MaxShift, MaxDuration} \subseteq Nat
    /\ MaxRetries \in Nat \cup {None}

\* What the provers do not know of exponentiation.
ASSUME PowerAssumption == \A n \in 0 .. MaxShift : 2 ^ n \in Nat

VARIABLE loops      \* for each running task the state of its loop

retryVars == <<vars, loops>>

\* For the properties only: tries counts the attempts that this loop has begun,
\* and failed_at is the time of the last one that failed.
NewLoop == [phase |-> "fetching", attempt |-> 0, deadline |-> None,
            tries |-> 1, failed_at |-> None]

RetryInit == Init /\ loops = <<>>

\* Mutant: a loop stays when its task has reported.
SpawnedKeepsOld ==
    loops' = [t \in tasks \cup tasks' |-> IF t \in tasks THEN loops[t] ELSE NewLoop]

\* Loops start and end with their tasks.
Spawned == loops' = [t \in tasks' |-> IF t \in tasks THEN loops[t] ELSE NewLoop]

-----------------------------------------------------------------------------
\* Mutant: the first retry waits the bare interval.
DelayFromZero(attempt) ==
    MinOr({MaxDuration, Interval * 2 ^ (MinOr({attempt, MaxShift}, 0) - 1)}, 0)

\* saturating_mul(1u32 << attempt.min(8)), capped at MaxShift here
Delay(attempt) == MinOr({MaxDuration, Interval * 2 ^ MinOr({attempt, MaxShift}, 0)}, 0)

Exhausted(attempt) == MaxRetries # None /\ attempt > MaxRetries

\* Mutant: the loop forgets how often it failed.
BackoffForgetsAttempt(loop, attempt, now) ==
    [loop EXCEPT !.phase = IF CheckedAdd(now, Delay(attempt)) = None
                           THEN "panicked" ELSE "sleeping",
                 !.attempt = 0,
                 !.deadline = CheckedAdd(now, Delay(attempt)),
                 !.failed_at = now]

\* The loop after a failed attempt: asleep, or down with its task when the
\* deadline is not representable (`expect`).
Backoff(loop, attempt, now) ==
    [loop EXCEPT !.phase = IF CheckedAdd(now, Delay(attempt)) = None
                           THEN "panicked" ELSE "sleeping",
                 !.attempt = attempt,
                 !.deadline = CheckedAdd(now, Delay(attempt)),
                 !.failed_at = now]

AttemptOk(t) == loops[t].phase = "fetching" /\ FetchOk(t) /\ Spawned

\* `retryable` is what should_retry answers.
AttemptErr(t, retryable) ==
    /\ loops[t].phase = "fetching"
    /\ LET attempt == loops[t].attempt + 1
       IN  \/ /\ Exhausted(attempt) \/ ~retryable
              /\ FetchErr(t)
              /\ Spawned
           \/ /\ ~Exhausted(attempt)
              /\ retryable
              /\ loops' = [loops EXCEPT ![t] = Backoff(loops[t], attempt, clock)]
              /\ UNCHANGED vars

Awake(t) ==
    /\ loops[t].phase = "sleeping"
    /\ loops[t].deadline <= clock
    /\ loops' = [loops EXCEPT ![t].phase = "fetching", ![t].deadline = None,
                              ![t].tries = @ + 1]
    /\ UNCHANGED vars

\* Every step of the machine in which no task reports.
Elsewhere == Next /\ tasks \subseteq tasks' /\ Spawned

Deadlines == {loops[t].deadline : t \in {x \in tasks : loops[x].phase = "sleeping"}}

\* The clock goes on, past MaxTime too, to the next deadline of a sleeping loop:
\* what happens on the way happens before or after this step.
SleepOn ==
    /\ Deadlines # {}
    /\ clock < MinOr(Deadlines, 0)
    /\ clock' = MinOr(Deadlines, 0)
    /\ UNCHANGED <<entries, next_sub_id, next_incarnation, tasks, timers, handles,
                   muts, calls, loops>>

RetryNext ==
    \/ \E t \in tasks : AttemptOk(t)
    \/ \E t \in tasks, retryable \in BOOLEAN : AttemptErr(t, retryable)
    \/ \E t \in tasks : Awake(t)
    \/ Elsewhere
    \/ SleepOn

RetrySpec == RetryInit /\ [][RetryNext]_retryVars

\* Attempts end, one way or the other; time passes and sleepers wake.
RetryFairness ==
    /\ WF_retryVars(\E t \in tasks :
            AttemptOk(t) \/ \E retryable \in BOOLEAN : AttemptErr(t, retryable))
    /\ WF_retryVars(\E t \in tasks : Awake(t))
    /\ WF_retryVars(SleepOn)

FairRetrySpec == RetrySpec /\ RetryFairness

-----------------------------------------------------------------------------
(* Properties *)

\* Every task has a loop; one that sleeps knows until when.
RetryTypeOK ==
    /\ DOMAIN loops = tasks
    /\ \A t \in tasks :
          /\ loops[t].phase \in {"fetching", "sleeping", "panicked"}
          /\ loops[t].attempt \in Nat
          /\ loops[t].phase = "sleeping" => loops[t].deadline \in Nat

\* A flight begins at most one attempt and MaxRetries retries, discarded or not.
\* The attempts are counted as they begin, beside the count that the loop keeps.
RetriesAreBounded ==
    \A t \in tasks : MaxRetries # None => loops[t].tries <= MaxRetries + 1

\* retry.rs: "The n-th retry waits `interval << min(n, 8)`": the n-th, for every
\* flight anew, and never less.
BackoffIsHonoured ==
    [][\A t \in tasks \cap tasks' :
         loops[t].phase = "sleeping" /\ loops'[t].phase = "fetching" =>
            LET n == loops[t].attempt
                shift == IF n < MaxShift THEN n ELSE MaxShift
            IN  /\ n > 0
                /\ \/ clock >= loops[t].failed_at + Interval * 2 ^ shift
                   \/ clock >= loops[t].failed_at + MaxDuration]_retryVars

\* A flight that may still write keeps its entry from being collected, however
\* long it sleeps between its attempts.
RetryDefersCollection ==
    [][\A t \in tasks :
         Present(t.key) /\ entries[t.key].incarnation = t.incarnation
            /\ entries[t.key].inflight = t.seq => entries'[t.key] # None]_retryVars

InFlight(k) == Present(k) /\ entries[k].inflight # None

\* With a finite number of retries an entry does not stay in flight: retry.rs
\* gives this as the reason for a finite default.
FlightsEnd == \A k \in Keys : InFlight(k) ~> ~InFlight(k)
=============================================================================
