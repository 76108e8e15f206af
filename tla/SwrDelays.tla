------------------------------ MODULE SwrDelays ------------------------------
(***************************************************************************)
(* When entries go: the delays of SwrMachine's GC countdowns measured by a  *)
(* ledger of the times at which entries were used.  The ledger only watches *)
(* the steps of the machine and never restricts them.                       *)
(***************************************************************************)
EXTENDS SwrMachine

VARIABLE used_at    \* per key the time of the last event that changed its entry

delayVars == <<vars, used_at>>

DelayInit == Init /\ used_at = [k \in Keys |-> 0]

\* By the clock itself, and not by what a dispatch has read from it.
DelayNext ==
    /\ Next
    /\ used_at' = [k \in Keys |-> IF entries'[k] # entries[k] THEN clock ELSE used_at[k]]

DelaySpec == DelayInit /\ [][DelayNext]_delayVars

\* With the runtime's part, as in SwrMachine.
FairDelaySpec == DelaySpec /\ Fairness

-----------------------------------------------------------------------------
\* The countdowns of k that would still be obeyed and that its entry armed.
Countdowns(k) ==
    {t \in timers : /\ t.kind = "Gc" /\ t.key = k
                    /\ t.generation = entries[k].gc_gen
                    /\ t.born = entries[k].incarnation}

\* An entry that is idle has a countdown of gc_time from its last use on, however
\* old the times were that its dispatches had read before they got the lock, and
\* whatever earlier uses had armed.  It has none only if that deadline is not
\* representable: never is not turned into some time (machine.rs, post_rules).
CountdownsAreOnTime ==
    \A k \in Keys : Present(k) /\ IsQuiescent(entries[k]) =>
        LET due == used_at[k] + GcTime(entries[k])
        IN  /\ Countdowns(k) = {} => due > MaxInstant
            /\ \A t \in Countdowns(k) : t.at <= due /\ due <= t.at + MaxLag

\* options.rs, gc_time: "Delay before an idle entry is garbage-collected."  An
\* entry is not collected before that delay has passed since its last use, unless
\* by the countdown of an earlier entry of its key, which carries a generation the
\* rebuilt entry has come to again.
EntriesLastTheirTime ==
    [][\A k \in Keys : Present(k) /\ entries'[k] = None =>
         \/ used_at[k] + GcTime(entries[k]) <= clock + MaxLag
         \/ \E t \in timers \ timers' : t.born # entries[k].incarnation]_delayVars
=============================================================================
