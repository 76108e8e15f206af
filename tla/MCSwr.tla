------------------------------- MODULE MCSwr -------------------------------
(***************************************************************************)
(* Values for the constants of SwrMachine, shared by the TLC runs.          *)
(***************************************************************************)
EXTENDS SwrMachine, TLC

\* Two keys of different types under one prefix, as in the tests of prefix
\* invalidation.
KeyList == [type_id |-> "users", segments |-> <<"u">>]
KeyItem == [type_id |-> "user", segments |-> <<"u", "1">>]

OneKey == {KeyList}
TwoKeys == {KeyList, KeyItem}

AllPrefix == {<<>>}
UserPrefixes == {<<"u">>, <<"u", "1">>}

Opts(stale, gc, refresh, focus, throttle) ==
    [stale_time |-> stale, gc_time |-> gc, refresh_interval |-> refresh,
     revalidate_on_focus |-> focus, revalidate_on_online |-> TRUE,
     focus_throttle |-> throttle]

\* Longer than any instant the model can represent (Duration::MAX).
Forever == MaxInstant + 1

\* Stale at once, never collected: runs about races, where time plays no part.
Timeless == Opts(0, Forever, None, TRUE, 0)
\* Fresh for one tick, collected one tick after it fell idle.
Brief == Opts(1, 1, None, TRUE, 2)
\* Fresh for one tick, collected as soon as it is idle, refreshed every tick or
\* not at all: ticks outlive the entries that armed them.
Resting == Opts(1, 0, None, TRUE, 2)
Polling == Opts(1, 0, 1, TRUE, 2)
\* Refreshed every tick, never collected.
Ticking == Opts(1, Forever, 1, TRUE, 2)
\* Collected two ticks after it fell idle.
Patient == Opts(1, 2, None, TRUE, 2)
\* QueryOptions::immutable(), kept forever: never stale by time, deaf to focus
\* and online.
Immutable == [Opts(Forever, Forever, None, FALSE, 1) EXCEPT !.revalidate_on_online = FALSE]

OnlyTimeless == {Timeless}
RestingOrPolling == {Resting, Polling}
OnlyTicking == {Ticking}
BriefOrImmutable == {Brief, Immutable}

Flags(rollback, populate, revalidate) ==
    [rollback_on_error |-> rollback, populate |-> populate, revalidate |-> revalidate]

\* MutateOptions::default(), and the three choices turned off one by one.
DefaultFlags == {Flags(TRUE, TRUE, TRUE)}
SomeFlags == {Flags(TRUE, TRUE, TRUE), Flags(TRUE, TRUE, FALSE),
              Flags(FALSE, FALSE, FALSE)}

AllApis == {"fetch", "subscribe", "observe", "revalidate", "set", "mutate",
            "invalidate", "broadcast"}

\* Both policies that may fetch start the same fetches.
EnsureFreshOnly == {"EnsureFresh"}
AllResults == {"value", "unit", "error"}

\* Mutators are interchangeable.
MutatorSymmetry == Permutations(Mutators)
=============================================================================
