----------------------------- MODULE LatestWins -----------------------------
(***************************************************************************)
(* What the cache promises about races, without seqs, mutations counters    *)
(* or generations: of all the fetches running for a key at most one may     *)
(* still write, the one nothing has happened to since it started.  Any      *)
(* local write, mutation, invalidation or collection of the entry makes it  *)
(* lose, and a fetch that has lost never shows its value.                   *)
(***************************************************************************)
EXTENDS Naturals

CONSTANTS
    Keys,
    None,
    Fetched(_),     \* the value that a flight brings
    Local           \* the values that callers write

VARIABLES
    running,        \* flights that have not reported back
    live,           \* for each key the flight that may still write, or None
    shown,          \* for each key the value readers see, or None
    saved,          \* for each key the value a failed mutation would restore
    dirty           \* keys under a mutation, or invalidated and not yet fetched

vars == <<running, live, shown, saved, dirty>>

Init ==
    /\ running = {}
    /\ live = [k \in Keys |-> None]
    /\ shown = [k \in Keys |-> None]
    /\ saved = [k \in Keys |-> None]
    /\ dirty = {}

\* The key's flight, if it has one, goes on: no mutation has begun or ended, and
\* nothing was invalidated.
Quiet(k) == UNCHANGED <<live[k], shown[k], saved[k], k \in dirty>>

\* Something happens to the key: its flight loses, a new one may start unless
\* the key is left dirty, and the value shown is kept, restored, dropped or
\* written locally.
Superseded(k) ==
    /\ live'[k] \in {None} \cup (running' \ running)
    /\ k \in dirty' => live'[k] = None
    /\ shown'[k] \in {shown[k], saved[k], None} \cup Local
    /\ saved'[k] \in {shown[k], saved[k], None}

\* The live flight reports back, with a value or with an error, to a key that
\* nothing has happened to.
Landed(k) ==
    /\ live[k] \in running \ running'
    /\ k \notin dirty /\ k \notin dirty'
    /\ live'[k] = None
    /\ shown'[k] \in {shown[k], Fetched(live[k])}
    /\ saved'[k] = None

Next ==
    /\ \A k \in Keys : Quiet(k) \/ Superseded(k) \/ Landed(k)
    /\ \A f \in running' \ running : \E k \in Keys : live'[k] = f
    /\ \A k \in Keys : live[k] \in running \ running' => Landed(k)

Spec == Init /\ [][Next]_vars
=============================================================================
