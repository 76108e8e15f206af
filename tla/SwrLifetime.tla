----------------------------- MODULE SwrLifetime -----------------------------
(***************************************************************************)
(* Who keeps what alive.  The cache (Shared in client.rs) lives while a      *)
(* strong SwrClient exists: one of a caller, one that a dependent fetcher    *)
(* upgraded for the time of its inner fetch(), or one that a stored fetcher  *)
(* captured.  Handles, guards, tasks and timers hold it weakly.  A fetcher   *)
(* lives in its entry and in every task that runs it; it is dropped by       *)
(* whoever lets go of it last, under the lock when that is handle().         *)
(*                                                                         *)
(* Of the machine only what decides these questions is kept: which entry     *)
(* has which fetcher, subscribers and flight.  Refresh ticks are left out,   *)
(* and so is the reference to its own fetcher that a pending fetch() keeps    *)
(* until it returns (fetch_inner): here a fetcher that such a caller brought  *)
(* goes when the cache lets go of it.                                        *)
(***************************************************************************)
EXTENDS Naturals, FiniteSets

CONSTANTS
    None,
    Keys,
    Needs,          \* the key a fetcher of this key fetches itself, or None
    Captures,       \* what callers let their fetchers capture
    MaxClients,     \* bound: strong clients of callers at a time
    MaxCalls        \* bound: calls of the client API

ASSUME LifetimeAssumption ==
    /\ Needs \in [Keys -> Keys \cup {None}]
    /\ Captures \subseteq {"nothing", "weak", "client", "handle"}
    /\ {MaxClients, MaxCalls} \subseteq Nat

VARIABLES
    clients,    \* strong clients that callers hold
    entries,    \* per key the fetcher, the subscribers and the flight, or None
    jobs,       \* fetch tasks
    handles,    \* QueryHandles that callers hold
    holder,     \* the handle whose drop, inside handle(), waits for the lock
    next,       \* names of fetchers, handles and flights
    calls

lifeVars == <<clients, entries, jobs, handles, holder, next, calls>>

Init ==
    /\ clients = 1
    /\ entries = [k \in Keys |-> None]
    /\ jobs = {}
    /\ handles = {}
    /\ holder = None
    /\ next = 0
    /\ calls = 0

-----------------------------------------------------------------------------
Stored == {entries[k].fetcher : k \in {x \in Keys : entries[x] # None}}

Fetchers == Stored \cup {j.fetcher : j \in jobs}

\* Mutant: a weak capture keeps the cache alive as a strong one does.
AliveByWeak ==
    \/ clients > 0
    \/ \E j \in jobs : j.client
    \/ \E f \in Fetchers : f.captures \in {"client", "weak"}
    \/ holder # None

\* Weak::upgrade() succeeds.  A thread inside handle() has a strong reference.
Alive ==
    \/ clients > 0
    \/ \E j \in jobs : j.client
    \/ \E f \in Fetchers : f.captures = "client"
    \/ holder # None

\* A dispatch takes the lock, which is not reentrant.
CanDispatch == Alive /\ holder = None

Calling == calls < MaxCalls /\ calls' = calls + 1

Flying(k) == IF entries[k] = None THEN FALSE ELSE entries[k].flight # None

NewEntry(f) == [fetcher |-> f, subs |-> {}, flight |-> None]

Job(k, f) == [id |-> next, key |-> k, fetcher |-> f, phase |-> "spawned", client |-> FALSE]

\* What handle() itself drops: an old fetcher that no task runs takes its handle
\* with it, whose drop dispatches an Unsubscribe.
DroppedInside(f) ==
    IF f \in {j.fetcher : j \in jobs} THEN None ELSE f.handle

\* on_read and on_subscribe: create the entry, replace its fetcher, start a
\* flight if there is none and the event asks for one, as it does of a new entry,
\* which has no data.  `running` are the tasks as the caller leaves them.
Put(k, f, subs, starts, running) ==
    LET e == IF entries[k] = None THEN NewEntry(f) ELSE entries[k]
        launches == (starts \/ entries[k] = None) /\ e.flight = None
    IN  /\ entries' = [entries EXCEPT ![k] =
              [fetcher |-> f, subs |-> e.subs \cup subs,
               flight |-> IF launches THEN next ELSE e.flight]]
        /\ jobs' = IF launches THEN running \cup {Job(k, f)} ELSE running
        /\ holder' = IF entries[k] = None THEN None ELSE DroppedInside(e.fetcher)
        /\ next' = next + 1

Unsubscribe(h) ==
    entries' = [k \in Keys |-> IF k = h.key /\ entries[k] # None
                               THEN [entries[k] EXCEPT !.subs = @ \ {h.id}]
                               ELSE entries[k]]

-----------------------------------------------------------------------------
(* Callers *)

\* SwrClient::clone, or the upgrade of a WeakSwrClient.
Gain ==
    /\ Alive
    /\ clients < MaxClients
    /\ Calling
    /\ clients' = clients + 1
    /\ UNCHANGED <<entries, jobs, handles, holder, next>>

\* The client of a thread inside handle() is borrowed.
DropClient ==
    /\ clients > IF holder = None THEN 0 ELSE 1
    /\ clients' = clients - 1
    /\ UNCHANGED <<entries, jobs, handles, holder, next, calls>>

\* A fetcher that captures a handle takes it from the caller.
Capturing(captures, handle) ==
    /\ captures \in Captures
    /\ IF captures = "handle" THEN handle \in handles ELSE handle = None

NewFetcher(captures, handle) == [id |-> next, captures |-> captures, handle |-> handle]

\* fetch() up to its first await.
Fetch(k, captures, handle, starts) ==
    /\ clients > 0
    /\ CanDispatch
    /\ Calling
    /\ Capturing(captures, handle)
    /\ Put(k, NewFetcher(captures, handle), {}, starts, jobs)
    /\ handles' = handles \ {handle}
    /\ UNCHANGED clients

Subscribe(k, captures, handle, starts) ==
    /\ clients > 0
    /\ CanDispatch
    /\ Calling
    /\ Capturing(captures, handle)
    /\ Put(k, NewFetcher(captures, handle), {next}, starts, jobs)
    /\ handles' = (handles \ {handle}) \cup {[id |-> next, key |-> k]}
    /\ UNCHANGED clients

\* QueryHandle::revalidate: nothing when the cache is gone.
Revalidate(h) ==
    /\ CanDispatch
    /\ Calling
    /\ ~Flying(h.key)
    /\ entries' = [entries EXCEPT ![h.key].flight = next]
    /\ jobs' = jobs \cup {Job(h.key, entries[h.key].fetcher)}
    /\ next' = next + 1
    /\ UNCHANGED <<clients, handles, holder>>

\* Mutant: the handle asks whether a caller still has a client.
DropHandleAsksCallers(h) ==
    /\ handles' = handles \ {h}
    /\ holder = None
    /\ IF clients > 0 THEN Unsubscribe(h) ELSE UNCHANGED entries
    /\ UNCHANGED <<clients, jobs, holder, next, calls>>

\* QueryHandle::drop
DropHandle(h) ==
    /\ handles' = handles \ {h}
    /\ holder = None
    /\ IF Alive THEN Unsubscribe(h) ELSE UNCHANGED entries
    /\ UNCHANGED <<clients, jobs, holder, next, calls>>

-----------------------------------------------------------------------------
(* Fetch tasks *)

Becomes(j, phase, client) ==
    (jobs \ {j}) \cup {[j EXCEPT !.phase = phase, !.client = client]}

\* The fetcher a dependent fetcher brings for its inner fetch().
Inner == NewFetcher(IF "weak" \in Captures THEN "weak" ELSE "nothing", None)

Depends(j) == Needs[j.key] # None /\ j.fetcher.captures \in {"weak", "client"}

\* The task calls the fetcher.  A dependent one upgrades its client and awaits
\* fetch() of the key it needs; when the cache is gone it fails.
Call(j) ==
    /\ j.phase = "spawned"
    /\ \/ /\ Depends(j)
          /\ CanDispatch
          /\ Put(Needs[j.key], Inner, {}, TRUE, Becomes(j, "waiting", TRUE))
       \/ /\ ~Depends(j) \/ ~Alive
          /\ jobs' = Becomes(j, "fetching", FALSE)
          /\ UNCHANGED <<entries, holder, next>>
    /\ UNCHANGED <<clients, handles, calls>>

\* The inner fetch(), which looks under the lock, returns, and with it goes the
\* upgraded client.
Answered(j) ==
    /\ j.phase = "waiting"
    /\ holder = None
    /\ ~Flying(Needs[j.key])
    /\ jobs' = Becomes(j, "fetching", FALSE)
    /\ UNCHANGED <<clients, entries, handles, holder, next, calls>>

\* The result is committed, if the cache is still there.
Report(j) ==
    /\ j.phase = "fetching"
    /\ holder = None
    /\ jobs' = Becomes(j, "ending", FALSE)
    /\ entries' = IF Alive /\ entries[j.key] # None /\ entries[j.key].flight = j.id
                  THEN [entries EXCEPT ![j.key].flight = None] ELSE entries
    /\ UNCHANGED <<clients, handles, holder, next, calls>>

\* The task ends and lets go of its fetcher, outside the lock.
Finish(j) ==
    /\ j.phase = "ending"
    /\ jobs' = jobs \ {j}
    /\ LET others == Stored \cup {i.fetcher : i \in jobs'}
       IN  IF Alive /\ j.fetcher.handle # None /\ j.fetcher \notin others
           THEN holder = None /\ Unsubscribe(j.fetcher.handle)
           ELSE UNCHANGED entries
    /\ UNCHANGED <<clients, handles, holder, next, calls>>

\* A countdown removes an idle entry, fetcher and all.
Collect(k) ==
    /\ CanDispatch
    /\ entries[k] # None
    /\ entries[k].subs = {}
    /\ ~Flying(k)
    /\ entries' = [entries EXCEPT ![k] = None]
    /\ holder' = DroppedInside(entries[k].fetcher)
    /\ UNCHANGED <<clients, jobs, handles, next, calls>>

Works(j) == Call(j) \/ Answered(j) \/ Report(j) \/ Finish(j)

Next ==
    \/ Gain
    \/ DropClient
    \/ \E k \in Keys, captures \in Captures, h \in handles \cup {None}, starts \in BOOLEAN :
          Fetch(k, captures, h, starts)
    \/ \E k \in Keys, captures \in Captures, h \in handles \cup {None}, starts \in BOOLEAN :
          Subscribe(k, captures, h, starts)
    \/ \E h \in handles : Revalidate(h)
    \/ \E h \in handles : DropHandle(h)
    \/ \E j \in jobs : Works(j)
    \/ \E k \in Keys : Collect(k)

Spec == Init /\ [][Next]_lifeVars

\* Fetches end.  Nothing is assumed of callers or timers.
FairSpec == Spec /\ WF_lifeVars(\E j \in jobs : Works(j))

-----------------------------------------------------------------------------
(* Properties *)

Handle == [id : Nat, key : Keys]

Fetcher == [id : Nat, captures : {"nothing", "weak", "client", "handle"},
            handle : Handle \cup {None}]

Entry == [fetcher : Fetcher, subs : SUBSET Nat, flight : Nat \cup {None}]

ASSUME AbsenceAssumption == None \notin Handle \cup Entry

Subscribed ==
    UNION {{[id |-> i, key |-> k] : i \in entries[k].subs} :
              k \in {x \in Keys : entries[x] # None}}

Owned == (handles \cup {f.handle : f \in Fetchers}) \ {None}

\* While the cache lives, its subscribers are exactly the handles that someone
\* still owns: a caller, a stored fetcher or a running one; or the one that is
\* just being dropped.  Whoever drops a handle, and however late.
SubscribersAreOwned == Alive => Subscribed = (Owned \cup {holder}) \ {None}

Outlived == clients = 0 /\ \A f \in Fetchers : f.captures # "client"

\* client.rs, WeakSwrClient: when no fetcher captured a strong client, the cache
\* does not outlive the callers' clients for longer than the fetches under way,
\* unless a thread of it waits for its own lock.
WindsDown == <>[]Outlived => <>[](~Alive \/ holder # None)

\* handle.rs, QueryHandle: "Dropping the handle unsubscribes."  A handle that a
\* fetcher captured and that handle() drops waits for the lock of its own thread
\* forever: a run refutes this.
DroppingUnsubscribes ==
    \A k \in Keys, i \in 0 .. 2 * MaxCalls :
        LET h == [id |-> i, key |-> k]
        IN  h \in Subscribed \ Owned ~> ~Alive \/ h \notin Subscribed
=============================================================================
