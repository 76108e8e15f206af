-------------------------- MODULE SwrLifetimeProofs --------------------------
(***************************************************************************)
(* Proofs about SwrLifetime for any keys, any dependencies between them and *)
(* any bounds.  A handle has one owner at a time: a caller, or one fetcher, *)
(* which may be stored in one entry and run by many tasks (Unshared); that  *)
(* is why the drop of its last owner is the drop of the handle.  Names are  *)
(* never reused (Fresh).  Nothing revives a cache that was dropped.         *)
(***************************************************************************)
EXTENDS SwrLifetime, TLAPS

JobRecord == [id : Nat, key : Keys, fetcher : Fetcher,
              phase : {"spawned", "waiting", "fetching", "ending"}, client : BOOLEAN]

LifeTypeOK ==
    /\ clients \in Nat
    /\ entries \in [Keys -> Entry \cup {None}]
    /\ jobs \subseteq JobRecord
    /\ handles \subseteq Handle
    /\ holder \in Handle \cup {None}
    /\ next \in Nat

Fresh ==
    /\ \A h \in handles : h.id < next
    /\ \A f \in Fetchers : f.id < next /\ (f.handle # None => f.handle.id < next)

Unshared ==
    /\ \A k, x \in Keys :
         entries[k] # None /\ entries[x] # None /\ entries[k].fetcher = entries[x].fetcher
         => k = x
    /\ \A f, g \in Fetchers : f.handle # None /\ f.handle = g.handle => f = g
    /\ \A f \in Fetchers : f.handle \notin handles

\* SubscribersAreOwned, handle by handle.
Subscribes(h) == entries[h.key] # None /\ h.id \in entries[h.key].subs

HasOwner(h) ==
    \/ h \in handles
    \/ \E f \in Fetchers : f.handle = h
    \/ holder = h

Pinned == Alive => \A h \in Handle : Subscribes(h) <=> HasOwner(h)

LifeInv == LifeTypeOK /\ Fresh /\ Unshared /\ Pinned

-----------------------------------------------------------------------------
LEMMA FetcherTypes ==
    ASSUME LifeTypeOK
    PROVE  /\ Fetchers \subseteq Fetcher
           /\ \A f \in Fetchers :
                (\E k \in Keys : entries[k] # None /\ entries[k].fetcher = f)
                \/ \E j \in jobs : j.fetcher = f
           /\ \A k \in Keys : entries[k] # None =>
                entries[k] \in Entry /\ entries[k].fetcher \in Fetchers
           /\ \A j \in jobs : j \in JobRecord /\ j.fetcher \in Fetchers
<1>1. \A k \in Keys : entries[k] # None => entries[k] \in Entry /\ entries[k].fetcher \in Fetcher
  BY DEF LifeTypeOK, Entry
<1>2. \A j \in jobs : j \in JobRecord /\ j.fetcher \in Fetcher
  BY DEF LifeTypeOK, JobRecord
<1> QED
  BY <1>1, <1>2 DEF Fetchers, Stored

JobFetchers == {j.fetcher : j \in jobs}

\* A step that leaves who owns what as it was.
LEMMA QuietStep ==
    ASSUME LifeInv,
           clients' \in Nat, next' \in Nat, next <= next',
           UNCHANGED <<handles, holder>>,
           entries' \in [Keys -> Entry \cup {None}],
           \A k \in Keys :
              /\ entries'[k] = None <=> entries[k] = None
              /\ entries[k] # None => /\ entries'[k].fetcher = entries[k].fetcher
                                      /\ entries'[k].subs = entries[k].subs,
           jobs' \subseteq JobRecord,
           JobFetchers \subseteq JobFetchers', JobFetchers' \subseteq Fetchers,
           Alive' => Alive
    PROVE  LifeInv'
<1>1. Stored' = Stored
  BY DEF Stored
<1>2. Fetchers' = Fetchers
  BY <1>1 DEF Fetchers, JobFetchers
<1>3. LifeTypeOK'
  BY DEF LifeInv, LifeTypeOK
<1>4. Fresh'
  <2>1. \A h \in handles : h.id \in Nat
    BY DEF LifeInv, LifeTypeOK, Handle
  <2>2. \A f \in Fetchers : f.id \in Nat /\ (f.handle # None => f.handle.id \in Nat)
    BY FetcherTypes DEF LifeInv, Fetcher, Handle
  <2>3. next \in Nat
    BY DEF LifeInv, LifeTypeOK
  <2> QED
    BY <1>2, <2>1, <2>2, <2>3 DEF LifeInv, Fresh
<1>5. Unshared'
  BY <1>2 DEF LifeInv, Unshared
<1>6. Pinned'
  <2>1. \A h \in Handle : h.key \in Keys
    BY DEF Handle
  <2>2. \A h \in Handle : Subscribes(h)' <=> Subscribes(h)
    BY <2>1 DEF Subscribes
  <2>3. \A h \in Handle : HasOwner(h)' <=> HasOwner(h)
    BY <1>2 DEF HasOwner
  <2> QED
    BY <2>2, <2>3 DEF LifeInv, Pinned
<1> QED
  BY <1>3, <1>4, <1>5, <1>6 DEF LifeInv

\* What Unsubscribe leaves of the entries.
LEMMA UnsubscribeFacts ==
    ASSUME LifeTypeOK, NEW h \in Handle,
           IF Alive THEN Unsubscribe(h) ELSE UNCHANGED entries
    PROVE  /\ entries' \in [Keys -> Entry \cup {None}]
           /\ \A k \in Keys :
                /\ entries'[k] = None <=> entries[k] = None
                /\ entries[k] # None => entries'[k].fetcher = entries[k].fetcher
                /\ Alive /\ entries[k] # None =>
                     entries'[k].subs = IF k = h.key THEN entries[k].subs \ {h.id}
                                        ELSE entries[k].subs
           /\ Stored' = Stored
<1>1. /\ entries' \in [Keys -> Entry \cup {None}]
      /\ \A k \in Keys :
           /\ entries'[k] = None <=> entries[k] = None
           /\ entries[k] # None => entries'[k].fetcher = entries[k].fetcher
           /\ Alive /\ entries[k] # None =>
                entries'[k].subs = IF k = h.key THEN entries[k].subs \ {h.id}
                                   ELSE entries[k].subs
  <2>1. entries \in [Keys -> Entry \cup {None}] /\ h.key \in Keys
    BY DEF LifeTypeOK, Handle
  <2>2. CASE ~Alive
    BY <2>1, <2>2
  <2>3. CASE Alive
    <3>1. ASSUME NEW k \in Keys, entries[k] # None
          PROVE  LET n == [entries[k] EXCEPT !.subs = @ \ {h.id}]
                 IN  /\ n \in Entry /\ n # None
                     /\ n.fetcher = entries[k].fetcher
                     /\ n.subs = entries[k].subs \ {h.id}
      <4>1. entries[k] \in Entry
        BY <2>1, <3>1
      <4> QED
        BY <4>1, AbsenceAssumption DEF Entry
    <3>2. \A k \in Keys :
            entries'[k] = IF k = h.key /\ entries[k] # None
                          THEN [entries[k] EXCEPT !.subs = @ \ {h.id}] ELSE entries[k]
      BY <2>3 DEF Unsubscribe
    <3>3. \E n \in {entries'} : n = [k \in Keys |-> n[k]]
      BY <2>3 DEF Unsubscribe
    <3>4. ASSUME NEW k \in Keys
          PROVE  /\ entries'[k] \in Entry \cup {None}
                 /\ entries'[k] = None <=> entries[k] = None
                 /\ entries[k] # None =>
                      /\ entries'[k].fetcher = entries[k].fetcher
                      /\ entries'[k].subs = IF k = h.key THEN entries[k].subs \ {h.id}
                                            ELSE entries[k].subs
      <4>1. CASE k = h.key /\ entries[k] # None
        <5>1. PICK n : n = [entries[k] EXCEPT !.subs = @ \ {h.id}]
          OBVIOUS
        <5>2. n \in Entry /\ n # None /\ n.fetcher = entries[k].fetcher
              /\ n.subs = entries[k].subs \ {h.id}
          BY <3>1, <4>1, <5>1
        <5>3. entries'[k] = n
          BY <3>2, <4>1, <5>1
        <5> QED
          BY <4>1, <5>2, <5>3
      <4>2. CASE ~(k = h.key /\ entries[k] # None)
        BY <2>1, <3>2, <4>2
      <4> QED
        BY <4>1, <4>2
    <3>5. entries' \in [Keys -> Entry \cup {None}]
      BY <3>3, <3>4
    <3> QED
      BY <3>4, <3>5
  <2> QED
    BY <2>2, <2>3
<1>2. Stored' = Stored
  BY <1>1 DEF Stored
<1> QED
  BY <1>1, <1>2

\* A handle loses its last owner, and its subscription with it if the cache is
\* there.
LEMMA UnsubscribeStep ==
    ASSUME LifeInv, NEW h \in Handle, holder = None,
           IF Alive THEN Unsubscribe(h) ELSE UNCHANGED entries,
           UNCHANGED <<clients, holder, next>>,
           jobs' \subseteq jobs, handles' \subseteq handles,
           \A g \in Handle : HasOwner(g)' <=> HasOwner(g) /\ g # h
    PROVE  LifeInv'
<1>1. /\ entries' \in [Keys -> Entry \cup {None}]
      /\ \A k \in Keys :
           /\ entries'[k] = None <=> entries[k] = None
           /\ entries[k] # None => entries'[k].fetcher = entries[k].fetcher
           /\ Alive /\ entries[k] # None =>
                entries'[k].subs = IF k = h.key THEN entries[k].subs \ {h.id}
                                   ELSE entries[k].subs
      /\ Stored' = Stored
  BY UnsubscribeFacts DEF LifeInv
<1>2. Fetchers' \subseteq Fetchers
  BY <1>1 DEF Fetchers, Stored
<1>3. LifeTypeOK'
  BY <1>1 DEF LifeInv, LifeTypeOK
<1>4. Fresh' /\ Unshared'
  BY <1>1, <1>2 DEF LifeInv, Fresh, Unshared
<1>5. Alive' => Alive
  BY <1>2 DEF Alive
<1>6. Pinned'
  <2> SUFFICES ASSUME Alive, NEW g \in Handle
      PROVE  Subscribes(g)' <=> HasOwner(g)'
    BY <1>5 DEF Pinned
  <2>1. g.key \in Keys /\ (g = h <=> g.key = h.key /\ g.id = h.id)
    BY DEF Handle
  <2>2. Subscribes(g)' <=> Subscribes(g) /\ g # h
    BY <1>1, <2>1 DEF Subscribes
  <2>3. Subscribes(g) <=> HasOwner(g)
    BY DEF LifeInv, Pinned
  <2> QED
    BY <2>2, <2>3
<1> QED
  BY <1>3, <1>4, <1>6 DEF LifeInv

-----------------------------------------------------------------------------
(* on_read and on_subscribe *)

\* A new fetcher takes its place in the entry, with the handle it captured, and
\* the caller may have got a new handle.  Nothing but the fetcher it replaced
\* loses its place, and handle() drops what that one held.
LEMMA PutStep ==
    ASSUME LifeInv, CanDispatch, NEW k \in Keys, NEW f \in Fetcher, f.id = next,
           f.handle = None \/ f.handle \in handles,
           NEW subs, NEW given \in SUBSET Handle,
           \/ subs = {} /\ given = {}
           \/ subs = {next} /\ given = {[id |-> next, key |-> k]},
           handles' = (handles \ {f.handle}) \cup given,
           NEW starts \in BOOLEAN, NEW running \in SUBSET JobRecord,
           {j.fetcher : j \in running} = JobFetchers,
           Put(k, f, subs, starts, running),
           UNCHANGED clients
    PROVE  LifeInv'
<1>1. PICK e : e = IF entries[k] = None THEN NewEntry(f) ELSE entries[k]
  OBVIOUS
<1>2. PICK flight : flight = IF (starts \/ entries[k] = None) /\ e.flight = None
                           THEN next ELSE e.flight
  OBVIOUS
<1>3. PICK n : n = [fetcher |-> f, subs |-> e.subs \cup subs, flight |-> flight]
  OBVIOUS
<1>4. PICK job : job = Job(k, f)
  OBVIOUS
<1>5. /\ next \in Nat /\ next' = next + 1 /\ holder = None /\ Alive
      /\ entries' = [entries EXCEPT ![k] = n]
      /\ jobs' = running \/ jobs' = running \cup {job}
      /\ holder' = IF entries[k] = None THEN None ELSE DroppedInside(e.fetcher)
  BY <1>1, <1>2, <1>3, <1>4 DEF Put, CanDispatch, LifeInv, LifeTypeOK
<1>6. /\ entries[k] = None => e.subs = {}
      /\ entries[k] # None => e = entries[k]
      /\ e.subs \in SUBSET Nat /\ e.flight \in Nat \cup {None}
  BY <1>1 DEF NewEntry, LifeInv, LifeTypeOK, Entry
<1>7. n \in Entry /\ n # None /\ n.fetcher = f /\ n.subs = e.subs \cup subs
  <2>1. flight \in Nat \cup {None}
    BY <1>2, <1>5, <1>6
  <2>2. e.subs \cup subs \in SUBSET Nat
    <3>1. subs \in SUBSET Nat
      BY <1>5
    <3> QED
      BY <1>6, <3>1
  <2>3. n \in Entry
    BY <1>3, <2>1, <2>2, ZenonT(60) DEF Entry
  <2> QED
    BY <1>3, <2>3, AbsenceAssumption
<1>8. job \in JobRecord /\ job.fetcher = f
  BY <1>4, <1>5 DEF Job, JobRecord
<1>9. /\ entries' \in [Keys -> Entry \cup {None}] /\ entries'[k] = n
      /\ \A x \in Keys : x # k => entries'[x] = entries[x]
  BY <1>5, <1>7 DEF LifeInv, LifeTypeOK
<1>10. PICK old : old = e.fetcher
  OBVIOUS
<1>11. f \notin Fetchers /\ \A g \in Fetchers : g.id \in Nat /\ g.id < next
  <2>1. \A g \in Fetchers : g.id \in Nat /\ g.id < next
    BY FetcherTypes DEF LifeInv, Fetcher, Fresh
  <2> QED
    BY <1>5, <2>1
<1>12. \A g : g \in Fetchers' <=>
         \/ g = f
         \/ g \in JobFetchers
         \/ \E x \in Keys : x # k /\ entries[x] # None /\ entries[x].fetcher = g
  <2>1. \A g : g \in Stored' <=>
          \/ g = f
          \/ \E x \in Keys : x # k /\ entries[x] # None /\ entries[x].fetcher = g
    BY <1>7, <1>9 DEF Stored
  <2>2. \A g : g \in JobFetchers' <=> g \in JobFetchers \/ (g = f /\ job \in jobs')
    BY <1>5, <1>8 DEF JobFetchers
  <2> QED
    BY <2>1, <2>2 DEF Fetchers, JobFetchers
<1>13. \A g : g \in Fetchers <=>
         \/ g \in JobFetchers
         \/ \E x \in Keys : entries[x] # None /\ entries[x].fetcher = g
  BY DEF Fetchers, Stored, JobFetchers
<1>14. \A g \in Fetchers' : g = f \/ g \in Fetchers
  BY <1>12, <1>13
<1>15. holder' \in Handle \cup {None}
       /\ \A h \in Handle :
            (\E g \in Fetchers : g.handle = h)
            => (\E g \in Fetchers' : g # f /\ g.handle = h) \/ holder' = h
  <2>1. CASE entries[k] = None
    BY <1>5, <1>11, <1>12, <1>13, <2>1
  <2>2. CASE entries[k] # None /\ old \in JobFetchers
    <3>1. holder' = None
      BY <1>5, <1>10, <2>2 DEF DroppedInside, JobFetchers
    <3>2. \A g \in Fetchers : g \in Fetchers'
      BY <1>6, <1>10, <1>12, <1>13, <2>2
    <3> QED
      BY <1>11, <3>1, <3>2
  <2>3. CASE entries[k] # None /\ old \notin JobFetchers
    <3>1. holder' = old.handle
      BY <1>5, <1>10, <2>3 DEF DroppedInside, JobFetchers
    <3>2. old \in Fetchers
      BY <1>6, <1>10, <1>13, <2>3
    <3>3. \A g \in Fetchers : g = old \/ g \in Fetchers'
      BY <1>6, <1>10, <1>12, <1>13, <2>3
    <3>4. old.handle \in Handle \cup {None}
      BY <3>2, FetcherTypes DEF LifeInv, Fetcher
    <3> QED
      BY <1>11, <3>1, <3>3, <3>4
  <2> QED
    BY <2>1, <2>2, <2>3
<1>16. \A h \in Handle : holder' = h => \E g \in Fetchers : g.handle = h
  <2>1. CASE entries[k] = None
    BY <1>5, <2>1, AbsenceAssumption
  <2>2. CASE entries[k] # None
    <3>1. holder' = None \/ holder' = old.handle
      BY <1>5, <1>10, <2>2 DEF DroppedInside
    <3>2. old \in Fetchers
      BY <1>6, <1>10, <1>13, <2>2
    <3> QED
      BY <3>1, <3>2, AbsenceAssumption
  <2> QED
    BY <2>1, <2>2
<1>17. LifeTypeOK'
  <2>1. jobs' \subseteq JobRecord
    BY <1>5, <1>8
  <2>2. handles' \subseteq Handle
    BY DEF LifeInv, LifeTypeOK
  <2> QED
    BY <1>5, <1>9, <1>15, <2>1, <2>2 DEF LifeInv, LifeTypeOK
<1>18. \A h \in given : h.id = next /\ h.key = k
  OBVIOUS
<1>19. Fresh'
  <2>1. \A h \in handles : h.id \in Nat /\ h.id < next
    BY DEF LifeInv, LifeTypeOK, Handle, Fresh
  <2>2. \A h \in handles' : h.id < next'
    BY <1>5, <1>18, <2>1
  <2>3. \A g \in Fetchers : g.handle # None => g.handle.id \in Nat /\ g.handle.id < next
    BY FetcherTypes DEF LifeInv, Fetcher, Handle, Fresh
  <2>4. \A g \in Fetchers' : g.id < next' /\ (g.handle # None => g.handle.id < next')
    <3>1. f.id < next' /\ (f.handle # None => f.handle.id < next')
      BY <1>5, <2>1
    <3>2. \A g \in Fetchers : g.id < next' /\ (g.handle # None => g.handle.id < next')
      BY <1>5, <1>11, <2>3
    <3> QED
      BY <1>14, <3>1, <3>2
  <2> QED
    BY <2>2, <2>4 DEF Fresh
<1>20. Unshared'
  <2>1. ASSUME NEW x \in Keys, NEW y \in Keys, entries'[x] # None, entries'[y] # None,
               entries'[x].fetcher = entries'[y].fetcher
        PROVE  x = y
    <3>1. \A z \in Keys : z # k /\ entries[z] # None => entries[z].fetcher # f
      BY <1>11, <1>13
    <3> QED
      BY <1>7, <1>9, <2>1, <3>1 DEF LifeInv, Unshared
  <2>2. ASSUME NEW g \in Fetchers', NEW i \in Fetchers', g.handle # None, g.handle = i.handle
        PROVE  g = i
    <3>1. \A u \in Fetchers : f.handle # None => u.handle # f.handle
      BY DEF LifeInv, Unshared
    <3> QED
      BY <1>14, <2>2, <3>1 DEF LifeInv, Unshared
  <2>3. ASSUME NEW g \in Fetchers'
        PROVE  g.handle \notin handles'
    <3>1. g.handle \notin handles \ {f.handle}
      BY <1>14, <2>3 DEF LifeInv, Unshared
    <3>2. g.handle \notin given
      <4>1. ASSUME g.handle \in given PROVE FALSE
        <5>1. g.handle.id = next /\ g.handle # None
          BY <1>18, <4>1, AbsenceAssumption
        <5>2. g.handle.id \in Nat /\ g.handle.id < next
          BY <1>14, <5>1, FetcherTypes DEF LifeInv, LifeTypeOK, Fetcher, Handle, Fresh
        <5> QED
          BY <5>1, <5>2
      <4> QED
        BY <4>1
    <3> QED
      BY <3>1, <3>2
  <2> QED
    BY <2>1, <2>2, <2>3 DEF Unshared
<1>21. Pinned'
  <2> SUFFICES ASSUME NEW h \in Handle
      PROVE  Subscribes(h)' <=> HasOwner(h)'
    BY DEF Pinned
  <2>1. h.key \in Keys /\ (h \in given <=> h.key = k /\ h.id \in subs)
    BY DEF Handle
  <2>2. Subscribes(h)' <=> Subscribes(h) \/ h \in given
    <3>1. CASE h.key = k
      BY <1>6, <1>7, <1>9, <2>1, <3>1 DEF Subscribes
    <3>2. CASE h.key # k
      BY <1>9, <2>1, <3>2 DEF Subscribes
    <3> QED
      BY <3>1, <3>2
  <2>3. Subscribes(h) <=> HasOwner(h)
    BY <1>5 DEF LifeInv, Pinned
  <2>4. HasOwner(h)' <=> HasOwner(h) \/ h \in given
    <3>1. f \in Fetchers'
      BY <1>12
    <3>2. holder # h /\ h # None
      BY <1>5, AbsenceAssumption
    <3>3. ASSUME HasOwner(h) \/ h \in given
          PROVE  HasOwner(h)'
      BY <1>15, <3>1, <3>2, <3>3 DEF HasOwner
    <3>4. ASSUME HasOwner(h)'
          PROVE  HasOwner(h) \/ h \in given
      BY <1>14, <1>16, <3>2, <3>4 DEF HasOwner
    <3> QED
      BY <3>3, <3>4
  <2> QED
    BY <2>2, <2>3, <2>4
<1> QED
  BY <1>17, <1>19, <1>20, <1>21 DEF LifeInv

-----------------------------------------------------------------------------
(* Steps of callers *)

LEMMA GainStep == LifeInv /\ Gain => LifeInv'
<1> SUFFICES ASSUME LifeInv, Gain PROVE LifeInv'
  OBVIOUS
<1>1. clients \in Nat /\ next \in Nat /\ clients' = clients + 1
      /\ entries \in [Keys -> Entry \cup {None}] /\ jobs \subseteq JobRecord
  BY DEF LifeInv, LifeTypeOK, Gain
<1>2. clients' \in Nat /\ next' = next /\ entries' = entries /\ jobs' = jobs /\ Alive
      /\ UNCHANGED <<handles, holder>> 
      /\ JobFetchers \subseteq JobFetchers' /\ JobFetchers' \subseteq Fetchers
  BY <1>1 DEF Gain, JobFetchers, Fetchers
<1> QED
  BY <1>1, <1>2, QuietStep

LEMMA DropClientStep == LifeInv /\ DropClient => LifeInv'
<1> SUFFICES ASSUME LifeInv, DropClient PROVE LifeInv'
  OBVIOUS
<1>1. clients \in Nat /\ next \in Nat /\ clients' = clients - 1 /\ clients > 0
      /\ entries \in [Keys -> Entry \cup {None}] /\ jobs \subseteq JobRecord
  BY DEF LifeInv, LifeTypeOK, DropClient
<1>2. clients' \in Nat /\ next' = next /\ entries' = entries /\ jobs' = jobs
      /\ UNCHANGED <<handles, holder>> 
      /\ JobFetchers \subseteq JobFetchers' /\ JobFetchers' \subseteq Fetchers
  BY <1>1 DEF DropClient, JobFetchers, Fetchers
<1>3. Alive' => Alive
  BY <1>1, <1>2 DEF Alive, Fetchers, Stored
<1> QED
  BY <1>1, <1>2, <1>3, QuietStep

LEMMA NewFetcherTypes ==
    ASSUME LifeTypeOK, NEW captures, NEW handle, Capturing(captures, handle)
    PROVE  /\ NewFetcher(captures, handle) \in Fetcher
           /\ NewFetcher(captures, handle).id = next
           /\ NewFetcher(captures, handle).handle = handle
           /\ handle = None \/ handle \in handles
<1>1. captures \in {"nothing", "weak", "client", "handle"}
  BY LifetimeAssumption DEF Capturing
<1>2. handle = None \/ handle \in handles
  BY DEF Capturing
<1>3. handle \in Handle \cup {None} /\ next \in Nat
  BY <1>2 DEF LifeTypeOK
<1> QED
  BY <1>1, <1>2, <1>3 DEF NewFetcher, Fetcher

LEMMA FetchStep ==
    ASSUME LifeInv, NEW k \in Keys, NEW captures, NEW handle, NEW starts \in BOOLEAN,
           Fetch(k, captures, handle, starts)
    PROVE  LifeInv'
<1>1. PICK f : f = NewFetcher(captures, handle)
  OBVIOUS
<1>2. f \in Fetcher /\ f.id = next /\ f.handle = handle /\ (f.handle = None \/ f.handle \in handles)
  BY <1>1, NewFetcherTypes DEF Fetch, LifeInv
<1>3. /\ CanDispatch /\ Put(k, f, {}, starts, jobs) /\ UNCHANGED clients
      /\ handles' = (handles \ {f.handle}) \cup {}
  BY <1>1, <1>2 DEF Fetch
<1>4. jobs \in SUBSET JobRecord /\ {j.fetcher : j \in jobs} = JobFetchers
      /\ {} \in SUBSET Handle
  BY DEF LifeInv, LifeTypeOK, JobFetchers
<1> QED
  BY <1>2, <1>3, <1>4, PutStep

LEMMA SubscribeStep ==
    ASSUME LifeInv, NEW k \in Keys, NEW captures, NEW handle, NEW starts \in BOOLEAN,
           Subscribe(k, captures, handle, starts)
    PROVE  LifeInv'
<1>1. PICK f : f = NewFetcher(captures, handle)
  OBVIOUS
<1>2. f \in Fetcher /\ f.id = next /\ f.handle = handle /\ (f.handle = None \/ f.handle \in handles)
  BY <1>1, NewFetcherTypes DEF Subscribe, LifeInv
<1>3. PICK given : given = {[id |-> next, key |-> k]}
  OBVIOUS
<1>4. /\ CanDispatch /\ Put(k, f, {next}, starts, jobs) /\ UNCHANGED clients
      /\ handles' = (handles \ {f.handle}) \cup given
  BY <1>1, <1>2, <1>3 DEF Subscribe
<1>5. jobs \in SUBSET JobRecord /\ {j.fetcher : j \in jobs} = JobFetchers
  BY DEF LifeInv, LifeTypeOK, JobFetchers
<1>6. given \in SUBSET Handle
  BY <1>3 DEF LifeInv, LifeTypeOK, Handle
<1> QED
  BY <1>2, <1>3, <1>4, <1>5, <1>6, PutStep

\* The handle pins the entry whose fetcher it starts.
LEMMA RevalidateStep ==
    ASSUME LifeInv, NEW h \in handles, Revalidate(h)
    PROVE  LifeInv'
<1>1. PICK e : e = entries[h.key]
  OBVIOUS
<1>2. h \in Handle /\ h.key \in Keys /\ next \in Nat
  BY DEF LifeInv, LifeTypeOK, Handle
<1>3. e # None /\ e \in Entry /\ e.fetcher \in Fetcher /\ e.fetcher \in Fetchers
  <2>1. HasOwner(h) /\ Alive
    BY DEF HasOwner, Revalidate, CanDispatch
  <2>2. e # None
    BY <1>1, <1>2, <2>1 DEF LifeInv, Pinned, Subscribes
  <2> QED
    BY <1>1, <1>2, <2>2, FetcherTypes DEF LifeInv
<1>4. PICK n : n = [e EXCEPT !.flight = next]
  OBVIOUS
<1>5. n \in Entry /\ n.fetcher = e.fetcher /\ n.subs = e.subs
  BY <1>2, <1>3, <1>4 DEF Entry
<1>6. n # None
  BY <1>5, AbsenceAssumption
<1>7. PICK job : job = Job(h.key, e.fetcher)
  OBVIOUS
<1>8. job \in JobRecord /\ job.fetcher = e.fetcher /\ job.client = FALSE
  BY <1>2, <1>3, <1>7, ZenonT(60) DEF Job, JobRecord
<1>9. /\ entries' = [entries EXCEPT ![h.key] = n]
      /\ jobs' = jobs \cup {job}
      /\ next' = next + 1 /\ UNCHANGED <<clients, handles, holder>>
  BY <1>1, <1>4, <1>7 DEF Revalidate
<1>10. JobFetchers \subseteq JobFetchers' /\ JobFetchers' \subseteq Fetchers
  BY <1>3, <1>8, <1>9 DEF JobFetchers, Fetchers
<1>11. entries' \in [Keys -> Entry \cup {None}]
       /\ \A k \in Keys :
              /\ entries'[k] = None <=> entries[k] = None
              /\ entries[k] # None => /\ entries'[k].fetcher = entries[k].fetcher
                                      /\ entries'[k].subs = entries[k].subs
  BY <1>1, <1>2, <1>3, <1>5, <1>6, <1>9 DEF LifeInv, LifeTypeOK
<1>12. Alive /\ next <= next' /\ next' \in Nat /\ clients' \in Nat
       /\ jobs' \subseteq JobRecord
  BY <1>2, <1>8, <1>9 DEF Revalidate, CanDispatch, LifeInv, LifeTypeOK
<1> QED
  BY <1>9, <1>10, <1>11, <1>12, QuietStep

LEMMA DropHandleStep ==
    ASSUME LifeInv, NEW h \in handles, DropHandle(h)
    PROVE  LifeInv'
<1>1. h \in Handle
  BY DEF LifeInv, LifeTypeOK
<1>2. /\ IF Alive THEN Unsubscribe(h) ELSE UNCHANGED entries
      /\ UNCHANGED <<clients, holder, next, jobs>> /\ holder = None
      /\ handles' = handles \ {h}
  BY DEF DropHandle
<1>3. Fetchers' = Fetchers
  BY <1>1, <1>2, UnsubscribeFacts DEF LifeInv, Fetchers
<1>4. \A g \in Handle : HasOwner(g)' <=> HasOwner(g) /\ g # h
  <2>1. \A f \in Fetchers : f.handle # h
    BY DEF LifeInv, Unshared
  <2>2. h # None
    BY <1>1, AbsenceAssumption
  <2> QED
    BY <1>2, <1>3, <2>1, <2>2 DEF HasOwner
<1> QED
  BY <1>1, <1>2, <1>4, UnsubscribeStep

-----------------------------------------------------------------------------
(* Steps of tasks *)

LEMMA BecomesTypes ==
    ASSUME LifeTypeOK, NEW j \in jobs,
           NEW phase \in {"spawned", "waiting", "fetching", "ending"}, NEW client \in BOOLEAN
    PROVE  /\ Becomes(j, phase, client) \in SUBSET JobRecord
           /\ {i.fetcher : i \in Becomes(j, phase, client)} = JobFetchers
           /\ client = FALSE => \A i \in Becomes(j, phase, client) : i.client => i \in jobs
<1>1. PICK n : n = [j EXCEPT !.phase = phase, !.client = client]
  OBVIOUS
<1>2. j \in JobRecord
  BY DEF LifeTypeOK
<1>3. n \in JobRecord /\ n.fetcher = j.fetcher /\ n.client = client
  BY <1>1, <1>2, ZenonT(60) DEF JobRecord
<1>4. Becomes(j, phase, client) = (jobs \ {j}) \cup {n}
  BY <1>1 DEF Becomes
<1>5. {i.fetcher : i \in (jobs \ {j}) \cup {n}} = {i.fetcher : i \in jobs}
  BY <1>3
<1> QED
  BY <1>3, <1>4, <1>5 DEF LifeTypeOK, JobFetchers

\* A task that does not keep the client it upgraded.
LEMMA PhaseStep ==
    ASSUME LifeInv, NEW j \in jobs,
           NEW phase \in {"spawned", "waiting", "fetching", "ending"},
           jobs' = Becomes(j, phase, FALSE),
           entries' \in [Keys -> Entry \cup {None}],
           \A k \in Keys :
              /\ entries'[k] = None <=> entries[k] = None
              /\ entries[k] # None => /\ entries'[k].fetcher = entries[k].fetcher
                                      /\ entries'[k].subs = entries[k].subs,
           UNCHANGED <<clients, handles, holder, next>>
    PROVE  LifeInv'
<1>1. /\ jobs' \subseteq JobRecord
      /\ JobFetchers' = JobFetchers
      /\ \A i \in jobs' : i.client => i \in jobs
  BY BecomesTypes DEF LifeInv, JobFetchers
<1>2. Fetchers' = Fetchers
  BY <1>1 DEF Fetchers, Stored, JobFetchers
<1>3. Alive' => Alive
  BY <1>1, <1>2 DEF Alive
<1>4. JobFetchers' \subseteq Fetchers
  BY <1>1 DEF Fetchers, JobFetchers
<1>5. clients' \in Nat /\ next' \in Nat /\ next <= next'
  BY DEF LifeInv, LifeTypeOK
<1> QED
  BY <1>1, <1>3, <1>4, <1>5, QuietStep

LEMMA CallStep ==
    ASSUME LifeInv, NEW j \in jobs, Call(j)
    PROVE  LifeInv'
<1>1. ASSUME Depends(j), CanDispatch,
             Put(Needs[j.key], Inner, {}, TRUE, Becomes(j, "waiting", TRUE)),
             UNCHANGED <<clients, handles>>
      PROVE  LifeInv'
  <2>1. PICK f : f = Inner
    OBVIOUS
  <2>2. f \in Fetcher /\ f.id = next /\ f.handle = None
    <3>1. PICK captures : captures = IF "weak" \in Captures THEN "weak" ELSE "nothing"
      OBVIOUS
    <3>2. f = [id |-> next, captures |-> captures, handle |-> None]
      BY <2>1, <3>1 DEF Inner, NewFetcher
    <3>3. captures \in {"nothing", "weak", "client", "handle"} /\ next \in Nat
      BY <3>1 DEF LifeInv, LifeTypeOK
    <3> QED
      BY <3>2, <3>3 DEF Fetcher
  <2>3. PICK k : k = Needs[j.key]
    OBVIOUS
  <2>4. k \in Keys
    <3>1. j.key \in Keys
      BY FetcherTypes DEF LifeInv, JobRecord
    <3> QED
      BY <1>1, <2>3, <3>1, LifetimeAssumption DEF Depends
  <2>5. PICK running : running = Becomes(j, "waiting", TRUE)
    OBVIOUS
  <2>6. running \in SUBSET JobRecord /\ {i.fetcher : i \in running} = JobFetchers
    BY <2>5, BecomesTypes DEF LifeInv
  <2>7. Put(k, f, {}, TRUE, running)
    BY <1>1, <2>1, <2>3, <2>5
  <2>8. handles' = (handles \ {f.handle}) \cup {} /\ {} \in SUBSET Handle
    <3>1. None \notin handles
      BY AbsenceAssumption DEF LifeInv, LifeTypeOK
    <3> QED
      BY <1>1, <2>2, <3>1
  <2> QED
    BY <1>1, <2>2, <2>4, <2>6, <2>7, <2>8, PutStep
<1>2. ASSUME jobs' = Becomes(j, "fetching", FALSE), UNCHANGED <<entries, holder, next>>,
             UNCHANGED <<clients, handles>>
      PROVE  LifeInv'
  BY <1>2, PhaseStep DEF LifeInv, LifeTypeOK
<1> QED
  BY <1>1, <1>2 DEF Call

LEMMA AnsweredStep ==
    ASSUME LifeInv, NEW j \in jobs, Answered(j)
    PROVE  LifeInv'
<1>1. jobs' = Becomes(j, "fetching", FALSE)
      /\ UNCHANGED <<clients, entries, handles, holder, next>>
  BY DEF Answered
<1> QED
  BY <1>1, PhaseStep DEF LifeInv, LifeTypeOK

LEMMA ReportStep ==
    ASSUME LifeInv, NEW j \in jobs, Report(j)
    PROVE  LifeInv'
<1>1. jobs' = Becomes(j, "ending", FALSE) /\ UNCHANGED <<clients, handles, holder, next>>
  BY DEF Report
<1>2. /\ entries' \in [Keys -> Entry \cup {None}]
      /\ \A k \in Keys :
              /\ entries'[k] = None <=> entries[k] = None
              /\ entries[k] # None => /\ entries'[k].fetcher = entries[k].fetcher
                                      /\ entries'[k].subs = entries[k].subs
  <2>1. PICK e : e = entries[j.key]
    OBVIOUS
  <2>2. PICK n : n = [e EXCEPT !.flight = None]
    OBVIOUS
  <2>3. j.key \in Keys /\ entries \in [Keys -> Entry \cup {None}]
    BY FetcherTypes DEF LifeInv, LifeTypeOK, JobRecord
  <2>4. ASSUME e # None
        PROVE  n \in Entry /\ n.fetcher = e.fetcher /\ n.subs = e.subs /\ n # None
    <3>1. e \in Entry
      BY <2>1, <2>3, <2>4
    <3>2. n \in Entry /\ n.fetcher = e.fetcher /\ n.subs = e.subs
      BY <2>2, <3>1 DEF Entry
    <3> QED
      BY <3>2, AbsenceAssumption
  <2>5. entries' = entries \/ (e # None /\ entries' = [entries EXCEPT ![j.key] = n])
    BY <2>1, <2>2 DEF Report
  <2> QED
    BY <2>1, <2>3, <2>4, <2>5
<1> QED
  BY <1>1, <1>2, PhaseStep

\* Its fetcher, and the handle in it, go with the last task that runs it, unless
\* an entry has it.
LEMMA FinishStep ==
    ASSUME LifeInv, NEW j \in jobs, Finish(j)
    PROVE  LifeInv'
<1>1. PICK f : f = j.fetcher
  OBVIOUS
<1>2. /\ jobs' = jobs \ {j} /\ UNCHANGED <<clients, handles, holder, next>>
      /\ \/ /\ Alive /\ f.handle # None /\ f \notin Stored \cup JobFetchers'
            /\ holder = None /\ Unsubscribe(f.handle)
         \/ /\ ~Alive \/ f.handle = None \/ f \in Stored \cup JobFetchers'
            /\ UNCHANGED entries
  BY <1>1 DEF Finish, JobFetchers
<1>3. f \in Fetchers /\ f.handle \in Handle \cup {None}
  BY <1>1, FetcherTypes DEF LifeInv, Fetcher
<1>4. \A g \in JobFetchers : g = f \/ g \in JobFetchers'
  BY <1>1, <1>2 DEF JobFetchers
<1>5. JobFetchers' \subseteq JobFetchers
  BY <1>2 DEF JobFetchers
<1>6. Fetchers = Stored \cup JobFetchers /\ Fetchers' = Stored' \cup JobFetchers'
  BY DEF Fetchers, JobFetchers
<1>7. ASSUME Alive, f.handle # None, f \notin Stored \cup JobFetchers', holder = None,
             Unsubscribe(f.handle)
      PROVE  LifeInv'
  <2>1. f.handle \in Handle
    BY <1>3, <1>7
  <2>2. Stored' = Stored
    BY <1>7, <2>1, UnsubscribeFacts DEF LifeInv
  <2>3. \A g \in Handle : HasOwner(g)' <=> HasOwner(g) /\ g # f.handle
    <3>1. f.handle \notin handles /\ \A g \in Fetchers : g # f => g.handle # f.handle
      BY <1>3, <1>7 DEF LifeInv, Unshared
    <3>2. \A g : g \in Fetchers' <=> g \in Fetchers /\ g # f
      BY <1>4, <1>5, <1>6, <1>7, <2>2
    <3> QED
      BY <1>2, <1>7, <3>1, <3>2 DEF HasOwner
  <2> QED
    BY <1>2, <1>7, <2>1, <2>3, UnsubscribeStep
<1>8. ASSUME UNCHANGED entries, ~Alive \/ f.handle = None \/ f \in Stored \cup JobFetchers'
      PROVE  LifeInv'
  <2>1. Stored' = Stored
    BY <1>8 DEF Stored
  <2>2. Fetchers' \subseteq Fetchers
    BY <1>5, <1>6, <2>1
  <2>3. LifeTypeOK' /\ Fresh' /\ Unshared'
    BY <1>2, <1>8, <2>2 DEF LifeInv, LifeTypeOK, Fresh, Unshared
  <2>4. Alive' => Alive
    BY <1>2, <2>2 DEF Alive
  <2>5. ASSUME Alive, NEW h \in Handle
        PROVE  Subscribes(h)' <=> HasOwner(h)'
    <3>1. Subscribes(h)' <=> Subscribes(h)
      BY <1>8 DEF Subscribes
    <3>2. HasOwner(h)' <=> HasOwner(h)
      <4>1. h # None
        BY AbsenceAssumption
      <4>2. \A g \in Fetchers : g \in Fetchers' \/ g.handle = None
        BY <1>4, <1>6, <1>8, <2>1, <2>5
      <4> QED
        BY <1>2, <2>2, <4>1, <4>2 DEF HasOwner
    <3> QED
      BY <2>5, <3>1, <3>2 DEF LifeInv, Pinned
  <2> QED
    BY <2>3, <2>4, <2>5 DEF LifeInv, Pinned
<1> QED
  BY <1>2, <1>7, <1>8

\* An entry without subscribers takes its fetcher along, whose handle is dropped
\* there and then unless a task runs the fetcher.
LEMMA CollectStep ==
    ASSUME LifeInv, NEW k \in Keys, Collect(k)
    PROVE  LifeInv'
<1>1. PICK old : old = entries[k].fetcher
  OBVIOUS
<1>2. /\ Alive /\ holder = None /\ entries[k] # None /\ entries[k].subs = {}
      /\ entries' = [entries EXCEPT ![k] = None]
      /\ holder' = IF old \in JobFetchers THEN None ELSE old.handle
      /\ UNCHANGED <<clients, jobs, handles, next>>
  BY <1>1 DEF Collect, CanDispatch, DroppedInside, JobFetchers
<1>3. old \in Fetchers /\ old.handle \in Handle \cup {None}
  BY <1>1, <1>2, FetcherTypes DEF LifeInv, Fetcher
<1>4. /\ entries' \in [Keys -> Entry \cup {None}] /\ entries'[k] = None
      /\ \A x \in Keys : x # k => entries'[x] = entries[x]
  BY <1>2 DEF LifeInv, LifeTypeOK
<1>5. Fetchers' \subseteq Fetchers
  BY <1>2, <1>4 DEF Fetchers, Stored
<1>6. \A g \in Fetchers : g \in Fetchers' \/ (g = old /\ old \notin JobFetchers)
  BY <1>1, <1>2, <1>4 DEF Fetchers, Stored, JobFetchers
<1>7. LifeTypeOK'
  BY <1>2, <1>3, <1>4 DEF LifeInv, LifeTypeOK
<1>8. Fresh'
  BY <1>2, <1>5 DEF LifeInv, Fresh
<1>9. Unshared'
  BY <1>2, <1>4, <1>5 DEF LifeInv, Unshared
<1>10. ASSUME NEW h \in Handle
       PROVE  Subscribes(h)' <=> HasOwner(h)'
  <2>1. h.key \in Keys
    BY DEF Handle
  <2>2. Subscribes(h)' <=> Subscribes(h)
    BY <1>2, <1>4, <2>1 DEF Subscribes
  <2>3. HasOwner(h)' <=> HasOwner(h)
    <3>1. h # None
      BY AbsenceAssumption
    <3> QED
      BY <1>2, <1>3, <1>5, <1>6, <3>1 DEF HasOwner
  <2> QED
    BY <1>2, <2>2, <2>3 DEF LifeInv, Pinned
<1> QED
  BY <1>7, <1>8, <1>9, <1>10 DEF LifeInv, Pinned

-----------------------------------------------------------------------------
LEMMA LifeInvInit == Init => LifeInv
<1> SUFFICES ASSUME Init PROVE LifeInv
  OBVIOUS
<1>1. LifeTypeOK
  BY DEF Init, LifeTypeOK
<1>2. Fetchers = {}
  BY DEF Init, Fetchers, Stored
<1>3. \A h \in Handle : ~Subscribes(h) /\ ~HasOwner(h)
  BY <1>2, AbsenceAssumption DEF Init, Subscribes, HasOwner, Handle
<1> QED
  BY <1>1, <1>2, <1>3 DEF Init, LifeInv, Fresh, Unshared, Pinned

LEMMA LifeInvStep == LifeInv /\ [Next]_lifeVars => LifeInv'
<1> SUFFICES ASSUME LifeInv, [Next]_lifeVars PROVE LifeInv'
  OBVIOUS
<1>1. ASSUME UNCHANGED lifeVars PROVE LifeInv'
  BY <1>1 DEF lifeVars, LifeInv, LifeTypeOK, Fresh, Unshared, Pinned, Fetchers, Stored,
              Alive, Subscribes, HasOwner
<1>2. ASSUME NEW j \in jobs, Works(j) PROVE LifeInv'
  BY <1>2, CallStep, AnsweredStep, ReportStep, FinishStep DEF Works
<1>3. ASSUME NEW h \in handles, Revalidate(h) \/ DropHandle(h) PROVE LifeInv'
  BY <1>3, RevalidateStep, DropHandleStep
<1> QED
  BY <1>1, <1>2, <1>3, GainStep, DropClientStep, FetchStep, SubscribeStep, CollectStep DEF Next

LEMMA LifeInvariant == Spec => []LifeInv
<1> QED
  BY LifeInvInit, LifeInvStep, PTL DEF Spec

\* While the cache lives, its subscribers are exactly the handles that a caller or
\* a fetcher still owns, and the one that handle() is about to drop: no drop of a
\* client, a handle, a fetcher or a task loses or leaks a subscription.
THEOREM SubscriptionsFollowOwners == Spec => []SubscribersAreOwned
<1>1. LifeInv => SubscribersAreOwned
  <2> SUFFICES ASSUME LifeInv, Alive
      PROVE  Subscribed = (Owned \cup {holder}) \ {None}
    BY DEF SubscribersAreOwned
  <2>1. \A h \in Subscribed : h \in Handle /\ Subscribes(h)
    <3>1. SUFFICES ASSUME NEW k \in Keys, entries[k] # None, NEW i \in entries[k].subs
          PROVE  [id |-> i, key |-> k] \in Handle /\ Subscribes([id |-> i, key |-> k])
      BY DEF Subscribed
    <3>2. i \in Nat
      BY <3>1 DEF LifeInv, LifeTypeOK, Entry
    <3> QED
      BY <3>1, <3>2 DEF Handle, Subscribes
  <2>2. \A h \in Handle : Subscribes(h) => h \in Subscribed
    <3> SUFFICES ASSUME NEW h \in Handle, Subscribes(h) PROVE h \in Subscribed
      OBVIOUS
    <3>1. h = [id |-> h.id, key |-> h.key] /\ h.key \in Keys
      BY DEF Handle
    <3> QED
      BY <3>1 DEF Subscribed, Subscribes
  <2>3. \A h : h \in (Owned \cup {holder}) \ {None} <=> h \in Handle /\ HasOwner(h)
    <3>1. \A f \in Fetchers : f.handle \in Handle \cup {None}
      BY FetcherTypes DEF LifeInv, Fetcher
    <3>2. handles \subseteq Handle /\ holder \in Handle \cup {None} /\ None \notin Handle
      BY AbsenceAssumption DEF LifeInv, LifeTypeOK
    <3> QED
      BY <3>1, <3>2 DEF Owned, HasOwner
  <2>4. \A h \in Handle : Subscribes(h) <=> HasOwner(h)
    BY DEF LifeInv, Pinned
  <2> QED
    BY <2>1, <2>2, <2>3, <2>4
<1> QED
  BY <1>1, LifeInvariant, PTL
=============================================================================
