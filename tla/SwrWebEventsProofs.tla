------------------------- MODULE SwrWebEventsProofs -------------------------
(***************************************************************************)
(* Proofs about SwrWebEvents for any clients and any bounds.  The registry  *)
(* is sound because next_id only grows, and a delivery because it walks a   *)
(* copy that nothing changes: WebInv says how far it has come.              *)
(***************************************************************************)
EXTENDS SwrWebEvents, SequenceTheorems, TLAPS

Attached == [id : Nat, client : Clients]

Registered(cs) ==
    /\ cs \in Seq(Attached)
    /\ \A i \in DOMAIN cs : cs[i].id < next_id
    /\ \A i, j \in DOMAIN cs : cs[i].id = cs[j].id => i = j

\* Each source has heard the event once if the delivery has come past it.
HeardOf(id) == IF \E j \in 1 .. delivered : snapshot[j].id = id THEN 1 ELSE 0

WebInv ==
    /\ next_id \in Nat /\ next_id <= MaxSources
    /\ Registered(clients)
    /\ listeners = (clients # <<>>)
    /\ Registered(snapshot)
    /\ delivered \in 0 .. Len(snapshot)
    /\ firing = None => delivered = Len(snapshot)
    /\ heard \in [Sources -> Nat]
    /\ \A id \in Sources : heard[id] = HeardOf(id)

LEMMA RemovedAt ==
    ASSUME NEW S, NEW s \in Seq(S), NEW i \in DOMAIN s
    PROVE  LET r == RemoveAt(s, i)
           IN  /\ r \in Seq(S)
               /\ Len(r) = Len(s) - 1
               /\ \A j \in 1 .. Len(r) : r[j] = IF j < i THEN s[j] ELSE s[j + 1]
<1>1. Len(s) \in Nat /\ DOMAIN s = 1 .. Len(s) /\ i \in 1 .. Len(s)
      /\ \A j \in 1 .. Len(s) : s[j] \in S
  BY LenProperties, ElementOfSeq
<1>2. PICK a : a = SubSeq(s, 1, i - 1)
  OBVIOUS
<1>3. PICK b : b = SubSeq(s, i + 1, Len(s))
  OBVIOUS
<1>4. /\ a \in Seq(S) /\ Len(a) = i - 1
      /\ \A j \in 1 .. i - 1 : a[j] = s[j]
  <2>1. \A j \in 1 .. i - 1 : s[j] \in S
    BY <1>1
  <2>2. /\ a \in Seq(S) /\ Len(a) = IF 1 <= i - 1 THEN i - 1 - 1 + 1 ELSE 0
        /\ \A j \in 1 .. i - 1 - 1 + 1 : a[j] = s[1 + j - 1]
    BY <1>1, <1>2, <2>1, SubSeqProperties
  <2> QED
    BY <1>1, <2>2
<1>5. /\ b \in Seq(S) /\ Len(b) = Len(s) - i
      /\ \A j \in 1 .. Len(s) - i : b[j] = s[i + j]
  <2>1. \A j \in i + 1 .. Len(s) : s[j] \in S
    BY <1>1
  <2>2. /\ b \in Seq(S)
        /\ Len(b) = IF i + 1 <= Len(s) THEN Len(s) - (i + 1) + 1 ELSE 0
        /\ \A j \in 1 .. Len(s) - (i + 1) + 1 : b[j] = s[i + 1 + j - 1]
    BY <1>1, <1>3, <2>1, SubSeqProperties
  <2>3. Len(b) = Len(s) - i /\ Len(s) - (i + 1) + 1 = Len(s) - i
    BY <1>1, <2>2
  <2>4. ASSUME NEW j \in 1 .. Len(s) - i
        PROVE  b[j] = s[i + j]
    <3>1. i + 1 + j - 1 = i + j
      BY <1>1
    <3>2. b[j] = s[i + 1 + j - 1]
      BY <2>2, <2>3
    <3> QED
      BY <3>1, <3>2
  <2> QED
    BY <2>2, <2>3, <2>4
<1>6. PICK r : r = RemoveAt(s, i)
  OBVIOUS
<1>7. /\ r \in Seq(S) /\ Len(r) = Len(a) + Len(b)
      /\ \A j \in 1 .. Len(a) + Len(b) :
            r[j] = IF j <= Len(a) THEN a[j] ELSE b[j - Len(a)]
  <2>1. r = a \o b
    BY <1>2, <1>3, <1>6 DEF RemoveAt
  <2> QED
    BY <1>4, <1>5, <2>1, ConcatProperties
<1>8. ASSUME NEW j \in 1 .. Len(r)
      PROVE  r[j] = IF j < i THEN s[j] ELSE s[j + 1]
  <2>1. Len(a) = i - 1 /\ Len(r) = Len(s) - 1
    BY <1>1, <1>4, <1>5, <1>7
  <2>2. CASE j < i
    BY <1>1, <1>4, <1>7, <2>1, <2>2
  <2>3. CASE ~(j < i)
    <3>1. j - Len(a) \in 1 .. Len(s) - i /\ i + (j - Len(a)) = j + 1
      BY <1>1, <2>1, <2>3
    <3>2. r[j] = b[j - Len(a)]
      BY <1>1, <1>4, <1>5, <1>7, <2>1, <2>3
    <3> QED
      BY <1>5, <2>3, <3>1, <3>2
  <2> QED
    BY <2>2, <2>3
<1> QED
  BY <1>1, <1>4, <1>5, <1>6, <1>7, <1>8

LEMMA RegisteredIds ==
    ASSUME WebInv
    PROVE  /\ \A j \in DOMAIN clients : clients[j].id \in Nat /\ clients[j].id < next_id
           /\ \A j \in DOMAIN snapshot : snapshot[j].id \in Nat /\ snapshot[j].id < next_id
<1>1. ASSUME NEW cs, Registered(cs), NEW j \in DOMAIN cs
      PROVE  cs[j].id \in Nat /\ cs[j].id < next_id
  <2>1. cs \in Seq(Attached)
    BY <1>1 DEF Registered
  <2>2. cs[j] \in Attached
    BY <1>1, <2>1, LenProperties, ElementOfSeq
  <2> QED
    BY <1>1, <2>2 DEF Registered, Attached
<1> QED
  BY <1>1 DEF WebInv

LEMMA RetainRegistered ==
    ASSUME WebInv, NEW i \in DOMAIN clients
    PROVE  Registered(RemoveAt(clients, i))
<1>1. PICK r : r = RemoveAt(clients, i)
  OBVIOUS
<1>2. /\ r \in Seq(Attached) /\ Len(r) = Len(clients) - 1
      /\ \A j \in 1 .. Len(r) : r[j] = IF j < i THEN clients[j] ELSE clients[j + 1]
  BY <1>1, RemovedAt DEF WebInv, Registered
<1>3. DOMAIN r = 1 .. Len(r) /\ DOMAIN clients = 1 .. Len(clients) /\ Len(clients) \in Nat
  BY <1>2 DEF WebInv, Registered
<1> DEFINE was(j) == IF j < i THEN j ELSE j + 1
<1>4. ASSUME NEW j \in DOMAIN r
      PROVE  was(j) \in DOMAIN clients /\ r[j] = clients[was(j)]
  BY <1>2, <1>3
<1>5. ASSUME NEW j \in DOMAIN r, NEW l \in DOMAIN r, was(j) = was(l)
      PROVE  j = l
  BY <1>3, <1>5
<1> HIDE DEF was
<1>6. \A j \in DOMAIN r : r[j].id < next_id
  BY <1>4 DEF WebInv, Registered
<1>7. \A j, l \in DOMAIN r : r[j].id = r[l].id => j = l
  BY <1>4, <1>5 DEF WebInv, Registered
<1> QED
  BY <1>1, <1>2, <1>6, <1>7 DEF Registered

LEMMA AttachStep ==
    ASSUME WebInv, NEW client \in Clients, Attach(client)
    PROVE  WebInv'
<1>1. PICK r : r = Append(clients, [id |-> next_id, client |-> client])
  OBVIOUS
<1>2. /\ next_id' = next_id + 1 /\ clients' = r /\ listeners' = TRUE
      /\ next_id < MaxSources /\ UNCHANGED <<snapshot, delivered, firing, heard>>
  BY <1>1 DEF Attach
<1>3. next_id \in Nat /\ next_id' \in Nat /\ next_id' <= MaxSources /\ next_id < next_id'
  BY <1>2, WebAssumption DEF WebInv
<1>4. [id |-> next_id, client |-> client] \in Attached
  BY <1>3 DEF Attached
<1>5. /\ r \in Seq(Attached) /\ Len(r) = Len(clients) + 1
      /\ \A j \in 1 .. Len(clients) : r[j] = clients[j]
      /\ r[Len(clients) + 1].id = next_id
      /\ Len(clients) \in Nat /\ DOMAIN clients = 1 .. Len(clients)
  BY <1>1, <1>4 DEF WebInv, Registered
<1>6. Registered(clients)'
  <2>1. \A j \in DOMAIN r : r[j].id < next_id'
    <3>1. \A j \in DOMAIN clients : clients[j].id \in Nat /\ clients[j].id < next_id
      BY RegisteredIds
    <3> QED
      BY <1>2, <1>3, <1>5, <3>1
  <2>2. \A j, l \in DOMAIN r : r[j].id = r[l].id => j = l
    <3>1. \A j \in DOMAIN clients : clients[j].id # next_id
      BY <1>3, RegisteredIds
    <3>2. \A j, l \in DOMAIN clients : clients[j].id = clients[l].id => j = l
      BY DEF WebInv, Registered
    <3> QED
      BY <1>5, <3>1, <3>2
  <2> QED
    BY <1>2, <1>5, <2>1, <2>2 DEF Registered
<1>7. r # <<>>
  BY <1>5
<1>8. Registered(snapshot)'
  <2>1. \A j \in DOMAIN snapshot : snapshot[j].id \in Nat /\ snapshot[j].id < next_id
    BY RegisteredIds
  <2>2. \A j \in DOMAIN snapshot : snapshot[j].id < next_id'
    BY <1>2, <1>3, <2>1
  <2> QED
    BY <1>2, <2>2 DEF WebInv, Registered
<1> QED
  BY <1>2, <1>3, <1>6, <1>7, <1>8 DEF WebInv, HeardOf

LEMMA DetachStep ==
    ASSUME WebInv, NEW id, Detach(id)
    PROVE  WebInv'
<1>1. PICK i \in DOMAIN clients : clients' = RemoveAt(clients, i)
  BY DEF Detach, Retain
<1>2. /\ listeners' = (listeners /\ clients' # <<>>)
      /\ UNCHANGED <<next_id, snapshot, delivered, firing, heard>>
  BY DEF Detach
<1>3. Registered(clients)'
  BY <1>1, <1>2, RetainRegistered DEF Registered
<1>4. clients # <<>>
  BY <1>1
<1> QED
  BY <1>2, <1>3, <1>4 DEF WebInv, HeardOf, Registered

LEMMA BroadcastingStep ==
    ASSUME WebInv, NEW ev \in {"Focus", "Online"}, Broadcasting(ev),
           UNCHANGED <<next_id, clients, listeners>>
    PROVE  WebInv'
<1>1. /\ firing' = ev /\ snapshot' = clients /\ delivered' = 0
      /\ heard' = [id \in Sources |-> 0] /\ firing' # None
  BY NoneAssumption DEF Broadcasting
<1>2. Len(clients) \in Nat
  BY DEF WebInv, Registered
<1> QED
  BY <1>1, <1>2 DEF WebInv, Registered, HeardOf

LEMMA DeliverStep ==
    ASSUME WebInv, Deliver
    PROVE  WebInv'
<1>1. PICK at : at = snapshot[delivered + 1].id
  OBVIOUS
<1>2. /\ firing # None /\ delivered < Len(snapshot) /\ delivered' = delivered + 1
      /\ heard' = [heard EXCEPT ![at] = @ + 1]
      /\ UNCHANGED <<next_id, clients, listeners, firing, snapshot>>
  BY <1>1 DEF Deliver, Recipients
<1>3. /\ Len(snapshot) \in Nat /\ delivered \in Nat /\ delivered + 1 \in DOMAIN snapshot
      /\ DOMAIN snapshot = 1 .. Len(snapshot)
  BY <1>2 DEF WebInv, Registered
<1>4. at \in Nat /\ at < next_id /\ at \in Sources
  <2>1. at \in Nat /\ at < next_id
    BY <1>1, <1>3, RegisteredIds DEF WebInv
  <2>2. next_id \in Nat /\ next_id <= MaxSources /\ MaxSources \in Nat
    BY WebAssumption DEF WebInv
  <2> QED
    BY <2>1, <2>2 DEF Sources
<1>5. ~ \E j \in 1 .. delivered : snapshot[j].id = at
  <2>1. \A i, j \in DOMAIN snapshot : snapshot[i].id = snapshot[j].id => i = j
    BY Zenon DEF WebInv, Registered
  <2>2. \A j \in 1 .. delivered : j \in DOMAIN snapshot /\ j # delivered + 1
    BY <1>3
  <2> QED
    BY <1>1, <1>3, <2>1, <2>2, Zenon
<1>6. heard[at] = 0 /\ heard'[at] = 1
  <2>1. heard \in [Sources -> Nat] /\ heard[at] = HeardOf(at)
    BY <1>4, Zenon DEF WebInv
  <2>2. HeardOf(at) = 0
    BY <1>5, Zenon DEF HeardOf
  <2> QED
    BY <1>2, <1>4, <2>1, <2>2
<1>7. ASSUME NEW id \in Sources
      PROVE  heard'[id] = HeardOf(id)'
  <2>1. CASE id = at
    BY <1>1, <1>2, <1>3, <1>6, <2>1 DEF HeardOf
  <2>2. CASE id # at
    <3>1. heard'[id] = heard[id]
      BY <1>2, <2>2 DEF WebInv
    <3>2. (\E j \in 1 .. delivered + 1 : snapshot[j].id = id)
            <=> \E j \in 1 .. delivered : snapshot[j].id = id
      BY <1>1, <1>3, <2>2
    <3> QED
      BY <1>2, <3>1, <3>2 DEF WebInv, HeardOf
  <2> QED
    BY <2>1, <2>2
<1>8. heard' \in [Sources -> Nat]
  BY <1>2, <1>4, <1>6 DEF WebInv
<1>9. delivered' \in 0 .. Len(snapshot')
  BY <1>2, <1>3
<1> QED
  BY <1>2, <1>7, <1>8, <1>9 DEF WebInv, Registered

LEMMA ReturnStep ==
    ASSUME WebInv, Return
    PROVE  WebInv'
<1>1. /\ delivered >= Len(snapshot)
      /\ UNCHANGED <<next_id, clients, listeners, snapshot, delivered, heard>>
  BY DEF Return, Recipients
<1>2. delivered = Len(snapshot)
  BY <1>1 DEF WebInv, Registered
<1> QED
  BY <1>1, <1>2 DEF WebInv, Registered, HeardOf

LEMMA WebInductive == Spec => []WebInv
<1>1. Init => WebInv
  <2> SUFFICES ASSUME Init PROVE WebInv
    OBVIOUS
  <2>1. /\ next_id = 0 /\ clients = <<>> /\ snapshot = <<>> /\ listeners = FALSE
        /\ firing = None /\ delivered = 0 /\ heard = [id \in Sources |-> 0]
    BY DEF Init
  <2>2. Registered(<<>>)
    BY DEF Registered
  <2>3. \A id \in Sources : heard[id] = HeardOf(id)
    BY <2>1 DEF HeardOf
  <2>4. heard \in [Sources -> Nat]
    BY <2>1
  <2>5. delivered \in 0 .. Len(snapshot) /\ delivered = Len(snapshot)
    BY <2>1
  <2>6. listeners = (clients # <<>>)
    BY <2>1
  <2>7. next_id \in Nat /\ next_id <= MaxSources
    BY <2>1, WebAssumption
  <2> QED
    BY <2>1, <2>2, <2>3, <2>4, <2>5, <2>6, <2>7 DEF WebInv
<1>2. ASSUME WebInv, [Next]_webVars
      PROVE  WebInv'
  <2>1. ASSUME NEW ev \in {"Focus", "Online"}, WindowEvent(ev)
        PROVE  WebInv'
    BY <1>2, <2>1, BroadcastingStep DEF WindowEvent
  <2>2. CASE VisibilityChange
    <3>1. UNCHANGED <<next_id, clients, listeners>>
      BY <2>2 DEF VisibilityChange
    <3>2. CASE Broadcasting("Focus")
      BY <1>2, <3>1, <3>2, BroadcastingStep
    <3>3. CASE UNCHANGED <<firing, snapshot, delivered, heard>>
      BY <1>2, <3>1, <3>3 DEF WebInv, Registered, HeardOf
    <3> QED
      BY <2>2, <3>2, <3>3 DEF VisibilityChange
  <2>3. CASE UNCHANGED webVars
    BY <1>2, <2>3 DEF webVars, WebInv, Registered, HeardOf
  <2> QED
    BY <1>2, <2>1, <2>2, <2>3, AttachStep, DetachStep, DeliverStep, ReturnStep DEF Next
<1> QED
  BY <1>1, <1>2, PTL DEF Spec

\* The page has the DOM listeners exactly while a source is attached, and no
\* two sources share an id, for any number of sources attached and dropped in
\* any order, also during a delivery (Registry, swr-runtime-web).
THEOREM ListenersFollow == Spec => []ListenersFollowSources
<1>1. WebInv => ListenersFollowSources
  BY DEF WebInv, Registered, ListenersFollowSources
<1> QED
  BY <1>1, WebInductive, PTL

\* Every source attached when an event fired has heard it once when the
\* delivery ends, and no other has (broadcast_all, swr-runtime-web).
THEOREM EventsReachEveryone == Spec => []EveryoneHearsOnce
<1>1. WebInv => EveryoneHearsOnce
  <2> SUFFICES ASSUME WebInv, firing = None, NEW id \in Sources
      PROVE  heard[id] = IF id \in Ids(snapshot) THEN 1 ELSE 0
    BY DEF EveryoneHearsOnce
  <2>1. delivered = Len(snapshot) /\ DOMAIN snapshot = 1 .. Len(snapshot)
    BY DEF WebInv, Registered
  <2>2. id \in Ids(snapshot) <=> \E j \in 1 .. delivered : snapshot[j].id = id
    BY <2>1 DEF Ids
  <2> QED
    BY <2>2 DEF WebInv, HeardOf
<1> QED
  BY <1>1, WebInductive, PTL
=============================================================================
