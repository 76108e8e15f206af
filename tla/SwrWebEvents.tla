---------------------------- MODULE SwrWebEvents ----------------------------
(***************************************************************************)
(* The shared event source of swr-runtime-web: the registry of attached     *)
(* clients, the one set of DOM listeners it keeps while it is not empty,    *)
(* and the delivery of a browser event to every client.  The page has one   *)
(* thread, but a client's broadcast() may attach and drop sources before it *)
(* returns, in the middle of a delivery.                                    *)
(***************************************************************************)
EXTENDS Naturals, Sequences, SequencesExt

CONSTANTS
    None,
    Clients,        \* clients that attach; one may attach several times
    MaxSources,     \* bound: sources ever attached
    MaxEvents       \* bound: events the browser fires

ASSUME WebAssumption == {MaxSources, MaxEvents} \subseteq Nat
ASSUME NoneAssumption == None \notin {"Focus", "Online"}

VARIABLES
    next_id,        \* Registry.next_id
    clients,        \* Registry.clients
    listeners,      \* whether the DOM listeners are registered
    visible,        \* document.visibilityState
    firing,         \* the event being delivered, or None
    snapshot,       \* broadcast_all's copy of the clients
    delivered,      \* how many calls of broadcast() the delivery has made
    heard,          \* how often each source's client got the latest event
    events          \* events fired so far

webVars == <<next_id, clients, listeners, visible, firing, snapshot, delivered,
             heard, events>>

Sources == {id \in 0 .. MaxSources : id < MaxSources}

Ids(cs) == {cs[i].id : i \in DOMAIN cs}

Init ==
    /\ next_id = 0
    /\ clients = <<>>
    /\ listeners = FALSE
    /\ visible = TRUE
    /\ firing = None
    /\ snapshot = <<>>
    /\ delivered = 0
    /\ heard = [id \in Sources |-> 0]
    /\ events = 0

-----------------------------------------------------------------------------
\* WebEventSource::attach, at any time, from a broadcast() too.
Attach(client) ==
    /\ next_id < MaxSources
    /\ next_id' = next_id + 1
    /\ clients' = Append(clients, [id |-> next_id, client |-> client])
    /\ listeners' = TRUE
    /\ UNCHANGED <<visible, firing, snapshot, delivered, heard, events>>

\* retain(): the client of that id goes, the others keep their order.  There is
\* one, as no two have the same id.
Retain(id) == \E i \in DOMAIN clients :
    clients[i].id = id /\ clients' = RemoveAt(clients, i)

\* Mutant: the listeners go with the first source that is dropped.
DetachDropsListeners(id) ==
    /\ Retain(id)
    /\ listeners' = FALSE
    /\ UNCHANGED <<next_id, visible, firing, snapshot, delivered, heard, events>>

\* WebEventSource::drop
Detach(id) ==
    /\ Retain(id)
    /\ listeners' = (listeners /\ clients' # <<>>)
    /\ UNCHANGED <<next_id, visible, firing, snapshot, delivered, heard, events>>

\* broadcast_all, up to the loop.
Broadcasting(ev) ==
    /\ firing' = ev
    /\ snapshot' = clients
    /\ delivered' = 0
    /\ heard' = [id \in Sources |-> 0]

\* The browser runs a listener when the one before has returned.
Fires == firing = None /\ events < MaxEvents /\ events' = events + 1

WindowEvent(ev) ==
    /\ Fires
    /\ listeners
    /\ Broadcasting(ev)
    /\ UNCHANGED <<next_id, clients, listeners, visible>>

\* Only the transition back to visible counts as a focus event.
VisibilityChange ==
    /\ Fires
    /\ visible' = ~visible
    /\ IF listeners /\ visible' THEN Broadcasting("Focus")
       ELSE UNCHANGED <<firing, snapshot, delivered, heard>>
    /\ UNCHANGED <<next_id, clients, listeners>>

\* Mutant: the loop walks the registry itself.
LiveRecipients == clients

Recipients == snapshot

Deliver ==
    /\ firing # None
    /\ delivered < Len(Recipients)
    /\ heard' = [heard EXCEPT ![Recipients[delivered + 1].id] = @ + 1]
    /\ delivered' = delivered + 1
    /\ UNCHANGED <<next_id, clients, listeners, visible, firing, snapshot, events>>

Return ==
    /\ firing # None
    /\ delivered >= Len(Recipients)
    /\ firing' = None
    /\ UNCHANGED <<next_id, clients, listeners, visible, snapshot, delivered, heard, events>>

Next ==
    \/ \E client \in Clients : Attach(client)
    \/ \E id \in Ids(clients) : Detach(id)
    \/ \E ev \in {"Focus", "Online"} : WindowEvent(ev)
    \/ VisibilityChange
    \/ Deliver
    \/ Return

Spec == Init /\ [][Next]_webVars

-----------------------------------------------------------------------------
\* The listeners are registered exactly while a source is attached, and no two
\* sources share an id, whatever the order in which sources come and go.
ListenersFollowSources ==
    /\ listeners = (clients # <<>>)
    /\ \A i, j \in DOMAIN clients : clients[i].id = clients[j].id => i = j

\* lib.rs: "Every attached client receives every event": when a delivery ends,
\* every source that was attached when it began has had the event once, and no
\* other has, whatever was attached and dropped in the middle of it.
EveryoneHearsOnce ==
    firing = None /\ events > 0 =>
        \A id \in Sources : heard[id] = IF id \in Ids(snapshot) THEN 1 ELSE 0
=============================================================================
