------------------------------- MODULE TwinFeed -------------------------------
(***************************************************************************)
(* The digital twin's live feed, for one entity: the twin engine           *)
(* (twin-engine/twin_service.py) stores each message it receives and       *)
(* starts a task that sends it to every connected client; one of them is   *)
(* the backend's relay (services/twin_client.py), which passes it on to    *)
(* the browsers.  Tasks of one event loop interleave where a send waits    *)
(* for a socket to drain; a socket's waiters go on in the order they came. *)
(* A message is its number; a lost one was never received.                 *)
(***************************************************************************)
EXTENDS Integers, SequencesExt

CONSTANTS
    Viewer,         \* clients of the twin engine's own socket
    Relay,          \* the backend's connection to it
    Browser,        \* clients of the backend
    MaxMessages,    \* bound: messages received
    MaxCasts        \* bound: broadcasts not yet over

ASSUME TwinAssumption ==
    /\ Relay \notin Viewer /\ Viewer \cap Browser = {}
    /\ MaxMessages \in Nat /\ MaxCasts \in Nat

VARIABLES
    received,       \* the last message received
    store,          \* the entity's value in Redis
    ready,          \* broadcasts scheduled on the loop
    casts,          \* broadcasts under way: message, socket waited for, sockets to come
    clients,        \* _connected_clients, in the order the set is walked
    open,           \* sockets that are open
    inbox,          \* messages on their way to the relay
    pages,          \* the browsers connected to the backend
    seen,           \* the message each viewer and browser got last
    since,          \* history: what had been received when it connected
    reshuffled      \* history: the clients changed under a broadcast

twinVars == <<received, store, ready, casts, clients, open, inbox, pages, seen,
              since, reshuffled>>

Client == Viewer \cup {Relay}
Screen == Viewer \cup Browser

TwinInit ==
    /\ received = 0 /\ store = 0
    /\ ready = << >> /\ casts = << >>
    /\ clients = << >> /\ open = {} /\ inbox = << >> /\ pages = {}
    /\ seen = [x \in Screen |-> 0] /\ since = [x \in Screen |-> 0]
    /\ reshuffled = FALSE

\* A wrong Receive: nothing is stored for nobody.
ReceiveForClients ==
    /\ received < MaxMessages /\ Len(ready) + Len(casts) < MaxCasts
    /\ received' = received + 1
    /\ store' = IF clients = << >> THEN store ELSE received'
    /\ ready' = Append(ready, received')
    /\ UNCHANGED <<casts, clients, open, inbox, pages, seen, since, reshuffled>>

\* _on_mqtt_message, on the network's thread: the message is stored, and its broadcast
\* scheduled.
Receive ==
    /\ received < MaxMessages /\ Len(ready) + Len(casts) < MaxCasts
    /\ received' = received + 1
    /\ store' = received'
    /\ ready' = Append(ready, received')
    /\ UNCHANGED <<casts, clients, open, inbox, pages, seen, since, reshuffled>>

\* A message is written to a socket, or the socket is closed and the send raises.
Send(c, message) ==
    IF c \notin open THEN UNCHANGED <<inbox, seen>>
    ELSE IF c = Relay THEN inbox' = Append(inbox, message) /\ UNCHANGED seen
    ELSE seen' = [seen EXCEPT ![c] = message] /\ UNCHANGED inbox

\* A broadcast starts on a copy of the clients, with the first of them.
Begin ==
    /\ ready # << >>
    /\ ready' = Tail(ready)
    /\ IF clients = << >> THEN UNCHANGED <<casts, inbox, seen>>
       ELSE /\ casts' = Append(casts, [message |-> Head(ready), at |-> Head(clients),
                                       rest |-> Tail(clients)])
            /\ Send(Head(clients), Head(ready))
    /\ reshuffled' = (reshuffled /\ casts # << >>)
    /\ UNCHANGED <<received, store, clients, open, pages, since>>

\* A broadcast goes on once its socket has drained, for it and for those before it.
Proceed(i) ==
    /\ \A j \in 1..i-1 : casts[j].at # casts[i].at
    /\ LET cast == casts[i] IN
         IF cast.rest = << >> THEN casts' = RemoveAt(casts, i) /\ UNCHANGED <<inbox, seen>>
         ELSE /\ casts' = [casts EXCEPT ![i].at = Head(cast.rest), ![i].rest = Tail(cast.rest)]
              /\ Send(Head(cast.rest), cast.message)
    /\ UNCHANGED <<received, store, ready, clients, open, pages, since, reshuffled>>

IsListed(c) == \E i \in DOMAIN casts : c = casts[i].at \/ c \in ToSet(casts[i].rest)

\* ws_endpoint accepts a client: the set may be walked in another order from now on.
\* A client comes back only after the broadcasts to its old socket.
Join(c) ==
    /\ c \notin ToSet(clients) /\ ~IsListed(c)
    /\ clients' \in SetToSeqs(ToSet(clients) \cup {c})
    /\ open' = open \cup {c}
    /\ IF c = Relay THEN /\ since' = [x \in Screen |-> IF x \in pages THEN received ELSE since[x]]
                         /\ UNCHANGED seen
       ELSE /\ since' = [since EXCEPT ![c] = received]
            /\ seen' = [seen EXCEPT ![c] = 0]
    /\ reshuffled' = (reshuffled \/ casts # << >>)
    /\ UNCHANGED <<received, store, ready, casts, inbox, pages>>

\* A connection is lost, with what was on its way to the relay.
CloseSocket(c) ==
    /\ c \in open
    /\ open' = open \ {c}
    /\ inbox' = IF c = Relay THEN << >> ELSE inbox
    /\ UNCHANGED <<received, store, ready, casts, clients, pages, seen, since, reshuffled>>

\* A closed socket is taken out of the set, by its endpoint or by a broadcast.
Discard(c) ==
    /\ c \notin open
    /\ \E i \in DOMAIN clients : clients[i] = c /\ clients' = RemoveAt(clients, i)
    /\ reshuffled' = (reshuffled \/ casts # << >>)
    /\ UNCHANGED <<received, store, ready, casts, open, inbox, pages, seen, since>>

\* relay_forever passes one message on to every browser before it takes the next.
PassOn ==
    /\ inbox # << >>
    /\ seen' = [x \in Screen |-> IF x \in pages THEN Head(inbox) ELSE seen[x]]
    /\ inbox' = Tail(inbox)
    /\ UNCHANGED <<received, store, ready, casts, clients, open, pages, since, reshuffled>>

\* live_feed
Register(b) ==
    /\ b \notin pages
    /\ pages' = pages \cup {b}
    /\ since' = [since EXCEPT ![b] = received]
    /\ seen' = [seen EXCEPT ![b] = 0]
    /\ UNCHANGED <<received, store, ready, casts, clients, open, inbox, reshuffled>>

Unregister(b) ==
    /\ b \in pages
    /\ pages' = pages \ {b}
    /\ UNCHANGED <<received, store, ready, casts, clients, open, inbox, seen, since, reshuffled>>

TwinNext ==
    \/ Receive \/ Begin \/ PassOn
    \/ \E i \in DOMAIN casts : Proceed(i)
    \/ \E c \in Client : Join(c) \/ CloseSocket(c) \/ Discard(c)
    \/ \E b \in Browser : Register(b) \/ Unregister(b)

TwinSpec == TwinInit /\ [][TwinNext]_twinVars

-----------------------------------------------------------------------------
\* The store has the last message; no screen is ahead of it; and once the broadcasts
\* are over, every screen connected since before the last message shows it, though
\* broadcasts overlap (twin_service.py:63-76), unless clients came or went under one:
\* their copies then differ, and an older message may overtake a newer one.
FeedFollowsTheStore ==
    /\ store = received
    /\ \A x \in Screen : seen[x] <= store
    /\ ready = << >> /\ casts = << >> /\ ~reshuffled =>
         /\ \A v \in Viewer \cap open : since[v] < received => seen[v] = received
         /\ Relay \in open /\ inbox = << >> =>
              \A b \in pages : since[b] < received => seen[b] = received

=============================================================================
