------------------------------ MODULE NodeSessions ------------------------------
(***************************************************************************)
(* Events to the sessions of the WebSocket and TCP servers: Node::set      *)
(* (node.cpp) stores a value and reports it on the writer's thread, the    *)
(* subscriptions (subscribe_service.cpp) read the node again and post an   *)
(* event, and the server's thread sends what is posted to the connection   *)
(* that has the session's key (node_ws_server.cpp, node_tcp_server.cpp),   *)
(* the address of its session, which returns.                              *)
(*                                                                         *)
(* The value of a node is the number of the write it comes from.           *)
(***************************************************************************)
EXTENDS Integers, Sequences, FiniteSets

CONSTANTS
  Nodes,
  Parent,           \* of a node: itself if it is at the top
  Later,            \* nodes that are made while the servers run
  Writers, Clients, Resting,
  Wanted,           \* what is subscribed to: nodes, each with whether to bubble
  Addresses,        \* of the sessions of connections
  MaxWrites, MaxConnects, MaxSubscriptions

VARIABLES
  value, nodes, watching,
  key,        \* of each client's connection; 0 if it has none
  keys,       \* how many connections there were
  subs,       \* subscriptions: [id, key, node, bubble, since, covers]
  ids,
  writing,    \* per writer: the node that was set, the node at which it is
              \* reported, the observers still to be called, the event to post
  posted,     \* events on their way to the server's thread
  heard,      \* what each client has heard since it connected
  asked,      \* the nodes each client has subscribed to since then
  joined,     \* the writes there were when it connected
  writes

delivery == <<value, nodes, watching, key, keys, subs, ids, writing, posted, heard, asked, joined, writes>>

Init ==
  /\ value = [n \in Nodes |-> 0] /\ nodes = Nodes \ Later /\ watching = {}
  /\ key = [c \in Clients |-> 0] /\ keys = 0
  /\ subs = {} /\ ids = 0
  /\ writing = [w \in Writers |-> Resting] /\ posted = <<>>
  /\ heard = [c \in Clients |-> <<>>] /\ asked = [c \in Clients |-> {}]
  /\ joined = [c \in Clients |-> 0] /\ writes = 0

\* The node and those above it, the least set that has with a node its parent.
Up(n) == {m \in Nodes : \A S \in SUBSET Nodes : n \in S /\ (\A k \in S : Parent[k] \in S) => m \in S}
Below(n) == {m \in nodes : n \in Up(m)}

-----------------------------------------------------------------------------
(* Connections and subscriptions.                                          *)

\* What is remembered of a connection.
Forget(c, now) ==
  /\ heard' = [heard EXCEPT ![c] = <<>>]
  /\ asked' = [asked EXCEPT ![c] = {}]
  /\ joined' = [joined EXCEPT ![c] = now]

\* The key is an address that nobody has, although somebody may have had it.
Connect(c) ==
  /\ key[c] = 0 /\ keys < MaxConnects
  /\ keys' = keys + 1
  /\ \E k \in Addresses :
       /\ \A d \in Clients : key[d] # k
       /\ key' = [key EXCEPT ![c] = k]
  /\ Forget(c, writes)
  /\ UNCHANGED <<value, nodes, watching, subs, ids, writing, posted, writes>>

\* removeSession.
Disconnect(c) ==
  /\ key[c] # 0
  /\ subs' = {s \in subs : s.key # key[c]}
  /\ key' = [key EXCEPT ![c] = 0]
  /\ Forget(c, 0)
  /\ UNCHANGED <<value, nodes, watching, keys, ids, writing, posted, writes>>

\* Mutant: only the node itself is watched.
WatchOne(n) == {n}

\* watchAll.
WatchAll(n) == Below(n)

Subscribe(c, n, bubble) ==
  /\ key[c] # 0 /\ n \in nodes /\ ids < MaxSubscriptions
  /\ ids' = ids + 1
  /\ subs' = subs \cup {[id |-> ids + 1, key |-> key[c], node |-> n, bubble |-> bubble, since |-> writes,
                         covers |-> IF bubble THEN Below(n) ELSE {n}]}
  /\ watching' = IF bubble THEN watching \cup WatchAll(n) ELSE watching
  /\ asked' = [asked EXCEPT ![c] = @ \cup {n}]
  /\ UNCHANGED <<value, nodes, key, keys, writing, posted, heard, joined, writes>>

Unsubscribe(c, n) ==
  /\ key[c] # 0 /\ \E s \in subs : s.key = key[c] /\ s.node = n
  /\ subs' = {s \in subs : ~ (s.key = key[c] /\ s.node = n)}
  /\ UNCHANGED <<value, nodes, watching, key, keys, ids, writing, posted, heard, asked, joined, writes>>

\* A node made later is not watched.
MakeNode(n) ==
  /\ n \in Later \ nodes /\ Parent[n] \in nodes
  /\ nodes' = nodes \cup {n}
  /\ UNCHANGED <<value, watching, key, keys, subs, ids, writing, posted, heard, asked, joined, writes>>

-----------------------------------------------------------------------------
(* Node::set.                                                              *)

\* The values are swapped under the lock.
Set(w, n) ==
  /\ writing[w] = Resting /\ n \in nodes /\ writes < MaxWrites
  /\ writes' = writes + 1
  /\ value' = [value EXCEPT ![n] = writes + 1]
  /\ writing' = [writing EXCEPT ![w] = [node |-> n, at |-> n, bubbles |-> FALSE, todo |-> {}, step |-> "trigger", event |-> <<>>]]
  /\ UNCHANGED <<nodes, watching, key, keys, subs, ids, posted, heard, asked, joined>>

\* trigger takes a copy of the connections of the signal.
Trigger(w) ==
  /\ writing[w] # Resting /\ writing[w].step = "trigger"
  /\ writing' = [writing EXCEPT
       ![w].todo = {s.id : s \in {x \in subs : x.node = writing[w].at /\ x.bubble = writing[w].bubbles}},
       ![w].step = "call"]
  /\ UNCHANGED <<value, nodes, watching, key, keys, subs, ids, posted, heard, asked, joined, writes>>

Writes(w) == writing[w] # Resting /\ writing[w].step = "call"
First(ids0) == CHOOSE i \in ids0 : \A j \in ids0 : i <= j

\* An observer that is gone is passed over; another is called, with no lock held.
Call(w) ==
  /\ Writes(w) /\ writing[w].todo # {}
  /\ LET id == First(writing[w].todo)
         mine == {s \in subs : s.id = id}
         node == writing[w].node
     IN  writing' = [writing EXCEPT
           ![w].todo = @ \ {id},
           ![w].step = IF mine = {} THEN "call" ELSE "read",
           ![w].event = IF mine = {} THEN <<>>
                        ELSE LET s == CHOOSE x \in mine : TRUE
                             IN  <<[key |-> s.key, of |-> s.node, node |-> node, value |-> 0, looked |-> writes]>>]
  /\ UNCHANGED <<value, nodes, watching, key, keys, subs, ids, posted, heard, asked, joined, writes>>

\* The callback reads the node.
Read(w) ==
  /\ writing[w] # Resting /\ writing[w].step = "read"
  /\ writing' = [writing EXCEPT ![w].step = "post",
                               ![w].event = <<[@[1] EXCEPT !.value = value[writing[w].node]]>>]
  /\ UNCHANGED <<value, nodes, watching, key, keys, subs, ids, posted, heard, asked, joined, writes>>

Post(w) ==
  /\ writing[w] # Resting /\ writing[w].step = "post"
  /\ posted' = posted \o writing[w].event
  /\ writing' = [writing EXCEPT ![w].step = "call", ![w].event = <<>>]
  /\ UNCHANGED <<value, nodes, watching, key, keys, subs, ids, heard, asked, joined, writes>>

\* activate: at the node if it is watched, then from parent to parent as long
\* as they are.
Bubble(w) ==
  /\ Writes(w) /\ writing[w].todo = {}
  /\ LET at == writing[w].at
         next == IF writing[w].bubbles THEN {Parent[at]} \ {at} ELSE {at}
     IN  writing' = [writing EXCEPT ![w] =
           IF next \cap watching = {} THEN Resting
           ELSE [@ EXCEPT !.at = CHOOSE n \in next : TRUE, !.bubbles = TRUE, !.step = "trigger"]]
  /\ UNCHANGED <<value, nodes, watching, key, keys, subs, ids, posted, heard, asked, joined, writes>>

\* postToSession, on the server's thread.
Deliver ==
  /\ posted # <<>>
  /\ posted' = Tail(posted)
  /\ heard' = [c \in Clients |-> IF key[c] = Head(posted).key THEN Append(heard[c], Head(posted)) ELSE heard[c]]
  /\ UNCHANGED <<value, nodes, watching, key, keys, subs, ids, writing, asked, joined, writes>>

Next ==
  \/ \E c \in Clients :
       \/ Connect(c) \/ Disconnect(c)
       \/ \E n \in Nodes : Unsubscribe(c, n)
       \/ \E n \in Nodes, bubble \in BOOLEAN : <<n, bubble>> \in Wanted /\ Subscribe(c, n, bubble)
  \/ \E n \in Nodes : MakeNode(n) \/ \E w \in Writers : Set(w, n)
  \/ \E w \in Writers : Trigger(w) \/ Call(w) \/ Read(w) \/ Post(w) \/ Bubble(w)
  \/ Deliver

Spec == Init /\ [][Next]_delivery

-----------------------------------------------------------------------------

Quiet == posted = <<>> /\ \A w \in Writers : writing[w] = Resting
Events(c) == {heard[c][i] : i \in DOMAIN heard[c]}

\* When nothing is under way a session has heard the last value of what it was
\* subscribed to when that was written, by whichever thread (Node::set,
\* SubscribeService::subscribe).
LatestHeard ==
  Quiet => \A c \in Clients, s \in subs : s.key = key[c] =>
    \A n \in s.covers : value[n] > s.since =>
      \E e \in Events(c) : e.of = s.node /\ e.node = n /\ e.value = value[n]

\* A client hears of what it asked for; of anything else only what an observer
\* had been found alive for before it connected, of a session that had its key
\* (Object::trigger, removeSession, postToSession).
NoStrangers == \A c \in Clients : \A e \in Events(c) : e.of \in asked[c] \/ e.looked <= joined[c]

\* The last event a client hears of a node has its last value.
LastIsLatest ==
  Quiet => \A c \in Clients, s \in subs : s.key = key[c] /\ ~ s.bubble /\ value[s.node] > s.since =>
    LET of == {i \in DOMAIN heard[c] : heard[c][i].of = s.node /\ heard[c][i].node = s.node}
    IN  \E i \in of : heard[c][i].value = value[s.node] /\ \A j \in of : j <= i

\* "Fires for each descendant change" (docs/SERVICE.md): also below nodes made
\* after the subscription.
AllBelowHeard ==
  Quiet => \A c \in Clients, s \in subs : s.key = key[c] /\ s.bubble =>
    \A n \in Below(s.node) : value[n] > s.since => \E e \in Events(c) : e.node = n /\ e.value = value[n]
=============================================================================
