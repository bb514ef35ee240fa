---------------------------- MODULE RemoteClient ----------------------------
(***************************************************************************)
(* What the JavaScript clients of the node protocol have in common: their  *)
(* sockets and the server at the other end, the promises of calls under    *)
(* way, the watched paths, and the timer that reconnects.  The clients     *)
(* themselves are WsClient (ve-sdk/src/ws.ts), PageClient (veservice.js)   *)
(* and StreamClient (ve-sdk/src/bin.ts), over these variables.             *)
(*                                                                         *)
(* A script is one thread: every action is one event handler, run to its   *)
(* end together with the promise continuations it releases.  Sockets are   *)
(* external: reliable and ordered, failing at any time.  A session ends    *)
(* together with its socket - that the server learns of it later, and      *)
(* reuses keys, is BinSession's subject.                                   *)
(***************************************************************************)
EXTENDS Integers, Sequences, FiniteSets, SequencesExt

CONSTANTS
  Paths,       \* nodes that may be watched
  Handlers,    \* callbacks that may watch them
  MaxSockets,  \* bound on sockets made
  MaxCalls,    \* bound on requests with a number
  MaxQueued,   \* bound on requests under way while the owner watches
  Patient,     \* the owner connects only when nothing of the last time is left
  Torn         \* a connection may break in the middle of a frame

Sockets == 1 .. MaxSockets
Ids == 1 .. MaxCalls
Modes == {"value", "tree"}

ASSUME RemoteClientAssumption ==
  /\ {MaxSockets, MaxCalls, MaxQueued} \subseteq Nat
  /\ {Patient, Torn} \subseteq BOOLEAN

VARIABLES
  sock,      \* per socket: new, connecting, open, closing, closed
  inbox,     \* per session, requests on their way to the server
  outbox,    \* per session, the numbers of answers on their way back
  served,    \* per session and path, the modes of its SubEntry objects
  cur,       \* the socket the client holds, 0 without one
  flag,      \* isConnected, _connected
  wanted,    \* ~ intentionalClose, _autoReconnect
  timer,     \* the reconnect timer is set
  pending,   \* keys of the map of pending requests
  armed,     \* requests whose timeout is set
  outcome,   \* per request, what its promise has come to
  watched,   \* keys of the map of subscriptions
  handlers,  \* its values
  mode,      \* per path, the mode asked for when it was watched
  starting,  \* connect() calls that still wait for the socket library: by whom
  byTimer,   \* sockets that the reconnect timer has made
  adding,    \* subscribe() calls that wait for their answer
  stale,     \* the receive buffer holds part of a frame of an earlier socket
  opened,    \* history: a connection has been open since the owner connected
  left       \* history: the owner has disconnected and not connected since

linkVars == <<sock, inbox, outbox, served>>
callVars == <<pending, armed, outcome>>
watchVars == <<watched, handlers, mode>>
streamVars == <<starting, byTimer, adding, stale>>
ownerVars == <<opened, left>>
vars == <<linkVars, cur, flag, wanted, timer, callVars, watchVars, streamVars, ownerVars>>

Request == [op : {"call", "subscribe", "unsubscribe"}, id : Ids \cup {0}, path : Paths \cup {""},
            mode : Modes]

TypeOK ==
  /\ sock \in [Sockets -> {"new", "connecting", "open", "closing", "closed"}]
  /\ inbox \in [Sockets -> Seq(Request)]
  /\ outbox \in [Sockets -> Seq(Ids)]
  /\ served \in [Sockets -> [Paths -> Seq(Modes)]]
  /\ cur \in Sockets \cup {0}
  /\ {flag, wanted, timer, stale, opened, left} \subseteq BOOLEAN
  /\ pending \subseteq Ids /\ armed \subseteq Ids
  /\ outcome \in [Ids -> {"none", "open", "answered", "failed", "forgotten"}]
  /\ watched \subseteq Paths
  /\ handlers \in [Paths -> SUBSET Handlers]
  /\ mode \in [Paths -> Modes]
  /\ starting \in Seq({"owner", "timer"})
  /\ byTimer \subseteq Sockets
  /\ adding \subseteq [id : Ids, path : Paths, handler : Handlers]

Init ==
  /\ sock = [w \in Sockets |-> "new"]
  /\ inbox = [w \in Sockets |-> <<>>] /\ outbox = [w \in Sockets |-> <<>>]
  /\ served = [w \in Sockets |-> [p \in Paths |-> <<>>]]
  /\ cur = 0 /\ flag = FALSE /\ wanted = TRUE /\ timer = FALSE
  /\ pending = {} /\ armed = {} /\ outcome = [i \in Ids |-> "none"]
  /\ watched = {} /\ handlers = [p \in Paths |-> {}] /\ mode = [p \in Paths |-> "tree"]
  /\ starting = <<>> /\ byTimer = {} /\ adding = {} /\ stale = FALSE
  /\ opened = FALSE /\ left = TRUE

-----------------------------------------------------------------------------
(* Sockets and the server.                                                 *)

Live(w) == sock[w] \in {"connecting", "open"}

Unused(w) == sock[w] = "new" /\ \A v \in Sockets : v < w => sock[v] # "new"

\* What ends with a socket.
Emptied(box, w) == [box EXCEPT ![w] = <<>>]
Unserved(w) == [served EXCEPT ![w] = [p \in Paths |-> <<>>]]

CallRequest(i) == [op |-> "call", id |-> i, path |-> "", mode |-> "value"]
SubRequest(p, m, i) == [op |-> "subscribe", id |-> i, path |-> p, mode |-> m]
UnsubRequest(p, i) == [op |-> "unsubscribe", id |-> i, path |-> p, mode |-> "value"]

\* The requests are sent on a socket; one that is not open drops them.
Sent(states, w, requests) ==
  IF w # 0 /\ states[w] = "open" THEN [inbox EXCEPT ![w] = @ \o requests] ELSE inbox

\* dispatchNodeProtocol's subscribe adds an entry, unsubscribe takes them all.
Entries(entries, r) ==
  CASE r.op = "subscribe" -> Append(entries, r.mode)
    [] r.op = "unsubscribe" -> <<>>
    [] OTHER -> entries

\* The server takes the next request of a session and answers it.
Handle(w) ==
  LET r == Head(inbox[w])
  IN  /\ sock[w] = "open" /\ inbox[w] # <<>>
      /\ inbox' = [inbox EXCEPT ![w] = Tail(@)]
      /\ outbox' = IF r.id = 0 THEN outbox ELSE [outbox EXCEPT ![w] = Append(@, r.id)]
      /\ served' = IF r.op = "call" THEN served ELSE [served EXCEPT ![w][r.path] = Entries(@, r)]
      /\ UNCHANGED <<sock, cur, flag, wanted, timer, callVars, watchVars, streamVars, ownerVars>>

-----------------------------------------------------------------------------
(* Promises.                                                               *)

NextId == Cardinality({i \in Ids : outcome[i] # "none"}) + 1
NextIds(n) == [k \in 1 .. n |-> NextId + k - 1]

\* Every promise of the pending requests is rejected.
AllFailed == [i \in Ids |-> IF i \in pending THEN "failed" ELSE outcome[i]]

\* They are dropped from the map, and their timers will find nothing.
AllForgotten == [i \in Ids |-> IF i \in pending THEN "forgotten" ELSE outcome[i]]

\* The first answer in a socket's stream.
Answered(w) == outcome' = [outcome EXCEPT ![Head(outbox[w])] = "answered"]

-----------------------------------------------------------------------------
(* The owner.                                                              *)

Quiet == (\A w \in Sockets : sock[w] \in {"new", "closed"}) /\ ~ timer /\ starting = <<>>

MayConnect == Patient => left /\ Quiet

\* Bounds: on requests with a number, and on watching while requests are
\* still under way.
MayCall(n) == NextId + n - 1 <= MaxCalls
MayWatch == cur # 0 => Len(inbox[cur]) < MaxQueued

-----------------------------------------------------------------------------
(* Properties.                                                             *)

\* There is never more than one connection, counting the one that a timer or
\* a connect() under way will make: no handler is called twice, nothing of a
\* former connection disturbs the present one.
OneConnection ==
  Cardinality({w \in Sockets : Live(w)}) + (IF timer THEN 1 ELSE 0) + Len(starting) <= 1

\* After disconnect() there is no connection, and none will be made.
LeavesForGood == left => ~ timer /\ starting = <<>> /\ \A w \in Sockets : ~ Live(w)

\* A client that has been connected and wants to be is, or is about to be:
\* no loss of a connection and no failed attempt goes without another.
NeverStranded ==
  wanted /\ opened /\ ~ left =>
    timer \/ starting # <<>> \/ \E w \in Sockets : sock[w] \in {"connecting", "open", "closing"}

\* A client that wants to be connected is, or is about to be; one that has
\* been disconnected is not, and nothing will connect it (the reconnect timer
\* and the close handlers of ws.ts, veservice.js, bin.ts).
ComesAndGoes == NeverStranded /\ LeavesForGood

\* Once the server has taken every request of the connection, it serves what
\* the client watches: each path once, and no other.
SubscriptionsAgree(Resumed(_)) ==
  \A w \in Sockets :
    sock[w] = "open" /\ w = cur /\ inbox[w] = <<>> /\ Resumed(w) =>
      \A p \in Paths : Len(served[w][p]) = IF p \in watched THEN 1 ELSE 0

\* A request's promise does not stay as it is, whatever becomes of the
\* connection: an answer, the timeout or the loss of the connection settles
\* it - or it is forgotten, which only PageClient does.
CallsSettle == \A i \in Ids : outcome[i] = "open" ~> outcome[i] # "open"

\* No promise is left pending for ever.
NothingForgotten == \A i \in Ids : outcome[i] # "forgotten"

\* "tree mode by default" (veservice.js): a path is served in the mode in
\* which it was watched, also after a reconnect.
ServedAsWatched ==
  \A w \in Sockets, p \in Paths :
    sock[w] = "open" /\ w = cur /\ inbox[w] = <<>> /\ p \in watched =>
      \A k \in DOMAIN served[w][p] : served[w][p][k] = mode[p]
=============================================================================
