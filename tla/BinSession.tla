----------------------------- MODULE BinSession -----------------------------
(***************************************************************************)
(* One binary TCP client and its server: BinTcpClient (ve/src/service/     *)
(* tcp_bin_client.cpp), BinTcpServer (tcp_bin_server.cpp) and the          *)
(* subscriptions it keeps (subscribe_service.cpp), on one node.            *)
(*                                                                         *)
(* Callers share the client, one call at a time; its owner reconnects      *)
(* whenever it likes, and the connection breaks whenever it likes.  The    *)
(* server answers the requests of a session in order.  One thread sets     *)
(* the node, whose signal calls the observers of a snapshot of the         *)
(* subscriptions; their events are posted to the server's loop, which      *)
(* sends them to the session that has the subscriber's key at that time.   *)
(* A key is the address of a session object: it may return.  So may an id: *)
(* a request brings its own, or the client makes one.                      *)
(***************************************************************************)
EXTENDS Integers, Sequences, FiniteSets, SequencesExt

CONSTANTS
  Callers,
  Keys,         \* the addresses that session objects get
  Ops,          \* the requests made: "get", "subscribe", "unsubscribe"
  OwnIds,       \* the ids that requests may bring
  MaxSessions,  \* bound on connections made
  MaxCalls,     \* bound on calls
  MaxValue,     \* bound on changes of the node
  NULL

Sessions == 1 .. MaxSessions
Ids == 1 .. MaxCalls \cup OwnIds

ASSUME BinSessionAssumption ==
  /\ Ops \subseteq {"get", "subscribe", "unsubscribe"}
  /\ {MaxSessions, MaxCalls, MaxValue} \subseteq Nat
  /\ OwnIds \subseteq Nat
  /\ NULL \notin Callers \cup Keys \cup Ids

VARIABLES
  connected,  \* Private::connected
  link,       \* the session the client's socket belongs to, 0 without one
  opc,        \* where the owner is in connect()
  callMtx,    \* the caller inside call()
  cpc,        \* where it is
  op, id,     \* its request
  waitActive, waitDone, waitId, response,
  nextId,
  asked,      \* the ids of the calls made, oldest first; a call's number is its place here
  state,      \* per session: new, open, closed (not yet noticed), gone
  key,        \* its hash_key
  inbox,      \* requests on their way to the server
  outbox,     \* frames on their way to the client
  entries,    \* SubEntry objects: their session's key, who made them
  made,       \* entries made so far
  count,      \* SharedRegistry::counts of the node
  value,      \* the node's value
  todo,       \* connections the trigger in progress has yet to call
  passed,     \* the observer whose token it has just found alive
  posts,      \* closures posted to the server's loop
  heard,      \* the last event that reached the client (which drops it) over its connection
  owed        \* NULL, or once the answer to its own request has told the client that
              \* it is subscribed, the last change it ought to hear of

clientVars == <<connected, link, opc, callMtx, cpc, op, id, waitActive, waitDone, waitId,
                response, nextId, asked, heard, owed>>
serverVars == <<key, entries, made, count>>
setterVars == <<value, todo, passed>>
vars == <<clientVars, serverVars, setterVars, state, inbox, outbox, posts>>
waitVars == <<waitActive, waitDone, waitId, response>>
callVars == <<callMtx, cpc, op, id, nextId, asked>>

Calls == 1 .. MaxCalls
Request == [op : Ops, id : Ids, call : Calls]
Reply == [id : Ids, call : Calls]
Frame == Reply \cup [value : 0 .. MaxValue]
Entry == [n : 1 .. MaxCalls, key : Keys, owner : Sessions]

TypeOK ==
  /\ connected \in BOOLEAN
  /\ owed \in 0 .. MaxValue \cup {NULL}
  /\ link \in 0 .. MaxSessions
  /\ opc \in {"idle", "disconnect", "start", "store", "reset"}
  /\ callMtx \in Callers \cup {NULL}
  /\ cpc \in {"idle", "checked", "armed", "wait"}
  /\ op \in Ops \cup {NULL} /\ id \in Ids \cup {NULL}
  /\ waitActive \in BOOLEAN /\ waitDone \in BOOLEAN
  /\ waitId \in Ids \cup {NULL} /\ response \in Reply \cup {NULL}
  /\ nextId \in 1 .. MaxCalls + 1
  /\ asked \in Seq(Ids) /\ Len(asked) <= MaxCalls
  /\ state \in [Sessions -> {"new", "open", "closed", "gone"}]
  /\ key \in [Sessions -> Keys \cup {NULL}]
  /\ inbox \in [Sessions -> Seq(Request)]
  /\ outbox \in [Sessions -> Seq(Frame)]
  /\ entries \subseteq Entry
  /\ made \in 0 .. MaxCalls /\ count \in 0 .. MaxCalls
  /\ value \in 0 .. MaxValue
  /\ todo \in Seq(Entry) /\ passed \in Entry \cup {NULL}
  /\ posts \in Seq([key : Keys, value : 0 .. MaxValue])
  /\ heard \in 0 .. MaxValue

Init ==
  /\ connected = FALSE /\ owed = NULL
  /\ link = 0 /\ opc = "idle"
  /\ callMtx = NULL /\ cpc = "idle" /\ op = NULL /\ id = NULL
  /\ waitActive = FALSE /\ waitDone = FALSE /\ waitId = NULL /\ response = NULL
  /\ nextId = 1 /\ asked = <<>>
  /\ state = [s \in Sessions |-> "new"]
  /\ key = [s \in Sessions |-> NULL]
  /\ inbox = [s \in Sessions |-> <<>>]
  /\ outbox = [s \in Sessions |-> <<>>]
  /\ entries = {} /\ made = 0 /\ count = 0
  /\ value = 0 /\ todo = <<>> /\ passed = NULL
  /\ posts = <<>>
  /\ heard = 0

-----------------------------------------------------------------------------
(* The client: connect() and the loss of the connection.                   *)

\* The socket is closed; what was on its way to the client is lost.
CloseLink ==
  /\ link' = 0
  /\ state' = IF link = 0 THEN state ELSE [state EXCEPT ![link] = "closed"]
  /\ outbox' = IF link = 0 THEN outbox ELSE [outbox EXCEPT ![link] = <<>>]
  /\ owed' = NULL /\ heard' = 0

\* onDisconnect: whoever waits is told.
WakeWaiter ==
  /\ waitDone' = (waitDone \/ waitActive)
  /\ waitActive' = FALSE
  /\ UNCHANGED <<waitId, response>>

\* connect() stops the client, which runs onDisconnect ...
Connect ==
  /\ opc = "idle"
  /\ \E s \in Sessions : state[s] = "new"
  /\ opc' = "disconnect"
  /\ CloseLink
  /\ IF link = 0 THEN UNCHANGED <<connected, waitVars>> ELSE connected' = FALSE /\ WakeWaiter
  /\ UNCHANGED <<callVars, serverVars, setterVars, inbox, posts>>

\* ... does the rest of disconnect() ...
Disconnect ==
  /\ opc = "disconnect"
  /\ opc' = "start"
  /\ connected' = FALSE
  /\ WakeWaiter
  /\ UNCHANGED <<link, callVars, heard, owed, serverVars, setterVars, state, inbox, outbox, posts>>

\* ... starts the client, which the server accepts or not ...
StartClient ==
  /\ opc = "start"
  /\ \/ \E s \in Sessions, k \in Keys :
          /\ state[s] = "new" /\ \A r \in 1 .. s - 1 : state[r] # "new"
          /\ \A r \in Sessions : key[r] = k => state[r] = "gone"
          /\ state' = [state EXCEPT ![s] = "open"]
          /\ key' = [key EXCEPT ![s] = k]
          /\ link' = s
          /\ opc' = "store"
     \/ opc' = "idle" /\ UNCHANGED <<state, key, link>>
  /\ UNCHANGED <<connected, callVars, waitVars, heard, owed, entries, made, count, setterVars,
                 inbox, outbox, posts>>

\* ... says that it is connected ...
StoreConnected ==
  /\ opc = "store"
  /\ opc' = "reset"
  /\ connected' = TRUE
  /\ UNCHANGED <<link, callVars, waitVars, heard, owed, serverVars, setterVars, state, inbox, outbox, posts>>

\* ... and forgets whoever waits.
ResetWait ==
  /\ opc = "reset"
  /\ opc' = "idle"
  /\ waitDone' = FALSE /\ waitActive' = FALSE
  /\ UNCHANGED <<connected, link, callVars, waitId, response, heard, owed, serverVars, setterVars,
                 state, inbox, outbox, posts>>

\* The connection breaks.
LinkLost ==
  /\ link # 0
  /\ CloseLink
  /\ connected' = FALSE
  /\ WakeWaiter
  /\ UNCHANGED <<opc, callVars, serverVars, setterVars, inbox, posts>>

-----------------------------------------------------------------------------
(* The client: call().                                                     *)

\* isConnected, under callMtx; a call that fails here changes nothing.
Call(c, o) ==
  /\ callMtx = NULL
  /\ Len(asked) < MaxCalls
  /\ connected /\ link # 0
  /\ callMtx' = c
  /\ cpc' = "checked"
  /\ op' = o
  /\ UNCHANGED <<connected, link, opc, id, waitVars, nextId, asked, heard, owed, serverVars, setterVars,
                 state, inbox, outbox, posts>>

\* The request brings its id or gets one, and the wait begins.
Arm ==
  /\ cpc = "checked"
  /\ cpc' = "armed"
  /\ \/ id' \in OwnIds /\ UNCHANGED nextId
     \/ id' = nextId /\ nextId' = nextId + 1
  /\ asked' = Append(asked, id')
  /\ waitId' = id' /\ waitDone' = FALSE /\ waitActive' = TRUE /\ response' = NULL
  /\ UNCHANGED <<connected, link, opc, callMtx, op, heard, owed, serverVars, setterVars, state,
                 inbox, outbox, posts>>

\* client.send, to whichever connection there is.
Send ==
  /\ cpc = "armed"
  /\ cpc' = "wait"
  /\ inbox' = IF link = 0 THEN inbox ELSE [inbox EXCEPT ![link] = Append(@, [op |-> op, id |-> id, call |-> Len(asked)])]
  /\ owed' = IF op = "unsubscribe" THEN NULL ELSE owed
  /\ UNCHANGED <<connected, link, opc, callMtx, op, id, waitVars, nextId, asked, heard, serverVars, setterVars,
                 state, outbox, posts>>

\* The wait ends, with the answer, without one because the connection is
\* gone, or because the time is up.
CallReturns ==
  /\ cpc = "wait"
  /\ cpc' = "idle" /\ callMtx' = NULL /\ op' = NULL /\ id' = NULL
  /\ waitActive' = FALSE /\ response' = NULL
  /\ UNCHANGED <<connected, link, opc, waitDone, waitId, nextId, asked, heard, owed, serverVars, setterVars,
                 state, inbox, outbox, posts>>

\* Mutant: any answer will do.
IsAwaitedAny(frame) == waitActive

\* The answer the caller waits for.
IsAwaited(frame) == waitActive /\ frame.id = waitId

\* onRecv takes the next frame.
Receive ==
  LET f == Head(outbox[link])
  IN  /\ link # 0
      /\ outbox[link] # <<>>
      /\ outbox' = [outbox EXCEPT ![link] = Tail(@)]
      /\ \/ /\ "id" \in DOMAIN f /\ IsAwaited(f)
            /\ response' = f /\ waitDone' = TRUE /\ waitActive' = FALSE
            /\ owed' = IF op = "subscribe" /\ f.call = Len(asked) /\ owed = NULL THEN 0 ELSE owed
            /\ UNCHANGED <<waitId, heard>>
         \/ /\ "id" \in DOMAIN f /\ ~ IsAwaited(f)
            /\ UNCHANGED <<waitVars, heard, owed>>
         \/ /\ "value" \in DOMAIN f
            /\ heard' = f.value
            /\ UNCHANGED <<waitVars, owed>>
      /\ UNCHANGED <<connected, link, opc, callVars, serverVars, setterVars, state, inbox, posts>>

-----------------------------------------------------------------------------
(* The server: requests, subscriptions, the end of a session.              *)

Of(k) == {e \in entries : e.key = k}

\* Mutant: one entry only.
DroppedOne(k) == IF Of(k) = {} THEN {} ELSE {CHOOSE e \in Of(k) : \A f \in Of(k) : e.n <= f.n}

\* unsubscribe and removeSession: every entry of the session.
Dropped(k) == Of(k)

\* removeCount, for every entry that goes.
Uncount(gone) == count - Cardinality(gone)

\* dispatchNodeProtocol, and the reply.
Handle(s) ==
  LET r == Head(inbox[s])
      k == key[s]
  IN  /\ state[s] \in {"open", "closed"}
      /\ inbox[s] # <<>>
      /\ inbox' = [inbox EXCEPT ![s] = Tail(@)]
      /\ outbox' = IF state[s] = "open" THEN [outbox EXCEPT ![s] = Append(@, [id |-> r.id, call |-> r.call])] ELSE outbox
      /\ \/ /\ r.op = "get"
            /\ UNCHANGED <<entries, made, count>>
         \/ /\ r.op = "subscribe"
            /\ made' = made + 1
            /\ entries' = entries \cup {[n |-> made + 1, key |-> k, owner |-> s]}
            /\ count' = count + 1
         \/ /\ r.op = "unsubscribe"
            /\ entries' = entries \ Dropped(k)
            /\ count' = Uncount(Dropped(k))
            /\ UNCHANGED made
      /\ UNCHANGED <<clientVars, key, setterVars, state, posts>>

\* bind_disconnect; what is still unread is dropped.
SessionEnds(s) ==
  /\ state[s] = "closed"
  /\ state' = [state EXCEPT ![s] = "gone"]
  /\ inbox' = [inbox EXCEPT ![s] = <<>>]
  /\ entries' = entries \ Dropped(key[s])
  /\ count' = Uncount(Dropped(key[s]))
  /\ UNCHANGED <<clientVars, key, made, setterVars, outbox, posts>>

-----------------------------------------------------------------------------
(* The node is set, and its observers are called.                          *)

\* The connections of the node's signal, in the order they were made.
Snapshot == SetToSortSeq(entries, LAMBDA e, f : e.n < f.n)

\* Set and snapshot.
SetValue ==
  /\ todo = <<>> /\ passed = NULL
  /\ value < MaxValue
  /\ value' = value + 1
  /\ todo' = Snapshot
  /\ owed' = IF owed = NULL THEN NULL ELSE value + 1
  /\ UNCHANGED <<connected, link, opc, callVars, waitVars, heard, serverVars, passed, state, inbox,
                 outbox, posts>>

\* The token of the next observer ...
Check ==
  /\ todo # <<>> /\ passed = NULL
  /\ todo' = Tail(todo)
  /\ passed' = IF Head(todo) \in entries THEN Head(todo) ELSE NULL
  /\ UNCHANGED <<clientVars, serverVars, value, state, inbox, outbox, posts>>

\* server.post
Posted(p) == Append(posts, p)

\* ... and its callback: postToSession.
Push ==
  /\ passed # NULL
  /\ passed' = NULL
  /\ posts' = Posted([key |-> passed.key, value |-> value])
  /\ UNCHANGED <<clientVars, serverVars, value, todo, state, inbox, outbox>>

\* Mutant: an event is sent to the first session there ever was with that key.
RecipientsOld(k) == {s \in Sessions : key[s] = k /\ \A r \in Sessions : key[r] = k => s <= r}

\* foreach_session: whoever has the key now.
Recipients(k) == {s \in Sessions : key[s] = k /\ state[s] = "open"}

\* The server's loop runs the closure.
Deliver ==
  LET p == Head(posts)
  IN  /\ posts # <<>>
      /\ posts' = Tail(posts)
      /\ outbox' = [s \in Sessions |->
           IF s \in Recipients(p.key) THEN Append(outbox[s], [value |-> p.value]) ELSE outbox[s]]
      /\ UNCHANGED <<clientVars, serverVars, setterVars, state, inbox>>

-----------------------------------------------------------------------------

Next ==
  \/ Connect \/ Disconnect \/ StartClient \/ StoreConnected \/ ResetWait \/ LinkLost
  \/ \E c \in Callers, o \in Ops : Call(c, o)
  \/ Arm \/ Send \/ CallReturns \/ Receive
  \/ \E s \in Sessions : Handle(s) \/ SessionEnds(s)
  \/ SetValue \/ Check \/ Push \/ Deliver

Spec == Init /\ [][Next]_vars

\* The server and its loop, the trigger and the client's receiver go on.
FairSpec ==
  /\ Spec
  /\ WF_vars(Receive) /\ WF_vars(Check) /\ WF_vars(Push) /\ WF_vars(Deliver)
  /\ \A s \in Sessions : WF_vars(Handle(s)) /\ WF_vars(SessionEnds(s))

-----------------------------------------------------------------------------
(* Properties.                                                             *)

\* "Disconnect removes all subscriptions for that session" (SERVICE.md):
\* every subscription belongs to the session that made it, and that session
\* has not ended - so nobody inherits one along with a key.
EntriesOwned ==
  \A e \in entries : key[e.owner] = e.key /\ state[e.owner] \in {"open", "closed"}

\* The subscriber count is the number of subscriptions there are.
CountsAgree == count = Cardinality(entries)

\* No earlier call has had the id of the one in progress, as when the client
\* makes them all.
Unshared == \A n \in 1 .. Len(asked) - 1 : asked[n] # id

\* A call that returns an answer returns one to a request with its id, and
\* unless an earlier call has had that id, the answer to its own request -
\* whatever calls timed out before and however often the client was reconnected.
AnswerIsOwn ==
  [][CallReturns /\ waitDone /\ response # NULL =>
       response.id = id /\ (Unshared => response.call = Len(asked))]_vars

\* Whoever has been told so by its own answer is subscribed, until it asks to be
\* unsubscribed or its connection is closed.
Believed == owed # NULL => \E e \in entries : e.owner = link

\* Subscriptions come and go with the session that made them, although the
\* key of a session returns, and are counted (subscribe, removeSession).
EntriesFollow == EntriesOwned /\ CountsAgree /\ Believed

\* Events reach a client in the order of the changes.
EventsInOrder ==
  \A s \in Sessions : \A i \in DOMAIN outbox[s] :
    "value" \in DOMAIN outbox[s][i] =>
      /\ s = link => heard <= outbox[s][i].value
      /\ \A j \in 1 .. i - 1 :
           "value" \in DOMAIN outbox[s][j] => outbox[s][j].value <= outbox[s][i].value

\* Both: whoever is subscribed is served by its own session, in order.
ServedInOrder == EntriesFollow /\ EventsInOrder

\* A client that has been told so hears of every change, or of a later one.
Informed ==
  \A v \in 1 .. MaxValue : owed = v ~> owed # v \/ (link # 0 /\ heard >= v)

\* "Session removed -> observer destructed -> alive token killed, callback
\* stops" (subscribe_service.cpp): nobody is sent what it has not subscribed.
EventsReachOwners ==
  [][\A s \in Sessions :
       Len(outbox'[s]) > Len(outbox[s]) /\ "value" \in DOMAIN Last(outbox'[s])
       => \E e \in entries : e.owner = s]_vars
=============================================================================
