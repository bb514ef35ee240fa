------------------------------ MODULE WsClient ------------------------------
(***************************************************************************)
(* VeWsClient (ve/js/ve-sdk/src/ws.ts): the WebSocket client of the SDK.   *)
(* Subscriptions are sent without a number and nobody waits for their      *)
(* answer.  The handlers of a socket do not ask whether it is still the    *)
(* current one.                                                            *)
(***************************************************************************)
EXTENDS RemoteClient

streamSame == UNCHANGED streamVars /\ UNCHANGED flag

\* get connected
Connected(states) == cur # 0 /\ states[cur] = "open"

\* createConnection
CreateConnection(w) ==
  /\ Unused(w)
  /\ sock' = [sock EXCEPT ![w] = "connecting"]
  /\ cur' = w

\* scheduleReconnect, unless the close was intended.
Scheduled == timer' = (timer \/ wanted)

Connect(w) ==
  /\ MayConnect
  /\ wanted' = TRUE /\ left' = FALSE /\ opened' = FALSE
  /\ CreateConnection(w)
  /\ UNCHANGED <<inbox, outbox, served, timer, callVars, watchVars>> /\ streamSame

\* clearTimeout(reconnectTimer)
Cancelled == timer' = FALSE

Disconnect ==
  /\ ~ left
  /\ wanted' = FALSE /\ left' = TRUE
  /\ Cancelled
  /\ outcome' = AllFailed /\ pending' = {} /\ armed' = {}
  /\ cur' = 0
  /\ sock' = IF cur # 0 /\ Live(cur) THEN [sock EXCEPT ![cur] = "closing"] ELSE sock
  /\ IF cur = 0 THEN UNCHANGED <<inbox, outbox, served>>
     ELSE inbox' = Emptied(inbox, cur) /\ outbox' = Emptied(outbox, cur) /\ served' = Unserved(cur)
  /\ UNCHANGED <<watchVars, opened>> /\ streamSame

\* call(); one made while not connected is rejected at once.
Call ==
  /\ Connected(sock) /\ MayCall(1)
  /\ pending' = pending \cup {NextId}
  /\ armed' = armed \cup {NextId}
  /\ outcome' = [outcome EXCEPT ![NextId] = "open"]
  /\ inbox' = Sent(sock, cur, <<CallRequest(NextId)>>)
  /\ UNCHANGED <<sock, outbox, served, cur, wanted, timer, watchVars, ownerVars>> /\ streamSame

\* The timer of a request.
CallTimeout(i) ==
  /\ i \in armed
  /\ armed' = armed \ {i} /\ pending' = pending \ {i}
  /\ outcome' = [outcome EXCEPT ![i] = "failed"]
  /\ UNCHANGED <<linkVars, cur, wanted, timer, watchVars, ownerVars>> /\ streamSame

\* watch(); the first handler of a path subscribes.
Watch(p, h, m) ==
  /\ MayWatch /\ h \notin handlers[p]
  /\ watched' = watched \cup {p}
  /\ handlers' = [handlers EXCEPT ![p] = @ \cup {h}]
  /\ IF p \in watched THEN UNCHANGED <<mode, inbox>>
     ELSE /\ mode' = [mode EXCEPT ![p] = m]
          /\ inbox' = IF Connected(sock) THEN Sent(sock, cur, <<SubRequest(p, m, 0)>>) ELSE inbox
  /\ UNCHANGED <<sock, outbox, served, cur, wanted, timer, callVars, ownerVars>> /\ streamSame

\* What watch() returns; the last handler of a path unsubscribes.
Unwatch(p, h) ==
  /\ MayWatch /\ p \in watched /\ h \in handlers[p]
  /\ handlers' = [handlers EXCEPT ![p] = @ \ {h}]
  /\ IF handlers[p] # {h} THEN UNCHANGED <<watched, inbox>>
     ELSE /\ watched' = watched \ {p}
          /\ inbox' = IF Connected(sock) THEN Sent(sock, cur, <<UnsubRequest(p, 0)>>) ELSE inbox
  /\ UNCHANGED <<sock, outbox, served, cur, wanted, timer, callVars, mode, ownerVars>> /\ streamSame

\* unwatch(path), of a path that is watched.
UnwatchPath(p) ==
  /\ MayWatch /\ p \in watched
  /\ watched' = watched \ {p}
  /\ handlers' = [handlers EXCEPT ![p] = {}]
  /\ inbox' = IF Connected(sock) THEN Sent(sock, cur, <<UnsubRequest(p, 0)>>) ELSE inbox
  /\ UNCHANGED <<sock, outbox, served, cur, wanted, timer, callVars, mode, ownerVars>> /\ streamSame

\* Every watched path is subscribed again - in tree mode.
Resubscribed == [k \in 1 .. Cardinality(watched) |-> SubRequest(SetToSeq(watched)[k], "tree", 0)]

OnOpen(w) ==
  /\ sock[w] = "connecting"
  /\ sock' = [sock EXCEPT ![w] = "open"]
  /\ inbox' = IF Connected(sock') THEN Sent(sock', cur, Resubscribed) ELSE inbox
  /\ opened' = TRUE
  /\ UNCHANGED <<outbox, served, cur, wanted, timer, callVars, watchVars, left>> /\ streamSame

\* Every pending request is rejected.
RejectAll == outcome' = AllFailed

\* onclose, whichever socket it is.
OnClose(w, states) ==
  /\ sock' = [states EXCEPT ![w] = "closed"]
  /\ inbox' = Emptied(inbox, w) /\ outbox' = Emptied(outbox, w) /\ served' = Unserved(w)
  /\ RejectAll
  /\ pending' = {} /\ armed' = {}
  /\ Scheduled
  /\ UNCHANGED <<cur, wanted, watchVars, ownerVars>> /\ streamSame

\* The connection is closed by the server, or the closing we began ends.
Closed(w) == sock[w] \in {"open", "closing"} /\ OnClose(w, sock)

\* An error closes the current socket, whichever the error is of, and then
\* its own is closed.
Fails(w) ==
  /\ Live(w)
  /\ OnClose(w, IF cur \in Sockets \ {w} /\ Live(cur) THEN [sock EXCEPT ![cur] = "closing"] ELSE sock)

\* Mutant: an interval in the place of a timeout.
FiresAgain == timer' = TRUE

\* reconnectTimer = null
Fires == timer' = FALSE

\* The reconnect timer.
Reconnect(w) ==
  /\ timer
  /\ Fires
  /\ CreateConnection(w)
  /\ UNCHANGED <<inbox, outbox, served, wanted, callVars, watchVars, ownerVars>> /\ streamSame

\* onmessage, handleMessage: an answer; a late one is nobody's.
OnMessage(w) ==
  LET i == Head(outbox[w])
  IN  /\ sock[w] = "open" /\ outbox[w] # <<>>
      /\ outbox' = [outbox EXCEPT ![w] = Tail(@)]
      /\ IF i \in pending
         THEN pending' = pending \ {i} /\ armed' = armed \ {i} /\ Answered(w)
         ELSE UNCHANGED callVars
      /\ UNCHANGED <<sock, inbox, served, cur, wanted, timer, watchVars, ownerVars>> /\ streamSame

Next ==
  \/ Disconnect \/ Call
  \/ \E w \in Sockets :
       Connect(w) \/ OnOpen(w) \/ Closed(w) \/ Fails(w) \/ Reconnect(w) \/ OnMessage(w) \/ Handle(w)
  \/ \E i \in Ids : CallTimeout(i)
  \/ \E p \in Paths : UnwatchPath(p) \/ \E h \in Handlers : Unwatch(p, h) \/ \E m \in Modes : Watch(p, h, m)

Spec == Init /\ [][Next]_vars

\* Timers run out.
FairSpec == Spec /\ \A i \in Ids : WF_vars(CallTimeout(i))

\* A subscription that was not sent when it was made is sent on opening.
Resumed(w) == TRUE

Agree == SubscriptionsAgree(Resumed)
=============================================================================
