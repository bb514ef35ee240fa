----------------------------- MODULE PageClient -----------------------------
(***************************************************************************)
(* VEService (ve/js/veservice.js): the WebSocket client for pages without  *)
(* a bundler.  It keeps a flag of its own for being connected, drops its   *)
(* socket when one closes, and reconnects only what was connected or what  *)
(* the reconnect timer tried.                                              *)
(***************************************************************************)
EXTENDS RemoteClient

streamSame == UNCHANGED <<starting, adding, stale>>

\* transport.send: throws on a socket that is still connecting.
CanSend(states) == cur # 0 /\ flag /\ states[cur] # "connecting"

Usable == cur # 0 /\ flag

\* The socket of connect().
Transport(w) ==
  /\ Unused(w)
  /\ sock' = [sock EXCEPT ![w] = "connecting"]
  /\ cur' = w

\* connect(), by the owner, when not connected; _autoReconnect stays as it is.
Connect(w) ==
  /\ MayConnect /\ ~ flag
  /\ left' = FALSE /\ opened' = FALSE
  /\ Transport(w)
  /\ UNCHANGED <<inbox, outbox, served, flag, wanted, timer, callVars, watchVars, byTimer>> /\ streamSame

\* clearTimeout(_reconnectTimer)
Cancelled == timer' = FALSE

\* Pending requests are forgotten, not rejected; their timers find nothing.
Disconnect ==
  /\ ~ left
  /\ wanted' = FALSE /\ left' = TRUE
  /\ Cancelled
  /\ flag' = FALSE /\ cur' = 0
  /\ pending' = {} /\ outcome' = AllForgotten
  /\ watched' = {} /\ handlers' = [p \in Paths |-> {}]
  /\ sock' = IF cur # 0 /\ Live(cur) THEN [sock EXCEPT ![cur] = "closing"] ELSE sock
  /\ IF cur = 0 THEN UNCHANGED <<inbox, outbox, served>>
     ELSE inbox' = Emptied(inbox, cur) /\ outbox' = Emptied(outbox, cur) /\ served' = Unserved(cur)
  /\ UNCHANGED <<armed, mode, byTimer, opened>> /\ streamSame

\* _resubscribe: every path with a callback, as a plain value.
Resubscribed ==
  LET paths == SetToSeq({p \in watched : handlers[p] # {}})
  IN  [k \in DOMAIN paths |-> SubRequest(paths[k], "value", 0)]

OnOpen(w) ==
  /\ sock[w] = "connecting"
  /\ sock' = [sock EXCEPT ![w] = "open"]
  /\ flag' = TRUE /\ opened' = TRUE
  /\ inbox' = Sent(sock', cur, Resubscribed)
  /\ UNCHANGED <<outbox, served, cur, wanted, timer, callVars, watchVars, byTimer, left>> /\ streamSame

\* onclose reconnects what was connected.
Reconnects == flag /\ wanted

\* onclose, whichever socket it is; a failed attempt of the timer is followed
\* by another.
OnClose(w, retry) ==
  /\ sock' = [sock EXCEPT ![w] = "closed"]
  /\ inbox' = Emptied(inbox, w) /\ outbox' = Emptied(outbox, w) /\ served' = Unserved(w)
  /\ outcome' = AllFailed /\ armed' = armed \ pending /\ pending' = {}
  /\ flag' = FALSE /\ cur' = 0
  /\ timer' = (timer \/ Reconnects \/ retry)
  /\ UNCHANGED <<wanted, watchVars, byTimer, ownerVars>> /\ streamSame

Closed(w) == sock[w] \in {"open", "closing"} /\ OnClose(w, FALSE)

\* onerror rejects connect(), which only its caller notices.
Fails(w) == Live(w) /\ OnClose(w, sock[w] = "connecting" /\ w \in byTimer /\ wanted)

\* The reconnect timer calls connect().
Reconnect(w) ==
  /\ timer
  /\ timer' = FALSE
  /\ IF flag THEN UNCHANGED <<sock, cur, byTimer>> ELSE Transport(w) /\ byTimer' = byTimer \cup {w}
  /\ UNCHANGED <<inbox, outbox, served, flag, wanted, callVars, watchVars, ownerVars>> /\ streamSame

\* call(): a request that cannot be sent is rejected.
Call ==
  /\ Usable /\ MayCall(1)
  /\ IF CanSend(sock)
     THEN /\ pending' = pending \cup {NextId} /\ armed' = armed \cup {NextId}
          /\ outcome' = [outcome EXCEPT ![NextId] = "open"]
     ELSE outcome' = [outcome EXCEPT ![NextId] = "failed"] /\ UNCHANGED <<pending, armed>>
  /\ inbox' = Sent(sock, cur, <<CallRequest(NextId)>>)
  /\ UNCHANGED <<sock, outbox, served, cur, flag, wanted, timer, watchVars, byTimer, ownerVars>>
  /\ streamSame

\* The timer of a request, which may have been forgotten.
CallTimeout(i) ==
  /\ i \in armed
  /\ armed' = armed \ {i} /\ pending' = pending \ {i}
  /\ outcome' = IF i \in pending THEN [outcome EXCEPT ![i] = "failed"] ELSE outcome
  /\ UNCHANGED <<linkVars, cur, flag, wanted, timer, watchVars, byTimer, ownerVars>> /\ streamSame

\* watch(); the first callback of a path subscribes.
Watch(p, h, m) ==
  /\ MayWatch /\ h \notin handlers[p]
  /\ watched' = watched \cup {p}
  /\ handlers' = [handlers EXCEPT ![p] = @ \cup {h}]
  /\ IF p \in watched THEN UNCHANGED <<mode, inbox>>
     ELSE /\ mode' = [mode EXCEPT ![p] = m]
          /\ inbox' = IF Usable THEN Sent(sock, cur, <<SubRequest(p, m, 0)>>) ELSE inbox
  /\ UNCHANGED <<sock, outbox, served, cur, flag, wanted, timer, callVars, byTimer, ownerVars>>
  /\ streamSame

\* The path has no callback left.
Gone(p, hs) == handlers[p] \subseteq hs

\* unwatch(path, callback), and unwatch(path), which takes them all.
Unwatch(p, hs) ==
  /\ MayWatch /\ p \in watched /\ hs \cap handlers[p] # {}
  /\ handlers' = [handlers EXCEPT ![p] = @ \ hs]
  /\ IF ~ Gone(p, hs) THEN UNCHANGED <<watched, inbox>>
     ELSE /\ watched' = watched \ {p}
          /\ inbox' = IF Usable THEN Sent(sock, cur, <<UnsubRequest(p, 0)>>) ELSE inbox
  /\ UNCHANGED <<sock, outbox, served, cur, flag, wanted, timer, callVars, mode, byTimer, ownerVars>>
  /\ streamSame

\* _handleMessage: an answer; a late one is nobody's.
OnMessage(w) ==
  LET i == Head(outbox[w])
  IN  /\ sock[w] = "open" /\ outbox[w] # <<>>
      /\ outbox' = [outbox EXCEPT ![w] = Tail(@)]
      /\ IF i \in pending
         THEN pending' = pending \ {i} /\ armed' = armed \ {i} /\ Answered(w)
         ELSE UNCHANGED callVars
      /\ UNCHANGED <<sock, inbox, served, cur, flag, wanted, timer, watchVars, byTimer, ownerVars>>
      /\ streamSame

Next ==
  \/ Disconnect \/ Call
  \/ \E w \in Sockets :
       Connect(w) \/ OnOpen(w) \/ Closed(w) \/ Fails(w) \/ Reconnect(w) \/ OnMessage(w) \/ Handle(w)
  \/ \E i \in Ids : CallTimeout(i)
  \/ \E p \in Paths :
       \/ \E hs \in SUBSET Handlers : Unwatch(p, hs)
       \/ \E h \in Handlers, m \in Modes : Watch(p, h, m)

Spec == Init /\ [][Next]_vars

\* Timers run out.
FairSpec == Spec /\ \A i \in Ids : WF_vars(CallTimeout(i))

Resumed(w) == TRUE

Agree == SubscriptionsAgree(Resumed)
=============================================================================
