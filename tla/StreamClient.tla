---------------------------- MODULE StreamClient ----------------------------
(***************************************************************************)
(* VeBinTcpClient (ve/js/ve-sdk/src/bin.ts): the binary TCP client of the  *)
(* SDK.  connect() waits for the socket library before it makes a socket,  *)
(* subscribe() waits for its answer before it adds the handler, and what   *)
(* has been received of a frame is kept for the next connection.           *)
(***************************************************************************)
EXTENDS RemoteClient

Usable == cur # 0 /\ flag

\* The continuations of subscribe() calls whose answer or failure has come;
\* one whose path is gone by then throws.
Continue(out) ==
  LET due == {a \in adding : out[a.id] # "open"}
  IN  /\ outcome' = out
      /\ adding' = adding \ due
      /\ handlers' = [p \in Paths |-> handlers[p] \cup
                        IF p \in watched THEN {a.handler : a \in {b \in due : b.path = p}} ELSE {}]

\* The numbers of requests about to be sent are under way.
Begun(n) ==
  /\ pending' = pending \cup {NextIds(n)[k] : k \in 1 .. n}
  /\ armed' = armed \cup {NextIds(n)[k] : k \in 1 .. n}
  /\ outcome' = [i \in Ids |-> IF \E k \in 1 .. n : i = NextIds(n)[k] THEN "open" ELSE outcome[i]]

\* connect() up to its await; the timer's goes the same way.
Begin(who) ==
  IF flag THEN UNCHANGED <<wanted, starting>>
  ELSE wanted' = TRUE /\ starting' = Append(starting, who)

Connect ==
  /\ MayConnect
  /\ Begin("owner")
  /\ left' = FALSE /\ opened' = FALSE
  /\ UNCHANGED <<linkVars, cur, flag, timer, callVars, watchVars, byTimer, adding, stale>>

\* connect() after its await.
Start(w) ==
  /\ starting # <<>> /\ Unused(w)
  /\ starting' = Tail(starting)
  /\ sock' = [sock EXCEPT ![w] = "connecting"] /\ cur' = w
  /\ byTimer' = IF Head(starting) = "timer" THEN byTimer \cup {w} ELSE byTimer
  /\ UNCHANGED <<inbox, outbox, served, flag, wanted, timer, callVars, watchVars, adding, stale, ownerVars>>

\* clearTimeout(reconnectTimer)
Cancelled == timer' = FALSE

\* close(); with Patient, not while connect() waits.
Close ==
  /\ ~ left /\ (Patient => starting = <<>>)
  /\ wanted' = FALSE /\ left' = TRUE
  /\ Cancelled
  /\ Continue(AllFailed) /\ pending' = {} /\ armed' = {}
  /\ sock' = IF cur # 0 /\ Live(cur) THEN [sock EXCEPT ![cur] = "closing"] ELSE sock
  /\ IF cur = 0 THEN UNCHANGED <<inbox, outbox, served>>
     ELSE inbox' = Emptied(inbox, cur) /\ outbox' = Emptied(outbox, cur) /\ served' = Unserved(cur)
  /\ cur' = 0 /\ flag' = FALSE
  /\ UNCHANGED <<watched, mode, starting, byTimer, stale, opened>>

\* What the reconnect timer does once it is connected: every key is
\* subscribed again.  connect() called by the owner does not.
Resubscribed(w) == IF w \in byTimer THEN SetToSeq(watched) ELSE <<>>

OnConnect(w) ==
  LET paths == Resubscribed(w)
      n == Len(paths)
  IN  /\ sock[w] = "connecting" /\ MayCall(n)
      /\ sock' = [sock EXCEPT ![w] = "open"]
      /\ flag' = TRUE /\ opened' = TRUE
      /\ Begun(n)
      /\ inbox' = Sent(sock', cur, [k \in 1 .. n |-> SubRequest(paths[k], "value", NextIds(n)[k])])
      /\ UNCHANGED <<outbox, served, cur, wanted, timer, watchVars, streamVars, left>>

\* Mutant: the attempts of the timer are not repeated.
ScheduledOnLoss == timer' = (timer \/ (wanted /\ flag))

\* scheduleReconnect, unless the close was intended.
Scheduled == timer' = (timer \/ wanted)

\* 'close', whichever socket it is; 'error' destroys the socket, and makes a
\* failed attempt of the timer schedule another, as this does.
OnClose(w) ==
  /\ sock' = [sock EXCEPT ![w] = "closed"]
  /\ inbox' = Emptied(inbox, w) /\ outbox' = Emptied(outbox, w) /\ served' = Unserved(w)
  /\ stale' \in {stale} \cup {s \in {TRUE} : Torn /\ outbox[w] # <<>>}
  /\ Continue(AllFailed) /\ pending' = {} /\ armed' = {}
  /\ flag' = FALSE /\ cur' = 0
  /\ Scheduled
  /\ UNCHANGED <<wanted, watched, mode, starting, byTimer, ownerVars>>

Ends(w) == sock[w] \in {"connecting", "open", "closing"} /\ OnClose(w)

\* The reconnect timer calls connect().
Reconnect ==
  /\ timer
  /\ timer' = FALSE
  /\ Begin("timer")
  /\ UNCHANGED <<linkVars, cur, flag, callVars, watchVars, byTimer, adding, stale, ownerVars>>

\* call(); one made while not connected is rejected at once.
Call ==
  /\ Usable /\ MayCall(1)
  /\ Begun(1)
  /\ inbox' = Sent(sock, cur, <<CallRequest(NextId)>>)
  /\ UNCHANGED <<sock, outbox, served, cur, flag, wanted, timer, watchVars, streamVars, ownerVars>>

\* Its promise is rejected.
TimedOut(i) == [outcome EXCEPT ![i] = "failed"]

\* The timer of a request.
CallTimeout(i) ==
  /\ i \in armed
  /\ armed' = armed \ {i} /\ pending' = pending \ {i}
  /\ Continue(TimedOut(i))
  /\ UNCHANGED <<linkVars, cur, flag, wanted, timer, watched, mode, starting, byTimer, stale, ownerVars>>

\* subscribe(): the first call for a path waits for its answer, if connected.
Subscribe(p, h) ==
  /\ MayWatch /\ h \notin handlers[p] /\ \A a \in adding : a.handler # h \/ a.path # p
  /\ watched' = watched \cup {p}
  /\ IF p \notin watched /\ Usable
     THEN /\ MayCall(1) /\ Begun(1)
          /\ inbox' = Sent(sock, cur, <<SubRequest(p, "value", NextId)>>)
          /\ adding' = adding \cup {[id |-> NextId, path |-> p, handler |-> h]}
          /\ UNCHANGED handlers
     ELSE handlers' = [handlers EXCEPT ![p] = @ \cup {h}] /\ UNCHANGED <<callVars, inbox, adding>>
  /\ UNCHANGED <<sock, outbox, served, cur, flag, wanted, timer, mode, starting, byTimer, stale, ownerVars>>

\* What subscribe() returns; the last handler of a path unsubscribes, though
\* another subscribe() of the path may be waiting.
Unsubscribe(p, h) ==
  /\ MayWatch /\ p \in watched /\ h \in handlers[p]
  /\ handlers' = [handlers EXCEPT ![p] = @ \ {h}]
  /\ IF handlers[p] # {h} THEN UNCHANGED <<watched, callVars, inbox>>
     ELSE /\ watched' = watched \ {p}
          /\ IF Usable THEN /\ MayCall(1) /\ Begun(1)
                            /\ inbox' = Sent(sock, cur, <<UnsubRequest(p, NextId)>>)
             ELSE UNCHANGED <<callVars, inbox>>
  /\ UNCHANGED <<sock, outbox, served, cur, flag, wanted, timer, mode, streamVars, ownerVars>>

\* onData, processFrames: an answer; a late one is nobody's, and one behind
\* part of an old frame is swallowed by it.
OnData(w) ==
  LET i == Head(outbox[w])
      heard == ~ stale /\ i \in pending
  IN  /\ sock[w] = "open" /\ outbox[w] # <<>>
      /\ outbox' = [outbox EXCEPT ![w] = Tail(@)]
      /\ stale' \in {FALSE, stale}
      /\ pending' = IF heard THEN pending \ {i} ELSE pending
      /\ armed' = IF heard THEN armed \ {i} ELSE armed
      /\ Continue(IF heard THEN [outcome EXCEPT ![i] = "answered"] ELSE outcome)
      /\ UNCHANGED <<sock, inbox, served, cur, flag, wanted, timer, watched, mode, starting, byTimer, ownerVars>>

Next ==
  \/ Connect \/ Close \/ Reconnect \/ Call
  \/ \E w \in Sockets : Start(w) \/ OnConnect(w) \/ Ends(w) \/ OnData(w) \/ Handle(w)
  \/ \E i \in Ids : CallTimeout(i)
  \/ \E p \in Paths, h \in Handlers : Subscribe(p, h) \/ Unsubscribe(p, h)

Spec == Init /\ [][Next]_vars

\* Timers run out.
FairSpec == Spec /\ \A i \in Ids : WF_vars(CallTimeout(i))

\* Only the reconnect timer sends what was subscribed before.
Resumed(w) == w \in byTimer

Agree == SubscriptionsAgree(Resumed)
=============================================================================
