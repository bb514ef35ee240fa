--------------------------- MODULE ThreadedClient ---------------------------
(***************************************************************************)
(* The persistent transports of the Python client, TcpJsonTransport and    *)
(* MsgPackTransport (ve/py/ve_client/transports.py), which differ in their *)
(* framing only.  Threads of the program send a request and wait for its   *)
(* answer; one thread of the transport receives, wakes them and calls the  *)
(* callbacks of events itself.  _sub_lock guards the subscriptions, and is *)
(* held by the last unsub() of a path until its answer has come.           *)
(*                                                                         *)
(* The server and the connection are external: requests are taken in       *)
(* order, and answers and events share one stream back.                    *)
(***************************************************************************)
EXTENDS Integers, Sequences, FiniteSets

CONSTANTS
  Threads,      \* threads of the program
  Paths,        \* nodes that may be subscribed to
  Callbacks,    \* what may be called
  MaxRequests,  \* bound on requests
  MaxEvents,    \* bound on events under way
  Chatty,       \* callbacks may use the client
  Silent,       \* nothing may come from the server for as long as the timeout
  Careful       \* unsubscribe(path) is not called while another thread uses the
                \* transport, nor subscribe() during it

CONSTANTS Receiver, Nobody
Agents == Threads \cup {Receiver}
Ids == 1 .. MaxRequests

VARIABLES
  pc,         \* per agent: idle, sending, waiting
  job,        \* per agent, its request: op, path, number
  lock,       \* who holds _sub_lock
  subs,       \* _subscriptions
  pending,    \* keys of _pending
  answered,   \* requests whose event is set
  running,    \* the receive loop runs
  up,         \* the connection is there
  toServer,   \* requests on their way
  toClient,   \* answers and events on their way
  served,     \* per path, the entries the server has for us
  used,       \* the number of requests so far
  late        \* history: a request has failed

clientVars == <<pc, job, lock, subs, pending, answered, running, used, late>>
serverVars == <<up, toServer, toClient, served>>
vars == <<clientVars, serverVars>>

Answer(i) == [kind |-> "answer", id |-> i, path |-> ""]
Event(p) == [kind |-> "event", id |-> 0, path |-> p]
NoJob == [op |-> "none", path |-> "", id |-> 0]

TypeOK ==
  /\ pc \in [Agents -> {"idle", "sending", "waiting"}]
  /\ job \in [Agents -> [op : {"none", "call", "subscribe", "unsubscribe", "unsubscribe all"}, path : Paths \cup {""},
                         id : Ids \cup {0}]]
  /\ lock \in Threads \cup {Nobody}
  /\ subs \in [Paths -> SUBSET Callbacks]
  /\ {pending, answered} \subseteq SUBSET Ids
  /\ {running, up, late} \subseteq BOOLEAN
  /\ served \in [Paths -> Nat]

\* _connect
Init ==
  /\ pc = [a \in Agents |-> "idle"] /\ job = [a \in Agents |-> NoJob]
  /\ lock = Nobody /\ subs = [p \in Paths |-> {}]
  /\ pending = {} /\ answered = {} /\ running = TRUE /\ up = TRUE
  /\ toServer = <<>> /\ toClient = <<>> /\ served = [p \in Paths |-> 0]
  /\ used = 0 /\ late = FALSE

-----------------------------------------------------------------------------
(* A request: _send, _send_frame.                                          *)

Wants(a, op, p) ==
  /\ used < MaxRequests /\ used' = used + 1
  /\ pc' = [pc EXCEPT ![a] = "sending"]
  /\ job' = [job EXCEPT ![a] = [op |-> op, path |-> p, id |-> used']]

\* Mutant: the lock is kept.
Kept(a) == lock

\* The end of a with block, an exception's way out too.
Released(a) == IF lock = a THEN Nobody ELSE lock

\* The agent goes on; an unsub() lets go of the lock.
Resumes(a) ==
  /\ pc' = [pc EXCEPT ![a] = "idle"]
  /\ job' = [job EXCEPT ![a] = NoJob]
  /\ lock' = Released(a)

\* The request is registered and written; what is written to a connection
\* that has gone is lost.
Send(a) ==
  /\ pc[a] = "sending"
  /\ pending' = pending \cup {job[a].id}
  /\ pc' = [pc EXCEPT ![a] = "waiting"]
  /\ toServer' = IF up THEN Append(toServer, job[a]) ELSE toServer
  /\ UNCHANGED <<job, lock, subs, answered, running, used, late, up, toClient, served>>

\* sendall raises.
SendFails(a) ==
  /\ pc[a] = "sending" /\ ~ up
  /\ late' = TRUE
  /\ Resumes(a)
  /\ UNCHANGED <<subs, pending, answered, running, used, serverVars>>

Woken(a) ==
  /\ pc[a] = "waiting" /\ job[a].id \in answered
  /\ Resumes(a)
  /\ UNCHANGED <<subs, pending, answered, running, used, late, serverVars>>

\* The wait runs out: an exception, which unsub() and unsubscribe() drop.
GiveUp(a) ==
  /\ pc[a] = "waiting" /\ job[a].id \notin answered
  /\ pending' = pending \ {job[a].id}
  /\ late' = TRUE
  /\ Resumes(a)
  /\ UNCHANGED <<subs, answered, running, used, serverVars>>

-----------------------------------------------------------------------------
(* What a thread of the program does.                                      *)

Call(t) ==
  /\ pc[t] = "idle"
  /\ Wants(t, "call", "")
  /\ UNCHANGED <<lock, subs, pending, answered, running, late, serverVars>>

\* subscribe(): the first callback of a path asks the server, the lock let go.
Subscribe(t, p, c) ==
  /\ pc[t] = "idle" /\ lock = Nobody /\ c \notin subs[p]
  /\ Careful => \A a \in Agents : job[a].op # "unsubscribe all"
  /\ subs' = [subs EXCEPT ![p] = @ \cup {c}]
  /\ IF subs[p] = {} THEN Wants(t, "subscribe", p) ELSE UNCHANGED <<pc, job, used>>
  /\ UNCHANGED <<lock, pending, answered, running, late, serverVars>>

\* Mutant: the lock is let go before the request.
Unlocked(t) == lock

\* The request is sent with the lock held.
Locked(t) == t

\* What subscribe() returns, called when that has returned.
Unsub(t, p, c) ==
  /\ pc[t] = "idle" /\ lock = Nobody /\ c \in subs[p]
  /\ subs[p] = {c} => \A a \in Agents : job[a].op = "subscribe" => job[a].path # p
  /\ subs' = [subs EXCEPT ![p] = @ \ {c}]
  /\ IF subs[p] = {c} THEN Wants(t, "unsubscribe", p) /\ lock' = Locked(t)
     ELSE UNCHANGED <<pc, job, used, lock>>
  /\ UNCHANGED <<pending, answered, running, late, serverVars>>

\* unsubscribe(path): every callback goes, and the request is sent without
\* the lock.
Unsubscribe(t, p) ==
  /\ pc[t] = "idle" /\ lock = Nobody
  /\ Careful => \A a \in Agents \ {t} : pc[a] = "idle"
  /\ subs' = [subs EXCEPT ![p] = {}]
  /\ Wants(t, "unsubscribe all", p)
  /\ UNCHANGED <<lock, pending, answered, running, late, serverVars>>

-----------------------------------------------------------------------------
(* The receive loop.                                                       *)

Reads == running /\ up /\ pc[Receiver] = "idle" /\ toClient # <<>>

\* result_holder, event.set
SetFor(i) == IF i \in pending THEN answered \cup {i} ELSE answered

TakeAnswer ==
  /\ Reads /\ Head(toClient).kind = "answer"
  /\ answered' = SetFor(Head(toClient).id)
  /\ pending' = pending \ {Head(toClient).id}
  /\ toClient' = Tail(toClient)
  /\ UNCHANGED <<pc, job, lock, subs, running, used, late, up, toServer, served>>

\* An event needs the lock to look up its callbacks; called with the lock let
\* go, one of them may use the client.
TakeEvent ==
  /\ Reads /\ Head(toClient).kind = "event" /\ lock = Nobody
  /\ toClient' = Tail(toClient)
  /\ \/ UNCHANGED <<pc, job, used>>
     \/ Chatty /\ subs[Head(toClient).path] # {} /\ Wants(Receiver, "call", "")
  /\ UNCHANGED <<lock, subs, pending, answered, running, late, up, toServer, served>>

\* recv has waited as long as a request may: an exception, and the loop ends.
ReceiveTimeout ==
  /\ Silent /\ running /\ up /\ pc[Receiver] = "idle" /\ toClient = <<>>
  /\ running' = FALSE
  /\ UNCHANGED <<pc, job, lock, subs, pending, answered, used, late, serverVars>>

\* recv finds the end of the stream.
ReceiveEnds ==
  /\ running /\ ~ up /\ pc[Receiver] = "idle"
  /\ running' = FALSE
  /\ UNCHANGED <<pc, job, lock, subs, pending, answered, used, late, serverVars>>

-----------------------------------------------------------------------------
(* The server.                                                             *)

Serve ==
  LET r == Head(toServer)
  IN  /\ up /\ toServer # <<>>
      /\ toServer' = Tail(toServer)
      /\ toClient' = Append(toClient, Answer(r.id))
      /\ served' = CASE r.op = "subscribe" -> [served EXCEPT ![r.path] = @ + 1]
                     [] r.op \in {"unsubscribe", "unsubscribe all"} -> [served EXCEPT ![r.path] = 0]
                     [] OTHER -> served
      /\ UNCHANGED <<clientVars, up>>

Change(p) ==
  /\ up /\ served[p] > 0 /\ Len(SelectSeq(toClient, LAMBDA m : m.kind = "event")) < MaxEvents
  /\ toClient' = Append(toClient, Event(p))
  /\ UNCHANGED <<clientVars, up, toServer, served>>

\* close(), or the server's end.
Close ==
  /\ up
  /\ up' = FALSE /\ toServer' = <<>> /\ toClient' = <<>> /\ served' = [p \in Paths |-> 0]
  /\ UNCHANGED clientVars

Next ==
  \/ \E a \in Agents : Send(a) \/ SendFails(a) \/ Woken(a) \/ GiveUp(a)
  \/ \E t \in Threads :
       \/ Call(t)
       \/ \E p \in Paths : Unsubscribe(t, p) \/ \E c \in Callbacks : Subscribe(t, p, c) \/ Unsub(t, p, c)
  \/ TakeAnswer \/ TakeEvent \/ ReceiveTimeout \/ ReceiveEnds
  \/ Serve \/ Close \/ \E p \in Paths : Change(p)

Spec == Init /\ [][Next]_vars

\* Threads run and waits run out; nothing is asked of the server.
FairSpec ==
  /\ Spec
  /\ \A a \in Agents : WF_vars(Send(a)) /\ WF_vars(Woken(a) \/ GiveUp(a))

-----------------------------------------------------------------------------

\* "Returns an unsubscribe function" (subscribe) and "Remove all subscriptions
\* for a path" (client.py, unsubscribe): when nothing is under way and no
\* request has failed, the server serves a path once if it has a callback, and
\* not at all if it has none - though the map and the request for it are not
\* changed in one step.
SubscriptionsAgree ==
  up /\ ~ late /\ toServer = <<>> /\ (\A a \in Agents : pc[a] = "idle") =>
    \A p \in Paths : served[p] = IF subs[p] = {} THEN 0 ELSE 1

\* Whatever becomes of the connection, of the receiver and of the lock, an
\* operation returns or raises, and lets go of the lock.
OperationsEnd == \A a \in Agents : pc[a] # "idle" ~> pc[a] = "idle" /\ lock # a

\* "callback(path: str, value: Any) is called on each NODE_CHANGED event"
\* (client.py, subscribe): as long as the connection is there, what comes is
\* received.
EventsAreHeard == up => running

\* The receiver never waits for a lock whose holder waits for the receiver.
NoCircularWait ==
  ~ \E t \in Threads :
      /\ lock = t /\ pc[t] = "waiting" /\ Answer(job[t].id) \in {toClient[k] : k \in DOMAIN toClient}
      /\ Reads /\ Head(toClient).kind = "event"
=============================================================================
