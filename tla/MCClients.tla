------------------------------ MODULE MCClients ------------------------------
(***************************************************************************)
(* The clients of the node protocol, one at a time: the three of           *)
(* JavaScript over the variables of RemoteClient, the threaded one of      *)
(* Python over its own.                                                    *)
(***************************************************************************)
EXTENDS RemoteClient

CONSTANTS Threads, MaxRequests, MaxEvents, Receiver, Nobody

\* Nobody is what _sub_lock is held by when it is free.
ASSUME LockAssumption == Nobody \notin Threads

VARIABLES which, pc, job, lock, subs, waiting, answered, running, up, toServer, toClient, entries, used, late

pyVars == <<pc, job, lock, subs, waiting, answered, running, up, toServer, toClient, entries, used, late>>
all == <<which, vars, pyVars>>

Ws == INSTANCE WsClient
Page == INSTANCE PageClient
Stream == INSTANCE StreamClient
Py == INSTANCE ThreadedClient
        WITH Callbacks <- Handlers, Chatty <- TRUE, Silent <- TRUE, Careful <- Patient,
             pending <- waiting, served <- entries

MCInit == which \in {"ws", "page", "stream", "py"} /\ Init /\ Py!Init

Of(client) == which = client /\ UNCHANGED which

MCNext ==
  \/ Of("ws") /\ Ws!Next /\ UNCHANGED pyVars
  \/ Of("page") /\ Page!Next /\ UNCHANGED pyVars
  \/ Of("stream") /\ Stream!Next /\ UNCHANGED pyVars
  \/ Of("py") /\ Py!Next /\ UNCHANGED vars

MCSpec ==
  /\ MCInit /\ [][MCNext]_all
  /\ \A i \in Ids :
       /\ WF_all(Of("ws") /\ Ws!CallTimeout(i) /\ UNCHANGED pyVars)
       /\ WF_all(Of("page") /\ Page!CallTimeout(i) /\ UNCHANGED pyVars)
       /\ WF_all(Of("stream") /\ Stream!CallTimeout(i) /\ UNCHANGED pyVars)
  /\ \A a \in Py!Agents :
       /\ WF_all(Of("py") /\ Py!Send(a) /\ UNCHANGED vars)
       /\ WF_all(Of("py") /\ (Py!Woken(a) \/ Py!GiveUp(a)) /\ UNCHANGED vars)

-----------------------------------------------------------------------------

\* What the server serves is what the client watches, once each, as soon as it
\* has taken what was sent to it; over reconnects, and over threads
\* (Resubscribed in ws.ts, veservice.js and bin.ts, _sub_lock in transports.py).
ServedIsWatched ==
  /\ which = "ws" => Ws!Agree
  /\ which = "page" => Page!Agree
  /\ which = "stream" => Stream!Agree
  /\ which = "py" => Py!SubscriptionsAgree

\* Every call comes to an end: its promise is settled, or its thread returns
\* and lets go of _sub_lock, whatever becomes of the connection.
CallsEnd == CallsSettle /\ Py!OperationsEnd
=============================================================================
