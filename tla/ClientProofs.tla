---------------------------- MODULE ClientProofs ----------------------------
(***************************************************************************)
(* Proofs about the four clients, for any number of sockets, calls,        *)
(* requests, threads, paths and handlers, of an owner who connects only    *)
(* when nothing of the last time is left (Patient).                        *)
(*                                                                         *)
(* The JavaScript clients share the variables of RemoteClient, and what    *)
(* they keep true of their sockets, their timer and the connect() calls    *)
(* under way: one connection, and one whenever the owner wants it.  What   *)
(* the server keeps of a client's subscriptions is then followed path by   *)
(* path through the requests in flight, for the three and for Python's.    *)
(***************************************************************************)
EXTENDS MCClients, FiniteSetTheorems, TLAPS

Busy(w) == sock[w] \in {"connecting", "open", "closing"}
NoneBusy == \A w \in Sockets : ~ Busy(w)

Typed ==
  /\ sock \in [Sockets -> {"new", "connecting", "open", "closing", "closed"}]
  /\ cur \in Sockets \cup {0}
  /\ timer \in BOOLEAN
  /\ starting \in Seq({"owner", "timer"})

\* One socket, or the timer, or one connect() on its way to a socket.
Single ==
  /\ \A v, w \in Sockets : Busy(v) /\ Busy(w) => v = w
  /\ timer => NoneBusy /\ starting = <<>>
  /\ starting # <<>> => NoneBusy /\ Len(starting) = 1

\* The socket in use is the one the client holds.
Current == \A w \in Sockets : Live(w) => w = cur

\* What disconnect() leaves behind is a socket that closes, and nobody to follow it.
Parted ==
  /\ left => ~ timer /\ starting = <<>> /\ (\A w \in Sockets : ~ Live(w)) /\ (wanted => NoneBusy)
  /\ \A w \in Sockets : sock[w] = "closing" => left

Shared == Typed /\ Single /\ Current /\ Parted /\ NeverStranded

-----------------------------------------------------------------------------

LEMMA AtMostOne ==
  ASSUME Single, Typed
  PROVE  OneConnection
<1> DEFINE L == {w \in Sockets : Live(w)}
<1>1. Cardinality(L) \in {0, 1} /\ (NoneBusy => Cardinality(L) = 0)
  <2>1. CASE L = {}
    BY <2>1, FS_EmptySet
  <2>2. ASSUME NEW v \in L PROVE Cardinality(L) = 1 /\ ~ NoneBusy
    <3>1. Busy(v)
      BY DEF Busy, Live
    <3>2. L = {v}
      BY DEF Busy, Live, Single
    <3>3. QED BY <3>1, <3>2, FS_Singleton DEF NoneBusy
  <2>3. QED BY <2>1, <2>2
<1>2. Len(starting) \in Nat /\ (starting = <<>> => Len(starting) = 0)
  BY DEF Typed
<1>3. Cardinality(L) + (IF timer THEN 1 ELSE 0) + Len(starting) <= 1
  <2> HIDE DEF L
  <2>1. CASE timer
    BY <1>1, <1>2, <2>1 DEF Single
  <2>2. CASE ~ timer /\ starting # <<>>
    <3>1. Cardinality(L) = 0 /\ Len(starting) = 1
      BY <1>1, <2>2 DEF Single
    <3>2. QED BY <2>2, <3>1
  <2>3. CASE ~ timer /\ starting = <<>>
    BY <1>1, <1>2, <2>3
  <2>4. QED BY <2>1, <2>2, <2>3
<1>4. QED BY <1>3 DEF OneConnection

LEMMA InitShared == Init => Shared
<1> SUFFICES ASSUME Init PROVE Shared
  OBVIOUS
<1>1. <<>> \in Seq({"owner", "timer"})
  OBVIOUS
<1>2. timer \in BOOLEAN
  BY Zenon DEF Init
<1>3. Typed
  BY <1>1, <1>2 DEF Init, Typed
<1>4. NoneBusy
  BY DEF Init, NoneBusy, Busy
<1>5. Single /\ Current /\ Parted
  BY <1>4 DEF Init, Single, Current, Parted, Live, NoneBusy, Busy
<1>6. NeverStranded
  BY DEF Init, NeverStranded
<1>7. QED BY <1>3, <1>5, <1>6 DEF Shared

\* Steps that touch nothing of the connection but what has been sent on it.
LEMMA SharedStays ==
  ASSUME Shared, UNCHANGED <<sock, cur, timer, starting, wanted, opened, left>>
  PROVE  Shared'
BY DEF Shared, Typed, Single, Current, Parted, NeverStranded, NoneBusy, Busy, Live

\* A new socket is the only one.
LEMMA SharedGrows ==
  ASSUME Shared, NoneBusy, NEW w \in Sockets, sock' = [sock EXCEPT ![w] = "connecting"], cur' = w,
         timer' = FALSE, starting' = <<>>, ~ left'
  PROVE  Shared'
<1>1. /\ sock'[w] = "connecting" /\ sock' \in [Sockets -> {"new", "connecting", "open", "closing", "closed"}]
      /\ \A v \in Sockets \ {w} : sock'[v] = sock[v]
  BY DEF Shared, Typed
<1>2. starting' \in Seq({"owner", "timer"})
  <2>1. <<>> \in Seq({"owner", "timer"})
    OBVIOUS
  <2>2. QED BY <2>1
<1>3. timer' \in BOOLEAN
  BY Zenon
<1>4. Typed'
  BY <1>1, <1>2, <1>3 DEF Typed
<1>5. \A v \in Sockets : Busy(v)' => v = w
  BY <1>1 DEF NoneBusy, Busy
<1>6. Single' /\ Current' /\ Parted'
  BY <1>1, <1>5 DEF Single, Current, Parted, NoneBusy, Busy, Live
<1>7. NeverStranded'
  BY <1>1 DEF NeverStranded
<1>8. QED BY <1>4, <1>6, <1>7 DEF Shared

\* It opens.
LEMMA SharedOpens ==
  ASSUME Shared, NEW w \in Sockets, sock[w] = "connecting", sock' = [sock EXCEPT ![w] = "open"],
         UNCHANGED <<cur, timer, starting, wanted, left>>
  PROVE  Shared'
<1>1. /\ sock'[w] = "open" /\ sock' \in [Sockets -> {"new", "connecting", "open", "closing", "closed"}]
      /\ \A v \in Sockets \ {w} : sock'[v] = sock[v]
  BY DEF Shared, Typed
<1>2. Typed'
  BY <1>1 DEF Shared, Typed
<1>3. Busy(w) /\ Live(w) /\ ~ left
  BY DEF Busy, Live, Shared, Parted
<1>4. \A v \in Sockets : Busy(v)' <=> Busy(v)
  BY <1>1, <1>3 DEF Busy
<1>5. ~ timer /\ starting = <<>>
  BY <1>3 DEF Shared, Single, NoneBusy
<1>6. Single' /\ Current' /\ Parted'
  BY <1>1, <1>3, <1>4, <1>5 DEF Shared, Single, Current, Parted, NoneBusy, Live
<1>7. NeverStranded'
  BY <1>1 DEF NeverStranded
<1>8. QED BY <1>2, <1>6, <1>7 DEF Shared

\* It ends, and the timer is what is left, if anything.
LEMMA SharedEnds ==
  ASSUME Shared, NEW w \in Sockets, Busy(w), sock' = [sock EXCEPT ![w] = "closed"],
         UNCHANGED <<starting, wanted, opened, left>>, cur' \in {cur, 0}, timer' \in BOOLEAN,
         timer' => ~ left, wanted /\ opened /\ ~ left => timer'
  PROVE  Shared'
<1>1. /\ sock'[w] = "closed" /\ sock' \in [Sockets -> {"new", "connecting", "open", "closing", "closed"}]
      /\ \A v \in Sockets \ {w} : sock'[v] = sock[v]
  BY DEF Shared, Typed
<1>2. Typed'
  BY <1>1 DEF Shared, Typed
<1>3. ~ timer /\ starting = <<>>
  BY DEF Shared, Single, NoneBusy
<1>4. \A v \in Sockets : ~ Busy(v)'
  BY <1>1 DEF Shared, Single, Busy
<1>5. Single' /\ Current' /\ Parted'
  BY <1>3, <1>4 DEF Single, Current, Parted, NoneBusy, Busy, Live
<1>6. NeverStranded'
  BY DEF NeverStranded
<1>7. QED BY <1>2, <1>5, <1>6 DEF Shared

\* The owner leaves, when no connect() is on its way.
LEMMA SharedLeaves ==
  ASSUME Shared, starting = <<>>, starting' = starting, timer' = FALSE, wanted' = FALSE, left' = TRUE, cur' = 0,
         sock' = IF cur # 0 /\ Live(cur) THEN [sock EXCEPT ![cur] = "closing"] ELSE sock
  PROVE  Shared'
<1>1. sock' \in [Sockets -> {"new", "connecting", "open", "closing", "closed"}]
  BY DEF Shared, Typed
<1>2. timer' \in BOOLEAN
  BY Zenon
<1>3. Typed'
  BY <1>1, <1>2 DEF Shared, Typed
<1>4. \A v \in Sockets : ~ Live(v)' /\ (Busy(v)' => Busy(v))
  BY DEF Shared, Typed, Current, Live, Busy
<1>5. Single' /\ Current' /\ Parted'
  BY <1>4 DEF Shared, Single, Current, Parted, NoneBusy
<1>6. NeverStranded'
  BY DEF NeverStranded
<1>7. QED BY <1>3, <1>5, <1>6 DEF Shared

\* What the clients do to connect.
LEMMA Quietly ==
  ASSUME Quiet
  PROVE  NoneBusy /\ timer = FALSE /\ starting = <<>>
BY DEF Quiet, NoneBusy, Busy

-----------------------------------------------------------------------------
(* VeWsClient makes its socket as it is asked to: no connect() is ever on  *)
(* its way to one.                                                         *)

LEMMA WsKeeps ==
  ASSUME Patient, Shared, starting = <<>>, [Ws!Next]_(Ws!vars)
  PROVE  Shared' /\ starting' = <<>>
<1>1. CASE UNCHANGED Ws!vars
  BY <1>1, SharedStays DEF Ws!vars, Ws!ownerVars, Ws!linkVars, Ws!streamVars
<1>2. CASE Ws!Disconnect
  BY <1>2, SharedLeaves DEF Ws!Disconnect, Ws!Cancelled, Ws!Live, Live, Ws!streamSame, Ws!streamVars
<1>3. CASE Ws!Call
  BY <1>3, SharedStays DEF Ws!Call, Ws!streamSame, Ws!streamVars, Ws!ownerVars
<1>4. ASSUME NEW w \in Sockets, Ws!Connect(w)
      PROVE  Shared' /\ starting' = <<>>
  <2>1. Quiet
    BY <1>4 DEF Ws!Connect, Ws!MayConnect, Ws!Quiet, Quiet, Ws!Sockets, Sockets
  <2>2. timer' = FALSE /\ starting' = <<>>
    BY <1>4, <2>1, Quietly DEF Ws!Connect, Ws!streamSame, Ws!streamVars
  <2>3. QED BY <1>4, <2>1, <2>2, Quietly, SharedGrows DEF Ws!Connect, Ws!CreateConnection
<1>5. ASSUME NEW w \in Sockets, Ws!OnOpen(w)
      PROVE  Shared' /\ starting' = <<>>
  BY <1>5, SharedOpens DEF Ws!OnOpen, Ws!streamSame, Ws!streamVars
<1>6. ASSUME NEW w \in Sockets, Busy(w), Ws!OnClose(w, sock)
      PROVE  Shared' /\ starting' = <<>>
  <2>1. sock' = [sock EXCEPT ![w] = "closed"] /\ UNCHANGED <<starting, cur, wanted, opened, left>>
    BY <1>6 DEF Ws!OnClose, Ws!streamSame, Ws!streamVars, Ws!ownerVars
  <2>2. timer' = (timer \/ wanted)
    BY <1>6 DEF Ws!OnClose, Ws!Scheduled
  <2>3. (wanted => timer') /\ timer' \in BOOLEAN
    BY Zenon, <2>2
  <2>4. timer' => ~ left
    BY <1>6, <2>2 DEF Shared, Single, Parted, NoneBusy
  <2>5. QED BY <1>6, <2>1, <2>3, <2>4, SharedEnds
<1>7. ASSUME NEW w \in Sockets, Ws!Closed(w)
      PROVE  Shared' /\ starting' = <<>>
  BY <1>6, <1>7 DEF Ws!Closed, Busy
<1>8. ASSUME NEW w \in Sockets, Ws!Fails(w)
      PROVE  Shared' /\ starting' = <<>>
  <2>1. Live(w) /\ w = cur
    BY <1>8 DEF Ws!Fails, Ws!Live, Live, Shared, Current
  <2>2. Ws!OnClose(w, sock)
    BY <1>8, <2>1 DEF Ws!Fails
  <2>3. QED BY <1>6, <2>1, <2>2 DEF Busy, Live
<1>9. ASSUME NEW w \in Sockets, Ws!Reconnect(w)
      PROVE  Shared' /\ starting' = <<>>
  <2>1. NoneBusy /\ starting = <<>> /\ ~ left
    BY <1>9 DEF Ws!Reconnect, Shared, Single, Parted
  <2>2. UNCHANGED <<starting, left>> /\ timer' = FALSE /\ cur' = w
    BY <1>9 DEF Ws!Reconnect, Ws!Fires, Ws!CreateConnection, Ws!streamSame, Ws!streamVars, Ws!ownerVars
  <2>3. ~ left'
    BY <2>1, <2>2
  <2>4. QED BY <1>9, <2>1, <2>2, <2>3, SharedGrows DEF Ws!Reconnect, Ws!CreateConnection
<1>10. ASSUME NEW w \in Sockets, Ws!OnMessage(w) \/ Ws!Handle(w)
       PROVE  Shared' /\ starting' = <<>>
  BY <1>10, SharedStays DEF Ws!OnMessage, Ws!Handle, Ws!streamSame, Ws!streamVars, Ws!ownerVars
<1>11. ASSUME NEW i \in Ids, Ws!CallTimeout(i)
       PROVE  Shared' /\ starting' = <<>>
  BY <1>11, SharedStays DEF Ws!CallTimeout, Ws!streamSame, Ws!streamVars, Ws!ownerVars, Ws!linkVars
<1>12. ASSUME NEW p \in Paths, Ws!UnwatchPath(p)
       PROVE  Shared' /\ starting' = <<>>
  BY <1>12, SharedStays DEF Ws!UnwatchPath, Ws!streamSame, Ws!streamVars, Ws!ownerVars
<1>13. ASSUME NEW p \in Paths, NEW h \in Handlers, Ws!Unwatch(p, h) \/ \E m \in Modes : Ws!Watch(p, h, m)
       PROVE  Shared' /\ starting' = <<>>
  BY <1>13, SharedStays DEF Ws!Unwatch, Ws!Watch, Ws!streamSame, Ws!streamVars, Ws!ownerVars
<1>14. QED
  BY <1>1, <1>2, <1>3, <1>4, <1>5, <1>7, <1>8, <1>9, <1>10, <1>11, <1>12, <1>13
     DEF Ws!Next, Ws!Sockets, Sockets, Ws!Ids, Ids, Ws!Modes, Modes

LEMMA WsShared ==
  ASSUME Patient
  PROVE  Ws!Spec => []Shared
<1> DEFINE Inv == Shared /\ starting = <<>>
<1>1. Ws!Init => Inv
  <2>1. Ws!Init => Init
    BY DEF Ws!Init, Init, Ws!Sockets, Sockets, Ws!Ids, Ids
  <2>2. QED BY <2>1, InitShared DEF Init
<1>2. Inv /\ [Ws!Next]_(Ws!vars) => Inv'
  BY WsKeeps
<1>3. Inv => Shared
  OBVIOUS
<1>4. QED BY <1>1, <1>2, <1>3, PTL DEF Ws!Spec

-----------------------------------------------------------------------------
(* VEService: it is connected exactly while the socket it holds is open,   *)
(* and a second attempt is the timer's.                                    *)

Flagged == \A w \in Sockets : flag /\ w = cur <=> sock[w] = "open"

Retried == opened /\ ~ left => \A w \in Sockets : sock[w] = "connecting" => w \in byTimer

PageInv == Shared /\ starting = <<>> /\ (flag => cur # 0) /\ Flagged /\ Retried

LEMMA PageStays ==
  ASSUME PageInv, UNCHANGED <<sock, cur, flag, timer, starting, wanted, byTimer, opened, left>>
  PROVE  PageInv'
BY SharedStays DEF PageInv, Flagged, Retried

LEMMA PageKeeps ==
  ASSUME Patient, PageInv, [Page!Next]_(Page!vars)
  PROVE  PageInv'
<1> USE DEF PageInv
<1>1. CASE UNCHANGED Page!vars
  BY <1>1, PageStays DEF Page!vars, Page!ownerVars, Page!linkVars, Page!streamVars
<1>2. CASE Page!Disconnect
  <2>1. Shared' /\ starting' = <<>>
    BY <1>2, SharedLeaves DEF Page!Disconnect, Page!Cancelled, Page!Live, Live, Page!streamSame
  <2>2. flag' = FALSE /\ cur' = 0 /\ left'
    BY <1>2 DEF Page!Disconnect
  <2>3. \A w \in Sockets : sock'[w] # "open"
    BY <2>1, <2>2 DEF Shared, Parted, Live
  <2>4. QED BY <2>1, <2>2, <2>3 DEF Flagged, Retried
<1>3. CASE Page!Call
  BY <1>3, PageStays DEF Page!Call, Page!streamSame, Page!ownerVars
<1>4. ASSUME NEW w \in Sockets, NoneBusy, Page!Transport(w), flag' = flag
      PROVE  /\ sock' = [sock EXCEPT ![w] = "connecting"] /\ cur' = w /\ cur' # 0
             /\ Flagged' /\ ~ flag'
             /\ \A v \in Sockets : sock'[v] = "connecting" => v = w
  <2>1. sock' = [sock EXCEPT ![w] = "connecting"] /\ cur' = w /\ cur' # 0
    BY <1>4 DEF Page!Transport, Sockets
  <2>2. ~ flag
    BY <1>4 DEF Flagged, NoneBusy, Busy, Shared, Typed
  <2>3. \A v \in Sockets : sock'[v] # "open" /\ (sock'[v] = "connecting" => v = w)
    BY <1>4, <2>1 DEF NoneBusy, Busy, Shared, Typed
  <2>4. QED BY <1>4, <2>1, <2>2, <2>3 DEF Flagged
<1>5. ASSUME NEW w \in Sockets, Page!Connect(w)
      PROVE  PageInv'
  <2>1. Quiet
    BY <1>5 DEF Page!Connect, Page!MayConnect, Page!Quiet, Quiet, Page!Sockets, Sockets
  <2>2. timer' = FALSE /\ starting' = <<>> /\ flag' = flag /\ left' = FALSE /\ opened' = FALSE
    BY <1>5, <2>1, Quietly DEF Page!Connect, Page!streamSame
  <2>3. Page!Transport(w) /\ NoneBusy
    BY <1>5, <2>1, Quietly DEF Page!Connect
  <2>4. Shared'
    BY <1>4, <2>2, <2>3, SharedGrows
  <2>5. QED BY <1>4, <2>2, <2>3, <2>4 DEF Retried
<1>6. ASSUME NEW w \in Sockets, Page!OnOpen(w)
      PROVE  PageInv'
  <2>1. Shared' /\ starting' = <<>> /\ flag' = TRUE /\ UNCHANGED <<cur, byTimer, left>>
    BY <1>6, SharedOpens DEF Page!OnOpen, Page!streamSame
  <2>2. w = cur /\ \A v \in Sockets : sock[v] \in {"connecting", "open"} => v = w
    BY <1>6 DEF Page!OnOpen, Shared, Current, Live
  <2>3. sock'[w] = "open" /\ \A v \in Sockets \ {w} : sock'[v] = sock[v]
    BY <1>6 DEF Page!OnOpen, Shared, Typed
  <2>4. Flagged' /\ Retried'
    BY <2>1, <2>2, <2>3 DEF Flagged, Retried
  <2>5. QED BY <2>1, <2>2, <2>4 DEF Sockets
<1>7. ASSUME NEW w \in Sockets, NEW retry \in BOOLEAN, Busy(w), Page!OnClose(w, retry),
             sock[w] = "connecting" /\ w \in byTimer /\ wanted => retry,
             retry => wanted /\ Live(w)
      PROVE  PageInv'
  <2>1. sock' = [sock EXCEPT ![w] = "closed"] /\ cur' = 0 /\ flag' = FALSE
        /\ UNCHANGED <<starting, wanted, byTimer, opened, left>>
    BY <1>7 DEF Page!OnClose, Page!streamSame, Page!ownerVars
  <2>2. timer' = (timer \/ (flag /\ wanted) \/ retry)
    BY <1>7 DEF Page!OnClose, Page!Reconnects
  <2>3. timer' \in BOOLEAN
    BY Zenon, <2>2
  <2>4. timer' => ~ left
    BY <1>7, <2>2 DEF Shared, Single, Parted, NoneBusy, Live
  <2>5. wanted /\ opened /\ ~ left => timer'
    BY <1>7, <2>2 DEF Busy, Flagged, Retried, Shared, Parted
  <2>6. Shared'
    BY <1>7, <2>1, <2>3, <2>4, <2>5, SharedEnds
  <2>7. \A v \in Sockets : sock'[v] \notin {"connecting", "open"}
    BY <1>7, <2>1 DEF Shared, Single, Busy, Typed
  <2>8. QED BY <2>1, <2>6, <2>7 DEF Flagged, Retried
<1>8. ASSUME NEW w \in Sockets, Page!Closed(w)
      PROVE  PageInv'
  BY <1>7, <1>8 DEF Page!Closed, Busy
<1>9. ASSUME NEW w \in Sockets, Page!Fails(w)
      PROVE  PageInv'
  <2>1. PICK retry \in BOOLEAN : retry <=> sock[w] = "connecting" /\ w \in byTimer /\ wanted
    OBVIOUS
  <2>2. Live(w) /\ Busy(w)
    BY <1>9 DEF Page!Fails, Page!Live, Live, Busy
  <2>3. Page!OnClose(w, retry)
    BY <1>9, <2>1 DEF Page!Fails, Page!OnClose
  <2>4. QED BY <1>7, <2>1, <2>2, <2>3
<1>10. ASSUME NEW w \in Sockets, Page!Reconnect(w)
       PROVE  PageInv'
  <2>1. NoneBusy /\ ~ left
    BY <1>10 DEF Page!Reconnect, Shared, Single, Parted
  <2>2. ~ flag
    BY <2>1 DEF Flagged, NoneBusy, Busy, Shared, Typed
  <2>3. /\ Page!Transport(w) /\ byTimer' = byTimer \cup {w} /\ timer' = FALSE
        /\ UNCHANGED <<flag, starting, opened, left>>
    BY <1>10, <2>2 DEF Page!Reconnect, Page!streamSame, Page!ownerVars
  <2>4. Shared'
    BY <1>4, <2>1, <2>3, SharedGrows
  <2>5. QED BY <1>4, <2>1, <2>3, <2>4 DEF Retried
<1>11. ASSUME NEW w \in Sockets, Page!OnMessage(w) \/ Page!Handle(w)
       PROVE  PageInv'
  BY <1>11, PageStays DEF Page!OnMessage, Page!Handle, Page!streamSame, Page!streamVars, Page!ownerVars
<1>12. ASSUME NEW i \in Ids, Page!CallTimeout(i)
       PROVE  PageInv'
  BY <1>12, PageStays DEF Page!CallTimeout, Page!streamSame, Page!ownerVars, Page!linkVars
<1>13. ASSUME NEW p \in Paths, \E hs \in SUBSET Handlers : Page!Unwatch(p, hs)
       PROVE  PageInv'
  BY <1>13, PageStays DEF Page!Unwatch, Page!streamSame, Page!ownerVars
<1>14. ASSUME NEW p \in Paths, \E h \in Handlers, m \in Modes : Page!Watch(p, h, m)
       PROVE  PageInv'
  BY <1>14, PageStays DEF Page!Watch, Page!streamSame, Page!ownerVars
<1> HIDE DEF PageInv
<1>15. QED
  BY <1>1, <1>2, <1>3, <1>5, <1>6, <1>8, <1>9, <1>10, <1>11, <1>12, <1>13, <1>14
     DEF Page!Next, Page!Sockets, Sockets, Page!Ids, Ids, Page!Modes, Modes

LEMMA PageShared ==
  ASSUME Patient
  PROVE  Page!Spec => []Shared
<1>1. Page!Init => PageInv
  <2>1. Page!Init => Init
    BY DEF Page!Init, Init, Page!Sockets, Sockets, Page!Ids, Ids
  <2>2. Init => PageInv
    BY InitShared DEF Init, PageInv, Flagged, Retried
  <2>3. QED BY <2>1, <2>2
<1>2. PageInv /\ [Page!Next]_(Page!vars) => PageInv'
  BY PageKeeps
<1>3. PageInv => Shared
  BY DEF PageInv
<1>4. QED BY <1>1, <1>2, <1>3, PTL DEF Page!Spec

-----------------------------------------------------------------------------
(* VeBinTcpClient: connect() under way has no socket yet, so that only the *)
(* flag keeps a second one from being made.                                *)

Linked == flag => \E w \in Sockets : sock[w] = "open"

StreamInv == Shared /\ Linked

LEMMA StreamStays ==
  ASSUME StreamInv, UNCHANGED <<sock, cur, flag, timer, starting, wanted, opened, left>>
  PROVE  StreamInv'
BY SharedStays DEF StreamInv, Linked

\* connect() waits for the library.
LEMMA SharedWaits ==
  ASSUME Shared, NoneBusy, NEW who \in {"owner", "timer"}, starting' = <<who>>,
         UNCHANGED <<sock, cur>>, timer' = FALSE, ~ left'
  PROVE  Shared'
<1>1. starting' \in Seq({"owner", "timer"}) /\ Len(starting') = 1 /\ starting' # <<>>
  OBVIOUS
<1>2. timer' \in BOOLEAN
  BY Zenon
<1>3. Typed'
  BY <1>1, <1>2 DEF Shared, Typed
<1>4. NoneBusy'
  BY DEF NoneBusy, Busy
<1>5. Single' /\ Current' /\ Parted'
  BY <1>1, <1>4 DEF Single, Current, Parted, NoneBusy, Busy, Live
<1>6. NeverStranded'
  BY <1>1 DEF NeverStranded
<1>7. QED BY <1>3, <1>5, <1>6 DEF Shared

LEMMA StreamKeeps ==
  ASSUME Patient, StreamInv, [Stream!Next]_(Stream!vars)
  PROVE  StreamInv'
<1> USE DEF StreamInv
<1>1. CASE UNCHANGED Stream!vars
  BY <1>1, StreamStays DEF Stream!vars, Stream!ownerVars, Stream!linkVars, Stream!streamVars
<1>2. ASSUME NEW who \in {"owner", "timer"}, Stream!Begin(who), NoneBusy, starting = <<>>
      PROVE  starting' = <<who>> /\ ~ flag
  <2>1. ~ flag
    BY <1>2 DEF Linked, NoneBusy, Busy
  <2>2. QED BY <1>2, <2>1 DEF Stream!Begin
<1>3. CASE Stream!Connect
  <2>1. Quiet
    BY <1>3 DEF Stream!Connect, Stream!MayConnect, Stream!Quiet, Quiet, Stream!Sockets, Sockets
  <2>2. NoneBusy /\ starting = <<>> /\ timer' = FALSE /\ ~ left' /\ UNCHANGED <<sock, cur, flag>>
    BY <1>3, <2>1, Quietly DEF Stream!Connect, Stream!linkVars
  <2>3. starting' = <<"owner">> /\ ~ flag
    BY <1>2, <1>3, <2>2 DEF Stream!Connect
  <2>4. Shared'
    BY <2>2, <2>3, SharedWaits
  <2>5. QED BY <2>2, <2>3, <2>4 DEF Linked
<1>4. CASE Stream!Reconnect
  <2>1. NoneBusy /\ starting = <<>> /\ ~ left
    BY <1>4 DEF Stream!Reconnect, Shared, Single, Parted
  <2>2. timer' = FALSE /\ ~ left' /\ UNCHANGED <<sock, cur, flag>>
    BY <1>4, <2>1 DEF Stream!Reconnect, Stream!linkVars, Stream!ownerVars
  <2>3. starting' = <<"timer">> /\ ~ flag
    BY <1>2, <1>4, <2>1 DEF Stream!Reconnect
  <2>4. Shared'
    BY <2>1, <2>2, <2>3, SharedWaits
  <2>5. QED BY <2>2, <2>3, <2>4 DEF Linked
<1>5. CASE Stream!Close
  <2>1. Shared' /\ ~ flag'
    BY <1>5, SharedLeaves DEF Stream!Close, Stream!Cancelled, Stream!Live, Live
  <2>2. QED BY <2>1 DEF Linked
<1>6. CASE Stream!Call
  BY <1>6, StreamStays DEF Stream!Call, Stream!streamVars, Stream!ownerVars
<1>7. ASSUME NEW w \in Sockets, Stream!Start(w)
      PROVE  StreamInv'
  <2>1. NoneBusy /\ Len(starting) = 1 /\ ~ timer /\ ~ left
    BY <1>7 DEF Stream!Start, Shared, Single, Parted
  <2>2. starting' = <<>>
    <3>1. starting \in Seq({"owner", "timer"}) /\ starting' = Tail(starting)
      BY <1>7 DEF Stream!Start, Shared, Typed
    <3>2. QED BY <2>1, <3>1
  <2>3. /\ sock' = [sock EXCEPT ![w] = "connecting"] /\ cur' = w
        /\ UNCHANGED <<flag, timer, left>>
    BY <1>7 DEF Stream!Start, Stream!ownerVars
  <2>4. timer' = FALSE
    BY <2>1, <2>3 DEF Shared, Typed
  <2>5. Shared'
    BY <2>1, <2>2, <2>3, <2>4, SharedGrows
  <2>6. ~ flag
    BY <2>1 DEF Linked, NoneBusy, Busy
  <2>7. QED BY <2>3, <2>5, <2>6 DEF Linked
<1>8. ASSUME NEW w \in Sockets, Stream!OnConnect(w)
      PROVE  StreamInv'
  <2>1. Shared' /\ sock' = [sock EXCEPT ![w] = "open"]
    BY <1>8, SharedOpens DEF Stream!OnConnect, Stream!streamVars
  <2>2. QED BY <2>1 DEF Linked, Shared, Typed
<1>9. ASSUME NEW w \in Sockets, Stream!Ends(w)
      PROVE  StreamInv'
  <2>1. /\ sock' = [sock EXCEPT ![w] = "closed"] /\ cur' = 0 /\ ~ flag' /\ Busy(w)
        /\ UNCHANGED <<starting, wanted, opened, left>>
    BY <1>9 DEF Stream!Ends, Stream!OnClose, Busy, Stream!ownerVars
  <2>2. timer' = (timer \/ wanted)
    BY <1>9 DEF Stream!Ends, Stream!OnClose, Stream!Scheduled
  <2>3. (wanted => timer') /\ timer' \in BOOLEAN
    BY Zenon, <2>2
  <2>4. timer' => ~ left
    BY <2>1, <2>2 DEF Shared, Single, Parted, NoneBusy
  <2>5. QED BY <2>1, <2>3, <2>4, SharedEnds DEF Linked
<1>10. ASSUME NEW w \in Sockets, Stream!OnData(w) \/ Stream!Handle(w)
       PROVE  StreamInv'
  BY <1>10, StreamStays DEF Stream!OnData, Stream!Handle, Stream!streamVars, Stream!ownerVars
<1>11. ASSUME NEW i \in Ids, Stream!CallTimeout(i)
       PROVE  StreamInv'
  BY <1>11, StreamStays DEF Stream!CallTimeout, Stream!linkVars, Stream!ownerVars
<1>12. ASSUME NEW p \in Paths, NEW h \in Handlers, Stream!Subscribe(p, h) \/ Stream!Unsubscribe(p, h)
       PROVE  StreamInv'
  BY <1>12, StreamStays DEF Stream!Subscribe, Stream!Unsubscribe, Stream!streamVars, Stream!ownerVars
<1> HIDE DEF StreamInv
<1>13. QED
  BY <1>1, <1>3, <1>4, <1>5, <1>6, <1>7, <1>8, <1>9, <1>10, <1>11, <1>12
     DEF Stream!Next, Stream!Sockets, Sockets, Stream!Ids, Ids

LEMMA StreamShared ==
  ASSUME Patient
  PROVE  Stream!Spec => []Shared
<1>1. Stream!Init => StreamInv
  <2>1. Stream!Init => Init
    BY DEF Stream!Init, Init, Stream!Sockets, Sockets, Stream!Ids, Ids
  <2>2. Init => StreamInv
    BY InitShared DEF Init, StreamInv, Linked
  <2>3. QED BY <2>1, <2>2
<1>2. StreamInv /\ [Stream!Next]_(Stream!vars) => StreamInv'
  BY StreamKeeps
<1>3. StreamInv => Shared
  BY DEF StreamInv
<1>4. QED BY <1>1, <1>2, <1>3, PTL DEF Stream!Spec

-----------------------------------------------------------------------------
(* What the three clients promise of their connections.                    *)

LEMMA SharedSuffices == Shared => OneConnection /\ ComesAndGoes
<1>1. Shared => OneConnection
  BY AtMostOne DEF Shared
<1>2. Shared => ComesAndGoes
  BY DEF Shared, Parted, ComesAndGoes, LeavesForGood
<1>3. QED BY <1>1, <1>2

\* None of the clients ever has two connections, or one and a timer or a
\* connect() that will make another: a patient owner's socket, the reconnect
\* timer and the handlers of onclose and onerror never work side by side
\* (connect, scheduleReconnect and the close handlers of ws.ts, veservice.js
\* and bin.ts).
THEOREM ConnectedOnce ==
  ASSUME Patient
  PROVE  (Ws!Spec \/ Page!Spec \/ Stream!Spec) => []OneConnection
<1>1. Shared => OneConnection
  BY SharedSuffices
<1>2. Ws!Spec \/ Page!Spec \/ Stream!Spec => []Shared
  BY WsShared, PageShared, StreamShared
<1>3. QED BY <1>1, <1>2, PTL

\* A client that has been connected and wants to be always has a socket, a
\* timer or a connect() on its way, and one that has left has none of them:
\* whatever fails, in whatever order (scheduleReconnect, disconnect and close
\* of ws.ts, veservice.js and bin.ts).
THEOREM ReconnectsUntilItLeaves ==
  ASSUME Patient
  PROVE  (Ws!Spec \/ Page!Spec \/ Stream!Spec) => []ComesAndGoes
<1>1. Shared => ComesAndGoes
  BY SharedSuffices
<1>2. Ws!Spec \/ Page!Spec \/ Stream!Spec => []Shared
  BY WsShared, PageShared, StreamShared
<1>3. QED BY <1>1, <1>2, PTL

-----------------------------------------------------------------------------
(* What a session has taken and what is on its way to it lead to what is   *)
(* watched: sequences of requests, for one path.                           *)

\* What may be on its way to the server.
Sendable == [op : {"call", "subscribe", "unsubscribe"}, id : Nat, path : Paths \cup {""}, mode : Modes]

Asks(r, p) == r.op = "subscribe" /\ r.path = p
Drops(r, p) == r.op = "unsubscribe" /\ r.path = p

\* Two requests for a path have one between them that drops it.
InTurn(box, p) ==
  \A i, k \in DOMAIN box :
    i < k /\ Asks(box[i], p) /\ Asks(box[k], p) => \E j \in DOMAIN box : i < j /\ j < k /\ Drops(box[j], p)

\* What is served is dropped before it is asked for.
OnceServed(box, given, p) ==
  given # <<>> =>
    /\ Len(given) = 1
    /\ \A k \in DOMAIN box : Asks(box[k], p) => \E j \in DOMAIN box : j < k /\ Drops(box[j], p)

\* What will be served, once all is handled.
Remains(box, given, p) ==
  \/ given # <<>> /\ \A j \in DOMAIN box : ~ Drops(box[j], p)
  \/ \E k \in DOMAIN box : Asks(box[k], p) /\ \A j \in DOMAIN box : k < j => ~ Drops(box[j], p)

Leads(box, given, p, on) ==
  InTurn(box, p) /\ OnceServed(box, given, p) /\ (p \in on <=> Remains(box, given, p))

\* The server takes the first request.
LEMMA LeadsTaken ==
  ASSUME NEW box \in Seq(Sendable), box # <<>>, NEW given \in Seq(Modes), NEW p, NEW on,
         Leads(box, given, p, on), NEW after,
         after = IF Asks(Head(box), p) THEN Append(given, Head(box).mode)
                 ELSE IF Drops(Head(box), p) THEN <<>> ELSE given
  PROVE  Leads(Tail(box), after, p, on)
<1> DEFINE t == Tail(box)
<1>1. /\ Len(box) \in Nat \ {0} /\ DOMAIN box = 1 .. Len(box)
      /\ t \in Seq(Sendable) /\ DOMAIN t = 1 .. Len(box) - 1 /\ Head(box) = box[1]
      /\ \A k \in DOMAIN t : t[k] = box[k + 1] /\ k + 1 \in DOMAIN box
      /\ \A k \in DOMAIN box : k # 1 => k - 1 \in DOMAIN t /\ t[k - 1] = box[k]
  OBVIOUS
<1> HIDE DEF t
<1>2. Head(box).mode \in Modes
  <2>1. Head(box) \in Sendable
    OBVIOUS
  <2>2. QED BY <2>1 DEF Sendable
<1>3. InTurn(t, p)
  <2> SUFFICES ASSUME NEW i \in DOMAIN t, NEW k \in DOMAIN t, i < k, Asks(t[i], p), Asks(t[k], p)
               PROVE  \E j \in DOMAIN t : i < j /\ j < k /\ Drops(t[j], p)
    BY DEF InTurn
  <2>1. i + 1 \in DOMAIN box /\ k + 1 \in DOMAIN box /\ Asks(box[i + 1], p) /\ Asks(box[k + 1], p) /\ i + 1 < k + 1
    BY <1>1
  <2>2. PICK j \in DOMAIN box : i + 1 < j /\ j < k + 1 /\ Drops(box[j], p)
    BY <2>1 DEF Leads, InTurn
  <2>3. j - 1 \in DOMAIN t /\ t[j - 1] = box[j] /\ i < j - 1 /\ j - 1 < k
    BY <1>1, <2>2
  <2>4. QED BY <2>2, <2>3
<1>4. CASE Asks(Head(box), p)
  <2>1. given = <<>>
    BY <1>1, <1>4 DEF Leads, OnceServed
  <2>2. after # <<>> /\ Len(after) = 1
    BY <1>2, <1>4, <2>1
  <2>3. ASSUME NEW k \in DOMAIN t, Asks(t[k], p)
        PROVE  \E j \in DOMAIN t : j < k /\ Drops(t[j], p)
    <3>1. 1 \in DOMAIN box /\ k + 1 \in DOMAIN box /\ 1 < k + 1 /\ Asks(box[k + 1], p) /\ Asks(box[1], p)
      BY <1>1, <1>4, <2>3
    <3>2. PICK j \in DOMAIN box : 1 < j /\ j < k + 1 /\ Drops(box[j], p)
      BY <3>1 DEF Leads, InTurn
    <3>3. j - 1 \in DOMAIN t /\ t[j - 1] = box[j] /\ j - 1 < k
      BY <1>1, <3>2
    <3>4. QED BY <3>2, <3>3
  <2>4. OnceServed(t, after, p)
    BY <2>2, <2>3 DEF OnceServed
  <2>5. Remains(box, given, p) => Remains(t, after, p)
    <3> SUFFICES ASSUME NEW k \in DOMAIN box, Asks(box[k], p), \A j \in DOMAIN box : k < j => ~ Drops(box[j], p)
                 PROVE  Remains(t, after, p)
      BY <2>1 DEF Remains
    <3>1. CASE k = 1
      <4>1. \A j \in DOMAIN t : ~ Drops(t[j], p)
        BY <1>1, <3>1
      <4>2. QED BY <2>2, <4>1 DEF Remains
    <3>2. CASE k # 1
      <4>1. k - 1 \in DOMAIN t /\ Asks(t[k - 1], p) /\ \A j \in DOMAIN t : k - 1 < j => ~ Drops(t[j], p)
        BY <1>1, <3>2
      <4>2. QED BY <4>1 DEF Remains
    <3>3. QED BY <3>1, <3>2
  <2>6. Remains(t, after, p) => Remains(box, given, p)
    <3>1. CASE \A j \in DOMAIN t : ~ Drops(t[j], p)
      <4>1. \A j \in DOMAIN box : 1 < j => ~ Drops(box[j], p)
        BY <1>1, <3>1
      <4>2. 1 \in DOMAIN box /\ Asks(box[1], p)
        BY <1>1, <1>4
      <4>3. QED BY <4>1, <4>2 DEF Remains
    <3>2. ASSUME NEW k \in DOMAIN t, Asks(t[k], p), \A j \in DOMAIN t : k < j => ~ Drops(t[j], p)
          PROVE  Remains(box, given, p)
      <4>1. k + 1 \in DOMAIN box /\ Asks(box[k + 1], p) /\ \A j \in DOMAIN box : k + 1 < j => ~ Drops(box[j], p)
        <5>1. k + 1 \in DOMAIN box /\ Asks(box[k + 1], p)
          BY <1>1, <3>2
        <5>2. ASSUME NEW j \in DOMAIN box, k + 1 < j
              PROVE  ~ Drops(box[j], p)
          <6>1. j - 1 \in DOMAIN t /\ k < j - 1 /\ t[j - 1] = box[j]
            BY <1>1, <5>2
          <6>2. QED BY <3>2, <6>1
        <5>3. QED BY <5>1, <5>2
      <4>2. QED BY <4>1 DEF Remains
    <3>3. QED BY <3>1, <3>2 DEF Remains
  <2>7. QED BY <1>3, <2>4, <2>5, <2>6 DEF Leads, t
<1>5. CASE ~ Asks(Head(box), p)
  <2>1. CASE Drops(Head(box), p)
    <3>1. after = <<>>
      BY <1>5, <2>1
    <3>2. OnceServed(t, after, p)
      BY <3>1 DEF OnceServed
    <3>3. Remains(box, given, p) => Remains(t, after, p)
      <4>1. 1 \in DOMAIN box /\ Drops(box[1], p) /\ ~ Asks(box[1], p)
        BY <1>1, <1>5, <2>1
      <4>2. SUFFICES ASSUME NEW k \in DOMAIN box, Asks(box[k], p), \A j \in DOMAIN box : k < j => ~ Drops(box[j], p)
                     PROVE  Remains(t, after, p)
        BY <4>1 DEF Remains
      <4>3. k - 1 \in DOMAIN t /\ Asks(t[k - 1], p) /\ \A j \in DOMAIN t : k - 1 < j => ~ Drops(t[j], p)
        BY <1>1, <4>1, <4>2
      <4>4. QED BY <4>3 DEF Remains
    <3>4. Remains(t, after, p) => Remains(box, given, p)
      <4>1. SUFFICES ASSUME NEW k \in DOMAIN t, Asks(t[k], p), \A j \in DOMAIN t : k < j => ~ Drops(t[j], p)
                     PROVE  Remains(box, given, p)
        BY <3>1 DEF Remains
      <4>2. k + 1 \in DOMAIN box /\ Asks(box[k + 1], p) /\ \A j \in DOMAIN box : k + 1 < j => ~ Drops(box[j], p)
        <5>1. k + 1 \in DOMAIN box /\ Asks(box[k + 1], p)
          BY <1>1, <4>1
        <5>2. ASSUME NEW j \in DOMAIN box, k + 1 < j
              PROVE  ~ Drops(box[j], p)
          <6>1. j - 1 \in DOMAIN t /\ k < j - 1 /\ t[j - 1] = box[j]
            BY <1>1, <5>2
          <6>2. QED BY <4>1, <6>1
        <5>3. QED BY <5>1, <5>2
      <4>3. QED BY <4>2 DEF Remains
    <3>5. QED BY <1>3, <3>2, <3>3, <3>4 DEF Leads, t
  <2>2. CASE ~ Drops(Head(box), p)
    <3>1. after = given
      BY <1>5, <2>2
    <3>2. 1 \in DOMAIN box /\ ~ Drops(box[1], p) /\ ~ Asks(box[1], p)
      BY <1>1, <1>5, <2>2
    <3>3. ASSUME NEW k \in DOMAIN t, Asks(t[k], p), given # <<>>
          PROVE  \E j \in DOMAIN t : j < k /\ Drops(t[j], p)
      <4>1. k + 1 \in DOMAIN box /\ Asks(box[k + 1], p)
        BY <1>1, <3>3
      <4>2. PICK j \in DOMAIN box : j < k + 1 /\ Drops(box[j], p)
        BY <3>3, <4>1 DEF Leads, OnceServed
      <4>3. j - 1 \in DOMAIN t /\ t[j - 1] = box[j] /\ j - 1 < k
        BY <1>1, <3>2, <4>2
      <4>4. QED BY <4>2, <4>3
    <3>4. OnceServed(t, after, p)
      BY <3>1, <3>3 DEF Leads, OnceServed
    <3>5. (\A j \in DOMAIN t : ~ Drops(t[j], p)) <=> (\A j \in DOMAIN box : ~ Drops(box[j], p))
      BY <1>1, <3>2
    <3>6. ASSUME NEW k \in DOMAIN box, Asks(box[k], p), \A j \in DOMAIN box : k < j => ~ Drops(box[j], p)
          PROVE  Remains(t, after, p)
      <4>1. k - 1 \in DOMAIN t /\ Asks(t[k - 1], p) /\ \A j \in DOMAIN t : k - 1 < j => ~ Drops(t[j], p)
        BY <1>1, <3>2, <3>6
      <4>2. QED BY <4>1 DEF Remains
    <3>7. ASSUME NEW k \in DOMAIN t, Asks(t[k], p), \A j \in DOMAIN t : k < j => ~ Drops(t[j], p)
          PROVE  Remains(box, given, p)
      <4>1. k + 1 \in DOMAIN box /\ Asks(box[k + 1], p) /\ \A j \in DOMAIN box : k + 1 < j => ~ Drops(box[j], p)
        <5>1. k + 1 \in DOMAIN box /\ Asks(box[k + 1], p)
          BY <1>1, <3>7
        <5>2. ASSUME NEW j \in DOMAIN box, k + 1 < j
              PROVE  ~ Drops(box[j], p)
          <6>1. j - 1 \in DOMAIN t /\ k < j - 1 /\ t[j - 1] = box[j]
            BY <1>1, <5>2
          <6>2. QED BY <3>7, <6>1
        <5>3. QED BY <5>1, <5>2
      <4>2. QED BY <4>1 DEF Remains
    <3>8. Remains(box, given, p) <=> Remains(t, after, p)
      BY <3>1, <3>5, <3>6, <3>7 DEF Remains
    <3>9. QED BY <1>3, <3>4, <3>8 DEF Leads, t
  <2>3. QED BY <2>1, <2>2
<1>6. QED BY <1>4, <1>5

\* A request is sent: a call, one for a path, or one that drops it.
LEMMA LeadsSent ==
  ASSUME NEW box \in Seq(Sendable), NEW given \in Seq(Modes), NEW p, NEW on, Leads(box, given, p, on),
         NEW r \in Sendable, NEW then, Asks(r, p) => p \notin on,
         p \in then <=> Asks(r, p) \/ (p \in on /\ ~ Drops(r, p))
  PROVE  Leads(Append(box, r), given, p, then)
<1> DEFINE t == Append(box, r)
           n == Len(box) + 1
<1>1. /\ n \in Nat /\ DOMAIN t = 1 .. n /\ DOMAIN box = 1 .. n - 1
      /\ t[n] = r /\ \A k \in DOMAIN box : k \in DOMAIN t /\ k < n /\ t[k] = box[k]
      /\ \A k \in DOMAIN t : k = n \/ k \in DOMAIN box
      /\ n \in DOMAIN t /\ \A k \in DOMAIN t : ~ n < k
  OBVIOUS
<1> HIDE DEF t, n
<1>2. ~ (Asks(r, p) /\ Drops(r, p))
  BY DEF Asks, Drops
<1>3. InTurn(t, p)
  <2> SUFFICES ASSUME NEW i \in DOMAIN t, NEW k \in DOMAIN t, i < k, Asks(t[i], p), Asks(t[k], p)
               PROVE  \E j \in DOMAIN t : i < j /\ j < k /\ Drops(t[j], p)
    BY DEF InTurn
  <2>1. i \in DOMAIN box /\ Asks(box[i], p)
    BY <1>1
  <2>2. CASE k = n
    <3>1. ~ Remains(box, given, p)
      BY <1>1, <2>2 DEF Leads
    <3>2. PICK j \in DOMAIN box : i < j /\ Drops(box[j], p)
      BY <2>1, <3>1 DEF Remains
    <3>3. QED BY <1>1, <2>2, <3>2
  <2>3. CASE k \in DOMAIN box
    <3>1. PICK j \in DOMAIN box : i < j /\ j < k /\ Drops(box[j], p)
      BY <1>1, <2>1, <2>3 DEF Leads, InTurn
    <3>2. QED BY <1>1, <3>1
  <2>4. QED BY <1>1, <2>2, <2>3
<1>4. OnceServed(t, given, p)
  <2> SUFFICES ASSUME given # <<>>, NEW k \in DOMAIN t, Asks(t[k], p)
               PROVE  \E j \in DOMAIN t : j < k /\ Drops(t[j], p)
    BY DEF Leads, OnceServed
  <2>1. CASE k = n
    <3>1. ~ Remains(box, given, p)
      BY <1>1, <2>1 DEF Leads
    <3>2. PICK j \in DOMAIN box : Drops(box[j], p)
      BY <3>1 DEF Remains
    <3>3. QED BY <1>1, <2>1, <3>2
  <2>2. CASE k \in DOMAIN box
    <3>1. PICK j \in DOMAIN box : j < k /\ Drops(box[j], p)
      BY <1>1, <2>2 DEF Leads, OnceServed
    <3>2. QED BY <1>1, <3>1
  <2>3. QED BY <1>1, <2>1, <2>2
<1>5. CASE Asks(r, p)
  <2>1. Remains(t, given, p)
    BY <1>1, <1>5 DEF Remains
  <2>2. QED BY <1>3, <1>4, <1>5, <2>1 DEF Leads, t
<1>6. CASE Drops(r, p)
  <2>1. ~ Remains(t, given, p)
    BY <1>1, <1>2, <1>6 DEF Remains
  <2>2. QED BY <1>2, <1>3, <1>4, <1>6, <2>1 DEF Leads, t
<1>7. CASE ~ Asks(r, p) /\ ~ Drops(r, p)
  <2>1. Remains(t, given, p) <=> Remains(box, given, p)
    <3>1. (\A j \in DOMAIN t : ~ Drops(t[j], p)) <=> (\A j \in DOMAIN box : ~ Drops(box[j], p))
      BY <1>1, <1>7
    <3>2. ASSUME NEW k \in DOMAIN t, Asks(t[k], p), \A j \in DOMAIN t : k < j => ~ Drops(t[j], p)
          PROVE  Remains(box, given, p)
      <4>1. k \in DOMAIN box /\ Asks(box[k], p) /\ \A j \in DOMAIN box : k < j => ~ Drops(box[j], p)
        BY <1>1, <1>7, <3>2
      <4>2. QED BY <4>1 DEF Remains
    <3>3. ASSUME NEW k \in DOMAIN box, Asks(box[k], p), \A j \in DOMAIN box : k < j => ~ Drops(box[j], p)
          PROVE  Remains(t, given, p)
      <4>1. k \in DOMAIN t /\ Asks(t[k], p) /\ \A j \in DOMAIN t : k < j => ~ Drops(t[j], p)
        BY <1>1, <1>7, <3>3
      <4>2. QED BY <4>1 DEF Remains
    <3>4. QED BY <3>1, <3>2, <3>3 DEF Remains
  <2>2. QED BY <1>3, <1>4, <1>7, <2>1 DEF Leads, t
<1>8. QED BY <1>5, <1>6, <1>7

\* A session that has taken everything serves what is watched.
LEMMA LeadsThere ==
  ASSUME NEW given \in Seq(Modes), NEW p, NEW on, Leads(<<>>, given, p, on)
  PROVE  Len(given) = IF p \in on THEN 1 ELSE 0
<1>1. DOMAIN <<>> = {}
  OBVIOUS
<1>2. p \in on <=> given # <<>>
  BY <1>1 DEF Leads, Remains
<1>3. QED BY <1>2 DEF Leads, OnceServed

\* A new session, asked for each path once.
LEMMA LeadsAnew ==
  ASSUME NEW on, NEW n \in Nat, NEW f \in [1 .. n -> on], \A i, k \in 1 .. n : f[i] = f[k] => i = k,
         \A q \in on : \E k \in 1 .. n : f[k] = q,
         NEW box \in Seq(Sendable), Len(box) = n, \A k \in 1 .. n : Asks(box[k], f[k]), NEW p
  PROVE  Leads(box, <<>>, p, on)
<1>1. DOMAIN box = 1 .. n
  OBVIOUS
<1>2. \A k \in 1 .. n : ~ Drops(box[k], p) /\ (Asks(box[k], p) <=> f[k] = p)
  BY DEF Asks, Drops
<1>3. InTurn(box, p)
  BY <1>1, <1>2 DEF InTurn
<1>4. OnceServed(box, <<>>, p)
  BY DEF OnceServed
<1>5. Remains(box, <<>>, p) <=> p \in on
  BY <1>1, <1>2 DEF Remains
<1>6. QED BY <1>3, <1>4, <1>5 DEF Leads

\* A finite set, as a sequence.
LEMMA Enumerated ==
  ASSUME NEW S, IsFiniteSet(S)
  PROVE  LET n == Cardinality(S)
             f == SetToSeq(S)
         IN  /\ n \in Nat /\ f \in [1 .. n -> S] /\ \A i, k \in 1 .. n : f[i] = f[k] => i = k
             /\ \A q \in S : \E k \in 1 .. n : f[k] = q
<1> DEFINE n == Cardinality(S)
           f == SetToSeq(S)
<1>1. n \in Nat /\ ExistsBijection(1 .. n, S)
  BY FS_CardinalityType
<1>2. PICK g \in Bijection(1 .. n, S) : TRUE
  BY <1>1 DEF ExistsBijection
<1>3. g \in [1 .. n -> S] /\ IsInjective(g)
  BY <1>2 DEF Bijection, Injection
<1>4. f \in [1 .. n -> S] /\ IsInjective(f)
  BY <1>3 DEF SetToSeq
<1>5. f \in Injection(1 .. n, S)
  BY <1>4 DEF Injection
<1>6. IsFiniteSet(1 .. n) /\ Cardinality(1 .. n) = n
  BY <1>1, FS_Interval
<1>7. f \in Surjection(1 .. n, S)
  <2> HIDE DEF f
  <2>1. Cardinality(1 .. n) = Cardinality(S) <=> f \in Surjection(1 .. n, S)
    BY <1>5, FS_Injection
  <2>2. QED BY <1>6, <2>1
<1>8. QED BY <1>1, <1>4, <1>7 DEF Surjection, IsInjective

-----------------------------------------------------------------------------
(* What the clients of JavaScript keep true of the sessions of the server. *)

Nothing == [p \in Paths |-> <<>>]

Boxes == inbox \in [Sockets -> Seq(Sendable)] /\ served \in [Sockets -> [Paths -> Seq(Modes)]]

Watching == watched \subseteq Paths /\ IsFiniteSet(watched)

Fresh == \A w \in Sockets : sock[w] \in {"new", "connecting"} => inbox[w] = <<>> /\ served[w] = Nothing

Carried == Boxes /\ Watching /\ Fresh

\* What an open session has taken and will take leads to what is watched.
Following(w) == sock[w] = "open" => \A p \in Paths : Leads(inbox[w], served[w][p], p, watched)

\* What the socket, its session and the watched paths are stays.
LEMMA CarriedStays ==
  ASSUME Carried, UNCHANGED <<sock, inbox, served, watched>>
  PROVE  Carried' /\ \A w \in Sockets : Following(w) => Following(w)'
BY DEF Carried, Boxes, Watching, Fresh, Following

\* The server takes a request of one session.
LEMMA CarriedHandled ==
  ASSUME Carried, NEW w \in Sockets, Handle(w)
  PROVE  Carried' /\ \A v \in Sockets : Following(v) => Following(v)'
<1>1. PICK r : r = Head(inbox[w])
  OBVIOUS
<1>2. /\ sock[w] = "open" /\ inbox[w] # <<>> /\ UNCHANGED <<sock, watched>>
      /\ inbox' = [inbox EXCEPT ![w] = Tail(@)]
      /\ served' = IF r.op = "call" THEN served ELSE [served EXCEPT ![w][r.path] = Entries(@, r)]
  BY <1>1 DEF Handle, watchVars
<1>3. inbox[w] \in Seq(Sendable) /\ Tail(inbox[w]) \in Seq(Sendable) /\ r \in Sendable
  BY <1>1, <1>2 DEF Carried, Boxes
<1>4. /\ inbox' \in [Sockets -> Seq(Sendable)] /\ inbox'[w] = Tail(inbox[w])
      /\ \A v \in Sockets \ {w} : inbox'[v] = inbox[v]
  BY <1>2, <1>3 DEF Carried, Boxes
<1>5. \A v \in Sockets \ {w} : served'[v] = served[v]
  BY <1>2 DEF Carried, Boxes
<1>6. served[w] \in [Paths -> Seq(Modes)] /\ r.mode \in Modes
  BY <1>3 DEF Carried, Boxes, Sendable
<1>7. \A p \in Paths : served'[w][p] = IF Asks(r, p) THEN Append(served[w][p], r.mode)
                                       ELSE IF Drops(r, p) THEN <<>> ELSE served[w][p]
  <2>1. CASE r.op = "call"
    BY <1>2, <2>1 DEF Asks, Drops
  <2>2. CASE r.op # "call"
    <3>1. served'[w] = [served[w] EXCEPT ![r.path] = Entries(served[w][r.path], r)]
      BY <1>2, <2>2 DEF Carried, Boxes
    <3>2. \A p \in Paths : served'[w][p] = IF p = r.path THEN Entries(served[w][p], r) ELSE served[w][p]
      BY <1>6, <3>1
    <3>3. r.op \in {"subscribe", "unsubscribe"}
      BY <1>3, <2>2 DEF Sendable
    <3>4. QED BY <3>2, <3>3 DEF Asks, Drops, Entries
  <2>3. QED BY <2>1, <2>2
<1>8. served' \in [Sockets -> [Paths -> Seq(Modes)]]
  <2>1. served'[w] \in [Paths -> Seq(Modes)]
    <3>1. \A p \in Paths : served'[w][p] \in Seq(Modes)
      <4> TAKE p \in Paths
      <4>1. served[w][p] \in Seq(Modes)
        BY <1>6
      <4>2. Append(served[w][p], r.mode) \in Seq(Modes) /\ <<>> \in Seq(Modes)
        BY <1>6, <4>1
      <4>3. QED BY <1>7, <4>1, <4>2
    <3>2. served'[w] = [p \in Paths |-> served'[w][p]]
      BY <1>2, <1>6 DEF Carried, Boxes
    <3>3. QED BY <3>1, <3>2
  <2>2. served' = [v \in Sockets |-> served'[v]]
    BY <1>2 DEF Carried, Boxes
  <2>3. QED BY <1>5, <2>1, <2>2 DEF Carried, Boxes
<1>9. Carried'
  BY <1>2, <1>4, <1>5, <1>8 DEF Carried, Boxes, Watching, Fresh
<1>10. ASSUME NEW v \in Sockets, Following(v)
       PROVE  Following(v)'
  <2>1. CASE v = w
    <3> SUFFICES ASSUME NEW p \in Paths
                 PROVE  Leads(Tail(inbox[w]), served'[w][p], p, watched)
      BY <1>2, <1>4, <2>1 DEF Following
    <3>1. Leads(inbox[w], served[w][p], p, watched)
      BY <1>2, <1>10, <2>1 DEF Following
    <3>2. PICK after : after = served'[w][p]
      OBVIOUS
    <3>3. served[w][p] \in Seq(Modes)
      BY <1>6
    <3>4. Leads(Tail(inbox[w]), after, p, watched)
      BY <1>1, <1>2, <1>3, <1>7, <3>1, <3>2, <3>3, LeadsTaken
    <3>5. QED BY <3>2, <3>4
  <2>2. CASE v # w
    BY <1>2, <1>4, <1>5, <1>10, <2>2 DEF Following
  <2>3. QED BY <2>1, <2>2
<1>11. QED BY <1>9, <1>10

\* A request is sent, and what it asks for is what changes.
LEMMA CarriedSent ==
  ASSUME Shared, Carried, NEW r \in Sendable, UNCHANGED <<sock, served>>, inbox' = Sent(sock, cur, <<r>>),
         Watching', \A p \in Paths : Asks(r, p) => p \notin watched,
         \A p \in Paths : p \in watched' <=> Asks(r, p) \/ (p \in watched /\ ~ Drops(r, p))
  PROVE  Carried' /\ \A w \in Sockets : Following(w) => Following(w)'
<1>1. ASSUME NEW w \in Sockets
      PROVE  /\ sock[w] = "open" => inbox'[w] = Append(inbox[w], r)
             /\ sock[w] # "open" => inbox'[w] = inbox[w]
             /\ inbox'[w] \in Seq(Sendable)
  <2>1. inbox[w] \in Seq(Sendable)
    BY DEF Carried, Boxes
  <2>2. sock[w] = "open" => w = cur /\ w # 0
    BY DEF Shared, Current, Live, Sockets
  <2>3. inbox[w] \o <<r>> = Append(inbox[w], r) /\ Append(inbox[w], r) \in Seq(Sendable)
    BY <2>1
  <2>4. CASE sock[w] = "open"
    <3>1. inbox' = [inbox EXCEPT ![w] = inbox[w] \o <<r>>]
      BY <2>2, <2>4 DEF Sent
    <3>2. QED BY <2>3, <2>4, <3>1 DEF Carried, Boxes
  <2>5. CASE sock[w] # "open"
    <3>1. inbox'[w] = inbox[w]
      BY <2>5 DEF Sent, Carried, Boxes
    <3>2. QED BY <2>1, <2>5, <3>1
  <2>6. QED BY <2>4, <2>5
<1>2. inbox' = [w \in Sockets |-> inbox'[w]]
  BY DEF Sent, Carried, Boxes
<1>3. inbox' \in [Sockets -> Seq(Sendable)]
  BY <1>1, <1>2
<1>4. Carried'
  BY <1>1, <1>3 DEF Carried, Boxes, Fresh
<1>5. ASSUME NEW w \in Sockets, Following(w)
      PROVE  Following(w)'
  <2> SUFFICES ASSUME sock[w] = "open", NEW p \in Paths
               PROVE  Leads(Append(inbox[w], r), served[w][p], p, watched')
    BY <1>1 DEF Following
  <2>1. PICK then : then = watched'
    OBVIOUS
  <2>2. inbox[w] \in Seq(Sendable) /\ served[w][p] \in Seq(Modes)
    BY DEF Carried, Boxes
  <2>3. Leads(inbox[w], served[w][p], p, watched)
    BY <1>5 DEF Following
  <2>4. p \in then <=> Asks(r, p) \/ (p \in watched /\ ~ Drops(r, p))
    BY <2>1
  <2>5. Leads(Append(inbox[w], r), served[w][p], p, then)
    BY <2>2, <2>3, <2>4, LeadsSent
  <2>6. QED BY <2>1, <2>5
<1>6. QED BY <1>4, <1>5

\* A session begins with what it is asked for at once.
LEMMA CarriedOpens ==
  ASSUME Shared, Carried, NEW w \in Sockets, sock[w] = "connecting", sock' = [sock EXCEPT ![w] = "open"],
         UNCHANGED <<cur, served, watched>>, NEW asked \in Seq(Sendable), inbox' = Sent(sock', cur, asked)
  PROVE  /\ Carried' /\ \A v \in Sockets \ {w} : Following(v) => Following(v)'
         /\ (\A p \in Paths : Leads(asked, <<>>, p, watched)) => Following(w)'
<1>1. w = cur /\ w # 0
  BY DEF Shared, Current, Live, Sockets
<1>2. sock'[w] = "open" /\ \A v \in Sockets \ {w} : sock'[v] = sock[v]
  BY DEF Shared, Typed
<1>3. inbox' = [inbox EXCEPT ![w] = inbox[w] \o asked]
  BY <1>1, <1>2 DEF Sent
<1>4. inbox[w] = <<>> /\ served[w] = Nothing
  BY DEF Carried, Fresh
<1>5. inbox[w] \o asked = asked
  BY <1>4
<1>6. /\ inbox' \in [Sockets -> Seq(Sendable)] /\ inbox'[w] = asked
      /\ \A v \in Sockets \ {w} : inbox'[v] = inbox[v]
  BY <1>3, <1>5 DEF Carried, Boxes
<1>7. Carried'
  BY <1>2, <1>6 DEF Carried, Boxes, Watching, Fresh
<1>8. \A p \in Paths : served'[w][p] = <<>>
  BY <1>4 DEF Nothing
<1>9. QED BY <1>2, <1>6, <1>7, <1>8 DEF Following

\* A socket ends, and its session with it.
LEMMA CarriedEnds ==
  ASSUME Shared, Carried, NEW w \in Sockets, sock' = [sock EXCEPT ![w] = "closed"], watched' = watched,
         inbox' = Emptied(inbox, w), served' = Unserved(w)
  PROVE  Carried' /\ \A v \in Sockets : Following(v) => Following(v)'
<1>1. sock'[w] = "closed" /\ \A v \in Sockets \ {w} : sock'[v] = sock[v]
  BY DEF Shared, Typed
<1>2. <<>> \in Seq(Sendable) /\ <<>> \in Seq(Modes)
  OBVIOUS
<1>3. inbox' \in [Sockets -> Seq(Sendable)] /\ \A v \in Sockets \ {w} : inbox'[v] = inbox[v]
  BY <1>2 DEF Emptied, Carried, Boxes
<1>4. Nothing \in [Paths -> Seq(Modes)]
  BY <1>2 DEF Nothing
<1>5. served' \in [Sockets -> [Paths -> Seq(Modes)]] /\ \A v \in Sockets \ {w} : served'[v] = served[v]
  <2>1. served' = [served EXCEPT ![w] = Nothing]
    BY DEF Unserved, Nothing
  <2>2. QED BY <1>4, <2>1 DEF Carried, Boxes
<1>6. Carried'
  BY <1>1, <1>3, <1>5 DEF Carried, Boxes, Watching, Fresh
<1>7. QED BY <1>1, <1>3, <1>5, <1>6 DEF Following

\* The owner leaves, and no socket is open.
LEMMA CarriedLeaves ==
  ASSUME Shared, Carried, watched' \in {watched, {}},
         sock' = IF cur # 0 /\ Live(cur) THEN [sock EXCEPT ![cur] = "closing"] ELSE sock,
         IF cur = 0 THEN UNCHANGED <<inbox, served>> ELSE inbox' = Emptied(inbox, cur) /\ served' = Unserved(cur)
  PROVE  Carried' /\ \A v \in Sockets : Following(v)'
<1>1. /\ \A v \in Sockets : sock'[v] \notin {"open", "connecting"} /\ (sock'[v] = "new" => sock[v] = "new")
  BY DEF Shared, Typed, Current, Live
<1>2. <<>> \in Seq(Sendable) /\ <<>> \in Seq(Modes)
  OBVIOUS
<1>3. Nothing \in [Paths -> Seq(Modes)]
  BY <1>2 DEF Nothing
<1>4. cur \in Sockets \cup {0}
  BY DEF Shared, Typed
<1>5. inbox' \in [Sockets -> Seq(Sendable)] /\ \A v \in Sockets : inbox'[v] \in {inbox[v], <<>>}
  BY <1>2, <1>4 DEF Emptied, Carried, Boxes
<1>6. served' \in [Sockets -> [Paths -> Seq(Modes)]] /\ \A v \in Sockets : served'[v] \in {served[v], Nothing}
  <2>1. served' = served \/ served' = [served EXCEPT ![cur] = Nothing]
    BY DEF Unserved, Nothing
  <2>2. QED BY <1>3, <1>4, <2>1 DEF Carried, Boxes
<1>7. Watching'
  BY FS_EmptySet DEF Carried, Watching
<1>8. QED BY <1>1, <1>5, <1>6, <1>7 DEF Carried, Boxes, Fresh, Following

\* A socket is made, and its session has nothing yet.
LEMMA CarriedMade ==
  ASSUME Shared, Carried, NEW w \in Sockets, sock[w] = "new", sock' = [sock EXCEPT ![w] = "connecting"],
         UNCHANGED <<inbox, served, watched>>
  PROVE  Carried' /\ (\A v \in Sockets : Following(v) => Following(v)') /\ Following(w)'
<1>1. sock'[w] = "connecting" /\ \A v \in Sockets \ {w} : sock'[v] = sock[v]
  BY DEF Shared, Typed
<1>2. QED BY <1>1 DEF Carried, Boxes, Watching, Fresh, Following

\* The number of the next request.
LEMMA Numbered == NextId \in Nat
<1>1. IsFiniteSet(Ids)
  BY RemoteClientAssumption, FS_Interval DEF Ids
<1>2. Cardinality({i \in Ids : outcome[i] # "none"}) \in Nat
  BY <1>1, FS_Subset, FS_CardinalityType
<1>3. QED BY <1>2 DEF NextId

\* What the three kinds of requests are.
LEMMA Requests ==
  ASSUME NEW i \in Nat, NEW p \in Paths, NEW m \in Modes
  PROVE  /\ SubRequest(p, m, i) \in Sendable /\ UnsubRequest(p, i) \in Sendable
         /\ \A q : (Asks(SubRequest(p, m, i), q) <=> q = p) /\ ~ Drops(SubRequest(p, m, i), q)
         /\ \A q : ~ Asks(UnsubRequest(p, i), q) /\ (Drops(UnsubRequest(p, i), q) <=> q = p)
BY DEF SubRequest, UnsubRequest, Sendable, Asks, Drops, Modes

\* call(), and the requests for a path that is watched, or no more.
LEMMA CarriedCalls ==
  ASSUME Shared, Carried, NEW i \in Nat, UNCHANGED <<sock, served, watched>>,
         inbox' = Sent(sock, cur, <<CallRequest(i)>>)
  PROVE  Carried' /\ \A w \in Sockets : Following(w) => Following(w)'
<1>1. Watching'
  BY DEF Carried, Watching
<1>2. PICK r \in Sendable : r = CallRequest(i) /\ \A q : ~ Asks(r, q) /\ ~ Drops(r, q)
  <2>1. CallRequest(i) \in Sendable /\ \A q : ~ Asks(CallRequest(i), q) /\ ~ Drops(CallRequest(i), q)
    BY DEF CallRequest, Sendable, Asks, Drops, Modes
  <2>2. QED BY <2>1
<1>3. QED BY <1>1, <1>2, CarriedSent

LEMMA CarriedWatched ==
  ASSUME Shared, Carried, NEW i \in Nat, NEW p \in Paths \ watched, NEW m \in Modes, UNCHANGED <<sock, served>>,
         watched' = watched \cup {p}, inbox' = Sent(sock, cur, <<SubRequest(p, m, i)>>)
  PROVE  Carried' /\ \A w \in Sockets : Following(w) => Following(w)'
<1>1. Watching'
  BY FS_AddElement DEF Carried, Watching
<1>2. PICK r \in Sendable : r = SubRequest(p, m, i) /\ \A q : (Asks(r, q) <=> q = p) /\ ~ Drops(r, q)
  BY Requests
<1>3. QED BY <1>1, <1>2, CarriedSent

LEMMA CarriedUnwatched ==
  ASSUME Shared, Carried, NEW i \in Nat, NEW p \in Paths, UNCHANGED <<sock, served>>,
         watched' = watched \ {p}, inbox' = Sent(sock, cur, <<UnsubRequest(p, i)>>)
  PROVE  Carried' /\ \A w \in Sockets : Following(w) => Following(w)'
<1>1. Watching'
  BY FS_RemoveElement DEF Carried, Watching
<1>2. PICK r \in Sendable : r = UnsubRequest(p, i) /\ \A q : ~ Asks(r, q) /\ (Drops(r, q) <=> q = p)
  <2>1. "value" \in Modes
    BY DEF Modes
  <2>2. QED BY <2>1, Requests
<1>3. QED BY <1>1, <1>2, CarriedSent

\* Every watched path, asked for on opening.
LEMMA AllAsked ==
  ASSUME Carried, NEW asked, Len(asked) = Cardinality(watched), NEW m \in Modes, NEW ids \in [1 .. Cardinality(watched) -> Nat],
         asked = [k \in 1 .. Cardinality(watched) |-> SubRequest(SetToSeq(watched)[k], m, ids[k])]
  PROVE  asked \in Seq(Sendable) /\ \A p \in Paths : Leads(asked, <<>>, p, watched)
<1>1. PICK on, n, f : on = watched /\ n = Cardinality(watched) /\ f = SetToSeq(watched)
  OBVIOUS
<1>2. /\ n \in Nat /\ f \in [1 .. n -> on] /\ \A i, k \in 1 .. n : f[i] = f[k] => i = k
      /\ \A q \in on : \E k \in 1 .. n : f[k] = q
  BY <1>1, Enumerated DEF Carried, Watching
<1>3. \A k \in 1 .. n : f[k] \in Paths
  BY <1>1, <1>2 DEF Carried, Watching
<1>4. \A k \in 1 .. n : asked[k] \in Sendable /\ Asks(asked[k], f[k])
  BY <1>1, <1>3 DEF SubRequest, Sendable, Asks
<1>5. asked = [k \in 1 .. n |-> asked[k]]
  BY <1>1
<1>6. asked \in Seq(Sendable) /\ Len(asked) = n
  BY <1>1, <1>2, <1>4, <1>5
<1>7. ASSUME NEW p \in Paths
      PROVE  Leads(asked, <<>>, p, on)
  BY <1>2, <1>4, <1>6, LeadsAnew
<1>8. QED BY <1>1, <1>6, <1>7

-----------------------------------------------------------------------------

WsInv == Shared /\ starting = <<>> /\ Carried /\ \A w \in Sockets : Following(w)

\* Every step of VeWsClient.
LEMMA WsFollows ==
  ASSUME Patient, WsInv, [Ws!Next]_(Ws!vars)
  PROVE  WsInv'
<1> USE DEF WsInv
<1>0. Shared' /\ starting' = <<>>
  BY WsKeeps
<1> SUFFICES Carried' /\ \A w \in Sockets : Following(w) => Following(w)'
  BY <1>0
<1>1. CASE UNCHANGED Ws!vars
  BY <1>1, CarriedStays DEF Ws!vars, Ws!linkVars, Ws!watchVars
<1>2. CASE Ws!Disconnect
  <2>1. IF cur = 0 THEN UNCHANGED <<inbox, served>> ELSE inbox' = Emptied(inbox, cur) /\ served' = Unserved(cur)
    BY <1>2 DEF Ws!Disconnect, Ws!Emptied, Emptied, Ws!Unserved, Unserved
  <2>2. watched' = watched
    BY <1>2 DEF Ws!Disconnect, Ws!watchVars
  <2>3. sock' = IF cur # 0 /\ Live(cur) THEN [sock EXCEPT ![cur] = "closing"] ELSE sock
    BY <1>2 DEF Ws!Disconnect, Ws!Live, Live
  <2>4. QED BY <2>1, <2>2, <2>3, CarriedLeaves
<1>3. CASE Ws!Call
  <2>1. UNCHANGED <<sock, served, watched>> /\ inbox' = Sent(sock, cur, <<CallRequest(NextId)>>)
    BY <1>3 DEF Ws!Call, Ws!watchVars, Ws!Sent, Sent, Ws!CallRequest, CallRequest, Ws!NextId, NextId, Ws!Ids, Ids,
                Ws!Cardinality, Cardinality
  <2>2. PICK i \in Nat : i = NextId
    BY Numbered
  <2>3. QED BY <2>1, <2>2, CarriedCalls
<1>4. ASSUME NEW w \in Sockets, Ws!CreateConnection(w), UNCHANGED <<inbox, served, watched>>
      PROVE  Carried' /\ \A v \in Sockets : Following(v) => Following(v)'
  <2>1. sock[w] = "new" /\ sock' = [sock EXCEPT ![w] = "connecting"]
    BY <1>4 DEF Ws!CreateConnection, Ws!Unused
  <2>2. QED BY <1>4, <2>1, CarriedMade
<1>5. ASSUME NEW w \in Sockets, Ws!Connect(w) \/ Ws!Reconnect(w)
      PROVE  Carried' /\ \A v \in Sockets : Following(v) => Following(v)'
  BY <1>4, <1>5 DEF Ws!Connect, Ws!Reconnect, Ws!watchVars
<1>6. ASSUME NEW w \in Sockets, Ws!OnOpen(w)
      PROVE  Carried' /\ \A v \in Sockets : Following(v) => Following(v)'
  <2>1. /\ sock[w] = "connecting" /\ sock' = [sock EXCEPT ![w] = "open"] /\ UNCHANGED <<cur, served, watched>>
        /\ inbox' = IF Ws!Connected(sock') THEN Sent(sock', cur, Ws!Resubscribed) ELSE inbox
    BY <1>6 DEF Ws!OnOpen, Ws!watchVars, Ws!Sent, Sent
  <2>2. inbox' = Sent(sock', cur, Ws!Resubscribed)
    BY <2>1 DEF Ws!Connected, Sent
  <2>3. PICK n : n = Cardinality(watched) /\ n \in Nat
    BY FS_CardinalityType DEF Carried, Watching
  <2>4. PICK ids \in [1 .. n -> Nat] : \A k \in 1 .. n : ids[k] = 0
    <3>1. [k \in 1 .. n |-> 0] \in [1 .. n -> Nat]
      OBVIOUS
    <3>2. QED BY <3>1
  <2>5. Ws!Resubscribed = [k \in 1 .. n |-> SubRequest(SetToSeq(watched)[k], "tree", 0)]
    BY <2>3 DEF Ws!Resubscribed, Ws!SubRequest, SubRequest, Ws!SetToSeq, SetToSeq, Ws!IsInjective, IsInjective,
                Ws!Cardinality, Cardinality
  <2>6. PICK asked : asked = Ws!Resubscribed
    OBVIOUS
  <2>7. asked = [k \in 1 .. n |-> SubRequest(SetToSeq(watched)[k], "tree", ids[k])] /\ Len(asked) = n
    BY <2>3, <2>4, <2>5, <2>6
  <2>8. asked \in Seq(Sendable) /\ \A p \in Paths : Leads(asked, <<>>, p, watched)
    BY <2>3, <2>4, <2>7, AllAsked DEF Modes
  <2>9. QED BY <2>1, <2>2, <2>6, <2>8, CarriedOpens
<1>7. ASSUME NEW w \in Sockets, Ws!Closed(w) \/ Ws!Fails(w)
      PROVE  Carried' /\ \A v \in Sockets : Following(v) => Following(v)'
  <2>1. Ws!OnClose(w, sock)
    BY <1>7 DEF Ws!Closed, Ws!Fails, Ws!Live, Live, Shared, Current
  <2>2. sock' = [sock EXCEPT ![w] = "closed"] /\ watched' = watched /\ inbox' = Emptied(inbox, w) /\ served' = Unserved(w)
    BY <2>1 DEF Ws!OnClose, Ws!watchVars, Ws!Emptied, Emptied, Ws!Unserved, Unserved
  <2>3. QED BY <2>2, CarriedEnds
<1>8. ASSUME NEW w \in Sockets, Ws!OnMessage(w)
      PROVE  Carried' /\ \A v \in Sockets : Following(v) => Following(v)'
  BY <1>8, CarriedStays DEF Ws!OnMessage, Ws!watchVars
<1>9. ASSUME NEW w \in Sockets, Ws!Handle(w)
      PROVE  Carried' /\ \A v \in Sockets : Following(v) => Following(v)'
  <2>1. Handle(w)
    BY <1>9 DEF Ws!Handle, Handle, Ws!Entries, Entries, Ws!callVars, callVars, Ws!watchVars, watchVars,
                Ws!streamVars, streamVars, Ws!ownerVars, ownerVars
  <2>2. QED BY <2>1, CarriedHandled
<1>10. ASSUME NEW i \in Ids, Ws!CallTimeout(i)
       PROVE  Carried' /\ \A v \in Sockets : Following(v) => Following(v)'
  BY <1>10, CarriedStays DEF Ws!CallTimeout, Ws!linkVars, Ws!watchVars
<1>11. ASSUME NEW p \in Paths, NEW m \in Modes, NEW h \in Handlers, Ws!Watch(p, h, m)
       PROVE  Carried' /\ \A v \in Sockets : Following(v) => Following(v)'
  <2>1. UNCHANGED <<sock, served>> /\ watched' = watched \cup {p}
    BY <1>11 DEF Ws!Watch
  <2>2. CASE p \in watched
    <3>1. inbox' = inbox /\ watched' = watched
      BY <1>11, <2>1, <2>2 DEF Ws!Watch
    <3>2. QED BY <2>1, <3>1, CarriedStays
  <2>3. CASE p \notin watched
    <3>1. inbox' = IF Ws!Connected(sock) THEN Sent(sock, cur, <<SubRequest(p, m, 0)>>) ELSE inbox
      BY <1>11, <2>3 DEF Ws!Watch, Ws!Sent, Sent, Ws!SubRequest, SubRequest
    <3>2. inbox' = Sent(sock, cur, <<SubRequest(p, m, 0)>>)
      BY <3>1 DEF Ws!Connected, Sent
    <3>3. QED BY <2>1, <2>3, <3>2, CarriedWatched
  <2>4. QED BY <2>2, <2>3
<1>12. ASSUME NEW p \in Paths, UNCHANGED <<sock, served>>, watched' = watched \ {p},
              inbox' = IF Ws!Connected(sock) THEN Ws!Sent(sock, cur, <<Ws!UnsubRequest(p, 0)>>) ELSE inbox
       PROVE  Carried' /\ \A v \in Sockets : Following(v) => Following(v)'
  <2>1. inbox' = Sent(sock, cur, <<UnsubRequest(p, 0)>>)
    BY <1>12 DEF Ws!Connected, Sent, Ws!Sent, Ws!UnsubRequest, UnsubRequest
  <2>2. QED BY <1>12, <2>1, CarriedUnwatched
<1>13. ASSUME NEW p \in Paths, Ws!UnwatchPath(p)
       PROVE  Carried' /\ \A v \in Sockets : Following(v) => Following(v)'
  BY <1>12, <1>13 DEF Ws!UnwatchPath
<1>14. ASSUME NEW p \in Paths, NEW h \in Handlers, Ws!Unwatch(p, h)
       PROVE  Carried' /\ \A v \in Sockets : Following(v) => Following(v)'
  <2>1. CASE handlers[p] = {h}
    BY <1>12, <1>14, <2>1 DEF Ws!Unwatch
  <2>2. CASE handlers[p] # {h}
    BY <1>14, <2>2, CarriedStays DEF Ws!Unwatch
  <2>3. QED BY <2>1, <2>2
<1> HIDE DEF WsInv
<1>15. QED
  BY <1>1, <1>2, <1>3, <1>5, <1>6, <1>7, <1>8, <1>9, <1>10, <1>11, <1>13, <1>14
     DEF Ws!Next, Ws!Sockets, Sockets, Ws!Ids, Ids, Ws!Modes, Modes

\* A watched path has a callback: _resubscribe leaves none out.
Kept == handlers \in [Paths -> SUBSET Handlers] /\ \A p \in watched : handlers[p] # {}

PageWatch == PageInv /\ Carried /\ Kept /\ \A w \in Sockets : Following(w)

\* Every step of VEService.
LEMMA PageFollows ==
  ASSUME Patient, PageWatch, [Page!Next]_(Page!vars)
  PROVE  PageWatch'
<1> USE DEF PageWatch
<1>0. PageInv' /\ Shared /\ Flagged
  BY PageKeeps DEF PageInv
<1> SUFFICES Carried' /\ Kept' /\ \A w \in Sockets : Following(w) => Following(w)'
  BY <1>0
<1>1. ASSUME UNCHANGED <<watched, handlers>>
      PROVE  Kept'
  BY <1>1 DEF Kept
<1>2. CASE UNCHANGED Page!vars
  BY <1>1, <1>2, CarriedStays DEF Page!vars, Page!linkVars, Page!watchVars
<1>3. CASE Page!Disconnect
  <2>1. IF cur = 0 THEN UNCHANGED <<inbox, served>> ELSE inbox' = Emptied(inbox, cur) /\ served' = Unserved(cur)
    BY <1>3 DEF Page!Disconnect, Page!Emptied, Emptied, Page!Unserved, Unserved
  <2>2. watched' = {} /\ handlers' = [p \in Paths |-> {}]
    BY <1>3 DEF Page!Disconnect
  <2>3. sock' = IF cur # 0 /\ Live(cur) THEN [sock EXCEPT ![cur] = "closing"] ELSE sock
    BY <1>3 DEF Page!Disconnect, Page!Live, Live
  <2>4. Kept'
    BY <2>2 DEF Kept
  <2>5. QED BY <1>0, <2>1, <2>2, <2>3, <2>4, CarriedLeaves
<1>4. CASE Page!Call
  <2>1. UNCHANGED <<sock, served, watched, handlers>> /\ inbox' = Sent(sock, cur, <<CallRequest(NextId)>>)
    BY <1>4 DEF Page!Call, Page!watchVars, Page!Sent, Sent, Page!CallRequest, CallRequest, Page!NextId, NextId,
                Page!Ids, Ids, Page!Cardinality, Cardinality
  <2>2. PICK i \in Nat : i = NextId
    BY Numbered
  <2>3. QED BY <1>0, <1>1, <2>1, <2>2, CarriedCalls
<1>5. ASSUME NEW w \in Sockets, Page!Transport(w), UNCHANGED <<inbox, served, watched>>
      PROVE  Carried' /\ \A v \in Sockets : Following(v) => Following(v)'
  <2>1. sock[w] = "new" /\ sock' = [sock EXCEPT ![w] = "connecting"]
    BY <1>5 DEF Page!Transport, Page!Unused
  <2>2. QED BY <1>0, <1>5, <2>1, CarriedMade
<1>6. ASSUME NEW w \in Sockets, Page!Connect(w)
      PROVE  Carried' /\ Kept' /\ \A v \in Sockets : Following(v) => Following(v)'
  BY <1>1, <1>5, <1>6 DEF Page!Connect, Page!watchVars
<1>7. ASSUME NEW w \in Sockets, Page!Reconnect(w)
      PROVE  Carried' /\ Kept' /\ \A v \in Sockets : Following(v) => Following(v)'
  <2>1. UNCHANGED <<inbox, served, watched, handlers>>
    BY <1>7 DEF Page!Reconnect, Page!watchVars
  <2>2. CASE flag
    BY <1>1, <1>7, <2>1, <2>2, CarriedStays DEF Page!Reconnect
  <2>3. CASE ~ flag
    BY <1>1, <1>5, <1>7, <2>1, <2>3 DEF Page!Reconnect
  <2>4. QED BY <2>2, <2>3
<1>8. ASSUME NEW w \in Sockets, Page!OnOpen(w)
      PROVE  Carried' /\ Kept' /\ \A v \in Sockets : Following(v) => Following(v)'
  <2>1. /\ sock[w] = "connecting" /\ sock' = [sock EXCEPT ![w] = "open"] /\ UNCHANGED <<cur, served, watched, handlers>>
        /\ inbox' = Sent(sock', cur, Page!Resubscribed)
    BY <1>8 DEF Page!OnOpen, Page!watchVars, Page!Sent, Sent
  <2>2. PICK n : n = Cardinality(watched) /\ n \in Nat
    BY FS_CardinalityType DEF Carried, Watching
  <2>3. PICK ids \in [1 .. n -> Nat] : \A k \in 1 .. n : ids[k] = 0
    <3>1. [k \in 1 .. n |-> 0] \in [1 .. n -> Nat]
      OBVIOUS
    <3>2. QED BY <3>1
  <2>4. {p \in watched : handlers[p] # {}} = watched
    BY DEF Kept
  <2>5. DOMAIN SetToSeq(watched) = 1 .. n
    <3>1. SetToSeq(watched) \in [1 .. n -> watched]
      BY <2>2, Enumerated DEF Carried, Watching
    <3>2. QED BY <3>1
  <2>6. Page!Resubscribed = [k \in DOMAIN SetToSeq(watched) |-> SubRequest(SetToSeq(watched)[k], "value", 0)]
    <3>1. Page!Resubscribed = LET paths == SetToSeq({p \in watched : handlers[p] # {}})
                              IN  [k \in DOMAIN paths |-> SubRequest(paths[k], "value", 0)]
      BY DEF Page!Resubscribed, Page!SubRequest, SubRequest, Page!SetToSeq, SetToSeq, Page!IsInjective, IsInjective,
             Page!Cardinality, Cardinality
    <3>2. PICK S : S = {p \in watched : handlers[p] # {}}
      OBVIOUS
    <3>3. S = watched
      BY <2>4, <3>2
    <3>4. QED BY <3>1, <3>2, <3>3
  <2>7. PICK asked : asked = Page!Resubscribed
    OBVIOUS
  <2>8. asked = [k \in 1 .. n |-> SubRequest(SetToSeq(watched)[k], "value", ids[k])] /\ Len(asked) = n
    BY <2>2, <2>3, <2>5, <2>6, <2>7
  <2>9. asked \in Seq(Sendable) /\ \A p \in Paths : Leads(asked, <<>>, p, watched)
    BY <2>2, <2>3, <2>8, AllAsked DEF Modes
  <2>10. QED BY <1>0, <1>1, <2>1, <2>7, <2>9, CarriedOpens
<1>9. ASSUME NEW w \in Sockets, Page!Closed(w) \/ Page!Fails(w)
      PROVE  Carried' /\ Kept' /\ \A v \in Sockets : Following(v) => Following(v)'
  <2>1. sock' = [sock EXCEPT ![w] = "closed"] /\ UNCHANGED <<watched, handlers>>
        /\ inbox' = Emptied(inbox, w) /\ served' = Unserved(w)
    BY <1>9 DEF Page!Closed, Page!Fails, Page!OnClose, Page!watchVars, Page!Emptied, Emptied, Page!Unserved, Unserved
  <2>2. QED BY <1>0, <1>1, <2>1, CarriedEnds
<1>10. ASSUME NEW w \in Sockets, Page!OnMessage(w)
       PROVE  Carried' /\ Kept' /\ \A v \in Sockets : Following(v) => Following(v)'
  BY <1>1, <1>10, CarriedStays DEF Page!OnMessage, Page!watchVars
<1>11. ASSUME NEW w \in Sockets, Page!Handle(w)
       PROVE  Carried' /\ Kept' /\ \A v \in Sockets : Following(v) => Following(v)'
  <2>1. Handle(w)
    BY <1>11 DEF Page!Handle, Handle, Page!Entries, Entries, Page!callVars, callVars, Page!watchVars, watchVars,
                 Page!streamVars, streamVars, Page!ownerVars, ownerVars
  <2>2. QED BY <1>1, <2>1, CarriedHandled DEF Handle, watchVars
<1>12. ASSUME NEW i \in Ids, Page!CallTimeout(i)
       PROVE  Carried' /\ Kept' /\ \A v \in Sockets : Following(v) => Following(v)'
  BY <1>1, <1>12, CarriedStays DEF Page!CallTimeout, Page!linkVars, Page!watchVars
<1>13. ASSUME NEW p \in Paths, NEW m \in Modes, NEW h \in Handlers, Page!Watch(p, h, m)
       PROVE  Carried' /\ Kept' /\ \A v \in Sockets : Following(v) => Following(v)'
  <2>1. UNCHANGED <<sock, served>> /\ watched' = watched \cup {p} /\ handlers' = [handlers EXCEPT ![p] = @ \cup {h}]
    BY <1>13 DEF Page!Watch
  <2>2. Kept'
    BY <2>1 DEF Kept
  <2>3. CASE p \in watched
    <3>1. inbox' = inbox /\ watched' = watched
      BY <1>13, <2>1, <2>3 DEF Page!Watch
    <3>2. QED BY <2>1, <2>2, <3>1, CarriedStays
  <2>4. CASE p \notin watched
    <3>1. inbox' = IF cur # 0 /\ flag THEN Sent(sock, cur, <<SubRequest(p, m, 0)>>) ELSE inbox
      BY <1>13, <2>4 DEF Page!Watch, Page!Usable, Page!Sent, Sent, Page!SubRequest, SubRequest
    <3>2. inbox' = Sent(sock, cur, <<SubRequest(p, m, 0)>>)
      BY <1>0, <3>1 DEF Flagged, Sent, Shared, Typed
    <3>3. QED BY <1>0, <2>1, <2>2, <2>4, <3>2, CarriedWatched
  <2>5. QED BY <2>3, <2>4
<1>14. ASSUME NEW p \in Paths, NEW hs \in SUBSET Handlers, Page!Unwatch(p, hs)
       PROVE  Carried' /\ Kept' /\ \A v \in Sockets : Following(v) => Following(v)'
  <2>1. UNCHANGED <<sock, served>> /\ handlers' = [handlers EXCEPT ![p] = @ \ hs]
    BY <1>14 DEF Page!Unwatch
  <2>2. CASE ~ Page!Gone(p, hs)
    <3>1. UNCHANGED <<watched, inbox>>
      BY <1>14, <2>2 DEF Page!Unwatch
    <3>2. Kept'
      BY <2>1, <2>2, <3>1 DEF Kept, Page!Gone
    <3>3. QED BY <2>1, <3>1, <3>2, CarriedStays
  <2>3. CASE Page!Gone(p, hs)
    <3>1. /\ watched' = watched \ {p}
          /\ inbox' = IF cur # 0 /\ flag THEN Sent(sock, cur, <<UnsubRequest(p, 0)>>) ELSE inbox
      BY <1>14, <2>3 DEF Page!Unwatch, Page!Usable, Page!Sent, Sent, Page!UnsubRequest, UnsubRequest
    <3>2. inbox' = Sent(sock, cur, <<UnsubRequest(p, 0)>>)
      BY <1>0, <3>1 DEF Flagged, Sent, Shared, Typed
    <3>3. Kept'
      BY <2>1, <3>1 DEF Kept
    <3>4. QED BY <1>0, <2>1, <3>1, <3>2, <3>3, CarriedUnwatched
  <2>4. QED BY <2>2, <2>3
<1> HIDE DEF PageWatch
<1>15. QED
  BY <1>2, <1>3, <1>4, <1>6, <1>7, <1>8, <1>9, <1>10, <1>11, <1>12, <1>13, <1>14
     DEF Page!Next, Page!Sockets, Sockets, Page!Ids, Ids, Page!Modes, Modes

-----------------------------------------------------------------------------

\* Only what the reconnect timer connected was asked again for what is
\* watched; and what is sent is sent on an open socket.
StreamWatch ==
  /\ StreamInv /\ Carried
  /\ \A w \in Sockets : sock[w] = "open" => flag
  /\ \A w \in Sockets : w \in byTimer => Following(w)

\* Every step of VeBinTcpClient.
LEMMA StreamFollows ==
  ASSUME Patient, StreamWatch, [Stream!Next]_(Stream!vars)
  PROVE  StreamWatch'
<1> USE DEF StreamWatch
<1>0. StreamInv' /\ Shared'
  BY StreamKeeps DEF StreamInv
<1>a. Shared /\ Linked
  BY DEF StreamInv
<1> DEFINE Aim == /\ Carried' /\ (\A w \in Sockets : sock[w] = "open" => flag)'
                  /\ \A w \in Sockets : w \in byTimer' => Following(w)'
<1> SUFFICES Aim
  BY <1>0
<1>1. ASSUME UNCHANGED <<sock, inbox, served, watched, flag, byTimer>>
      PROVE  Aim
  BY <1>1, CarriedStays
<1>2. CASE UNCHANGED Stream!vars
  BY <1>1, <1>2 DEF Stream!vars, Stream!linkVars, Stream!watchVars, Stream!streamVars
<1>3. CASE Stream!Connect \/ Stream!Reconnect
  BY <1>1, <1>3 DEF Stream!Connect, Stream!Reconnect, Stream!linkVars, Stream!watchVars
<1>4. CASE Stream!Close
  <2>1. IF cur = 0 THEN UNCHANGED <<inbox, served>> ELSE inbox' = Emptied(inbox, cur) /\ served' = Unserved(cur)
    BY <1>4 DEF Stream!Close, Stream!Emptied, Emptied, Stream!Unserved, Unserved
  <2>2. watched' = watched /\ left'
    BY <1>4 DEF Stream!Close
  <2>3. sock' = IF cur # 0 /\ Live(cur) THEN [sock EXCEPT ![cur] = "closing"] ELSE sock
    BY <1>4 DEF Stream!Close, Stream!Live, Live
  <2>4. \A w \in Sockets : sock'[w] # "open"
    BY <1>0, <2>2 DEF Shared, Parted, Live
  <2>5. QED BY <1>a, <2>1, <2>2, <2>3, <2>4, CarriedLeaves
<1>5. CASE Stream!Call
  <2>1. /\ UNCHANGED <<sock, served, watched, flag, byTimer>>
        /\ inbox' = Sent(sock, cur, <<CallRequest(NextId)>>)
    BY <1>5 DEF Stream!Call, Stream!watchVars, Stream!streamVars, Stream!Sent, Sent, Stream!CallRequest, CallRequest,
                Stream!NextId, NextId, Stream!Ids, Ids, Stream!Cardinality, Cardinality
  <2>2. PICK i \in Nat : i = NextId
    BY Numbered
  <2>3. QED BY <1>a, <2>1, <2>2, CarriedCalls
<1>6. ASSUME NEW w \in Sockets, Stream!Start(w)
      PROVE  Aim
  <2>1. /\ sock[w] = "new" /\ sock' = [sock EXCEPT ![w] = "connecting"] /\ UNCHANGED <<inbox, served, watched, flag>>
        /\ byTimer' \in {byTimer, byTimer \cup {w}}
    BY <1>6 DEF Stream!Start, Stream!Unused, Stream!watchVars
  <2>2. Carried' /\ (\A v \in Sockets : Following(v) => Following(v)') /\ Following(w)'
    BY <1>a, <2>1, CarriedMade
  <2>3. \A v \in Sockets : sock'[v] = "open" => sock[v] = "open"
    BY <1>a, <2>1 DEF Shared, Typed
  <2>4. QED BY <2>1, <2>2, <2>3
<1>7. ASSUME NEW w \in Sockets, Stream!OnConnect(w)
      PROVE  Aim
  <2> DEFINE paths == Stream!Resubscribed(w)
             reqs == [k \in 1 .. Len(paths) |-> SubRequest(paths[k], "value", NextId + k - 1)]
  <2>1. /\ sock[w] = "connecting" /\ sock' = [sock EXCEPT ![w] = "open"] /\ UNCHANGED <<cur, served, watched, byTimer>>
        /\ flag' = TRUE
    BY <1>7 DEF Stream!OnConnect, Stream!watchVars, Stream!streamVars
  <2>2. inbox' = Sent(sock', cur, reqs)
    <3>1. \A n : Stream!NextIds(n) = [k \in 1 .. n |-> NextId + k - 1]
      BY DEF Stream!NextIds, Stream!NextId, NextId, Stream!Ids, Ids, Stream!Cardinality, Cardinality
    <3>2. inbox' = Sent(sock', cur, [k \in 1 .. Len(paths) |-> SubRequest(paths[k], "value", Stream!NextIds(Len(paths))[k])])
      BY <1>7 DEF Stream!OnConnect, Stream!Sent, Sent, Stream!SubRequest, SubRequest
    <3>3. [k \in 1 .. Len(paths) |-> SubRequest(paths[k], "value", Stream!NextIds(Len(paths))[k])] = reqs
      BY <3>1
    <3>4. QED BY <3>2, <3>3
  <2>3. PICK asked : asked = reqs
    OBVIOUS
  <2>4. CASE w \in byTimer
    <3>1. PICK n : n = Cardinality(watched) /\ n \in Nat
      BY FS_CardinalityType DEF Carried, Watching
    <3>2. PICK i \in Nat \ {0} : i = NextId
      <4>1. NextId # 0
        <5>1. IsFiniteSet(Ids)
          BY RemoteClientAssumption, FS_Interval DEF Ids
        <5>2. Cardinality({j \in Ids : outcome[j] # "none"}) \in Nat
          BY <5>1, FS_Subset, FS_CardinalityType
        <5>3. QED BY <5>2 DEF NextId
      <4>2. QED BY <4>1, Numbered
    <3>3. PICK ids \in [1 .. n -> Nat] : \A k \in 1 .. n : ids[k] = i + k - 1
      <4>1. [k \in 1 .. n |-> i + k - 1] \in [1 .. n -> Nat]
        BY <3>1, <3>2
      <4>2. QED BY <4>1
    <3>4. paths = SetToSeq(watched)
      BY <2>4 DEF Stream!Resubscribed, Stream!SetToSeq, SetToSeq, Stream!IsInjective, IsInjective,
                  Stream!Cardinality, Cardinality
    <3>5. Len(SetToSeq(watched)) = n
      <4>1. SetToSeq(watched) \in [1 .. n -> watched]
        BY <3>1, Enumerated DEF Carried, Watching
      <4>2. QED BY <3>1, <4>1
    <3>6. asked = [k \in 1 .. n |-> SubRequest(SetToSeq(watched)[k], "value", ids[k])] /\ Len(asked) = n
      BY <2>3, <3>1, <3>2, <3>3, <3>4, <3>5
    <3>7. asked \in Seq(Sendable) /\ \A p \in Paths : Leads(asked, <<>>, p, watched)
      BY <3>1, <3>3, <3>6, AllAsked DEF Modes
    <3>8. QED BY <1>a, <2>1, <2>2, <2>3, <3>7, CarriedOpens
  <2>5. CASE w \notin byTimer
    <3>1. paths = <<>>
      BY <2>5 DEF Stream!Resubscribed
    <3>2. asked = <<>> /\ asked \in Seq(Sendable)
      BY <2>3, <3>1
    <3>3. QED BY <1>a, <2>1, <2>2, <2>3, <2>5, <3>2, CarriedOpens
  <2>6. QED BY <2>4, <2>5
<1>8. ASSUME NEW w \in Sockets, Stream!Ends(w)
      PROVE  Aim
  <2>1. sock' = [sock EXCEPT ![w] = "closed"] /\ UNCHANGED <<watched, byTimer>> /\ Busy(w)
        /\ inbox' = Emptied(inbox, w) /\ served' = Unserved(w)
    BY <1>8 DEF Stream!Ends, Stream!OnClose, Stream!Emptied, Emptied, Stream!Unserved, Unserved, Busy
  <2>2. \A v \in Sockets : sock'[v] # "open"
    BY <1>a, <2>1 DEF Shared, Single, Busy, Typed
  <2>3. QED BY <1>a, <2>1, <2>2, CarriedEnds
<1>9. ASSUME NEW w \in Sockets, Stream!OnData(w)
      PROVE  Aim
  BY <1>1, <1>9 DEF Stream!OnData
<1>10. ASSUME NEW w \in Sockets, Stream!Handle(w)
       PROVE  Aim
  <2>1. Handle(w)
    BY <1>10 DEF Stream!Handle, Handle, Stream!Entries, Entries, Stream!callVars, callVars, Stream!watchVars, watchVars,
                 Stream!streamVars, streamVars, Stream!ownerVars, ownerVars
  <2>2. UNCHANGED <<sock, flag, byTimer>>
    BY <2>1 DEF Handle, streamVars
  <2>3. QED BY <2>1, <2>2, CarriedHandled
<1>11. ASSUME NEW i \in Ids, Stream!CallTimeout(i)
       PROVE  Aim
  BY <1>1, <1>11 DEF Stream!CallTimeout, Stream!linkVars
<1>12. ASSUME NEW p \in Paths, NEW h \in Handlers, Stream!Subscribe(p, h)
       PROVE  Aim
  <2>1. UNCHANGED <<sock, served, flag, byTimer>> /\ watched' = watched \cup {p}
    BY <1>12 DEF Stream!Subscribe
  <2>2. CASE p \in watched
    <3>1. inbox' = inbox /\ watched' = watched
      BY <1>12, <2>1, <2>2 DEF Stream!Subscribe
    <3>2. QED BY <1>1, <2>1, <3>1
  <2>3. CASE p \notin watched
    <3>1. CASE Stream!Usable
      <4>1. inbox' = Sent(sock, cur, <<SubRequest(p, "value", NextId)>>)
        BY <1>12, <2>3, <3>1 DEF Stream!Subscribe, Stream!Sent, Sent, Stream!SubRequest, SubRequest,
             Stream!NextId, NextId, Stream!Ids, Ids, Stream!Cardinality, Cardinality
      <4>2. PICK i \in Nat : i = NextId
        BY Numbered
      <4>3. QED BY <1>a, <2>1, <2>3, <4>1, <4>2, CarriedWatched DEF Modes
    <3>2. CASE ~ Stream!Usable
      <4>1. inbox' = Sent(sock, cur, <<SubRequest(p, "value", 0)>>)
        BY <1>12, <1>a, <2>3, <3>2 DEF Stream!Subscribe, Stream!Usable, Sent, Shared, Typed
      <4>2. QED BY <1>a, <2>1, <2>3, <4>1, CarriedWatched DEF Modes
    <3>3. QED BY <3>1, <3>2
  <2>4. QED BY <2>2, <2>3
<1>13. ASSUME NEW p \in Paths, NEW h \in Handlers, Stream!Unsubscribe(p, h)
       PROVE  Aim
  <2>1. UNCHANGED <<sock, served, flag, byTimer>>
    BY <1>13 DEF Stream!Unsubscribe, Stream!streamVars
  <2>2. CASE handlers[p] # {h}
    BY <1>1, <1>13, <2>1, <2>2 DEF Stream!Unsubscribe
  <2>3. CASE handlers[p] = {h}
    <3>1. watched' = watched \ {p}
      BY <1>13, <2>3 DEF Stream!Unsubscribe
    <3>2. CASE Stream!Usable
      <4>1. inbox' = Sent(sock, cur, <<UnsubRequest(p, NextId)>>)
        BY <1>13, <2>3, <3>2 DEF Stream!Unsubscribe, Stream!Sent, Sent, Stream!UnsubRequest, UnsubRequest,
             Stream!NextId, NextId, Stream!Ids, Ids, Stream!Cardinality, Cardinality
      <4>2. PICK i \in Nat : i = NextId
        BY Numbered
      <4>3. QED BY <1>a, <2>1, <3>1, <4>1, <4>2, CarriedUnwatched
    <3>3. CASE ~ Stream!Usable
      <4>1. inbox' = Sent(sock, cur, <<UnsubRequest(p, 0)>>)
        BY <1>13, <1>a, <2>3, <3>3 DEF Stream!Unsubscribe, Stream!Usable, Sent, Shared, Typed
      <4>2. QED BY <1>a, <2>1, <3>1, <4>1, CarriedUnwatched
    <3>4. QED BY <3>2, <3>3
  <2>4. QED BY <2>2, <2>3
<1> HIDE DEF StreamWatch, Aim
<1>14. QED
  BY <1>2, <1>3, <1>4, <1>5, <1>6, <1>7, <1>8, <1>9, <1>10, <1>11, <1>12, <1>13
     DEF Stream!Next, Stream!Sockets, Sockets, Stream!Ids, Ids

-----------------------------------------------------------------------------
(* The Python client: of each path at most one request is under way that   *)
(* changes what the server serves of it, under _sub_lock or by itself.     *)

AnyPath == Paths \cup {""}
Ops == {"call", "subscribe", "unsubscribe", "unsubscribe all"}
Jobs == [op : Ops \cup {"none"}, path : AnyPath, id : Nat]
Messages == [kind : {"answer", "event"}, id : Nat, path : AnyPath]

\* An agent's request is about what the server serves of a path.
Concerns(a, p) == job[a].op \in {"subscribe", "unsubscribe", "unsubscribe all"} /\ job[a].path = p

\* The server has not taken it.
Ahead(a) == pc[a] = "sending" \/ \E k \in DOMAIN toServer : toServer[k] = job[a]

\* Requests whose answer is on its way or has come.
Back == answered \cup {toClient[k].id : k \in {l \in DOMAIN toClient : toClient[l].kind = "answer"}}

Listed == subs \in [Paths -> SUBSET Handlers]

PyTyped ==
  /\ pc \in [Py!Agents -> {"idle", "sending", "waiting"}] /\ job \in [Py!Agents -> Jobs]
  /\ Listed /\ entries \in [Paths -> Nat]
  /\ toServer \in Seq(Jobs) /\ toClient \in Seq(Messages)
  /\ answered \subseteq Nat /\ used \in Nat

Idlers == \A a \in Py!Agents : pc[a] = "idle" <=> job[a].op = "none"

Locks == \A a \in Py!Agents : job[a].op = "unsubscribe" => a \in Threads /\ lock = a

Alone == \A p \in Paths : \A a, b \in Py!Agents : Concerns(a, p) /\ Concerns(b, p) => a = b

Numbers ==
  /\ \A a \in Py!Agents : pc[a] # "idle" => job[a].id \in 1 .. used
  /\ \A a, b \in Py!Agents : pc[a] # "idle" /\ pc[b] # "idle" /\ job[a].id = job[b].id => a = b
  /\ \A k \in DOMAIN toServer : \E a \in Py!Agents : pc[a] = "waiting" /\ toServer[k] = job[a]
  /\ \A k, l \in DOMAIN toServer : toServer[k] = toServer[l] => k = l
  /\ Back \subseteq 0 .. used
  /\ \A a \in Py!Agents : pc[a] # "idle" /\ Ahead(a) => job[a].id \notin Back

\* What the server serves of a path is what the client has callbacks for, but
\* for what the one request about it that is ahead will change.
Counted(p) ==
  /\ \A a \in Py!Agents : Concerns(a, p) =>
       IF job[a].op = "subscribe" THEN subs[p] # {} /\ entries[p] = IF Ahead(a) THEN 0 ELSE 1
       ELSE subs[p] = {} /\ (Ahead(a) \/ entries[p] = 0)
  /\ (\A a \in Py!Agents : ~ Concerns(a, p)) => entries[p] = IF subs[p] = {} THEN 0 ELSE 1

PySane == PyTyped /\ Idlers /\ Locks /\ Alone /\ Numbers /\ \A p \in Paths : Counted(p)


\* An idle agent's job, and an answer, are of no path.
LEMMA NoPath ==
  /\ Py!NoJob \in Jobs /\ Py!NoJob.op = "none"
  /\ \A i \in Nat : Py!Answer(i) \in Messages /\ Py!Answer(i).id = i
<1>1. PICK q \in AnyPath : q = ""
  BY Zenon DEF AnyPath
<1>2. Py!NoJob = [op |-> "none", path |-> q, id |-> 0]
  BY Zenon, <1>1 DEF Py!NoJob
<1>3. Py!NoJob \in Jobs /\ Py!NoJob.op = "none"
  BY <1>2 DEF Jobs
<1>4. ASSUME NEW i \in Nat
      PROVE  Py!Answer(i) \in Messages /\ Py!Answer(i).id = i
  <2>1. Py!Answer(i) = [kind |-> "answer", id |-> i, path |-> q]
    BY Zenon, <1>1 DEF Py!Answer
  <2>2. QED BY <2>1 DEF Messages
<1>5. QED BY <1>3, <1>4

\* Something comes back, or is received, and no request is concerned.
LEMMA PyHears ==
  ASSUME PySane, UNCHANGED <<pc, job, lock, subs, toServer, entries, used>>, Back' \subseteq Back,
         toClient' \in Seq(Messages), answered' \subseteq Nat
  PROVE  PySane'
<1>1. PyTyped' /\ Idlers' /\ Locks' /\ Alone'
  BY DEF PySane, PyTyped, Listed, Idlers, Locks, Alone, Concerns
<1>2. Numbers'
  BY DEF PySane, Numbers, Ahead
<1>3. ASSUME NEW p \in Paths
      PROVE  Counted(p)'
  <2>1. \A a \in Py!Agents : (Concerns(a, p)' <=> Concerns(a, p)) /\ (Ahead(a)' <=> Ahead(a))
    BY DEF Concerns, Ahead
  <2>2. QED BY <2>1 DEF PySane, Counted
<1>4. QED BY <1>1, <1>2, <1>3 DEF PySane

\* What comes back is received, or an event follows it.
LEMMA BackTaken ==
  ASSUME PySane, toClient # <<>>, toClient' = Tail(toClient),
         answered' = answered \/ (Head(toClient).kind = "answer" /\ answered' \subseteq answered \cup {Head(toClient).id})
  PROVE  Back' \subseteq Back /\ toClient' \in Seq(Messages) /\ answered' \subseteq Nat
<1>1. toClient \in Seq(Messages)
  BY DEF PySane, PyTyped
<1>2. toClient' \in Seq(Messages) /\ \A k \in DOMAIN toClient' : k + 1 \in DOMAIN toClient /\ toClient'[k] = toClient[k + 1]
  BY <1>1
<1>3. 1 \in DOMAIN toClient /\ Head(toClient) = toClient[1] /\ Head(toClient) \in Messages
  BY <1>1
<1>4. answered' \subseteq Nat
  BY <1>3 DEF PySane, PyTyped, Messages
<1>5. Back' \subseteq Back
  BY <1>2, <1>3 DEF Back
<1>6. QED BY <1>2, <1>4, <1>5

\* A request begins.
LEMMA PyWants ==
  ASSUME PySane, NEW a \in Py!Agents, pc[a] = "idle", NEW op \in Ops, NEW p \in AnyPath, Py!Wants(a, op, p),
         UNCHANGED <<toServer, entries>>, Back' \subseteq Back, toClient' \in Seq(Messages), answered' \subseteq Nat,
         Listed'
  PROVE  /\ PyTyped' /\ Idlers' /\ Numbers'
         /\ job'[a].op = op /\ job'[a].path = p /\ Ahead(a)' /\ \A q \in Paths : ~ Concerns(a, q)
         /\ \A b \in Py!Agents \ {a} : job'[b] = job[b] /\ (Ahead(b)' <=> Ahead(b))
<1>r. PICK r : r = [op |-> op, path |-> p, id |-> used']
  OBVIOUS
<1>q. r.op = op /\ r.path = p /\ r.id = used'
  BY <1>r
<1>1. /\ used' = used + 1 /\ pc' = [pc EXCEPT ![a] = "sending"]
      /\ job' = [job EXCEPT ![a] = r]
  BY <1>r DEF Py!Wants
<1>2. used \in Nat /\ pc \in [Py!Agents -> {"idle", "sending", "waiting"}] /\ job \in [Py!Agents -> Jobs]
  BY DEF PySane, PyTyped
<1>3. /\ pc'[a] = "sending" /\ job'[a] = r /\ r.id = used + 1 /\ r.op = op /\ r.path = p
      /\ \A b \in Py!Agents \ {a} : pc'[b] = pc[b] /\ job'[b] = job[b]
  BY <1>1, <1>2, <1>q
<1>4. PyTyped'
  <2>1. r \in Jobs /\ used' \in Nat
    <3>1. used' \in Nat
      BY <1>1, <1>2
    <3>2. op \in Ops \cup {"none"}
      OBVIOUS
    <3>3. QED BY <1>r, <3>1, <3>2 DEF Jobs
  <2>2. job' \in [Py!Agents -> Jobs] /\ pc' \in [Py!Agents -> {"idle", "sending", "waiting"}]
    BY <1>1, <1>2, <2>1
  <2>3. QED BY <2>1, <2>2 DEF PySane, PyTyped
<1>5. Idlers'
  BY <1>3 DEF PySane, Idlers, Ops
<1>6. \A b \in Py!Agents \ {a} : Ahead(b)' <=> Ahead(b)
  BY <1>3 DEF Ahead
<1>7. Numbers'
  <2>1. \A b \in Py!Agents : pc'[b] # "idle" => job'[b].id \in 1 .. used'
    BY <1>1, <1>2, <1>3 DEF PySane, Numbers
  <2>2. \A b, c \in Py!Agents : pc'[b] # "idle" /\ pc'[c] # "idle" /\ job'[b].id = job'[c].id => b = c
    BY <1>2, <1>3 DEF PySane, Numbers
  <2>3. \A k \in DOMAIN toServer : \E b \in Py!Agents : pc'[b] = "waiting" /\ toServer[k] = job'[b]
    BY <1>3 DEF PySane, Numbers
  <2>4. Back' \subseteq 0 .. used' /\ used + 1 \notin Back'
    BY <1>1, <1>2 DEF PySane, Numbers
  <2>5. \A b \in Py!Agents : pc'[b] # "idle" /\ Ahead(b)' => job'[b].id \notin Back'
    BY <1>3, <1>6, <2>4 DEF PySane, Numbers
  <2>6. QED BY <2>1, <2>2, <2>3, <2>4, <2>5 DEF PySane, Numbers
<1>8. Ahead(a)' /\ \A q \in Paths : ~ Concerns(a, q)
  BY <1>3 DEF Ahead, Concerns, PySane, Idlers
<1>9. QED BY <1>3, <1>4, <1>5, <1>6, <1>7, <1>8

\* The request an agent begins is of the kind it asked for.
LEMMA PyWantsOp ==
  ASSUME PySane, NEW a \in Py!Agents, NEW op \in Ops, NEW p \in AnyPath, Py!Wants(a, op, p)
  PROVE  job'[a].op = op
<1>1. PICK r : r = [op |-> op, path |-> p, id |-> used']
  OBVIOUS
<1>2. job' = [job EXCEPT ![a] = r]
  BY <1>1 DEF Py!Wants
<1>3. job \in [Py!Agents -> Jobs]
  BY DEF PySane, PyTyped
<1>4. r.op = op
  BY <1>1
<1>5. QED BY <1>2, <1>3, <1>4

\* One that is about no path, or about one whose callbacks stay or not.
LEMMA PyCalls ==
  ASSUME PySane, NEW a \in Py!Agents, pc[a] = "idle", NEW p \in AnyPath, Py!Wants(a, "call", p), UNCHANGED <<toServer, entries, lock, subs>>,
         Back' \subseteq Back, toClient' \in Seq(Messages), answered' \subseteq Nat
  PROVE  PySane'
<1>1. Listed'
  BY DEF PySane, PyTyped, Listed
<1>2. /\ PyTyped' /\ Idlers' /\ Numbers'
      /\ job'[a].op = "call" /\ \A q \in Paths : ~ Concerns(a, q)
      /\ \A b \in Py!Agents \ {a} : job'[b] = job[b] /\ (Ahead(b)' <=> Ahead(b))
  <2>1. "call" \in Ops
    BY DEF Ops
  <2>2. QED BY <1>1, <2>1, PyWants
<1>3. \A q \in Paths : \A b \in Py!Agents : Concerns(b, q)' <=> Concerns(b, q)
  BY <1>2 DEF Concerns
<1>4. Locks' /\ Alone'
  BY <1>2, <1>3 DEF PySane, Locks, Alone
<1>5. ASSUME NEW q \in Paths
      PROVE  Counted(q)'
  <2>1. \A b \in Py!Agents : Concerns(b, q)' => Concerns(b, q) /\ job'[b] = job[b] /\ (Ahead(b)' <=> Ahead(b))
    BY <1>2, <1>3
  <2>2. Counted(q)
    BY DEF PySane
  <2>3. QED BY <1>3, <2>1, <2>2 DEF Counted
<1>6. QED BY <1>2, <1>4, <1>5 DEF PySane

LEMMA PyAsks ==
  ASSUME PySane, NEW a \in Py!Agents, pc[a] = "idle", NEW p \in Paths,
         NEW op \in {"subscribe", "unsubscribe", "unsubscribe all"}, Py!Wants(a, op, p),
         UNCHANGED <<toServer, toClient, entries, answered>>,
         \A b \in Py!Agents : ~ Concerns(b, p), Locks',
         Listed', \A q \in Paths \ {p} : subs'[q] = subs[q],
         op = "subscribe" => subs[p] = {} /\ subs'[p] # {},
         op # "subscribe" => subs'[p] = {}
  PROVE  PySane'
<1>1. Back' \subseteq Back /\ toClient' \in Seq(Messages) /\ answered' \subseteq Nat
  BY DEF Back, PySane, PyTyped
<1>2. /\ PyTyped' /\ Idlers' /\ Numbers'
      /\ job'[a].op = op /\ job'[a].path = p /\ Ahead(a)' /\ \A q \in Paths : ~ Concerns(a, q)
      /\ \A b \in Py!Agents \ {a} : job'[b] = job[b] /\ (Ahead(b)' <=> Ahead(b))
  <2>1. op \in Ops /\ p \in AnyPath
    BY DEF Ops, AnyPath
  <2>2. QED BY <1>1, <2>1, PyWants
<1>3. \A q \in Paths : \A b \in Py!Agents : Concerns(b, q)' <=> Concerns(b, q) \/ (b = a /\ q = p)
  BY <1>2 DEF Concerns
<1>4. Alone'
  <2> SUFFICES ASSUME NEW q \in Paths, NEW b \in Py!Agents, NEW c \in Py!Agents, Concerns(b, q)', Concerns(c, q)'
               PROVE  b = c
    BY DEF Alone
  <2>1. CASE q = p
    BY <1>3, <2>1
  <2>2. CASE q # p
    BY <1>3, <2>2 DEF PySane, Alone
  <2>3. QED BY <2>1, <2>2
<1>5. ASSUME NEW q \in Paths
      PROVE  Counted(q)'
  <2>1. Counted(q)
    BY DEF PySane
  <2>2. CASE q = p
    <3>1. entries[p] = IF subs[p] = {} THEN 0 ELSE 1
      BY <2>1, <2>2 DEF Counted
    <3>2. \A b \in Py!Agents : Concerns(b, q)' => b = a
      BY <1>3, <2>2
    <3>3. Concerns(a, q)'
      BY <1>3, <2>2
    <3>4. QED BY <1>2, <2>2, <3>1, <3>2, <3>3 DEF Counted
  <2>3. CASE q # p
    <3>1. \A b \in Py!Agents : (Concerns(b, q)' <=> Concerns(b, q))
                               /\ (Concerns(b, q)' => job'[b] = job[b] /\ (Ahead(b)' <=> Ahead(b)))
      BY <1>2, <1>3, <2>3
    <3>2. subs'[q] = subs[q] /\ entries'[q] = entries[q]
      BY <2>3
    <3>3. QED BY <2>1, <3>1, <3>2 DEF Counted
  <2>4. QED BY <2>2, <2>3
<1>6. QED BY <1>2, <1>4, <1>5 DEF PySane

\* A callback comes or goes, and is not the first or the last.
LEMMA PySame ==
  ASSUME PySane, UNCHANGED <<pc, job, lock, toServer, toClient, answered, entries, used>>,
         Listed', \A q \in Paths : subs'[q] = {} <=> subs[q] = {}
  PROVE  PySane'
<1>1. PyTyped'
  BY DEF PySane, PyTyped
<1>a. Idlers' /\ Locks' /\ Alone'
  <2> HIDE DEF Listed
  <2>1. \A p \in Paths : \A b \in Py!Agents : Concerns(b, p)' <=> Concerns(b, p)
    BY DEF Concerns
  <2>2. QED BY <2>1 DEF PySane, Idlers, Locks, Alone
<1>2. Numbers'
  BY DEF PySane, Numbers, Ahead, Back
<1>3. ASSUME NEW q \in Paths
      PROVE  Counted(q)'
  <2>1. \A a \in Py!Agents : (Concerns(a, q)' <=> Concerns(a, q)) /\ (Ahead(a)' <=> Ahead(a))
    BY DEF Concerns, Ahead
  <2>2. (subs'[q] = {} <=> subs[q] = {}) /\ Counted(q)
    BY DEF PySane
  <2>3. QED BY <2>1, <2>2 DEF Counted
<1>4. QED BY <1>1, <1>a, <1>2, <1>3 DEF PySane

\* A request is written.
LEMMA PySends ==
  ASSUME PySane, up, NEW a \in Py!Agents, Py!Send(a)
  PROVE  PySane'
<1>1. /\ pc[a] = "sending" /\ pc' = [pc EXCEPT ![a] = "waiting"] /\ toServer' = Append(toServer, job[a])
      /\ UNCHANGED <<job, lock, subs, answered, used, toClient, entries>>
  BY DEF Py!Send
<1>2. /\ pc \in [Py!Agents -> {"idle", "sending", "waiting"}] /\ job \in [Py!Agents -> Jobs] /\ toServer \in Seq(Jobs)
  BY DEF PySane, PyTyped
<1>3. pc'[a] = "waiting" /\ \A b \in Py!Agents \ {a} : pc'[b] = pc[b]
  BY <1>1, <1>2
<1>4. PICK n : n = Len(toServer) + 1
  OBVIOUS
<1>5. /\ toServer' \in Seq(Jobs) /\ DOMAIN toServer' = DOMAIN toServer \cup {n} /\ n \notin DOMAIN toServer
      /\ toServer'[n] = job[a] /\ \A k \in DOMAIN toServer : toServer'[k] = toServer[k]
  BY <1>1, <1>2, <1>4
<1>6. \A b \in Py!Agents : job[b] = job[a] => b = a
  BY <1>1 DEF PySane, Idlers, Numbers
<1>7. \A k \in DOMAIN toServer : toServer[k] # job[a]
  BY <1>1, <1>6 DEF PySane, Numbers
<1>8. \A b \in Py!Agents : Ahead(b)' <=> Ahead(b)
  <2>1. Ahead(a) /\ Ahead(a)'
    BY <1>1, <1>5 DEF Ahead
  <2>2. ASSUME NEW b \in Py!Agents \ {a}
        PROVE  Ahead(b)' <=> Ahead(b)
    <3>1. (\E k \in DOMAIN toServer' : toServer'[k] = job[b]) <=> (\E k \in DOMAIN toServer : toServer[k] = job[b])
      BY <1>5, <1>6
    <3>2. QED BY <1>1, <1>3, <3>1 DEF Ahead
  <2>3. QED BY <2>1, <2>2
<1>9. PyTyped' /\ Idlers' /\ Locks' /\ Alone'
  <2>1. pc' \in [Py!Agents -> {"idle", "sending", "waiting"}]
    BY <1>1, <1>2
  <2>2. PyTyped'
    BY <1>1, <1>5, <2>1 DEF PySane, PyTyped, Listed
  <2>3. QED BY <1>1, <1>3, <2>2 DEF PySane, Idlers, Locks, Alone, Concerns
<1>10. Numbers'
  <2>1. Back' = Back
    BY <1>1 DEF Back
  <2>2. \A b \in Py!Agents : pc'[b] # "idle" <=> pc[b] # "idle"
    BY <1>1, <1>3
  <2>3. \A k \in DOMAIN toServer' : \E b \in Py!Agents : pc'[b] = "waiting" /\ toServer'[k] = job'[b]
    BY <1>1, <1>3, <1>5 DEF PySane, Numbers
  <2>4. \A k, l \in DOMAIN toServer' : toServer'[k] = toServer'[l] => k = l
    BY <1>5, <1>7 DEF PySane, Numbers
  <2>5. QED BY <1>1, <1>8, <2>1, <2>2, <2>3, <2>4 DEF PySane, Numbers
<1>11. ASSUME NEW p \in Paths
       PROVE  Counted(p)'
  BY <1>1, <1>8 DEF PySane, Counted, Concerns
<1>12. QED BY <1>9, <1>10, <1>11 DEF PySane

\* The thread that waits for an answer that has come goes on.
LEMMA PyWakes ==
  ASSUME PySane, NEW a \in Py!Agents, Py!Woken(a)
  PROVE  PySane'
<1>1. /\ pc[a] = "waiting" /\ job[a].id \in answered
      /\ pc' = [pc EXCEPT ![a] = "idle"] /\ job' = [job EXCEPT ![a] = Py!NoJob]
      /\ lock' = (IF lock = a THEN Nobody ELSE lock)
      /\ UNCHANGED <<subs, answered, used, toServer, toClient, entries>>
  BY DEF Py!Woken, Py!Resumes, Py!Released, Py!serverVars
<1>2. /\ pc \in [Py!Agents -> {"idle", "sending", "waiting"}] /\ job \in [Py!Agents -> Jobs]
  BY DEF PySane, PyTyped
<1>3. /\ pc'[a] = "idle" /\ job'[a] = Py!NoJob /\ job'[a].op = "none"
      /\ \A b \in Py!Agents \ {a} : pc'[b] = pc[b] /\ job'[b] = job[b]
  BY <1>1, <1>2, NoPath
<1>4. ~ Ahead(a)
  BY <1>1 DEF PySane, Numbers, Back
<1>5. \A b \in Py!Agents \ {a} : Ahead(b)' <=> Ahead(b)
  BY <1>1, <1>3 DEF Ahead
<1>6. PyTyped'
  <2>1. Py!NoJob \in Jobs
    BY NoPath
  <2>2. job' \in [Py!Agents -> Jobs] /\ pc' \in [Py!Agents -> {"idle", "sending", "waiting"}]
    BY <1>1, <1>2, <2>1
  <2>3. QED BY <1>1, <2>2 DEF PySane, PyTyped, Listed
<1>7. Idlers' /\ Locks'
  BY <1>1, <1>3 DEF PySane, Idlers, Locks
<1>8. \A p \in Paths : ~ Concerns(a, p)' /\ \A b \in Py!Agents \ {a} : Concerns(b, p)' <=> Concerns(b, p)
  BY <1>3 DEF Concerns
<1>9. Alone'
  BY <1>8 DEF PySane, Alone
<1>10. Numbers'
  <2>1. Back' = Back
    BY <1>1 DEF Back
  <2>2. \A k \in DOMAIN toServer : \E b \in Py!Agents : pc'[b] = "waiting" /\ toServer[k] = job'[b]
    <3> TAKE k \in DOMAIN toServer
    <3>1. PICK b \in Py!Agents : pc[b] = "waiting" /\ toServer[k] = job[b]
      BY DEF PySane, Numbers
    <3>2. b # a
      BY <1>4, <3>1 DEF Ahead
    <3>3. QED BY <1>3, <3>1, <3>2
  <2>3. QED BY <1>1, <1>3, <1>5, <2>1, <2>2 DEF PySane, Numbers
<1>11. ASSUME NEW p \in Paths
       PROVE  Counted(p)'
  <2>1. Counted(p)
    BY DEF PySane
  <2>2. CASE Concerns(a, p)
    <3>1. \A b \in Py!Agents : ~ Concerns(b, p)'
      BY <1>8, <2>2 DEF PySane, Alone
    <3>2. entries[p] = IF subs[p] = {} THEN 0 ELSE 1
      BY <1>4, <2>1, <2>2 DEF Counted
    <3>3. QED BY <1>1, <3>1, <3>2 DEF Counted
  <2>3. CASE ~ Concerns(a, p)
    <3>1. \A b \in Py!Agents : Concerns(b, p)' <=> Concerns(b, p)
      BY <1>8, <2>3
    <3>2. \A b \in Py!Agents : Concerns(b, p)' => job'[b] = job[b] /\ (Ahead(b)' <=> Ahead(b))
      BY <1>3, <1>5, <1>8
    <3>3. QED BY <1>1, <2>1, <3>1, <3>2 DEF Counted
  <2>4. QED BY <2>2, <2>3
<1>12. QED BY <1>6, <1>7, <1>9, <1>10, <1>11 DEF PySane

\* The server takes a request.
LEMMA PyServed ==
  ASSUME PySane, Py!Serve
  PROVE  PySane'
<1>1. PICK r : r = Head(toServer)
  OBVIOUS
<1>2. /\ toServer # <<>> /\ toServer' = Tail(toServer) /\ toClient' = Append(toClient, Py!Answer(r.id))
      /\ UNCHANGED <<pc, job, lock, subs, answered, used>>
  BY <1>1 DEF Py!Serve, Py!clientVars
<1>e. entries' = CASE r.op = "subscribe" -> [entries EXCEPT ![r.path] = @ + 1]
                      [] r.op \in {"unsubscribe", "unsubscribe all"} -> [entries EXCEPT ![r.path] = 0]
                      [] OTHER -> entries
  BY <1>1 DEF Py!Serve
<1>3. /\ toServer \in Seq(Jobs) /\ toClient \in Seq(Messages) /\ job \in [Py!Agents -> Jobs] /\ entries \in [Paths -> Nat]
  BY DEF PySane, PyTyped
<1>4. /\ toServer' \in Seq(Jobs) /\ 1 \in DOMAIN toServer /\ r = toServer[1] /\ r \in Jobs
      /\ \A k \in DOMAIN toServer' : k + 1 \in DOMAIN toServer /\ toServer'[k] = toServer[k + 1] /\ k + 1 # 1
      /\ \A k \in DOMAIN toServer : k # 1 => k - 1 \in DOMAIN toServer' /\ toServer'[k - 1] = toServer[k]
  BY <1>1, <1>2, <1>3
<1>5. PICK a \in Py!Agents : pc[a] = "waiting" /\ r = job[a]
  BY <1>4 DEF PySane, Numbers
<1>6. \A b \in Py!Agents : job[b] = r => b = a
  BY <1>5 DEF PySane, Idlers, Numbers
<1>d. \A k, l \in DOMAIN toServer : toServer[k] = toServer[l] => k = l
  BY DEF PySane, Numbers
<1>7. Ahead(a) /\ ~ Ahead(a)'
  <2>1. \A k \in DOMAIN toServer' : toServer'[k] # r
    BY <1>4, <1>d
  <2>2. QED BY <1>2, <1>4, <1>5, <2>1 DEF Ahead
<1>8. ASSUME NEW b \in Py!Agents \ {a}
      PROVE  Ahead(b)' <=> Ahead(b)
  <2>1. (\E k \in DOMAIN toServer' : toServer'[k] = job[b]) <=> (\E k \in DOMAIN toServer : toServer[k] = job[b])
    BY <1>4, <1>6
  <2>2. QED BY <1>2, <2>1 DEF Ahead
<1>9. Py!Answer(r.id) \in Messages /\ Py!Answer(r.id).id = r.id
  <2>1. r.id \in Nat
    BY <1>4 DEF Jobs
  <2>2. QED BY <2>1, NoPath
<1>10. toClient' \in Seq(Messages) /\ Back' \subseteq Back \cup {r.id}
  <2>1. PICK n, x : n = Len(toClient) + 1 /\ x = Py!Answer(r.id)
    OBVIOUS
  <2>2. /\ toClient' \in Seq(Messages) /\ DOMAIN toClient' = DOMAIN toClient \cup {n} /\ toClient'[n] = x
        /\ \A k \in DOMAIN toClient : toClient'[k] = toClient[k]
    BY <1>2, <1>3, <1>9, <2>1
  <2>3. QED BY <1>2, <1>9, <2>1, <2>2 DEF Back
<1>11. entries' \in [Paths -> Nat]
  <2>1. CASE r.op = "subscribe"
    <3>1. entries' = [entries EXCEPT ![r.path] = @ + 1]
      BY <1>e, <2>1
    <3>2. \A p \in Paths : entries'[p] \in Nat
      BY <1>3, <3>1
    <3>3. entries' = [p \in Paths |-> entries'[p]]
      BY <1>3, <3>1
    <3>4. QED BY <3>2, <3>3
  <2>2. CASE r.op # "subscribe"
    BY <1>3, <1>e, <2>2
  <2>3. QED BY <2>1, <2>2
<1>12. PyTyped' /\ Idlers' /\ Locks' /\ Alone'
  BY <1>2, <1>4, <1>10, <1>11 DEF PySane, PyTyped, Listed, Idlers, Locks, Alone, Concerns
<1>13. Numbers'
  <2>1. Back' \subseteq 0 .. used
    <3>1. r.id \in 1 .. used /\ used \in Nat
      BY <1>5 DEF PySane, Numbers, PyTyped
    <3>2. QED BY <1>10, <3>1 DEF PySane, Numbers
  <2>2. \A k \in DOMAIN toServer' : \E b \in Py!Agents : pc[b] = "waiting" /\ toServer'[k] = job[b]
    <3>1. \A k \in DOMAIN toServer : \E b \in Py!Agents : pc[b] = "waiting" /\ toServer[k] = job[b]
      BY DEF PySane, Numbers
    <3>2. QED BY <1>4, <3>1
  <2>3. \A k, l \in DOMAIN toServer' : toServer'[k] = toServer'[l] => k = l
    <3> TAKE k, l \in DOMAIN toServer'
    <3>1. toServer'[k] = toServer'[l] => k + 1 = l + 1
      BY <1>4, <1>d
    <3>2. k \in Nat /\ l \in Nat
      BY <1>4
    <3>3. QED BY <3>1, <3>2
  <2>4. ASSUME NEW b \in Py!Agents, pc[b] # "idle", Ahead(b)'
        PROVE  job[b].id \notin Back'
    <3>1. b # a
      BY <1>7, <2>4
    <3>2. job[b].id # r.id
      BY <1>5, <2>4, <3>1 DEF PySane, Numbers
    <3>3. job[b].id \notin Back
      BY <1>8, <2>4, <3>1 DEF PySane, Numbers
    <3>4. QED BY <1>10, <3>2, <3>3
  <2>5. QED BY <1>2, <2>1, <2>2, <2>3, <2>4 DEF PySane, Numbers
<1>14. ASSUME NEW p \in Paths
       PROVE  Counted(p)'
  <2>1. Counted(p)
    BY DEF PySane
  <2>2. \A b \in Py!Agents : Concerns(b, p)' <=> Concerns(b, p)
    BY <1>2 DEF Concerns
  <2>3. CASE Concerns(a, p)
    <3>1. \A b \in Py!Agents : Concerns(b, p) => b = a
      BY <2>3 DEF PySane, Alone
    <3>2. r.path = p
      BY <1>5, <2>3 DEF Concerns
    <3>3. CASE r.op = "subscribe"
      <4>1. subs[p] # {} /\ entries[p] = 0
        BY <1>5, <1>7, <2>1, <2>3, <3>3 DEF Counted
      <4>2. entries' = [entries EXCEPT ![p] = @ + 1]
        BY <1>e, <3>2, <3>3
      <4>3. entries'[p] = 1
        BY <1>3, <4>1, <4>2
      <4>4. QED BY <1>2, <1>5, <1>7, <2>2, <2>3, <3>1, <3>3, <4>1, <4>3 DEF Counted
    <3>4. CASE r.op # "subscribe"
      <4>1. subs[p] = {}
        BY <1>5, <2>1, <2>3, <3>4 DEF Counted
      <4>2. r.op \in {"unsubscribe", "unsubscribe all"}
        BY <1>5, <2>3, <3>4 DEF Concerns
      <4>3. entries' = [entries EXCEPT ![p] = 0]
        BY <1>e, <3>2, <4>2
      <4>4. entries'[p] = 0
        BY <1>3, <4>3
      <4>5. QED BY <1>2, <1>5, <2>2, <2>3, <3>1, <3>4, <4>1, <4>4 DEF Counted
    <3>5. QED BY <3>3, <3>4
  <2>4. CASE ~ Concerns(a, p)
    <3>1. entries'[p] = entries[p]
      <4>1. r.op \notin {"subscribe", "unsubscribe", "unsubscribe all"} \/ r.path # p
        BY <1>5, <2>4 DEF Concerns
      <4>2. QED BY <1>3, <1>e, <4>1
    <3>2. \A b \in Py!Agents : Concerns(b, p) => (Ahead(b)' <=> Ahead(b))
      BY <1>8, <2>4
    <3>3. QED BY <1>2, <2>1, <2>2, <3>1, <3>2 DEF Counted
  <2>5. QED BY <2>3, <2>4
<1>15. QED BY <1>12, <1>13, <1>14 DEF PySane

\* As long as the connection is there and no request has failed.
PyInv == up /\ ~ late => PySane

\* Every step of the Python transports.
LEMMA PyKeeps ==
  ASSUME Patient, PyInv, [Py!Next]_(Py!vars)
  PROVE  PyInv'
<1> SUFFICES ASSUME up', ~ late'
             PROVE  PySane'
  BY DEF PyInv
<1>1. ASSUME up' = up, late' = late
      PROVE  PySane
  BY <1>1 DEF PyInv
<1>2. ASSUME PySane, UNCHANGED <<toClient, answered>>
      PROVE  Back' \subseteq Back /\ toClient' \in Seq(Messages) /\ answered' \subseteq Nat
  BY <1>2 DEF Back, PySane, PyTyped
<1>3. CASE UNCHANGED Py!vars
  <2>1. PySane /\ UNCHANGED <<pc, job, lock, subs, toServer, toClient, entries, used, answered>>
    BY <1>1, <1>3 DEF Py!vars, Py!clientVars, Py!serverVars
  <2>2. QED BY <1>2, <2>1, PyHears
<1>4. ASSUME NEW a \in Py!Agents, Py!Send(a)
      PROVE  PySane'
  <2>1. PySane /\ up
    BY <1>1, <1>4 DEF Py!Send
  <2>2. QED BY <1>4, <2>1, PySends
<1>5. ASSUME NEW a \in Py!Agents, Py!SendFails(a) \/ Py!GiveUp(a)
      PROVE  PySane'
  BY <1>5 DEF Py!SendFails, Py!GiveUp
<1>6. ASSUME NEW a \in Py!Agents, Py!Woken(a)
      PROVE  PySane'
  <2>1. PySane
    BY <1>1, <1>6 DEF Py!Woken, Py!serverVars
  <2>2. QED BY <1>6, <2>1, PyWakes
<1>7. ASSUME NEW t \in Threads, Py!Call(t)
      PROVE  PySane'
  <2>1. /\ pc[t] = "idle" /\ t \in Py!Agents
        /\ UNCHANGED <<lock, subs, toServer, toClient, entries, answered, up, late>>
    BY <1>7 DEF Py!Call, Py!serverVars, Py!Agents
  <2>2. PICK q \in AnyPath : Py!Wants(t, "call", q)
    BY <1>7, Zenon DEF Py!Call, AnyPath
  <2>3. PySane
    BY <1>1, <2>1
  <2>4. QED BY <1>2, <2>1, <2>2, <2>3, PyCalls
\* While _sub_lock is free nobody's request drops the last callback of a path.
<1>8. ASSUME PySane, lock = Nobody
      PROVE  \A b \in Py!Agents : job[b].op # "unsubscribe"
  BY <1>8, LockAssumption DEF PySane, Locks
<1>9. ASSUME NEW t \in Threads, NEW p \in Paths, NEW c \in Handlers, Py!Subscribe(t, p, c)
      PROVE  PySane'
  <2>1. /\ pc[t] = "idle" /\ t \in Py!Agents /\ lock = Nobody /\ (\A a \in Py!Agents : job[a].op # "unsubscribe all")
        /\ subs' = [subs EXCEPT ![p] = @ \cup {c}]
        /\ IF subs[p] = {} THEN Py!Wants(t, "subscribe", p) ELSE UNCHANGED <<pc, job, used>>
        /\ UNCHANGED <<lock, toServer, toClient, entries, answered, up, late>>
    BY <1>9 DEF Py!Subscribe, Py!serverVars, Py!Agents
  <2>2. PySane
    BY <1>1, <2>1
  <2>3. subs \in [Paths -> SUBSET Handlers]
    BY <2>2 DEF PySane, PyTyped, Listed
  <2>4. Listed' /\ subs'[p] # {} /\ \A q \in Paths \ {p} : subs'[q] = subs[q]
    BY <2>1, <2>3 DEF Listed
  <2>5. CASE subs[p] # {}
    <3>1. UNCHANGED <<pc, job, used>>
      BY <2>1, <2>5
    <3>2. \A q \in Paths : subs'[q] = {} <=> subs[q] = {}
      BY <2>4, <2>5
    <3>3. UNCHANGED <<lock, toServer, toClient, entries, answered>>
      BY <2>1
    <3>4. QED BY <2>2, <2>4, <3>1, <3>2, <3>3, PySame
  <2>6. CASE subs[p] = {}
    <3>1. Py!Wants(t, "subscribe", p)
      BY <2>1, <2>6
    <3>2. ASSUME NEW b \in Py!Agents, Concerns(b, p)
          PROVE  FALSE
      <4>1. job[b].op = "subscribe"
        BY <1>8, <2>1, <2>2, <3>2 DEF Concerns
      <4>2. subs[p] # {}
        BY <2>2, <3>2, <4>1 DEF PySane, Counted
      <4>3. QED BY <2>6, <4>2
    <3>3. Locks'
      <4>1. \A b \in Py!Agents \ {t} : job'[b] = job[b]
        BY <2>2, <3>1 DEF Py!Wants, PySane, PyTyped
      <4>2. job'[t].op = "subscribe"
        <5>1. "subscribe" \in Ops /\ p \in AnyPath
          BY DEF Ops, AnyPath
        <5>2. QED BY <2>1, <2>2, <3>1, <5>1, PyWantsOp
      <4>3. \A b \in Py!Agents : job'[b].op # "unsubscribe"
        BY <1>8, <2>1, <2>2, <4>1, <4>2
      <4>4. QED BY <4>3 DEF Locks
    <3>4. QED BY <2>1, <2>2, <2>4, <2>6, <3>1, <3>2, <3>3, PyAsks
  <2>7. QED BY <2>5, <2>6
<1>10. ASSUME NEW t \in Threads, NEW p \in Paths, NEW c \in Handlers, Py!Unsub(t, p, c)
       PROVE  PySane'
  <2>1. /\ pc[t] = "idle" /\ t \in Py!Agents /\ lock = Nobody /\ c \in subs[p]
        /\ subs[p] = {c} => \A a \in Py!Agents : job[a].op = "subscribe" => job[a].path # p
        /\ subs' = [subs EXCEPT ![p] = @ \ {c}]
        /\ IF subs[p] = {c} THEN Py!Wants(t, "unsubscribe", p) /\ lock' = t ELSE UNCHANGED <<pc, job, used, lock>>
        /\ UNCHANGED <<toServer, toClient, entries, answered, up, late>>
    BY <1>10 DEF Py!Unsub, Py!Locked, Py!serverVars, Py!Agents
  <2>2. PySane
    BY <1>1, <2>1
  <2>3. subs \in [Paths -> SUBSET Handlers]
    BY <2>2 DEF PySane, PyTyped, Listed
  <2>4. Listed' /\ subs'[p] = subs[p] \ {c} /\ \A q \in Paths \ {p} : subs'[q] = subs[q]
    BY <2>1, <2>3 DEF Listed
  <2>5. CASE subs[p] # {c}
    <3>1. UNCHANGED <<pc, job, used, lock>>
      BY <2>1, <2>5
    <3>2. \A q \in Paths : subs'[q] = {} <=> subs[q] = {}
      BY <2>1, <2>4, <2>5
    <3>3. UNCHANGED <<toServer, toClient, entries, answered>>
      BY <2>1
    <3>4. QED BY <2>2, <2>4, <3>1, <3>2, <3>3, PySame
  <2>6. CASE subs[p] = {c}
    <3>1. Py!Wants(t, "unsubscribe", p) /\ lock' = t /\ subs'[p] = {}
      BY <2>1, <2>4, <2>6
    <3>2. ASSUME NEW b \in Py!Agents, Concerns(b, p)
          PROVE  FALSE
      <4>1. job[b].op = "unsubscribe all"
        BY <1>8, <2>1, <2>2, <2>6, <3>2 DEF Concerns
      <4>2. subs[p] = {}
        BY <2>2, <3>2, <4>1 DEF PySane, Counted
      <4>3. QED BY <2>6, <4>2
    <3>3. Locks'
      <4>1. \A b \in Py!Agents \ {t} : job'[b] = job[b]
        BY <2>2, <3>1 DEF Py!Wants, PySane, PyTyped
      <4>2. \A b \in Py!Agents \ {t} : job'[b].op # "unsubscribe"
        BY <1>8, <2>1, <2>2, <4>1
      <4>3. QED BY <3>1, <4>2 DEF Locks
    <3>4. QED BY <2>1, <2>2, <2>4, <3>1, <3>2, <3>3, PyAsks
  <2>7. QED BY <2>5, <2>6
<1>11. ASSUME NEW t \in Threads, NEW p \in Paths, Py!Unsubscribe(t, p)
       PROVE  PySane'
  <2>1. /\ pc[t] = "idle" /\ t \in Py!Agents /\ (\A a \in Py!Agents : pc[a] = "idle")
        /\ subs' = [subs EXCEPT ![p] = {}] /\ Py!Wants(t, "unsubscribe all", p)
        /\ UNCHANGED <<lock, toServer, toClient, entries, answered, up, late>>
    BY <1>11 DEF Py!Unsubscribe, Py!serverVars, Py!Agents
  <2>2. PySane
    BY <1>1, <2>1
  <2>3. subs \in [Paths -> SUBSET Handlers]
    BY <2>2 DEF PySane, PyTyped, Listed
  <2>4. Listed' /\ subs'[p] = {} /\ \A q \in Paths \ {p} : subs'[q] = subs[q]
    BY <2>1, <2>3 DEF Listed
  <2>5. \A b \in Py!Agents : job[b].op = "none"
    BY <2>1, <2>2 DEF PySane, Idlers
  <2>6. \A b \in Py!Agents : ~ Concerns(b, p)
    BY <2>5 DEF Concerns
  <2>7. Locks'
    <3>1. \A b \in Py!Agents \ {t} : job'[b] = job[b]
      BY <2>1, <2>2 DEF Py!Wants, PySane, PyTyped
    <3>2. job'[t].op = "unsubscribe all"
      BY <2>1, <2>2, PyWantsOp DEF Ops, AnyPath
    <3>3. QED BY <2>5, <3>1, <3>2 DEF Locks
  <2>8. QED BY <2>1, <2>2, <2>4, <2>6, <2>7, PyAsks
<1>12. CASE Py!TakeAnswer
  <2>1. /\ toClient # <<>> /\ toClient' = Tail(toClient) /\ Head(toClient).kind = "answer"
        /\ answered' \subseteq answered \cup {Head(toClient).id}
        /\ UNCHANGED <<pc, job, lock, subs, toServer, entries, used, up, late>>
    BY <1>12 DEF Py!TakeAnswer, Py!Reads, Py!SetFor
  <2>2. PySane
    BY <1>1, <2>1
  <2>3. QED BY <2>1, <2>2, BackTaken, PyHears
<1>13. CASE Py!TakeEvent
  <2>1. /\ toClient # <<>> /\ toClient' = Tail(toClient) /\ pc[Receiver] = "idle" /\ Receiver \in Py!Agents
        /\ UNCHANGED <<lock, subs, toServer, entries, answered, up, late>>
    BY <1>13 DEF Py!TakeEvent, Py!Reads, Py!Agents
  <2>2. UNCHANGED <<pc, job, used>> \/ \E q \in AnyPath : Py!Wants(Receiver, "call", q)
    BY <1>13, Zenon DEF Py!TakeEvent, AnyPath
  <2>3. PySane
    BY <1>1, <2>1
  <2>4. Back' \subseteq Back /\ toClient' \in Seq(Messages) /\ answered' \subseteq Nat
    BY <2>1, <2>3, BackTaken
  <2>5. CASE UNCHANGED <<pc, job, used>>
    BY <2>1, <2>3, <2>4, <2>5, PyHears
  <2>6. ASSUME NEW q \in AnyPath, Py!Wants(Receiver, "call", q)
        PROVE  PySane'
    BY <2>1, <2>3, <2>4, <2>6, PyCalls
  <2>7. QED BY <2>2, <2>5, <2>6
<1>14. CASE Py!ReceiveTimeout \/ Py!ReceiveEnds
  <2>1. UNCHANGED <<pc, job, lock, subs, toServer, toClient, entries, used, answered, up, late>>
    BY <1>14 DEF Py!ReceiveTimeout, Py!ReceiveEnds, Py!serverVars
  <2>2. QED BY <1>1, <1>2, <2>1, PyHears
<1>15. CASE Py!Serve
  <2>1. PySane
    BY <1>1, <1>15 DEF Py!Serve, Py!clientVars
  <2>2. QED BY <1>15, <2>1, PyServed
<1>16. CASE Py!Close
  BY <1>16 DEF Py!Close
<1>17. ASSUME NEW p \in Paths, Py!Change(p)
       PROVE  PySane'
  <2>1. /\ toClient' = Append(toClient, Py!Event(p))
        /\ UNCHANGED <<pc, job, lock, subs, toServer, entries, used, answered, up, late>>
    BY <1>17 DEF Py!Change, Py!clientVars
  <2>2. PySane
    BY <1>1, <2>1
  <2>3. PICK x : x = Py!Event(p)
    OBVIOUS
  <2>4. x \in Messages /\ x.kind = "event"
    BY <2>3 DEF Py!Event, Messages, AnyPath
  <2>5. PICK n : n = Len(toClient) + 1
    OBVIOUS
  <2>6. /\ toClient' \in Seq(Messages) /\ DOMAIN toClient' = DOMAIN toClient \cup {n} /\ toClient'[n] = x
        /\ \A k \in DOMAIN toClient : toClient'[k] = toClient[k]
    BY <2>1, <2>2, <2>3, <2>4, <2>5 DEF PySane, PyTyped
  <2>7. Back' \subseteq Back
    BY <2>1, <2>4, <2>6 DEF Back
  <2>8. answered' \subseteq Nat
    BY <2>1, <2>2 DEF PySane, PyTyped
  <2>9. QED BY <2>1, <2>2, <2>6, <2>7, <2>8, PyHears
<1>18. QED
  BY <1>3, <1>4, <1>5, <1>6, <1>7, <1>9, <1>10, <1>11, <1>12, <1>13, <1>14, <1>15, <1>16, <1>17 DEF Py!Next

-----------------------------------------------------------------------------
(* All four of them.                                                       *)

\* Whichever client runs, what it keeps true.
WatchInv ==
  /\ which = "ws" => WsInv
  /\ which = "page" => PageWatch
  /\ which = "stream" => StreamWatch
  /\ which = "py" => PyInv

\* Nothing is watched, and nothing is served.
LEMMA InitWatch == MCInit => WatchInv
<1> SUFFICES ASSUME MCInit
             PROVE  WatchInv
  OBVIOUS
<1>1. Init /\ Shared
  BY InitShared DEF MCInit
<1>2. Carried /\ \A w \in Sockets : Following(w)
  <2>1. <<>> \in Seq(Sendable) /\ <<>> \in Seq(Modes)
    OBVIOUS
  <2>2. inbox = [w \in Sockets |-> <<>>] /\ served = [w \in Sockets |-> [p \in Paths |-> <<>>]] /\ watched = {}
        /\ sock = [w \in Sockets |-> "new"]
    BY <1>1 DEF Init
  <2>3. Watching
    BY <2>2, FS_EmptySet DEF Watching
  <2>4. QED BY <2>1, <2>2, <2>3 DEF Carried, Boxes, Fresh, Following, Nothing
<1>3. WsInv
  BY <1>1, <1>2 DEF WsInv, Init
<1>4. PageWatch
  BY <1>1, <1>2 DEF PageWatch, PageInv, Kept, Flagged, Retried, Init
<1>5. StreamWatch
  BY <1>1, <1>2 DEF StreamWatch, StreamInv, Linked, Init
<1>6. PySane
  <2>1. /\ pc = [a \in Py!Agents |-> "idle"] /\ job = [a \in Py!Agents |-> Py!NoJob] /\ subs = [p \in Paths |-> {}]
        /\ answered = {} /\ toServer = <<>> /\ toClient = <<>> /\ entries = [p \in Paths |-> 0] /\ used = 0
    BY DEF MCInit, Py!Init
  <2>2. <<>> \in Seq(Jobs) /\ <<>> \in Seq(Messages) /\ DOMAIN <<>> = {}
    OBVIOUS
  <2>3. PyTyped
    BY <2>1, <2>2, NoPath DEF PyTyped, Listed
  <2>4. \A a \in Py!Agents : pc[a] = "idle" /\ job[a].op = "none" /\ \A p \in Paths : ~ Concerns(a, p)
    BY <2>1, NoPath DEF Concerns
  <2>5. Idlers /\ Locks /\ Alone
    BY <2>4 DEF Idlers, Locks, Alone
  <2>6. Back = {}
    BY <2>1, <2>2 DEF Back
  <2>7. Numbers
    BY <2>1, <2>2, <2>4, <2>6 DEF Numbers
  <2>8. \A p \in Paths : Counted(p)
    BY <2>1, <2>4 DEF Counted
  <2>9. QED BY <2>3, <2>5, <2>7, <2>8 DEF PySane
<1>7. QED BY <1>3, <1>4, <1>5, <1>6 DEF WatchInv, PyInv

\* Every step, of whichever client runs.
LEMMA WatchKept ==
  ASSUME Patient, WatchInv, [MCNext]_all
  PROVE  WatchInv'
<1>1. which' = which
  BY DEF MCNext, Of, all
<1>2. CASE which = "ws"
  <2>1. [Ws!Next]_(Ws!vars)
    BY <1>2 DEF MCNext, Of, all, vars, linkVars, callVars, watchVars, streamVars, ownerVars,
                Ws!vars, Ws!linkVars, Ws!callVars, Ws!watchVars, Ws!streamVars, Ws!ownerVars
  <2>2. WsInv'
    BY <1>2, <2>1, WsFollows DEF WatchInv
  <2>3. QED BY <1>1, <1>2, <2>2 DEF WatchInv
<1>3. CASE which = "page"
  <2>1. [Page!Next]_(Page!vars)
    BY <1>3 DEF MCNext, Of, all, vars, linkVars, callVars, watchVars, streamVars, ownerVars,
                Page!vars, Page!linkVars, Page!callVars, Page!watchVars, Page!streamVars, Page!ownerVars
  <2>2. PageWatch'
    BY <1>3, <2>1, PageFollows DEF WatchInv
  <2>3. QED BY <1>1, <1>3, <2>2 DEF WatchInv
<1>4. CASE which = "stream"
  <2>1. [Stream!Next]_(Stream!vars)
    BY <1>4 DEF MCNext, Of, all, vars, linkVars, callVars, watchVars, streamVars, ownerVars,
                Stream!vars, Stream!linkVars, Stream!callVars, Stream!watchVars, Stream!streamVars, Stream!ownerVars
  <2>2. StreamWatch'
    BY <1>4, <2>1, StreamFollows DEF WatchInv
  <2>3. QED BY <1>1, <1>4, <2>2 DEF WatchInv
<1>5. CASE which = "py"
  <2>1. [Py!Next]_(Py!vars)
    BY <1>5 DEF MCNext, Of, all, pyVars, Py!vars, Py!clientVars, Py!serverVars
  <2>2. PyInv'
    BY <1>5, <2>1, PyKeeps DEF WatchInv
  <2>3. QED BY <1>1, <1>5, <2>2 DEF WatchInv
<1>6. CASE which \notin {"ws", "page", "stream", "py"}
  BY <1>1, <1>6 DEF WatchInv
<1>7. QED BY <1>2, <1>3, <1>4, <1>5, <1>6

\* With nothing on its way, what leads to what is watched is it.
LEMMA WatchSuffices == WatchInv => ServedIsWatched
<1> SUFFICES ASSUME WatchInv
             PROVE  ServedIsWatched
  OBVIOUS
<1>1. ASSUME Carried, NEW w \in Sockets, sock[w] = "open", inbox[w] = <<>>, Following(w), NEW p \in Paths
      PROVE  Len(served[w][p]) = IF p \in watched THEN 1 ELSE 0
  <2>1. served[w][p] \in Seq(Modes)
    BY <1>1 DEF Carried, Boxes
  <2>2. Leads(<<>>, served[w][p], p, watched)
    BY <1>1 DEF Following
  <2>3. QED BY <2>1, <2>2, LeadsThere
<1>2. which = "ws" => Ws!Agree
  BY <1>1 DEF WatchInv, WsInv, Ws!Agree, Ws!SubscriptionsAgree, Ws!Resumed, Ws!Sockets, Sockets
<1>3. which = "page" => Page!Agree
  BY <1>1 DEF WatchInv, PageWatch, Page!Agree, Page!SubscriptionsAgree, Page!Resumed, Page!Sockets, Sockets
<1>4. which = "stream" => Stream!Agree
  BY <1>1 DEF WatchInv, StreamWatch, Stream!Agree, Stream!SubscriptionsAgree, Stream!Resumed, Stream!Sockets, Sockets
<1>5. which = "py" => Py!SubscriptionsAgree
  <2> SUFFICES ASSUME which = "py", up, ~ late, \A a \in Py!Agents : pc[a] = "idle", NEW p \in Paths
               PROVE  entries[p] = IF subs[p] = {} THEN 0 ELSE 1
    BY DEF Py!SubscriptionsAgree
  <2>1. Counted(p) /\ Idlers
    BY DEF WatchInv, PyInv, PySane
  <2>2. \A a \in Py!Agents : ~ Concerns(a, p)
    BY <2>1 DEF Idlers, Concerns
  <2>3. QED BY <2>1, <2>2 DEF Counted
<1>6. QED BY <1>2, <1>3, <1>4, <1>5 DEF ServedIsWatched

\* As soon as the server has taken what was sent to it, it serves what the
\* client watches, each path once and no other: for the three clients in
\* JavaScript over any loss of the connection and any reconnect, for the one
\* in Python over any threads that come and go between the map and the request
\* (Resubscribed in ws.ts, veservice.js and bin.ts, _sub_lock in
\* transports.py).
THEOREM WatchedIsServed ==
  ASSUME Patient
  PROVE  MCSpec => []ServedIsWatched
<1>1. MCInit => WatchInv
  BY InitWatch
<1>2. WatchInv /\ [MCNext]_all => WatchInv'
  BY WatchKept
<1>3. WatchInv => ServedIsWatched
  BY WatchSuffices
<1>4. QED BY <1>1, <1>2, <1>3, PTL DEF MCSpec
=============================================================================
