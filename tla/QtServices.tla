----------------------------- MODULE QtServices -----------------------------
(***************************************************************************)
(* States by name, requests to a service and packages to peers on the Qt   *)
(* side, each on variables of its own.                                     *)
(***************************************************************************)
EXTENDS Integers, Sequences, FiniteSets

(***************************************************************************)
(* StateManager (imol/statemanager.cpp): the named states of a context,    *)
(* each with the one before and the one after it, and the current one.     *)
(* Neighbours and the current state are pointers; 0 is none, or the empty  *)
(* state.  What the states and watchers are told of a change is left out.  *)
(***************************************************************************)

CONSTANTS
  Contexts, Names,
  MaxStates,   \* state objects at a time, of all contexts
  StateCareful      \* nobody cancels the current state but all states at once

VARIABLES
  states,    \* m_states: the states of a context by name
  object,    \* prev and next of each state object, deleted ones too
  current,   \* m_cur_state_hash, 0 if none
  watched    \* m_watcher_hash: contexts that have a watcher

stateVars == <<states, object, current, watched>>

Of(context) == {states[context][n] : n \in DOMAIN states[context]}
Standing == UNION {Of(c) : c \in Contexts}
Free == (1 .. MaxStates) \ Standing
New == CHOOSE o \in Free : \A x \in Free : o <= x
Nobody == [prev |-> 0, next |-> 0]

StateInit ==
  /\ states = [c \in Contexts |-> <<>>] /\ object = [o \in 1 .. MaxStates |-> Nobody]
  /\ current = [c \in Contexts |-> 0] /\ watched = {}

\* regist(name): made if it is not there.
Named(context, name) == IF name \in DOMAIN states[context] THEN states[context][name] ELSE New
StateWith(f, k, v) == [x \in DOMAIN f \cup {k} |-> IF x = k THEN v ELSE f[x]]

Regist(context, name, isCurrent) ==
  /\ name \in DOMAIN states[context] \/ Free # {}
  /\ object' = IF name \in DOMAIN states[context] THEN object ELSE [object EXCEPT ![New] = Nobody]
  /\ states' = [states EXCEPT ![context] = StateWith(@, name, Named(context, name))]
  /\ current' = IF isCurrent THEN [current EXCEPT ![context] = Named(context, name)] ELSE current
  /\ watched' = watched \cup {context}

\* regist(names) of two states, there or not: in a row, or in a ring.
RegistTwo(context, first, second, firstIsCurrent, kind) ==
  LET missing == {first, second} \ DOMAIN states[context]
      made == CHOOSE f \in [missing -> Free] : \A x, y \in missing : f[x] = f[y] => x = y
      a == IF first \in missing THEN made[first] ELSE states[context][first]
      b == IF second \in missing THEN made[second] ELSE states[context][second]
      Links(o) ==
        [prev |-> IF o = b /\ kind # "none" THEN a ELSE IF o = a /\ kind = "loop" THEN b
                  ELSE IF o \in Free THEN 0 ELSE object[o].prev,
         next |-> IF o = a /\ kind # "none" THEN b ELSE IF o = b /\ kind = "loop" THEN a
                  ELSE IF o \in Free THEN 0 ELSE object[o].next]
  IN  /\ first # second /\ Cardinality(missing) <= Cardinality(Free)
      /\ states' = [states EXCEPT ![context] = StateWith(StateWith(@, first, a), second, b)]
      /\ object' = [o \in DOMAIN object |-> IF o \in {a, b} THEN Links(o) ELSE object[o]]
      /\ current' = IF firstIsCurrent THEN [current EXCEPT ![context] = a] ELSE current
      /\ watched' = watched \cup {context}

\* setPreviousState and setNextState, of one of the two or of both.
StateConnect(o, p, forward, both) ==
  /\ {o, p} \subseteq Standing
  /\ object' = [x \in DOMAIN object |->
                  [prev |-> IF forward /\ both /\ x = p THEN o ELSE IF ~ forward /\ x = o THEN p ELSE object[x].prev,
                   next |-> IF ~ forward /\ both /\ x = p THEN o ELSE IF forward /\ x = o THEN p ELSE object[x].next]]
  /\ UNCHANGED <<states, current, watched>>

\* cancel(""): all of a context.
CancelAll(context) ==
  /\ DOMAIN states[context] # {}
  /\ states' = [states EXCEPT ![context] = <<>>] /\ watched' = watched \ {context}
  /\ current' = [current EXCEPT ![context] = 0]
  /\ object' = [o \in DOMAIN object |-> IF o \in Of(context) THEN Nobody ELSE object[o]]

\* Its neighbours in the context no longer point at it.
Forgotten(context, gone) ==
  [o \in DOMAIN object |->
     IF o \notin Of(context) THEN object[o]
     ELSE [prev |-> IF object[o].prev = gone THEN 0 ELSE object[o].prev,
           next |-> IF object[o].next = gone THEN 0 ELSE object[o].next]]

\* cancel(name): the last one takes the watcher with it; where it was the
\* current one nobody looks whose neighbour it was.
Cancel(context, name) ==
  LET gone == states[context][name]
      others == DOMAIN states[context] \ {name}
  IN  /\ name \in DOMAIN states[context]
      /\ StateCareful => gone # current[context] \/ others = {}
      /\ states' = [states EXCEPT ![context] = [n \in others |-> @[n]]]
      /\ watched' = IF others = {} THEN watched \ {context} ELSE watched
      /\ current' = IF others = {} \/ current[context] = gone THEN [current EXCEPT ![context] = 0] ELSE current
      /\ object' = [(IF others = {} \/ current[context] = gone THEN object ELSE Forgotten(context, gone))
                      EXCEPT ![gone] = Nobody]

\* change: to a state of the context, a neighbour, or none.
Change(context, to) ==
  /\ current' = [current EXCEPT ![context] = to]
  /\ UNCHANGED <<states, object, watched>>
ToNamed(context, name) ==
  Change(context, IF name \in DOMAIN states[context] THEN states[context][name] ELSE 0)
ToNext(context) == Change(context, IF current[context] = 0 THEN 0 ELSE object[current[context]].next)
ToPrevious(context) == Change(context, IF current[context] = 0 THEN 0 ELSE object[current[context]].prev)

StateNext ==
  \/ \E c \in Contexts, n \in Names :
       \/ \E isCurrent \in BOOLEAN : Regist(c, n, isCurrent)
       \/ \E m \in Names, isCurrent \in BOOLEAN, kind \in {"none", "row", "loop"} : RegistTwo(c, n, m, isCurrent, kind)
       \/ Cancel(c, n) \/ ToNamed(c, n)
  \/ \E c \in Contexts : CancelAll(c) \/ ToNext(c) \/ ToPrevious(c)
  \/ \E c \in Contexts : \E o, p \in Of(c), forward, both \in BOOLEAN : StateConnect(o, p, forward, both)

\* The current state and the neighbours of every state are states that stand,
\* of the same context, and a context with states has a watcher.
StatesStand ==
  \A c \in Contexts :
    /\ current[c] \in Of(c) \cup {0}
    /\ \A o \in Of(c) : {object[o].prev, object[o].next} \subseteq Of(c) \cup {0}
    /\ c \in watched <=> DOMAIN states[c] # {}

-----------------------------------------------------------------------------
(***************************************************************************)
(* XService (qt/src/service/xservice_client.cpp): threads ask a server and *)
(* wait for its answers on one condition.  A request is known by its key,  *)
(* a command that need not be waited for by a number; what comes in is     *)
(* taken by the net thread, put where the request says, and all who wait   *)
(* are woken.  To write and to disconnect is posted to that thread, and    *)
(* whether there is a connection is told to another.  What a request and   *)
(* an answer hold is left out but for which request an answer is to.       *)
(***************************************************************************)

CONSTANTS
  Callers, Keys,
  MaxSends,   \* requests in all
  MaxLinks,   \* connections in all
  ServiceCareful     \* callers of one key take turns

VARIABLES
  pc, id, serial,  \* where a caller is, what it asked for, its number
  woken,           \* callers whose wait was ended by wakeAll
  result, filled,  \* what it got back, the request whose answer it holds
  pending,         \* who takes the answer to an id
  sends,           \* requests so far, and the number genId gives next
  posted,          \* requests to be written and disconnects, for the net thread
  asked, answers,  \* what is on the way to the server and back
  up, known,       \* the connection, and is_connected_n
  links,
  rivals           \* what was under way of its key when a caller asked

caller == <<pc, id, serial, woken, result, filled>>
link   == <<posted, asked, answers, up, known, links, rivals>>
serviceVars   == <<caller, pending, sends, link>>

ServiceInit ==
  /\ pc = [c \in Callers |-> "idle"] /\ id = [c \in Callers |-> <<>>] /\ serial = [c \in Callers |-> 0]
  /\ woken = {} /\ result = [c \in Callers |-> ""] /\ filled = [c \in Callers |-> 0]
  /\ pending = <<>> /\ sends = 0 /\ posted = <<>> /\ asked = {} /\ answers = <<>>
  /\ up = FALSE /\ known = FALSE /\ links = 0 /\ rivals = [c \in Callers |-> {}]

Waits(c) == pc[c] \in {"first", "then"}
Without(f, k) == [x \in DOMAIN f \ {k} |-> f[x]]
ServiceWith(f, k, v) == [x \in DOMAIN f \cup {k} |-> IF x = k THEN v ELSE f[x]]
Return(c, r) == pc' = [pc EXCEPT ![c] = "idle"] /\ result' = [result EXCEPT ![c] = r]

\* Requests for a key that were not answered yet, given up or not.
Under(key) ==
  LET all == asked \cup {posted[i] : i \in DOMAIN posted} \cup {answers[i] : i \in DOMAIN answers}
  IN  {r.serial : r \in {r \in all : r.id = key}}

\* The place for the answer is emptied, then: no connection, a duplicate, or on
\* to the lock, with nothing held.
Ask(c, key) ==
  /\ pc[c] = "idle" /\ sends < MaxSends
  /\ ServiceCareful => \A d \in Callers : pc[d] # "idle" => id[d] # key
  /\ id' = [id EXCEPT ![c] = key] /\ filled' = [filled EXCEPT ![c] = 0]
  /\ IF ~ known THEN Return(c, "offline")
     ELSE IF key \in DOMAIN pending THEN Return(c, "duplicate")
     ELSE pc' = [pc EXCEPT ![c] = "checked"] /\ result' = [result EXCEPT ![c] = ""]
  /\ sends' = IF pc'[c] = "checked" THEN sends + 1 ELSE sends
  /\ serial' = [serial EXCEPT ![c] = IF pc'[c] = "checked" THEN sends + 1 ELSE 0]
  /\ rivals' = [rivals EXCEPT ![c] = Under(key)]
  /\ UNCHANGED <<woken, pending, posted, asked, answers, up, known, links>>

\* A command that need not be waited for has an id of its own: genId.
Get(c) == \E key \in Keys : Ask(c, key)
Command(c) == Ask(c, <<"#", sends>>)

Mine(c) == [id |-> id[c], serial |-> serial[c]]
End == [id |-> <<>>, serial |-> 0]

\* Under the lock it is noted and posted, and the wait begins.
Post(c) ==
  /\ pc[c] = "checked"
  /\ pending' = ServiceWith(pending, id[c], c)
  /\ posted' = Append(posted, Mine(c))
  /\ pc' = [pc EXCEPT ![c] = "first"] /\ woken' = woken \ {c}
  /\ UNCHANGED <<id, serial, result, filled, sends, asked, answers, up, known, links, rivals>>

\* Woken: the answer is there, or somebody else's was, and the wait goes on
\* without a limit but ten minutes.
Wake(c) ==
  /\ Waits(c) /\ c \in woken
  /\ woken' = woken \ {c}
  /\ IF id[c] \notin DOMAIN pending THEN Return(c, "answered")
     ELSE pc' = [pc EXCEPT ![c] = "then"] /\ UNCHANGED result
  /\ UNCHANGED <<id, serial, filled, pending, sends, link>>

\* Mutant: what was asked for stays noted.
ForgetNothing(c) == pending

Forget(c) == Without(pending, id[c])

\* Nothing came in time: an end of the connection is posted.
TimedOut(c) ==
  /\ pc[c] = "first"
  /\ pending' = Forget(c)
  /\ posted' = Append(posted, End)
  /\ Return(c, "timeout") /\ woken' = woken \ {c}
  /\ UNCHANGED <<id, serial, filled, sends, asked, answers, up, known, links, rivals>>

\* The connection is gone when the limit of a wait is up, or ten minutes are,
\* which end no connection.
GiveUp(c) ==
  /\ pc[c] = "then"
  /\ IF id[c] \notin DOMAIN pending THEN Return(c, "answered") /\ UNCHANGED pending
     ELSE Return(c, "timeout") /\ pending' = Forget(c)
  /\ woken' = woken \ {c}
  /\ UNCHANGED <<id, serial, filled, sends, posted, asked, answers, up, known, links, rivals>>

\* The server answers, at once or after a note that it will.
Answer(r) ==
  /\ up /\ r \in asked
  /\ asked' = asked \ {r}
  /\ answers' = Append(answers, [id |-> r.id, serial |-> r.serial, note |-> FALSE])
  /\ UNCHANGED <<caller, pending, sends, posted, up, known, links, rivals>>
Note(r) ==
  /\ up /\ r \in asked /\ r.id \in Keys /\ \A i \in DOMAIN answers : ~ answers[i].note
  /\ answers' = Append(answers, [id |-> r.id, serial |-> r.serial, note |-> TRUE])
  /\ UNCHANGED <<caller, pending, sends, posted, asked, up, known, links, rivals>>

\* recv, on the net thread: whoever the id belongs to now is given the answer.
ServiceReceive ==
  LET a == Head(answers)
      owner == IF a.id \in DOMAIN pending THEN {pending[a.id]} ELSE {}
  IN  /\ answers # <<>> /\ answers' = Tail(answers)
      /\ woken' = woken \cup {c \in Callers : Waits(c)}
      /\ IF a.note THEN UNCHANGED <<filled, pending>>
         ELSE /\ filled' = [c \in Callers |-> IF c \in owner THEN a.serial ELSE filled[c]]
              /\ pending' = Without(pending, a.id)
      /\ UNCHANGED <<pc, id, serial, result, sends, posted, asked, up, known, links, rivals>>

\* With the connection goes what is on its way.
Down == up' = FALSE /\ asked' = {} /\ answers' = <<>>

\* The net thread does what was posted: writes, or disconnects.
NetThread ==
  LET next == Head(posted)
  IN  /\ posted # <<>> /\ posted' = Tail(posted)
      /\ IF next = End THEN Down
         ELSE asked' = (IF up THEN asked \cup {next} ELSE asked) /\ UNCHANGED <<up, answers>>
      /\ UNCHANGED <<caller, pending, sends, known, links, rivals>>

\* The server closes the connection; later it is opened again.
Close == up /\ Down /\ UNCHANGED <<caller, pending, sends, posted, known, links, rivals>>
ServiceConnect ==
  /\ ~ up /\ links < MaxLinks /\ up' = TRUE /\ links' = links + 1
  /\ UNCHANGED <<caller, pending, sends, posted, asked, answers, known, rivals>>

\* onConnected and onDisconnected; of a connection that ended and came back at
\* once nothing may be told.
ServiceTold ==
  /\ known # up /\ known' = up
  /\ UNCHANGED <<caller, pending, sends, posted, asked, answers, up, links, rivals>>

ServiceNext ==
  \/ \E c \in Callers : Get(c) \/ Command(c) \/ Post(c) \/ Wake(c) \/ TimedOut(c) \/ GiveUp(c)
  \/ \E r \in asked : Answer(r) \/ Note(r)
  \/ ServiceReceive \/ NetThread \/ Close \/ ServiceConnect \/ ServiceTold

Spec == ServiceInit /\ [][ServiceNext]_serviceVars

\* Who is told that it was answered holds the answer to its own request, or a
\* late one to a request of the same key that had been given up and was still
\* under way when it asked; and nobody is noted for an answer it no longer waits
\* for.
AnswerIsOwn ==
  /\ \A c \in Callers : result[c] = "answered" => filled[c] \in {serial[c]} \cup rivals[c]
  /\ \A k \in DOMAIN pending : Waits(pending[k]) /\ id[pending[k]] = k

\* The answer to its own request and no other: does not hold, the end of the
\* connection is only posted and a late answer may come before it.
AnswerAlwaysOwn == \A c \in Callers : result[c] = "answered" => filled[c] = serial[c]

-----------------------------------------------------------------------------
(***************************************************************************)
(* NetworkHandle (imol/networkmanager.cpp): a package is a head (its size, *)
(* its type, one byte kept back) and its content; it is cut into frames,   *)
(* each with its size in front, that a stream delivers in whatever pieces. *)
(* Bytes are numbers below Base; a frame's size takes two, a package's one *)
(* of the four of the code.                                                *)
(***************************************************************************)

CONSTANTS
  Base, MaxFrame, MaxPackage,
  Types,      \* how many types of package there are
  Packages,   \* what can be sent: type and content
  MaxSent,
  MaxCuts     \* connections that end in between, and times the cache timer runs out

VARIABLES
  sent, stream,     \* packages given to send, bytes under way
  frames, packages, \* m_frame_cache and m_package_cache
  obtained,         \* packages the receiver was told of
  cuts, broken      \* bytes were lost, and something is left of what they belonged to

frameVars == <<sent, stream, frames, packages, obtained, cuts, broken>>

File == 1
HeadSize == 3
Left(s, n) == SubSeq(s, 1, IF n < Len(s) THEN n ELSE Len(s))
From(s, n) == SubSeq(s, n + 1, Len(s))

\* qFromBigEndian; what is behind the end of a QByteArray is 0.
Byte(s, i) == IF i \in DOMAIN s THEN s[i] ELSE 0
FrameSize(s) == Base * Byte(s, 1) + Byte(s, 2)

\* NetworkFrame::checkIntegrity.
FrameTooLong(s) == FrameSize(s) > MaxFrame
FrameWhole(s) == Len(s) >= FrameSize(s) + 2

\* NetworkPackage::checkIntegrity, its errors in their order.
PackageError(s) ==
  /\ Len(s) >= HeadSize
  /\ s[1] > MaxPackage \/ (Len(s) >= HeadSize + s[1] /\ s[2] >= Types)
PackageWhole(s) == Len(s) >= HeadSize /\ Len(s) >= HeadSize + s[1]

\* serialize, and onSendRaw with and without frames.
Serialized(p) == <<Len(p.content), p.type, 0>> \o p.content
RECURSIVE InFrames(_)
InFrames(s) ==
  IF s = <<>> THEN <<>>
  ELSE LET part == Left(s, MaxFrame)
       IN  <<Len(part) \div Base, Len(part) % Base>> \o part \o InFrames(From(s, MaxFrame))

-----------------------------------------------------------------------------

\* Packages of the package cache: what is left of it, what was obtained.
RECURSIVE Unpacked(_, _)
Unpacked(cache, out) ==
  IF cache = <<>> \/ ~ (PackageError(cache) \/ PackageWhole(cache)) THEN [cache |-> cache, out |-> out]
  ELSE IF PackageError(cache) THEN [cache |-> <<>>, out |-> out]
  ELSE Unpacked(From(cache, HeadSize + cache[1]),
                Append(out, [type |-> cache[2], content |-> SubSeq(cache, HeadSize + 1, HeadSize + cache[1])]))

\* onReceive: frame by frame into the package cache.
RECURSIVE Unframed(_, _, _)
Unframed(cache, package, out) ==
  IF cache = <<>> \/ ~ (FrameTooLong(cache) \/ FrameWhole(cache)) THEN [cache |-> cache, package |-> package, out |-> out]
  ELSE IF FrameTooLong(cache) THEN [cache |-> <<>>, package |-> package, out |-> out]
  ELSE LET size == FrameSize(cache)
           u == Unpacked(package \o SubSeq(cache, 3, size + 2), out)
       IN  Unframed(From(cache, size + 2), u.cache, u.out)

FrameInit ==
  sent = <<>> /\ stream = <<>> /\ frames = <<>> /\ packages = <<>> /\ obtained = <<>> /\ cuts = 0 /\ broken = FALSE

\* Where bytes were lost, what was sent and obtained is counted anew when
\* nothing is left of it.
Counted(breaks, gave, got) ==
  LET clean == stream' = <<>> /\ frames' = <<>> /\ packages' = <<>>
      anew == (broken \/ breaks) /\ clean
  IN  /\ broken' = ((broken \/ breaks) /\ ~ clean)
      /\ sent' = IF anew THEN <<>> ELSE gave
      /\ obtained' = IF anew THEN <<>> ELSE got

\* onSendFilePackage leaves the frames out.
Send(p) ==
  /\ Len(sent) < MaxSent
  /\ stream' = stream \o (IF p.type # File THEN InFrames(Serialized(p)) ELSE Serialized(p))
  /\ UNCHANGED <<frames, packages, cuts>>
  /\ Counted(FALSE, Append(sent, p), obtained)

FrameReceive(n) ==
  LET u == Unframed(frames \o Left(stream, n), packages, obtained)
  IN  /\ stream' = From(stream, n)
      /\ frames' = u.cache /\ packages' = u.package
      /\ UNCHANGED cuts
      /\ Counted(FALSE, sent, u.out)

\* The connection ends, anywhere in a frame; the caches know nothing of it.
Cut ==
  /\ stream # <<>> /\ cuts < MaxCuts /\ cuts' = cuts + 1
  /\ stream' = <<>> /\ UNCHANGED <<frames, packages>>
  /\ Counted(TRUE, sent, obtained)

\* The cache timer: what is there of a package is given up, also when the rest
\* of it is still to come.
Abandon ==
  /\ frames # <<>> \/ packages # <<>>
  /\ broken \/ cuts < MaxCuts
  /\ cuts' = IF broken THEN cuts ELSE cuts + 1
  /\ frames' = <<>> /\ packages' = <<>> /\ UNCHANGED stream
  /\ Counted(TRUE, sent, obtained)

FrameNext ==
  \/ \E p \in Packages : Send(p)
  \/ \E n \in 1 .. Len(stream) : FrameReceive(n)
  \/ Cut \/ Abandon

\* In whatever pieces the stream comes, the packages that were sent are
\* obtained, each once and whole, in their order, and all of them in the end;
\* also after a connection has ended inside a frame or the timer has run out,
\* from when nothing is left of what was under way.
PackagesArrive ==
  ~ broken =>
    /\ Len(obtained) <= Len(sent) /\ obtained = SubSeq(sent, 1, Len(obtained))
    /\ stream = <<>> => obtained = sent /\ frames = <<>> /\ packages = <<>>

\* The same at any time: does not hold, what is left of a frame that a
\* connection ended in is taken for the head of the next.
PackagesAlways == Len(obtained) <= Len(sent) /\ obtained = SubSeq(sent, 1, Len(obtained))
=============================================================================
