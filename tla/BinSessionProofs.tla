--------------------------- MODULE BinSessionProofs ---------------------------
(***************************************************************************)
(* Proofs about BinSession.                                                *)
(***************************************************************************)
EXTENDS BinSession, FiniteSetTheorems, SequenceTheorems, TLAPS

\* Sessions, requests, frames and entries are what they seem.
Requests == [op : Ops, id : Nat, call : Nat]
Replies == [id : Nat, call : Nat]
Events == [value : Nat]
Closures == [key : Keys, value : Nat]
AnyEntry == [n : Nat, key : Keys, owner : Sessions]

\* A session whose entries the server keeps; the number of the last call.
Alive(s) == state[s] \in {"open", "closed"}
Now == Len(asked)
Waiting == cpc \in {"armed", "wait"}

Typed ==
  /\ link \in Sessions \cup {0} /\ nextId \in Nat /\ asked \in Seq(Nat)
  /\ cpc \in {"idle", "checked", "armed", "wait"}
  /\ cpc # "idle" => op \in Ops
  /\ cpc \in {"armed", "wait"} => id \in Nat
  /\ state \in [Sessions -> {"new", "open", "closed", "gone"}]
  /\ key \in [Sessions -> Keys \cup {NULL}]
  /\ \A s \in Sessions : Alive(s) => key[s] \in Keys
  /\ inbox \in [Sessions -> Seq(Requests)]
  /\ outbox \in [Sessions -> Seq(Replies \cup Events)]
  /\ entries \subseteq AnyEntry /\ IsFiniteSet(entries)
  /\ made \in Nat
  /\ value \in Nat
  /\ passed \in AnyEntry \cup {NULL}
  /\ posts \in Seq(Closures)
  /\ heard \in Nat

\* A caller waits for the request it has made last.
AsksOnce ==
  /\ callMtx = NULL => cpc = "idle"
  /\ waitActive => Waiting
  /\ response # NULL => Waiting /\ response.id = waitId
  /\ Waiting => id = waitId /\ asked # <<>> /\ asked[Now] = id

\* A key belongs to one session at a time; the client's is open.
OneOfAKey ==
  /\ \A r, s \in Sessions : Alive(r) /\ Alive(s) /\ key[r] = key[s] => r = s
  /\ \A s \in Sessions : state[s] = "new" => inbox[s] = <<>> /\ outbox[s] = <<>>
  /\ link # 0 => state[link] = "open"
  /\ opc \in {"disconnect", "start"} => link = 0

\* Entries are numbered, owned and counted.
Kept ==
  /\ \A e \in entries : e.n <= made
  /\ EntriesOwned /\ CountsAgree

\* Whatever is under way has the id its call was made with; no call is under
\* way before it is sent, and the last of all is the last of its session.
Known(q) == q.call \in DOMAIN asked /\ asked[q.call] = q.id
Below(n) ==
  \A s \in Sessions :
    /\ \A i \in DOMAIN inbox[s] : inbox[s][i].call < n
    /\ \A i \in DOMAIN outbox[s] : "id" \in DOMAIN outbox[s][i] => outbox[s][i].call < n
LastAsked ==
  \A i \in DOMAIN inbox[link] : inbox[link][i].call = Now => i = Len(inbox[link]) /\ inbox[link][i].op = op
AllKnown ==
  /\ \A s \in Sessions :
       /\ \A i \in DOMAIN inbox[s] : Known(inbox[s][i])
       /\ \A i \in DOMAIN outbox[s] : "id" \in DOMAIN outbox[s][i] => Known(outbox[s][i])
  /\ response # NULL => Known(response)
Numbered ==
  /\ AllKnown
  /\ cpc = "armed" => Below(Now)
  /\ cpc = "wait" /\ link # 0 => LastAsked

\* The client's session has an entry once the answer to subscribe is on its
\* way, and nothing will take it away but what the client asks for later.
Served == \E e \in entries : e.owner = link
Answered ==
  \A i \in DOMAIN outbox[link] :
    "id" \in DOMAIN outbox[link][i] /\ outbox[link][i].call = Now =>
      inbox[link] = <<>> /\ (op = "subscribe" => Served)
Promised == link # 0 /\ Served /\ \A i \in DOMAIN inbox[link] : inbox[link][i].op # "unsubscribe"
Backed ==
  /\ cpc = "wait" /\ link # 0 => Answered
  /\ owed # NULL => Promised

\* Events grow older on their way: posted, sent, heard.
Posting == \A i \in DOMAIN posts : posts[i].value <= value /\ \A j \in 1 .. i - 1 : posts[j].value <= posts[i].value
Hearing == heard <= value /\ \A i \in DOMAIN posts : heard <= posts[i].value
Sending ==
  \A s \in Sessions : \A k \in DOMAIN outbox[s] : "value" \in DOMAIN outbox[s][k] =>
    outbox[s][k].value <= value /\ \A i \in DOMAIN posts : outbox[s][k].value <= posts[i].value
Ageing == Posting /\ Hearing /\ Sending /\ EventsInOrder

-----------------------------------------------------------------------------
(* Sequences.                                                              *)

LEMMA Taken ==
  ASSUME NEW F, NEW q \in Seq(F), q # <<>>
  PROVE  /\ Head(q) \in F /\ Tail(q) \in Seq(F) /\ 1 \in DOMAIN q /\ Head(q) = q[1]
         /\ Len(Tail(q)) = Len(q) - 1 /\ Len(q) \in Nat \ {0}
         /\ \A i \in DOMAIN Tail(q) : i \in Nat /\ i + 1 \in DOMAIN q /\ i + 1 > 1 /\ Tail(q)[i] = q[i + 1]
OBVIOUS

LEMMA Added ==
  ASSUME NEW F, NEW q \in Seq(F), NEW f \in F
  PROVE  /\ Append(q, f) \in Seq(F) /\ Len(Append(q, f)) = Len(q) + 1 /\ Len(q) \in Nat
         /\ \A i \in DOMAIN Append(q, f) :
              \/ i = Len(q) + 1 /\ Append(q, f)[i] = f
              \/ i \in DOMAIN q /\ i <= Len(q) /\ Append(q, f)[i] = q[i]
OBVIOUS

-----------------------------------------------------------------------------
(* Types.                                                                  *)

LEMMA InitTyped == Init => Typed
<1> SUFFICES ASSUME Init PROVE Typed
  OBVIOUS
<1>1. \A S : <<>> \in Seq(S)
  OBVIOUS
<1>2. IsFiniteSet({})
  BY FS_EmptySet
<1>3. entries = {} /\ made = 0 /\ value = 0 /\ nextId = 1 /\ posts = <<>> /\ asked = <<>> /\ heard = 0
  BY DEF Init
<1>4. inbox = [s \in Sessions |-> <<>>] /\ outbox = [s \in Sessions |-> <<>>]
  BY DEF Init
<1>5. state \in [Sessions -> {"new", "open", "closed", "gone"}] /\ \A s \in Sessions : ~ Alive(s)
  BY DEF Init, Alive
<1>6. key \in [Sessions -> Keys \cup {NULL}] /\ link = 0 /\ cpc = "idle" /\ passed = NULL
  BY DEF Init
<1>7. QED BY <1>1, <1>2, <1>3, <1>4, <1>5, <1>6 DEF Typed

LEMMA TypedKept == Typed /\ OneOfAKey /\ [Next]_vars => Typed'
<1> SUFFICES ASSUME Typed, OneOfAKey, [Next]_vars PROVE Typed'
  OBVIOUS
<1> USE DEF clientVars, serverVars, setterVars, waitVars, callVars
<1>0. \A S : <<>> \in Seq(S)
  OBVIOUS
<1>1. CASE Connect \/ LinkLost
  <2>1. state' \in [Sessions -> {"new", "open", "closed", "gone"}] /\ outbox' \in [Sessions -> Seq(Replies \cup Events)]
    <3>1. CloseLink
      BY <1>1 DEF Connect, LinkLost
    <3>2. <<>> \in Seq(Replies \cup Events)
      OBVIOUS
    <3>3. QED BY <3>1, <3>2 DEF CloseLink, Typed
  <2>2. \A s \in Sessions : Alive(s)' => Alive(s)
    BY <1>1 DEF OneOfAKey, Connect, LinkLost, CloseLink, Typed, Alive
  <2>3. QED BY <1>1, <2>1, <2>2 DEF Connect, LinkLost, CloseLink, Typed
<1>2. CASE Disconnect \/ StoreConnected \/ ResetWait
  BY <1>2 DEF Disconnect, StoreConnected, ResetWait, Typed, Alive
<1>3. CASE StartClient
  BY <1>3 DEF StartClient, Typed, Alive
<1>4. ASSUME NEW c \in Callers, NEW o \in Ops, Call(c, o) PROVE Typed'
  BY <1>4 DEF Call, Typed, Alive
<1>5. CASE CallReturns
  BY <1>5 DEF CallReturns, Typed, Alive
<1>15. CASE Arm
  <2>0. OwnIds \subseteq Nat
    BY BinSessionAssumption, Zenon
  <2>a. (id' \in OwnIds /\ nextId' = nextId) \/ (id' = nextId /\ nextId' = nextId + 1)
    BY <1>15 DEF Arm
  <2>b. nextId \in Nat
    BY DEF Typed
  <2>1. id' \in Nat /\ nextId' \in Nat
    <3>1. CASE id' \in OwnIds
      BY <2>0, <2>a, <2>b, <3>1
    <3>2. CASE id' = nextId
      BY <2>a, <2>b, <3>2
    <3>3. QED BY <2>a, <3>1, <3>2
  <2>2. asked' \in Seq(Nat)
    BY <1>15, <2>1, Added DEF Arm, Typed
  <2>3. QED BY <1>15, <2>1, <2>2 DEF Arm, Typed, Alive
<1>6. CASE Send
  <2>1. link # 0 => Append(inbox[link], [op |-> op, id |-> id, call |-> Now]) \in Seq(Requests)
    <3>1. [op |-> op, id |-> id, call |-> Now] \in Requests
      BY <1>6 DEF Send, Typed, Requests, Now
    <3>2. QED BY <3>1 DEF Typed
  <2>2. QED BY <1>6, <2>1 DEF Send, Typed, Alive, Now
<1>7. CASE Receive
  <2>1. Head(outbox[link]) \in Replies \cup Events /\ Tail(outbox[link]) \in Seq(Replies \cup Events)
    BY <1>7, Taken DEF Receive, Typed
  <2>2. QED BY <1>7, <2>1 DEF Receive, Typed, Alive, Events, Replies
<1>8. ASSUME NEW s \in Sessions, Handle(s) PROVE Typed'
  <2> DEFINE r == Head(inbox[s])
  <2>1. r \in Requests /\ Tail(inbox[s]) \in Seq(Requests)
    BY <1>8, Taken DEF Handle, Typed
  <2>2. inbox' \in [Sessions -> Seq(Requests)]
    BY <1>8, <2>1 DEF Handle, Typed
  <2>3. [id |-> r.id, call |-> r.call] \in Replies \cup Events
    BY <2>1 DEF Requests, Replies
  <2>4. Append(outbox[s], [id |-> r.id, call |-> r.call]) \in Seq(Replies \cup Events)
    BY <2>3 DEF Typed
  <2>5. outbox' \in [Sessions -> Seq(Replies \cup Events)]
    BY <1>8, <2>4 DEF Handle, Typed
  <2>6. IsFiniteSet(entries') /\ entries' \subseteq AnyEntry /\ made' \in Nat
    <3>1. CASE UNCHANGED <<entries, made>>
      BY <3>1 DEF Typed
    <3>2. CASE made' = made + 1 /\ entries' = entries \cup {[n |-> made + 1, key |-> key[s], owner |-> s]}
      <4>1. [n |-> made + 1, key |-> key[s], owner |-> s] \in AnyEntry
        BY <1>8 DEF Handle, Typed, AnyEntry, Alive
      <4>2. IsFiniteSet(entries')
        BY <3>2, FS_AddElement DEF Typed
      <4>3. entries' \subseteq AnyEntry
        BY <3>2, <4>1 DEF Typed
      <4>4. QED BY <3>2, <4>2, <4>3 DEF Typed
    <3>3. CASE entries' = entries \ Dropped(key[s]) /\ UNCHANGED made
      BY <3>3, FS_Subset DEF Typed
    <3>4. QED BY <1>8, <3>1, <3>2, <3>3 DEF Handle
  <2>7. QED BY <1>8, <2>2, <2>5, <2>6 DEF Handle, Typed, Alive
<1>9. ASSUME NEW s \in Sessions, SessionEnds(s) PROVE Typed'
  BY <1>9, <1>0, FS_Subset DEF SessionEnds, Typed, Alive
<1>10. CASE SetValue \/ Check
  BY <1>10 DEF SetValue, Check, Typed, Alive
<1>14. CASE Push
  <2>1. [key |-> passed.key, value |-> value] \in Closures
    <3>1. passed \in AnyEntry
      BY <1>14 DEF Push, Typed
    <3>2. QED BY <3>1 DEF Typed, AnyEntry, Closures
  <2>2. QED BY <1>14, <2>1 DEF Push, Posted, Typed, Alive
<1>11. CASE Deliver
  <2>1. Head(posts) \in Closures /\ Tail(posts) \in Seq(Closures)
    BY <1>11, Taken DEF Deliver, Typed
  <2>2. [value |-> Head(posts).value] \in Replies \cup Events
    BY <2>1 DEF Events, Closures
  <2>3. \A s \in Sessions : Append(outbox[s], [value |-> Head(posts).value]) \in Seq(Replies \cup Events)
    BY <2>2 DEF Typed
  <2>4. outbox' \in [Sessions -> Seq(Replies \cup Events)]
    BY <1>11, <2>3 DEF Deliver, Typed
  <2>5. QED BY <1>11, <2>1, <2>4 DEF Deliver, Typed, Alive
<1>12. CASE UNCHANGED vars
  BY <1>12 DEF vars, Typed, Alive
<1>13. QED BY <1>1, <1>2, <1>3, <1>4, <1>5, <1>6, <1>7, <1>8, <1>9, <1>10, <1>11, <1>12, <1>14, <1>15 DEF Next

-----------------------------------------------------------------------------
(* The client's calls.                                                     *)

LEMMA AsksOnceKept == Typed /\ AsksOnce /\ [Next]_vars => AsksOnce'
<1> SUFFICES ASSUME Typed, AsksOnce, [Next]_vars PROVE AsksOnce'
  OBVIOUS
<1> USE DEF AsksOnce, Waiting, Now, clientVars, serverVars, setterVars, waitVars, callVars
<1>1. CASE Connect \/ LinkLost \/ Disconnect
  BY <1>1 DEF Connect, LinkLost, Disconnect, WakeWaiter
<1>2. CASE StartClient \/ StoreConnected \/ ResetWait
  BY <1>2 DEF StartClient, StoreConnected, ResetWait
<1>3. ASSUME NEW c \in Callers, NEW o \in Ops, Call(c, o) PROVE AsksOnce'
  BY <1>3, BinSessionAssumption DEF Call
<1>4. CASE Arm
  <2>0. OwnIds \subseteq Nat
    BY BinSessionAssumption, Zenon
  <2>a. id' \in OwnIds \/ id' = nextId
    BY <1>4 DEF Arm
  <2>b. nextId \in Nat
    BY DEF Typed
  <2>1. id' \in Nat
    <3>1. CASE id' \in OwnIds
      BY <2>0, <3>1
    <3>2. CASE id' = nextId
      BY <2>b, <3>2
    <3>3. QED BY <2>a, <3>1, <3>2
  <2>2. Append(asked, id') # <<>> /\ Append(asked, id')[Len(Append(asked, id'))] = id'
    <3>1. asked \in Seq(Nat)
      BY DEF Typed
    <3>2. \A n \in Nat : Append(asked, n) # <<>> /\ Append(asked, n)[Len(Append(asked, n))] = n
      BY <3>1
    <3>3. QED BY <2>1, <3>2
  <2>3. QED BY <1>4, <2>2 DEF Arm
<1>5. CASE Send \/ CallReturns
  BY <1>5 DEF Send, CallReturns
<1>6. CASE Receive
  BY <1>6 DEF Receive, IsAwaited
<1>7. ASSUME NEW s \in Sessions, Handle(s) \/ SessionEnds(s) PROVE AsksOnce'
  BY <1>7 DEF Handle, SessionEnds
<1>8. CASE SetValue \/ Check \/ Push \/ Deliver
  BY <1>8 DEF SetValue, Check, Push, Deliver
<1>9. CASE UNCHANGED vars
  BY <1>9 DEF vars
<1>10. QED BY <1>1, <1>2, <1>3, <1>4, <1>5, <1>6, <1>7, <1>8, <1>9 DEF Next

-----------------------------------------------------------------------------
(* Sessions and their keys.                                                *)

LEMMA OneOfAKeyKept == Typed /\ OneOfAKey /\ [Next]_vars => OneOfAKey'
<1> SUFFICES ASSUME Typed, OneOfAKey, [Next]_vars PROVE OneOfAKey'
  OBVIOUS
<1> USE DEF clientVars, serverVars, setterVars, waitVars, callVars
<1>1. CASE Connect \/ LinkLost
  <2>1. CloseLink /\ UNCHANGED <<key, inbox>>
    BY <1>1 DEF Connect, LinkLost
  <2>0. 0 \notin Sessions
    BY DEF Sessions
  <2>2. \A s \in Sessions :
          /\ state'[s] = state[s] \/ (state[s] = "open" /\ state'[s] = "closed")
          /\ outbox'[s] = outbox[s] \/ outbox'[s] = <<>>
    BY <2>0, <2>1 DEF CloseLink, Typed, OneOfAKey
  <2>3. ASSUME NEW s \in Sessions PROVE (Alive(s)' => Alive(s)) /\ (state'[s] = "new" => state[s] = "new")
    BY <2>2 DEF Alive
  <2>4. QED BY <2>1, <2>2, <2>3 DEF OneOfAKey, CloseLink
<1>2. CASE Disconnect \/ StoreConnected \/ ResetWait
  BY <1>2 DEF Disconnect, StoreConnected, ResetWait, OneOfAKey, Alive
<1>3. CASE StartClient
  <2>1. CASE UNCHANGED <<state, key, link>> /\ opc' = "idle"
    BY <1>3, <2>1 DEF StartClient, OneOfAKey, Alive
  <2>2. ASSUME NEW s \in Sessions, NEW k \in Keys, state[s] = "new", opc' = "store",
               \A r \in Sessions : key[r] = k => state[r] = "gone",
               state' = [state EXCEPT ![s] = "open"], key' = [key EXCEPT ![s] = k], link' = s
        PROVE  OneOfAKey'
    BY <1>3, <2>2 DEF StartClient, Typed, OneOfAKey, Alive
  <2>3. QED BY <1>3, <2>1, <2>2 DEF StartClient
<1>4. ASSUME NEW c \in Callers, NEW o \in Ops, Call(c, o) PROVE OneOfAKey'
  BY <1>4 DEF Call, OneOfAKey, Alive
<1>5. CASE Arm \/ CallReturns
  BY <1>5 DEF Arm, CallReturns, OneOfAKey, Alive
<1>6. CASE Send \/ Receive
  BY <1>6 DEF Send, Receive, Typed, OneOfAKey, Alive
<1>7. ASSUME NEW s \in Sessions, Handle(s) PROVE OneOfAKey'
  BY <1>7 DEF Handle, Typed, OneOfAKey, Alive
<1>8. ASSUME NEW s \in Sessions, SessionEnds(s) PROVE OneOfAKey'
  BY <1>8 DEF SessionEnds, Typed, OneOfAKey, Alive
<1>9. CASE SetValue \/ Check \/ Push
  BY <1>9 DEF SetValue, Check, Push, OneOfAKey, Alive
<1>10. CASE Deliver
  BY <1>10 DEF Deliver, Recipients, Typed, OneOfAKey, Alive
<1>11. CASE UNCHANGED vars
  BY <1>11 DEF vars, OneOfAKey, Alive
<1>12. QED BY <1>1, <1>2, <1>3, <1>4, <1>5, <1>6, <1>7, <1>8, <1>9, <1>10, <1>11 DEF Next

-----------------------------------------------------------------------------
(* The entries.                                                            *)

\* What unsubscribe and the end of a session take away is what they count.
LEMMA DroppedCounted ==
  ASSUME Typed, CountsAgree, NEW k
  PROVE  Uncount(Dropped(k)) = Cardinality(entries \ Dropped(k))
<1>1. Dropped(k) \subseteq entries
  BY DEF Dropped, Of
<1>2. Cardinality(entries \ Dropped(k)) = Cardinality(entries) - Cardinality(entries \cap Dropped(k))
  BY FS_Difference DEF Typed
<1>3. entries \cap Dropped(k) = Dropped(k)
  BY <1>1
<1>4. QED BY <1>2, <1>3 DEF CountsAgree, Uncount

LEMMA EntriesKept == Typed /\ Kept /\ [Next]_vars => Kept'
<1> SUFFICES ASSUME Typed, Kept, [Next]_vars PROVE Kept'
  OBVIOUS
<1> USE DEF clientVars, serverVars, setterVars, waitVars, callVars
<1>0. ASSUME UNCHANGED <<entries, made, count, key>>, \A s \in Sessions : Alive(s) => Alive(s)'
      PROVE  Kept'
  BY <1>0 DEF Kept, EntriesOwned, CountsAgree, Alive, Typed, AnyEntry
<1>1. CASE Connect \/ LinkLost
  BY <1>0, <1>1 DEF Connect, LinkLost, CloseLink, Alive, Typed
<1>2. CASE Disconnect \/ StoreConnected \/ ResetWait
  BY <1>0, <1>2 DEF Disconnect, StoreConnected, ResetWait, Alive
<1>3. CASE StartClient
  <2>1. \A e \in entries : key'[e.owner] = key[e.owner] /\ state'[e.owner] = state[e.owner]
    BY <1>3 DEF StartClient, Kept, EntriesOwned, Typed, AnyEntry
  <2>2. QED BY <1>3, <2>1 DEF StartClient, Kept, EntriesOwned, CountsAgree
<1>4. ASSUME NEW c \in Callers, NEW o \in Ops, Call(c, o) PROVE Kept'
  BY <1>0, <1>4 DEF Call, Alive
<1>5. CASE Arm \/ Send \/ CallReturns \/ Receive
  BY <1>0, <1>5 DEF Arm, Send, CallReturns, Receive, Alive
<1>6. ASSUME NEW s \in Sessions, Handle(s) PROVE Kept'
  <2>1. CASE UNCHANGED <<entries, made, count>>
    BY <1>0, <1>6, <2>1 DEF Handle, Alive
  <2>2. ASSUME made' = made + 1, count' = count + 1,
               entries' = entries \cup {[n |-> made + 1, key |-> key[s], owner |-> s]}
        PROVE  Kept'
    <3> DEFINE e == [n |-> made + 1, key |-> key[s], owner |-> s]
    <3>1. e \notin entries
      <4>1. e.n = made + 1 /\ made \in Nat
        BY DEF Typed
      <4>2. QED BY <4>1 DEF Kept
    <3>2. Cardinality(entries') = Cardinality(entries) + 1
      BY <2>2, <3>1, FS_AddElement DEF Typed
    <3>3. \A f \in entries' : f.n <= made'
      BY <2>2 DEF Typed, Kept, AnyEntry
    <3>4. EntriesOwned'
      BY <1>6, <2>2 DEF Handle, Kept, EntriesOwned
    <3>5. QED BY <2>2, <3>2, <3>3, <3>4 DEF Kept, CountsAgree
  <2>3. ASSUME made' = made, count' = Uncount(Dropped(key[s])), entries' = entries \ Dropped(key[s])
        PROVE  Kept'
    <3>1. EntriesOwned'
      BY <1>6, <2>3 DEF Handle, Kept, EntriesOwned
    <3>2. CountsAgree'
      BY <2>3, DroppedCounted DEF Kept, CountsAgree
    <3>3. QED BY <2>3, <3>1, <3>2 DEF Kept
  <2>4. QED BY <1>6, <2>1, <2>2, <2>3 DEF Handle
<1>7. ASSUME NEW s \in Sessions, SessionEnds(s) PROVE Kept'
  <2>1. EntriesOwned'
    BY <1>7 DEF SessionEnds, Kept, EntriesOwned, Dropped, Of, Typed, AnyEntry
  <2>2. CountsAgree'
    BY <1>7, DroppedCounted DEF SessionEnds, Kept, CountsAgree
  <2>3. QED BY <1>7, <2>1, <2>2 DEF SessionEnds, Kept
<1>8. CASE SetValue \/ Check \/ Push \/ Deliver
  BY <1>0, <1>8 DEF SetValue, Check, Push, Deliver, Alive
<1>9. CASE UNCHANGED vars
  BY <1>0, <1>9 DEF vars, Alive
<1>10. QED BY <1>1, <1>2, <1>3, <1>4, <1>5, <1>6, <1>7, <1>8, <1>9 DEF Next

-----------------------------------------------------------------------------
(* Requests and answers.                                                   *)

\* A frame is an answer or an event.
LEMMA AnswerOrEvent ==
  /\ \A f \in Replies : "id" \in DOMAIN f /\ "value" \notin DOMAIN f /\ f.id \in Nat /\ f.call \in Nat
  /\ \A f \in Events : "value" \in DOMAIN f /\ "id" \notin DOMAIN f /\ f.value \in Nat
BY DEF Replies, Events

\* Where nothing new is asked, whatever is under way was, or is the answer
\* to a request that was.
NothingAsked ==
  /\ asked' = asked /\ (cpc' = "armed" => cpc = "armed")
  /\ \A s \in Sessions : \A i \in DOMAIN inbox'[s] : \E j \in DOMAIN inbox[s] : inbox'[s][i] = inbox[s][j]
  /\ \A s \in Sessions : \A i \in DOMAIN outbox'[s] : "id" \in DOMAIN outbox'[s][i] =>
       \/ \E j \in DOMAIN outbox[s] : outbox'[s][i] = outbox[s][j]
       \/ \E j \in DOMAIN inbox[s] : outbox'[s][i].id = inbox[s][j].id /\ outbox'[s][i].call = inbox[s][j].call
  /\ response' # NULL =>
       \/ response' = response
       \/ \E s \in Sessions : \E j \in DOMAIN outbox[s] : "id" \in DOMAIN outbox[s][j] /\ response' = outbox[s][j]
\* The call in progress is as it was, or on a new connection.
SameCall ==
  cpc' = "wait" /\ link' # 0 =>
    \/ cpc = "wait" /\ link' = link /\ op' = op /\ inbox'[link] = inbox[link]
    \/ inbox'[link'] = <<>>

LEMMA NumbersHold == Numbered /\ NothingAsked /\ SameCall => Numbered'
<1> SUFFICES ASSUME Numbered, NothingAsked, SameCall PROVE Numbered'
  OBVIOUS
<1>1. AllKnown'
  <2>1. \A s \in Sessions : \A i \in DOMAIN inbox'[s] : Known(inbox[s][i])'
    BY DEF Numbered, AllKnown, NothingAsked, Known
  <2>2. \A s \in Sessions : \A i \in DOMAIN outbox'[s] : "id" \in DOMAIN outbox'[s][i] => Known(outbox[s][i])'
    BY DEF Numbered, AllKnown, NothingAsked, Known
  <2>3. response' # NULL => Known(response)'
    BY DEF Numbered, AllKnown, NothingAsked, Known
  <2>4. QED BY <2>1, <2>2, <2>3 DEF AllKnown
<1>2. cpc' = "armed" => Below(Now)'
  BY DEF Numbered, NothingAsked, Below, Now
<1>3. cpc' = "wait" /\ link' # 0 => LastAsked'
  BY DEF Numbered, NothingAsked, SameCall, LastAsked, Now
<1>4. QED BY <1>1, <1>2, <1>3 DEF Numbered

LEMMA NumberedKept == Typed /\ AsksOnce /\ OneOfAKey /\ Numbered /\ [Next]_vars => Numbered'
<1> SUFFICES ASSUME Typed, AsksOnce, OneOfAKey, Numbered, [Next]_vars PROVE Numbered'
  OBVIOUS
<1> USE NumbersHold DEF clientVars, serverVars, setterVars, waitVars, callVars
<1>e. DOMAIN <<>> = {} /\ 0 \notin Sessions
  BY DEF Sessions
<1>1. CASE Connect \/ LinkLost
  <2>1. CloseLink /\ UNCHANGED <<inbox, callVars, response>>
    BY <1>1 DEF Connect, LinkLost, WakeWaiter
  <2>2. \A s \in Sessions : outbox'[s] = outbox[s] \/ outbox'[s] = <<>>
    BY <2>1 DEF CloseLink, Typed
  <2>3. NothingAsked /\ SameCall
    BY <1>e, <2>1, <2>2 DEF CloseLink, NothingAsked, SameCall
  <2>4. QED BY <2>3
<1>2. CASE Disconnect \/ StoreConnected \/ ResetWait
  BY <1>2 DEF Disconnect, StoreConnected, ResetWait, WakeWaiter, NothingAsked, SameCall
<1>3. CASE StartClient
  <2>1. link' = link \/ inbox[link'] = <<>>
    BY <1>3 DEF StartClient, OneOfAKey
  <2>2. QED BY <1>3, <2>1 DEF StartClient, NothingAsked, SameCall
<1>4. ASSUME NEW c \in Callers, NEW o \in Ops, Call(c, o) PROVE Numbered'
  BY <1>4 DEF Call, NothingAsked, SameCall
<1>5. CASE Arm
  <2>0. asked \in Seq(Nat) /\ Now \in Nat
    BY DEF Typed, Now
  <2>a. OwnIds \subseteq Nat
    BY BinSessionAssumption, Zenon
  <2>b. id' \in OwnIds \/ id' = nextId
    BY <1>5 DEF Arm
  <2>d. nextId \in Nat
    BY DEF Typed
  <2>c. id' \in Nat
    BY <2>a, <2>b, <2>d
  <2>1. /\ asked' = Append(asked, id') /\ id' \in Nat /\ response' = NULL
        /\ UNCHANGED <<inbox, outbox>> /\ cpc' = "armed"
    BY <1>5, <2>c DEF Arm
  <2>2. Now' = Now + 1 /\ DOMAIN asked = 1 .. Now /\ \A n \in DOMAIN asked : n \in DOMAIN asked' /\ asked'[n] = asked[n]
    BY <2>0, <2>1 DEF Now
  <2>3. \A q : Known(q) => Known(q)' /\ q.call < Now'
    BY <2>0, <2>2 DEF Known
  <2>4. AllKnown'
    BY <2>1, <2>3 DEF Numbered, AllKnown, Known
  <2>5. Below(Now)'
    BY <2>1, <2>3 DEF Numbered, AllKnown, Below
  <2>6. QED BY <2>1, <2>4, <2>5 DEF Numbered
<1>6. CASE CallReturns
  BY <1>6 DEF CallReturns, NothingAsked, SameCall
<1>7. CASE Send
  <2>1. UNCHANGED <<asked, response, op, link, outbox>> /\ cpc = "armed" /\ cpc' = "wait" /\ Now' = Now
    BY <1>7 DEF Send, Now
  <2>2. asked \in Seq(Nat) /\ asked # <<>> /\ asked[Now] = id /\ id \in Nat
    BY <2>1 DEF AsksOnce, Waiting, Typed
  <2>0. Now \in Nat /\ Now \in DOMAIN asked
    BY <2>2 DEF Now
  <2>3. CASE link = 0
    BY <1>7, <2>1, <2>3 DEF Send, Numbered, AllKnown, Known
  <2>4. CASE link # 0
    <3> DEFINE r == [op |-> op, id |-> id, call |-> Now]
    <3>1. link \in Sessions /\ inbox[link] \in Seq(Requests) /\ r \in Requests
      BY <2>0, <2>1, <2>2, <2>4 DEF Typed, Requests
    <3>2. \A s \in Sessions : inbox'[s] = IF s = link THEN Append(inbox[link], r) ELSE inbox[s]
      BY <1>7, <2>4, <3>1 DEF Send, Typed, Now
    <3>3. /\ Len(inbox'[link]) = Len(inbox[link]) + 1 /\ Len(inbox[link]) \in Nat
          /\ \A i \in DOMAIN inbox'[link] :
               \/ i = Len(inbox[link]) + 1 /\ inbox'[link][i] = r
               \/ i \in DOMAIN inbox[link] /\ inbox'[link][i] = inbox[link][i]
      <4>1. inbox'[link] = Append(inbox[link], r)
        BY <3>1, <3>2
      <4>2. /\ Len(Append(inbox[link], r)) = Len(inbox[link]) + 1 /\ Len(inbox[link]) \in Nat
            /\ \A i \in DOMAIN Append(inbox[link], r) :
                 \/ i = Len(inbox[link]) + 1 /\ Append(inbox[link], r)[i] = r
                 \/ i \in DOMAIN inbox[link] /\ Append(inbox[link], r)[i] = inbox[link][i]
        <5> HIDE DEF r
        <5>1. QED BY <3>1, Added
      <4> HIDE DEF r
      <4>3. QED BY <4>1, <4>2
    <3>4. r.id = id /\ r.call = Now /\ r.op = op
      OBVIOUS
    <3>5. \A i \in DOMAIN inbox[link] : inbox[link][i].call < Now /\ inbox[link][i].call \in Nat
      <4>1. \A i \in DOMAIN inbox[link] : inbox[link][i] \in Requests
        BY <3>1
      <4>2. QED BY <2>1, <3>1, <4>1 DEF Numbered, Below, Requests
    <3> HIDE DEF r
    <3>9. ASSUME NEW i \in DOMAIN inbox[link] PROVE inbox[link][i].call # Now
      <4> DEFINE n == inbox[link][i].call
      <4>1. n < Now /\ n \in Nat
        BY <3>5
      <4> HIDE DEF n
      <4>2. n # Now
        BY <2>0, <4>1
      <4>3. QED BY <4>2 DEF n
    <3>6. LastAsked'
      BY <2>1, <3>3, <3>4, <3>9 DEF LastAsked
    <3>7. AllKnown'
      <4>1. r.call \in DOMAIN asked /\ asked[r.call] = r.id
        BY <2>0, <2>2, <3>4
      <4>2. ASSUME NEW s \in Sessions, NEW i \in DOMAIN inbox'[s] PROVE Known(inbox[s][i])'
        <5>1. \/ inbox'[s][i] = r
              \/ i \in DOMAIN inbox[s] /\ inbox'[s][i] = inbox[s][i]
          BY <3>2, <3>3
        <5>2. CASE inbox'[s][i] = r
          BY <2>1, <4>1, <5>2 DEF Known
        <5>3. CASE i \in DOMAIN inbox[s] /\ inbox'[s][i] = inbox[s][i]
          BY <2>1, <5>3 DEF Numbered, AllKnown, Known
        <5>4. QED BY <5>1, <5>2, <5>3
      <4>3. QED BY <2>1, <4>2 DEF Numbered, AllKnown, Known
    <3>8. QED BY <2>1, <3>6, <3>7 DEF Numbered
  <2>5. QED BY <2>3, <2>4
<1>8. CASE Receive
  <2>1. link \in Sessions /\ outbox[link] # <<>> /\ outbox[link] \in Seq(Replies \cup Events)
    BY <1>8 DEF Receive, Typed
  <2>2. \A i \in DOMAIN Tail(outbox[link]) : i + 1 \in DOMAIN outbox[link] /\ Tail(outbox[link])[i] = outbox[link][i + 1]
    BY <2>1, Taken
  <2>3. /\ UNCHANGED <<asked, cpc, op, link, inbox>>
        /\ \A s \in Sessions : outbox'[s] = IF s = link THEN Tail(outbox[link]) ELSE outbox[s]
    BY <1>8, <2>1 DEF Receive, Typed
  <2>4. response' = response \/ ("id" \in DOMAIN outbox[link][1] /\ response' = outbox[link][1] /\ 1 \in DOMAIN outbox[link])
    BY <1>8, <2>1, Taken DEF Receive
  <2>5. \A s \in Sessions : \A i \in DOMAIN outbox'[s] : \E j \in DOMAIN outbox[s] : outbox'[s][i] = outbox[s][j]
    BY <2>2, <2>3
  <2>6. response' # NULL =>
          \/ response' = response
          \/ \E s \in Sessions : \E j \in DOMAIN outbox[s] : "id" \in DOMAIN outbox[s][j] /\ response' = outbox[s][j]
    BY <2>1, <2>4
  <2>7. QED BY <2>3, <2>5, <2>6 DEF NothingAsked, SameCall
<1>9. ASSUME NEW s \in Sessions, Handle(s) PROVE Numbered'
  <2> DEFINE r == Head(inbox[s])
  <2>1. inbox[s] # <<>> /\ inbox[s] \in Seq(Requests) /\ outbox[s] \in Seq(Replies \cup Events)
    BY <1>9 DEF Handle, Typed
  <2>2. /\ r \in Requests /\ 1 \in DOMAIN inbox[s] /\ r = inbox[s][1]
        /\ Len(Tail(inbox[s])) = Len(inbox[s]) - 1 /\ Len(inbox[s]) \in Nat
        /\ \A i \in DOMAIN Tail(inbox[s]) :
             i \in Nat /\ i + 1 \in DOMAIN inbox[s] /\ Tail(inbox[s])[i] = inbox[s][i + 1]
    BY <2>1, Taken
  <2>3. [id |-> r.id, call |-> r.call] \in Replies
    BY <2>2 DEF Requests, Replies
  <2>4. \A i \in DOMAIN Append(outbox[s], [id |-> r.id, call |-> r.call]) :
          \/ Append(outbox[s], [id |-> r.id, call |-> r.call])[i] = [id |-> r.id, call |-> r.call]
          \/ i \in DOMAIN outbox[s] /\ Append(outbox[s], [id |-> r.id, call |-> r.call])[i] = outbox[s][i]
    BY <2>1, <2>3, Added
  <2>5. /\ UNCHANGED <<asked, response, cpc, op, link>>
        /\ \A t \in Sessions : inbox'[t] = IF t = s THEN Tail(inbox[s]) ELSE inbox[t]
        /\ \A t \in Sessions : outbox'[t] = outbox[t] \/ (t = s /\ outbox'[t] = Append(outbox[s], [id |-> r.id, call |-> r.call]))
    <3>1. UNCHANGED clientVars
      BY <1>9 DEF Handle
    <3>2. inbox' = [inbox EXCEPT ![s] = Tail(@)]
      BY <1>9 DEF Handle
    <3>3. outbox' = outbox \/ outbox' = [outbox EXCEPT ![s] = Append(@, [id |-> r.id, call |-> r.call])]
      BY <1>9 DEF Handle
    <3>4. \A t \in Sessions : inbox'[t] = IF t = s THEN Tail(inbox[s]) ELSE inbox[t]
      BY <3>2 DEF Typed
    <3>5. \A t \in Sessions : outbox'[t] = outbox[t] \/ (t = s /\ outbox'[t] = Append(outbox[s], [id |-> r.id, call |-> r.call]))
      BY <3>3 DEF Typed
    <3>6. QED BY <3>1, <3>4, <3>5
  <2>6. \A i \in DOMAIN outbox'[s] :
          \/ \E j \in DOMAIN outbox[s] : outbox'[s][i] = outbox[s][j]
          \/ \E j \in DOMAIN inbox[s] : outbox'[s][i].id = inbox[s][j].id /\ outbox'[s][i].call = inbox[s][j].call
    <3> SUFFICES ASSUME NEW i \in DOMAIN outbox'[s], outbox'[s] # outbox[s]
                 PROVE  \/ \E j \in DOMAIN outbox[s] : outbox'[s][i] = outbox[s][j]
                        \/ \E j \in DOMAIN inbox[s] : outbox'[s][i].id = inbox[s][j].id /\ outbox'[s][i].call = inbox[s][j].call
      OBVIOUS
    <3> DEFINE f == [id |-> r.id, call |-> r.call]
    <3>1. f.id = inbox[s][1].id /\ f.call = inbox[s][1].call
      BY <2>2
    <3> HIDE DEF f
    <3>2. outbox'[s] = Append(outbox[s], f)
      BY <2>5 DEF f
    <3>3. outbox'[s][i] = f \/ (i \in DOMAIN outbox[s] /\ outbox'[s][i] = outbox[s][i])
      BY <2>4, <3>2 DEF f
    <3>4. QED BY <2>2, <3>1, <3>3
  <2>7. NothingAsked
    <3>1. \A t \in Sessions : \A i \in DOMAIN inbox'[t] : \E j \in DOMAIN inbox[t] : inbox'[t][i] = inbox[t][j]
      BY <2>2, <2>5
    <3>2. ASSUME NEW t \in Sessions, NEW i \in DOMAIN outbox'[t]
          PROVE  \/ \E j \in DOMAIN outbox[t] : outbox'[t][i] = outbox[t][j]
                 \/ \E j \in DOMAIN inbox[t] : outbox'[t][i].id = inbox[t][j].id /\ outbox'[t][i].call = inbox[t][j].call
      <4>1. CASE t = s
        BY <2>6, <4>1
      <4>2. CASE t # s
        BY <2>5, <4>2
      <4>3. QED BY <4>1, <4>2
    <3>3. QED BY <2>5, <3>1, <3>2 DEF NothingAsked
  <2>8. cpc = "wait" /\ link # 0 => LastAsked'
    <3> SUFFICES ASSUME cpc = "wait", link # 0 PROVE LastAsked'
      OBVIOUS
    <3>1. CASE s = link
      <4>1. \A i \in DOMAIN inbox[s] : inbox[s][i].call = Now => i = Len(inbox[s]) /\ inbox[s][i].op = op
        BY <3>1 DEF Numbered, LastAsked
      <4>2. ASSUME NEW i \in DOMAIN Tail(inbox[s]), Tail(inbox[s])[i].call = Now
            PROVE  i = Len(Tail(inbox[s])) /\ Tail(inbox[s])[i].op = op
        BY <2>2, <4>1, <4>2
      <4>3. QED BY <2>5, <3>1, <4>2 DEF LastAsked, Now
    <3>2. CASE s # link
      BY <2>5, <3>2 DEF Numbered, LastAsked, Typed, Now
    <3>3. QED BY <3>1, <3>2
  <2>9. AllKnown' /\ (cpc' = "armed" => Below(Now)')
    <3>1. \A t \in Sessions : \A i \in DOMAIN inbox'[t] : Known(inbox[t][i])'
      BY <2>7 DEF NothingAsked, Numbered, AllKnown, Known
    <3>2. \A t \in Sessions : \A i \in DOMAIN outbox'[t] : "id" \in DOMAIN outbox'[t][i] => Known(outbox[t][i])'
      BY <2>7 DEF NothingAsked, Numbered, AllKnown, Known
    <3>3. cpc' = "armed" => Below(Now)'
      BY <2>7 DEF NothingAsked, Numbered, Below, Now
    <3>4. QED BY <2>5, <3>1, <3>2, <3>3 DEF Numbered, AllKnown, Known
  <2>10. QED BY <2>5, <2>8, <2>9 DEF Numbered
<1>10. ASSUME NEW s \in Sessions, SessionEnds(s) PROVE Numbered'
  <2>1. /\ UNCHANGED <<asked, response, cpc, op, link, outbox>>
        /\ \A t \in Sessions : inbox'[t] = IF t = s THEN <<>> ELSE inbox[t]
    BY <1>10 DEF SessionEnds, Typed
  <2>2. s # link
    BY <1>10, <1>e DEF SessionEnds, OneOfAKey
  <2>3. link # 0 => link \in Sessions
    BY DEF Typed
  <2>4. QED BY <1>e, <2>1, <2>2, <2>3 DEF NothingAsked, SameCall
<1>11. CASE SetValue \/ Check \/ Push
  BY <1>11 DEF SetValue, Check, Push, NothingAsked, SameCall
<1>12. CASE Deliver
  <2> DEFINE f == [value |-> Head(posts).value]
  <2>1. Head(posts).value \in Nat
    <3>1. Head(posts) \in Closures
      BY <1>12, Taken DEF Deliver, Typed
    <3>2. QED BY <3>1 DEF Closures
  <2>2. f \in Events
    BY <2>1 DEF Events
  <2>3. \A s \in Sessions : \A i \in DOMAIN Append(outbox[s], f) :
          \/ Append(outbox[s], f)[i] = f
          \/ i \in DOMAIN outbox[s] /\ Append(outbox[s], f)[i] = outbox[s][i]
    BY <2>2, Added DEF Typed
  <2>4. /\ UNCHANGED <<asked, response, cpc, op, link, inbox>>
        /\ \A s \in Sessions : outbox'[s] = outbox[s] \/ outbox'[s] = Append(outbox[s], f)
    BY <1>12 DEF Deliver
  <2>5. "id" \notin DOMAIN f
    BY <2>2, AnswerOrEvent
  <2> HIDE DEF f
  <2>6. \A s \in Sessions : \A i \in DOMAIN outbox'[s] : "id" \in DOMAIN outbox'[s][i] =>
          i \in DOMAIN outbox[s] /\ outbox'[s][i] = outbox[s][i]
    BY <2>3, <2>4, <2>5
  <2>7. QED BY <2>4, <2>6 DEF NothingAsked, SameCall
<1>13. CASE UNCHANGED vars
  BY <1>13 DEF vars, NothingAsked, SameCall
<1>14. QED BY <1>1, <1>2, <1>3, <1>4, <1>5, <1>6, <1>7, <1>8, <1>9, <1>10, <1>11, <1>12, <1>13 DEF Next

-----------------------------------------------------------------------------
(* Whoever believes to be subscribed is.                                   *)

\* The entries of the client's session outlive what others do.
LEMMA ServedStays ==
  ASSUME Typed, OneOfAKey, Kept, Served, link # 0, NEW s \in Sessions, s # link, Alive(s), link' = link,
         entries \ Dropped(key[s]) \subseteq entries'
  PROVE  Served'
<1>1. link \in Sessions /\ Alive(link)
  BY DEF Typed, OneOfAKey, Alive
<1>2. PICK e \in entries : e.owner = link
  BY DEF Served
<1>3. e.key = key[link]
  BY <1>2 DEF Kept, EntriesOwned
<1>4. key[link] # key[s]
  BY <1>1 DEF OneOfAKey
<1>5. e \in entries'
  BY <1>2, <1>3, <1>4 DEF Dropped, Of
<1>6. QED BY <1>2, <1>5 DEF Served

LEMMA BackedKept == Typed /\ AsksOnce /\ OneOfAKey /\ Kept /\ Numbered /\ Backed /\ [Next]_vars => Backed'
<1> SUFFICES ASSUME Typed, AsksOnce, OneOfAKey, Kept, Numbered, Backed, [Next]_vars PROVE Backed'
  OBVIOUS
<1> USE DEF clientVars, serverVars, setterVars, waitVars, callVars
<1>e. DOMAIN <<>> = {} /\ 0 \notin Sessions
  BY DEF Sessions
\* Where the client's connection and its entries are as they were.
<1>0. ASSUME UNCHANGED <<link, inbox, outbox, entries>>, owed' # NULL => owed # NULL,
             cpc' = "wait" => cpc = "wait" /\ asked' = asked /\ op' = op
      PROVE  Backed'
  BY <1>0 DEF Backed, Answered, Promised, Served, Now
<1>1. CASE Connect \/ LinkLost
  BY <1>1 DEF Connect, LinkLost, CloseLink, Backed
<1>2. CASE Disconnect \/ StoreConnected \/ ResetWait
  BY <1>0, <1>2 DEF Disconnect, StoreConnected, ResetWait, WakeWaiter
<1>3. CASE StartClient
  <2>1. CASE link' = link
    BY <1>0, <1>3, <2>1 DEF StartClient
  <2>2. CASE link' # link
    <3>1. outbox[link'] = <<>> /\ UNCHANGED <<outbox, inbox, cpc, op, asked, owed>>
      BY <1>3, <2>2 DEF StartClient, OneOfAKey
    <3>2. owed = NULL
      BY <1>3 DEF StartClient, OneOfAKey, Backed, Promised
    <3>3. QED BY <1>e, <3>1, <3>2 DEF Backed, Answered
  <2>3. QED BY <2>1, <2>2
<1>4. ASSUME NEW c \in Callers, NEW o \in Ops, Call(c, o) PROVE Backed'
  BY <1>0, <1>4 DEF Call
<1>5. CASE Arm \/ CallReturns
  BY <1>0, <1>5 DEF Arm, CallReturns
<1>6. CASE Send
  <2>1. UNCHANGED <<op, link, outbox, entries>> /\ cpc = "armed" /\ Now' = Now
    BY <1>6 DEF Send, Now
  <2>2. Now \in Nat /\ id \in Nat
    BY <2>1 DEF Typed, Now
  <2>3. CASE link = 0
    BY <1>6, <2>1, <2>3 DEF Send, Backed, Promised
  <2>4. CASE link # 0
    <3>1. link \in Sessions
      BY <2>4 DEF Typed
    <3>2. ASSUME NEW i \in DOMAIN outbox[link], "id" \in DOMAIN outbox[link][i] PROVE outbox[link][i].call # Now
      <4>1. outbox[link][i].call < Now
        BY <2>1, <3>1, <3>2 DEF Numbered, Below
      <4>2. outbox[link][i] \in Replies \cup Events
        BY <3>1 DEF Typed
      <4>3. outbox[link][i].call \in Nat
        BY <3>2, <4>2, AnswerOrEvent
      <4> DEFINE n == outbox[link][i].call
      <4> HIDE DEF n
      <4>4. n < Now /\ n \in Nat => n # Now
        BY <2>2
      <4>5. QED BY <4>1, <4>3, <4>4 DEF n
    <3>3. Answered'
      BY <2>1, <3>2 DEF Answered
    <3>4. owed' # NULL => Promised'
      <4> SUFFICES ASSUME owed' # NULL PROVE Promised'
        OBVIOUS
      <4>1. owed # NULL /\ op # "unsubscribe"
        BY <1>6 DEF Send
      <4>2. Promised
        BY <4>1 DEF Backed
      <4> DEFINE r == [op |-> op, id |-> id, call |-> Now]
      <4>3. r \in Requests /\ r.op = op
        BY <2>1, <2>2 DEF Typed, Requests
      <4>4. inbox'[link] = Append(inbox[link], r) /\ inbox[link] \in Seq(Requests)
        BY <1>6, <2>4, <3>1 DEF Send, Typed, Now
      <4> HIDE DEF r
      <4>5. \A i \in DOMAIN Append(inbox[link], r) :
              \/ Append(inbox[link], r)[i] = r
              \/ i \in DOMAIN inbox[link] /\ Append(inbox[link], r)[i] = inbox[link][i]
        BY <4>3, <4>4, Added
      <4>6. \A i \in DOMAIN inbox'[link] : inbox'[link][i].op # "unsubscribe"
        BY <4>1, <4>2, <4>3, <4>4, <4>5 DEF Promised
      <4>7. QED BY <2>1, <4>2, <4>6 DEF Promised, Served
    <3>5. QED BY <3>3, <3>4 DEF Backed
  <2>5. QED BY <2>3, <2>4
<1>7. CASE Receive
  <2> DEFINE f == Head(outbox[link])
  <2>1. link # 0 /\ link \in Sessions /\ outbox[link] # <<>> /\ outbox[link] \in Seq(Replies \cup Events)
    BY <1>7 DEF Receive, Typed
  <2>2. /\ f = outbox[link][1] /\ 1 \in DOMAIN outbox[link]
        /\ \A i \in DOMAIN Tail(outbox[link]) :
             i + 1 \in DOMAIN outbox[link] /\ Tail(outbox[link])[i] = outbox[link][i + 1]
    BY <2>1, Taken
  <2>3. UNCHANGED <<cpc, op, link, inbox, entries>> /\ Now' = Now /\ outbox'[link] = Tail(outbox[link])
    BY <1>7, <2>1 DEF Receive, Typed, Now
  <2>4. cpc = "wait" => Answered'
    BY <2>1, <2>2, <2>3 DEF Backed, Answered, Served
  <2>5. CASE owed' = owed
    BY <2>3, <2>4, <2>5 DEF Backed, Promised, Served
  <2>6. CASE owed' # owed
    <3>1. "id" \in DOMAIN f /\ f.call = Now /\ waitActive /\ op = "subscribe"
      BY <1>7, <2>6 DEF Receive, IsAwaited, Now
    <3>2. cpc = "wait"
      <4>1. cpc = "armed" => f.call < Now /\ Now \in Nat
        BY <2>1, <2>2, <3>1 DEF Numbered, Below, Typed, Now
      <4>2. Now \in Nat => ~ (Now < Now)
        OBVIOUS
      <4>3. QED BY <3>1, <4>1, <4>2 DEF AsksOnce, Waiting
    <3>3. inbox[link] = <<>> /\ Served
      BY <2>1, <2>2, <3>1, <3>2 DEF Backed, Answered
    <3>4. Promised'
      BY <1>e, <2>1, <2>3, <3>3 DEF Promised, Served
    <3>5. QED BY <2>4, <2>3, <3>4 DEF Backed
  <2>7. QED BY <2>5, <2>6
<1>8. ASSUME NEW s \in Sessions, Handle(s) PROVE Backed'
  <2> DEFINE r == Head(inbox[s])
  <2>0. inbox[s] # <<>> /\ inbox[s] \in Seq(Requests) /\ outbox[s] \in Seq(Replies \cup Events) /\ Alive(s)
    BY <1>8 DEF Handle, Typed, Alive
  <2>1. UNCHANGED <<cpc, op, link, owed>> /\ Now' = Now
    BY <1>8 DEF Handle, Now
  <2>2. r.op # "unsubscribe" => entries \subseteq entries'
    BY <1>8 DEF Handle
  <2>3. entries \ Dropped(key[s]) \subseteq entries'
    BY <1>8 DEF Handle
  <2>4. CASE link = 0
    BY <2>1, <2>4 DEF Backed, Promised
  <2>5. CASE link # 0 /\ s # link
    <3>1. Served => Served'
      BY <2>0, <2>1, <2>3, <2>5, ServedStays
    <3>2. inbox'[link] = inbox[link] /\ outbox'[link] = outbox[link]
      BY <1>8, <2>5 DEF Handle, Typed
    <3>3. QED BY <2>1, <2>5, <3>1, <3>2 DEF Backed, Answered, Promised
  <2>6. CASE link # 0 /\ s = link
    <3>1. /\ r \in Requests /\ 1 \in DOMAIN inbox[s] /\ r = inbox[s][1]
          /\ Len(Tail(inbox[s])) = Len(inbox[s]) - 1 /\ Len(inbox[s]) \in Nat
          /\ \A i \in DOMAIN Tail(inbox[s]) :
               i \in Nat /\ i + 1 \in DOMAIN inbox[s] /\ Tail(inbox[s])[i] = inbox[s][i + 1]
      BY <2>0, Taken
    <3>2. inbox'[s] = Tail(inbox[s]) /\ outbox'[s] = Append(outbox[s], [id |-> r.id, call |-> r.call])
      BY <1>8, <2>6 DEF Handle, OneOfAKey, Typed
    <3>3. [id |-> r.id, call |-> r.call] \in Replies
      BY <3>1 DEF Requests, Replies
    <3>4. \A i \in DOMAIN Append(outbox[s], [id |-> r.id, call |-> r.call]) :
            \/ Append(outbox[s], [id |-> r.id, call |-> r.call])[i] = [id |-> r.id, call |-> r.call]
            \/ i \in DOMAIN outbox[s] /\ Append(outbox[s], [id |-> r.id, call |-> r.call])[i] = outbox[s][i]
      BY <2>0, <3>3, Added
    <3>5. ASSUME cpc = "wait", r.call = Now
          PROVE  Tail(inbox[s]) = <<>> /\ (op = "subscribe" => Served')
      <4>1. 1 = Len(inbox[s]) /\ r.op = op
        BY <2>6, <3>1, <3>5 DEF Numbered, LastAsked
      <4>2. Tail(inbox[s]) = <<>>
        <5>1. Len(Tail(inbox[s])) = 0 /\ Tail(inbox[s]) \in Seq(Requests)
          BY <2>0, <3>1, <4>1, Taken
        <5>2. QED BY <5>1, EmptySeq
      <4>3. op = "subscribe" => [n |-> made + 1, key |-> key[s], owner |-> s] \in entries'
        BY <1>8, <4>1 DEF Handle
      <4>4. QED BY <2>1, <2>6, <4>2, <4>3 DEF Served
    <3>6. cpc = "wait" => Answered'
      <4> SUFFICES ASSUME cpc = "wait", NEW i \in DOMAIN outbox'[s],
                          "id" \in DOMAIN outbox'[s][i], outbox'[s][i].call = Now
                   PROVE  inbox'[s] = <<>> /\ (op = "subscribe" => Served')
        BY <2>1, <2>6 DEF Answered
      <4>1. CASE outbox'[s][i] = [id |-> r.id, call |-> r.call]
        BY <3>2, <3>5, <4>1
      <4>2. CASE i \in DOMAIN outbox[s] /\ outbox'[s][i] = outbox[s][i]
        BY <2>0, <2>6, <4>2 DEF Backed, Answered
      <4>3. QED BY <3>2, <3>4, <4>1, <4>2
    <3>7. owed # NULL => Promised'
      <4> SUFFICES ASSUME owed # NULL PROVE Promised'
        OBVIOUS
      <4>1. Promised
        BY DEF Backed
      <4>2. r.op # "unsubscribe"
        BY <2>6, <3>1, <4>1 DEF Promised
      <4>3. Served'
        BY <2>1, <2>2, <4>1, <4>2 DEF Promised, Served
      <4>4. \A i \in DOMAIN inbox'[link] : inbox'[link][i].op # "unsubscribe"
        BY <2>6, <3>1, <3>2, <4>1 DEF Promised
      <4>5. QED BY <2>1, <4>1, <4>3, <4>4 DEF Promised
    <3>8. QED BY <2>1, <3>6, <3>7 DEF Backed
  <2>7. QED BY <2>4, <2>5, <2>6
<1>9. ASSUME NEW s \in Sessions, SessionEnds(s) PROVE Backed'
  <2>1. UNCHANGED <<cpc, op, link, owed, outbox>> /\ Now' = Now /\ entries' = entries \ Dropped(key[s]) /\ Alive(s)
    BY <1>9 DEF SessionEnds, Alive, Now
  <2>2. s # link
    BY <1>9, <1>e DEF SessionEnds, OneOfAKey
  <2>3. link # 0 => inbox'[link] = inbox[link]
    BY <1>9, <2>2 DEF SessionEnds, Typed
  <2>4. link # 0 /\ Served => Served'
    BY <2>1, <2>2, ServedStays
  <2>5. QED BY <2>1, <2>3, <2>4 DEF Backed, Answered, Promised
<1>10. CASE SetValue \/ Check \/ Push
  BY <1>0, <1>10 DEF SetValue, Check, Push
<1>11. CASE Deliver
  <2> DEFINE f == [value |-> Head(posts).value]
  <2>1. Head(posts).value \in Nat
    <3>1. Head(posts) \in Closures
      BY <1>11, Taken DEF Deliver, Typed
    <3>2. QED BY <3>1 DEF Closures
  <2>2. f \in Events
    BY <2>1 DEF Events
  <2>3. \A s \in Sessions : \A i \in DOMAIN Append(outbox[s], f) :
          \/ Append(outbox[s], f)[i] = f
          \/ i \in DOMAIN outbox[s] /\ Append(outbox[s], f)[i] = outbox[s][i]
    BY <2>2, Added DEF Typed
  <2>4. /\ UNCHANGED <<owed, cpc, op, link, inbox, entries>> /\ Now' = Now
        /\ \A s \in Sessions : outbox'[s] = outbox[s] \/ outbox'[s] = Append(outbox[s], f)
    BY <1>11 DEF Deliver, Now
  <2>5. "id" \notin DOMAIN f
    BY <2>2, AnswerOrEvent
  <2> HIDE DEF f
  <2>6. \A s \in Sessions : \A i \in DOMAIN outbox'[s] : "id" \in DOMAIN outbox'[s][i] =>
          i \in DOMAIN outbox[s] /\ outbox'[s][i] = outbox[s][i]
    BY <2>3, <2>4, <2>5
  <2>7. link # 0 => link \in Sessions
    BY DEF Typed
  <2>8. QED BY <2>4, <2>6, <2>7 DEF Backed, Answered, Promised, Served
<1>12. CASE UNCHANGED vars
  BY <1>0, <1>12 DEF vars
<1>13. QED BY <1>1, <1>2, <1>3, <1>4, <1>5, <1>6, <1>7, <1>8, <1>9, <1>10, <1>11, <1>12 DEF Next

-----------------------------------------------------------------------------
(* Events and their order.                                                 *)

LEMMA AgeingKept == Typed /\ OneOfAKey /\ Ageing /\ [Next]_vars => Ageing'
<1> SUFFICES ASSUME Typed, OneOfAKey, Ageing, [Next]_vars PROVE Ageing'
  OBVIOUS
<1> USE DEF clientVars, serverVars, setterVars, waitVars, callVars
<1>e. DOMAIN <<>> = {}
  OBVIOUS
<1>v. ASSUME NEW s \in Sessions, NEW i \in DOMAIN outbox[s], "value" \in DOMAIN outbox[s][i]
      PROVE  outbox[s][i].value \in Nat
  <2>1. \A k \in DOMAIN outbox[s] : outbox[s][k] \in Replies \cup Events
    <3>1. outbox[s] \in Seq(Replies \cup Events)
      BY DEF Typed
    <3>2. QED BY <3>1
  <2>2. QED BY <1>v, <2>1, AnswerOrEvent
<1>p. \A i \in DOMAIN posts : posts[i].value \in Nat
  <2>1. posts \in Seq(Closures)
    BY DEF Typed
  <2>2. \A i \in DOMAIN posts : posts[i] \in Closures
    BY <2>1
  <2>3. QED BY <2>2 DEF Closures
<1>h. heard \in Nat /\ value \in Nat
  BY DEF Typed
\* Where events are lost, at most.
<1>0. ASSUME UNCHANGED <<value, posts>>, heard' = heard \/ heard' = 0,
             \A s \in Sessions : outbox'[s] = outbox[s] \/ outbox'[s] = <<>>,
             \A s \in Sessions : link' # link /\ link' = s => outbox'[s] = <<>>
      PROVE  Ageing'
  <2>1. Posting' /\ Hearing'
    BY <1>0, <1>p, <1>h DEF Ageing, Posting, Hearing
  <2>2. Sending'
    <3> SUFFICES ASSUME NEW s \in Sessions, NEW k \in DOMAIN outbox'[s], "value" \in DOMAIN outbox'[s][k]
                 PROVE  outbox'[s][k].value <= value /\ \A i \in DOMAIN posts : outbox'[s][k].value <= posts[i].value
      BY <1>0 DEF Sending
    <3>1. outbox'[s] = outbox[s]
      BY <1>0, <1>e
    <3>2. QED BY <3>1 DEF Ageing, Sending
  <2>3. EventsInOrder'
    <3> SUFFICES ASSUME NEW s \in Sessions, NEW i \in DOMAIN outbox'[s], "value" \in DOMAIN outbox'[s][i]
                 PROVE  /\ s = link' => heard' <= outbox'[s][i].value
                        /\ \A j \in 1 .. i - 1 :
                             "value" \in DOMAIN outbox'[s][j] => outbox'[s][j].value <= outbox'[s][i].value
      BY DEF EventsInOrder
    <3>1. outbox'[s] = outbox[s] /\ (s = link' => link' = link)
      BY <1>0, <1>e
    <3>2. outbox[s][i].value \in Nat /\ 0 <= outbox[s][i].value
      BY <1>v, <3>1
    <3>3. QED BY <1>0, <3>1, <3>2 DEF Ageing, EventsInOrder
  <2>4. QED BY <2>1, <2>2, <2>3 DEF Ageing
<1>1. CASE Connect \/ LinkLost
  <2>1. CloseLink /\ UNCHANGED <<value, posts>> /\ heard' = 0
    BY <1>1 DEF Connect, LinkLost, CloseLink
  <2>2. \A s \in Sessions : outbox'[s] = outbox[s] \/ outbox'[s] = <<>>
    BY <2>1 DEF CloseLink, Typed
  <2>3. link' = 0 /\ 0 \notin Sessions
    BY <2>1 DEF CloseLink, Sessions
  <2>4. QED BY <1>0, <2>1, <2>2, <2>3
<1>12. CASE StartClient
  <2>1. UNCHANGED <<value, posts, heard, outbox>>
    BY <1>12 DEF StartClient
  <2>2. \A s \in Sessions : link' # link /\ link' = s => outbox'[s] = <<>>
    BY <1>12 DEF StartClient, OneOfAKey
  <2>3. QED BY <1>0, <2>1, <2>2
<1>2. CASE Disconnect \/ StoreConnected \/ ResetWait \/ Arm \/ Send \/ CallReturns \/ Check
  BY <1>0, <1>2 DEF Disconnect, StoreConnected, ResetWait, Arm, Send, CallReturns, Check
<1>3. ASSUME NEW c \in Callers, NEW o \in Ops, Call(c, o) PROVE Ageing'
  BY <1>0, <1>3 DEF Call
<1>4. ASSUME NEW s \in Sessions, SessionEnds(s) PROVE Ageing'
  BY <1>0, <1>4 DEF SessionEnds
<1>5. CASE Receive
  <2> DEFINE f == Head(outbox[link])
  <2>1. link \in Sessions /\ outbox[link] # <<>> /\ outbox[link] \in Seq(Replies \cup Events)
    BY <1>5 DEF Receive, Typed
  <2>2. /\ f = outbox[link][1] /\ 1 \in DOMAIN outbox[link]
        /\ \A i \in DOMAIN Tail(outbox[link]) :
             i \in Nat /\ i + 1 \in DOMAIN outbox[link] /\ i + 1 > 1 /\ Tail(outbox[link])[i] = outbox[link][i + 1]
    BY <2>1, Taken
  <2>3. UNCHANGED <<value, posts, link>> /\ \A s \in Sessions : outbox'[s] = IF s = link THEN Tail(outbox[link]) ELSE outbox[s]
    BY <1>5, <2>1 DEF Receive, Typed
  <2>4. heard' = heard \/ ("value" \in DOMAIN f /\ heard' = f.value)
    BY <1>5, <2>1 DEF Receive, Typed
  <2>5. Posting'
    BY <2>3 DEF Ageing, Posting
  <2>6. Hearing'
    <3>1. CASE heard' = heard
      BY <2>3, <3>1 DEF Ageing, Hearing
    <3>2. CASE "value" \in DOMAIN f /\ heard' = f.value
      <4>1. f.value <= value /\ \A i \in DOMAIN posts : f.value <= posts[i].value
        BY <2>1, <2>2, <3>2 DEF Ageing, Sending
      <4>2. QED BY <2>3, <3>2, <4>1 DEF Hearing
    <3>3. QED BY <2>4, <3>1, <3>2
  <2>7. Sending'
    <3> SUFFICES ASSUME NEW s \in Sessions, NEW k \in DOMAIN outbox'[s], "value" \in DOMAIN outbox'[s][k]
                 PROVE  outbox'[s][k].value <= value /\ \A i \in DOMAIN posts : outbox'[s][k].value <= posts[i].value
      BY <2>3 DEF Sending
    <3>1. PICK j \in DOMAIN outbox[s] : outbox'[s][k] = outbox[s][j]
      BY <2>2, <2>3
    <3>2. QED BY <3>1 DEF Ageing, Sending
  <2>8. ASSUME NEW s \in Sessions, NEW i \in DOMAIN outbox'[s], "value" \in DOMAIN outbox'[s][i]
        PROVE  /\ s = link' => heard' <= outbox'[s][i].value
               /\ \A j \in 1 .. i - 1 : "value" \in DOMAIN outbox'[s][j] => outbox'[s][j].value <= outbox'[s][i].value
    <3>1. CASE s # link
      BY <2>3, <2>4, <2>8, <3>1 DEF Ageing, EventsInOrder
    <3>2. CASE s = link
      <4>1. i \in Nat /\ i + 1 \in DOMAIN outbox[link] /\ outbox'[s][i] = outbox[link][i + 1]
        BY <2>2, <2>3, <3>2
      <4>2. /\ heard <= outbox[link][i + 1].value
            /\ \A j \in 1 .. i : "value" \in DOMAIN outbox[link][j] => outbox[link][j].value <= outbox[link][i + 1].value
        BY <2>1, <2>8, <3>2, <4>1 DEF Ageing, EventsInOrder
      <4>3. "value" \in DOMAIN f => f.value <= outbox[link][i + 1].value
        <5>1. 1 \in 1 .. i
          <6>1. i + 1 > 1
            BY <2>2, <2>3, <3>2
          <6>2. QED BY <4>1, <6>1
        <5>2. QED BY <2>2, <4>2, <5>1
      <4>4. heard' <= outbox'[s][i].value
        BY <2>4, <3>2, <4>1, <4>2, <4>3
      <4>5. ASSUME NEW j \in 1 .. i - 1, "value" \in DOMAIN outbox'[s][j]
            PROVE  outbox'[s][j].value <= outbox'[s][i].value
        <5>1. j \in DOMAIN Tail(outbox[link]) /\ j + 1 \in 1 .. i
          BY <2>1, <2>3, <3>2, <4>1
        <5>2. outbox'[s][j] = outbox[link][j + 1]
          BY <2>2, <2>3, <3>2, <5>1
        <5>3. QED BY <4>1, <4>2, <4>5, <5>1, <5>2
      <4>6. QED BY <4>4, <4>5
    <3>3. QED BY <3>1, <3>2
  <2>9. EventsInOrder'
    BY <2>8 DEF EventsInOrder
  <2>10. QED BY <2>5, <2>6, <2>7, <2>9 DEF Ageing
\* Where frames are put behind those on their way.
<1>a. ASSUME NEW f \in Replies \cup Events, UNCHANGED <<value, heard, link>>, Posting', Hearing',
             \A s \in Sessions : outbox'[s] = outbox[s] \/ outbox'[s] = Append(outbox[s], f),
             \A i \in DOMAIN posts' : \E j \in DOMAIN posts : posts'[i] = posts[j],
             "value" \in DOMAIN f => /\ f.value <= value /\ \A i \in DOMAIN posts' : f.value <= posts'[i].value
                                    /\ \E j \in DOMAIN posts : f.value = posts[j].value
      PROVE  Ageing'
  <2>1. \A s \in Sessions : \A i \in DOMAIN Append(outbox[s], f) :
          \/ i = Len(outbox[s]) + 1 /\ Append(outbox[s], f)[i] = f
          \/ i \in DOMAIN outbox[s] /\ Append(outbox[s], f)[i] = outbox[s][i]
    BY Added DEF Typed
  <2>2. ASSUME NEW s \in Sessions, NEW i \in DOMAIN outbox'[s]
        PROVE  \/ i = Len(outbox[s]) + 1 /\ outbox'[s][i] = f /\ \A j \in 1 .. i - 1 : j \in DOMAIN outbox[s] /\ outbox'[s][j] = outbox[s][j]
               \/ i \in DOMAIN outbox[s] /\ outbox'[s][i] = outbox[s][i] /\ \A j \in 1 .. i - 1 : outbox'[s][j] = outbox[s][j]
    <3>1. DOMAIN outbox[s] = 1 .. Len(outbox[s]) /\ Len(outbox[s]) \in Nat
      BY DEF Typed
    <3>2. CASE outbox'[s] = outbox[s]
      BY <2>2, <3>2
    <3>3. CASE outbox'[s] = Append(outbox[s], f)
      <4>1. \A j \in 1 .. Len(outbox[s]) : Append(outbox[s], f)[j] = outbox[s][j]
        BY <3>1 DEF Typed
      <4>2. \/ i = Len(outbox[s]) + 1 /\ outbox'[s][i] = f
            \/ i \in DOMAIN outbox[s] /\ outbox'[s][i] = outbox[s][i]
        <5>1. i \in DOMAIN Append(outbox[s], f)
          BY <3>3
        <5>2. \/ i = Len(outbox[s]) + 1 /\ Append(outbox[s], f)[i] = f
              \/ i \in DOMAIN outbox[s] /\ Append(outbox[s], f)[i] = outbox[s][i]
          BY <2>1, <5>1
        <5>3. QED BY <3>3, <5>2
      <4>3. \A j \in 1 .. i - 1 : j \in 1 .. Len(outbox[s])
        BY <3>1, <4>2
      <4>4. QED BY <3>1, <3>3, <4>1, <4>2, <4>3
    <3>4. QED BY <1>a, <3>2, <3>3
  <2>3. Sending'
    <3> SUFFICES ASSUME NEW s \in Sessions, NEW k \in DOMAIN outbox'[s], "value" \in DOMAIN outbox'[s][k]
                 PROVE  outbox'[s][k].value <= value' /\ \A i \in DOMAIN posts' : outbox'[s][k].value <= posts'[i].value
      BY DEF Sending
    <3>1. CASE outbox'[s][k] = f
      BY <1>a, <3>1
    <3>2. CASE k \in DOMAIN outbox[s] /\ outbox'[s][k] = outbox[s][k]
      BY <1>a, <3>2 DEF Ageing, Sending
    <3>3. QED BY <2>2, <3>1, <3>2
  <2>4. EventsInOrder'
    <3> SUFFICES ASSUME NEW s \in Sessions, NEW i \in DOMAIN outbox'[s], "value" \in DOMAIN outbox'[s][i]
                 PROVE  /\ s = link' => heard' <= outbox'[s][i].value
                        /\ \A j \in 1 .. i - 1 :
                             "value" \in DOMAIN outbox'[s][j] => outbox'[s][j].value <= outbox'[s][i].value
      BY DEF EventsInOrder
    <3>1. CASE i = Len(outbox[s]) + 1 /\ outbox'[s][i] = f /\ \A j \in 1 .. i - 1 : j \in DOMAIN outbox[s] /\ outbox'[s][j] = outbox[s][j]
      <4>1. PICK j \in DOMAIN posts : f.value = posts[j].value
        BY <1>a, <3>1
      <4>2. heard <= posts[j].value
        BY DEF Ageing, Hearing
      <4>3. \A k \in DOMAIN outbox[s] : "value" \in DOMAIN outbox[s][k] => outbox[s][k].value <= posts[j].value
        BY DEF Ageing, Sending
      <4>4. QED BY <1>a, <3>1, <4>1, <4>2, <4>3
    <3>2. CASE i \in DOMAIN outbox[s] /\ outbox'[s][i] = outbox[s][i] /\ \A j \in 1 .. i - 1 : outbox'[s][j] = outbox[s][j]
      BY <1>a, <3>2 DEF Ageing, EventsInOrder
    <3>3. QED BY <2>2, <3>1, <3>2
  <2>5. QED BY <1>a, <2>3, <2>4 DEF Ageing
<1>6. ASSUME NEW s \in Sessions, Handle(s) PROVE Ageing'
  <2> DEFINE r == Head(inbox[s])
  <2>1. r \in Requests
    BY <1>6, Taken DEF Handle, Typed
  <2>2. [id |-> r.id, call |-> r.call] \in Replies
    BY <2>1 DEF Requests, Replies
  <2>3. "value" \notin DOMAIN [id |-> r.id, call |-> r.call]
    BY <2>2, AnswerOrEvent
  <2>4. UNCHANGED <<value, posts, heard, link>> /\ \A t \in Sessions : outbox'[t] = outbox[t] \/ outbox'[t] = Append(outbox[t], [id |-> r.id, call |-> r.call])
    BY <1>6 DEF Handle, Typed
  <2>5. Posting' /\ Hearing'
    BY <2>4 DEF Ageing, Posting, Hearing
  <2>6. PICK f : f = [id |-> r.id, call |-> r.call]
    OBVIOUS
  <2> HIDE DEF r
  <2>7. QED BY <1>a, <2>2, <2>3, <2>4, <2>5, <2>6
<1>7. CASE Deliver
  <2> DEFINE p == Head(posts)
  <2>1. posts # <<>> /\ posts' = Tail(posts) /\ UNCHANGED <<value, heard, link>>
    BY <1>7 DEF Deliver
  <2>2. /\ p = posts[1] /\ 1 \in DOMAIN posts
        /\ \A i \in DOMAIN Tail(posts) : i \in Nat /\ i + 1 \in DOMAIN posts /\ i + 1 > 1 /\ Tail(posts)[i] = posts[i + 1]
    <3>1. posts \in Seq(Closures)
      BY DEF Typed
    <3>2. QED BY <2>1, <3>1, Taken
  <2>3. DOMAIN posts = 1 .. Len(posts) /\ DOMAIN Tail(posts) = 1 .. Len(posts) - 1 /\ Len(posts) \in Nat
    BY <2>1 DEF Typed
  <2>4. Posting'
    <3> SUFFICES ASSUME NEW i \in DOMAIN posts'
                 PROVE  posts'[i].value <= value' /\ \A j \in 1 .. i - 1 : posts'[j].value <= posts'[i].value
      BY DEF Posting
    <3>1. i \in Nat /\ i + 1 \in DOMAIN posts /\ posts'[i] = posts[i + 1]
      BY <2>1, <2>2
    <3>2. \A j \in 1 .. i - 1 : j \in DOMAIN Tail(posts) /\ j + 1 \in 1 .. (i + 1) - 1
      BY <2>1, <2>3
    <3>3. \A j \in 1 .. i - 1 : posts'[j] = posts[j + 1]
      BY <2>1, <2>2, <3>2
    <3>4. QED BY <2>1, <3>1, <3>2, <3>3 DEF Ageing, Posting
  <2>5. Hearing'
    BY <2>1, <2>2 DEF Ageing, Hearing
  <2>6. p.value <= value /\ \A i \in DOMAIN posts' : p.value <= posts'[i].value
    <3>1. p.value <= value
      BY <2>2 DEF Ageing, Posting
    <3>2. ASSUME NEW i \in DOMAIN Tail(posts) PROVE posts[1].value <= posts[i + 1].value
      <4>1. i + 1 \in DOMAIN posts /\ 1 \in 1 .. (i + 1) - 1
        BY <2>2, <2>3
      <4>2. QED BY <4>1 DEF Ageing, Posting
    <3>3. QED BY <2>1, <2>2, <3>1, <3>2
  <2>7. p.value \in Nat
    BY <1>p, <2>2
  <2>8. PICK f : f = [value |-> p.value]
    OBVIOUS
  <2>9. f \in Events /\ f.value = p.value
    BY <2>7, <2>8 DEF Events
  <2>10. \A s \in Sessions : outbox'[s] = outbox[s] \/ outbox'[s] = Append(outbox[s], f)
    BY <1>7, <2>8 DEF Deliver
  <2> HIDE DEF p
  <2>11. \A i \in DOMAIN posts' : \E j \in DOMAIN posts : posts'[i] = posts[j]
    BY <2>1, <2>2
  <2>12. \E j \in DOMAIN posts : f.value = posts[j].value
    BY <2>2, <2>9
  <2>13. QED BY <1>a, <2>1, <2>4, <2>5, <2>6, <2>9, <2>10, <2>11, <2>12
<1>8. CASE SetValue
  <2>1. value' = value + 1 /\ UNCHANGED <<posts, heard, link, outbox>>
    BY <1>8 DEF SetValue
  <2>2. \A m \in Nat : m <= value => m <= value'
    BY <1>h, <2>1
  <2>3. Posting' /\ Hearing' /\ Sending'
    BY <1>v, <1>p, <1>h, <2>1, <2>2 DEF Ageing, Posting, Hearing, Sending
  <2>4. EventsInOrder'
    BY <2>1 DEF Ageing, EventsInOrder
  <2>5. QED BY <2>3, <2>4 DEF Ageing
<1>9. CASE Push
  <2> DEFINE p == [key |-> passed.key, value |-> value]
  <2>1. posts' = Append(posts, p) /\ UNCHANGED <<value, heard, link, outbox>>
    BY <1>9 DEF Push, Posted
  <2>2. p \in Closures /\ p.value = value
    <3>1. passed \in AnyEntry
      BY <1>9 DEF Push, Typed
    <3>2. QED BY <1>h, <3>1 DEF AnyEntry, Closures
  <2> HIDE DEF p
  <2>3. /\ Len(posts) \in Nat /\ DOMAIN posts = 1 .. Len(posts)
        /\ \A i \in DOMAIN posts' :
             \/ i = Len(posts) + 1 /\ posts'[i] = p
             \/ i \in DOMAIN posts /\ posts'[i] = posts[i]
        /\ \A i \in DOMAIN posts : posts'[i] = posts[i]
    <3>1. posts \in Seq(Closures)
      BY DEF Typed
    <3>2. Len(posts) \in Nat /\ DOMAIN posts = 1 .. Len(posts)
      BY <3>1
    <3>3. \A i \in DOMAIN Append(posts, p) :
            \/ i = Len(posts) + 1 /\ Append(posts, p)[i] = p
            \/ i \in DOMAIN posts /\ Append(posts, p)[i] = posts[i]
      BY <2>2, <3>1, Added
    <3>4. \A i \in DOMAIN posts : Append(posts, p)[i] = posts[i]
      BY <3>1, <3>2
    <3>5. QED BY <2>1, <3>2, <3>3, <3>4
  <2>4. Hearing' /\ Sending'
    BY <2>1, <2>2, <2>3 DEF Ageing, Hearing, Sending
  <2>5. Posting'
    <3> SUFFICES ASSUME NEW i \in DOMAIN posts'
                 PROVE  posts'[i].value <= value' /\ \A j \in 1 .. i - 1 : posts'[j].value <= posts'[i].value
      BY DEF Posting
    <3>1. \A j \in 1 .. i - 1 : j \in DOMAIN posts
      BY <2>3
    <3>2. CASE i = Len(posts) + 1 /\ posts'[i] = p
      BY <1>h, <2>1, <2>2, <2>3, <3>1, <3>2 DEF Ageing, Posting
    <3>3. CASE i \in DOMAIN posts /\ posts'[i] = posts[i]
      BY <2>1, <2>3, <3>1, <3>3 DEF Ageing, Posting
    <3>4. QED BY <2>3, <3>2, <3>3
  <2>6. EventsInOrder'
    BY <2>1 DEF Ageing, EventsInOrder
  <2>7. QED BY <2>4, <2>5, <2>6 DEF Ageing
<1>10. CASE UNCHANGED vars
  BY <1>0, <1>10 DEF vars
<1>11. QED BY <1>1, <1>2, <1>3, <1>4, <1>5, <1>6, <1>7, <1>8, <1>9, <1>10, <1>12 DEF Next

-----------------------------------------------------------------------------
(* All together.                                                           *)

IInv == Typed /\ AsksOnce /\ OneOfAKey /\ Kept /\ Numbered /\ Backed /\ Ageing

LEMMA InitHolds == Init => IInv
<1> SUFFICES ASSUME Init PROVE IInv
  OBVIOUS
<1>e. DOMAIN <<>> = {}
  OBVIOUS
<1>1. Typed
  BY InitTyped
<1>2. AsksOnce /\ OneOfAKey
  BY DEF Init, AsksOnce, Waiting, OneOfAKey, Alive
<1>3. Kept
  BY FS_EmptySet DEF Init, Kept, EntriesOwned, CountsAgree
<1>4. Numbered
  BY <1>e DEF Init, Numbered, AllKnown
<1>5. Backed
  BY DEF Init, Backed
<1>6. Ageing
  BY <1>e DEF Init, Ageing, Posting, Hearing, Sending, EventsInOrder
<1>7. QED BY <1>1, <1>2, <1>3, <1>4, <1>5, <1>6 DEF IInv

LEMMA InvInductive == IInv /\ [Next]_vars => IInv'
BY TypedKept, AsksOnceKept, OneOfAKeyKept, EntriesKept, NumberedKept, BackedKept, AgeingKept DEF IInv

\* Whoever has been told that it is subscribed has an entry of its own
\* session, no session has another's although keys return, entries are
\* counted, and events reach a client in the order of the changes (subscribe,
\* removeSession and postToSession of subscribe_service.cpp, BinTcpServer).
THEOREM SubscribersServed == Spec => []ServedInOrder
<1>1. IInv => ServedInOrder
  BY DEF IInv, Kept, Backed, Promised, Served, Ageing, ServedInOrder, EntriesFollow, Believed
<1>2. QED BY <1>1, InitHolds, InvInductive, PTL DEF Spec

\* A call that returns an answer returns one to a request with its id, and
\* the answer to its own request unless an earlier call has had that id,
\* whatever other calls timed out before and however often the client was
\* reconnected (BinTcpClient::call, onRecv).
THEOREM OwnAnswer == Spec => AnswerIsOwn
<1>1. IInv => [CallReturns /\ waitDone /\ response # NULL =>
                 response.id = id /\ (Unshared => response.call = Len(asked))]_vars
  <2> SUFFICES ASSUME IInv, CallReturns, response # NULL
               PROVE  response.id = id /\ (Unshared => response.call = Len(asked))
    OBVIOUS
  <2>1. response.id = id /\ Known(response)
    BY DEF IInv, AsksOnce, Numbered, AllKnown
  <2>2. response.call \in 1 .. Len(asked) /\ Len(asked) \in Nat /\ asked[response.call] = id
    BY <2>1 DEF IInv, Typed, Known
  <2>3. QED BY <2>1, <2>2 DEF Unshared
<1>2. QED BY <1>1, InitHolds, InvInductive, PTL DEF Spec, AnswerIsOwn
=============================================================================
