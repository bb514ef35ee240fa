---------------------------- MODULE ObjectSignal ----------------------------
(***************************************************************************)
(* Signals of one ve::Object, the sender (ve/src/core/object.cpp): a list  *)
(* of connections per signal, trigger's snapshot of that list, direct      *)
(* calls on the triggering thread, posts to an event loop, single-shot     *)
(* connections with a token that is killed when they have fired, and the   *)
(* sweep of dead connections at the end of a trigger.                      *)
(*                                                                         *)
(* A trigger is a frame on its thread's stack; while a direct callback     *)
(* runs, its thread may connect, disconnect, destroy observers or trigger  *)
(* again.  Callbacks posted to the loop run one at a time on the loop's    *)
(* own thread: a closure looks at the sender's token and then calls.       *)
(* Destroying the sender is a trigger of OBJECT_DELETED between killing    *)
(* the alive token and dropping the connections; its owner does so while   *)
(* no other trigger of it runs, on the loop's own thread or on another.    *)
(*                                                                         *)
(* A vector of connections is ordered by age, as they are only appended    *)
(* and erased: it is the set of their numbers.                             *)
(***************************************************************************)
EXTENDS Integers, Sequences, FiniteSets, FiniteSetsExt

CONSTANTS
  Threads,      \* threads that may use the sender
  Observers,    \* objects that may observe it
  NULL,         \* connect(nullptr, ...): a connection nobody owns
  Uses,         \* the ways in which the sender may be used
  MaxConns,     \* bound on connect calls
  MaxTriggers   \* bound on trigger calls

Signals == {"changed", "deleted"}
Kinds == [sig : Signals, queued : BOOLEAN, once : BOOLEAN]

\* By which threads, with which observers and kinds of connection, how many
\* triggers deep, counting those that callbacks raise, and whether its owner
\* ends it on the loop's own thread.
Use == [threads : SUBSET Threads, observers : SUBSET Observers, kinds : SUBSET Kinds, depth : Nat,
        home : BOOLEAN]

ASSUME ObjectSignalAssumption ==
  /\ NULL \notin Observers
  /\ Uses \subseteq Use
  /\ {MaxConns, MaxTriggers} \subseteq Nat

VARIABLES
  use,        \* the way in which this sender is used; it does not change
  aliveObs,   \* observers whose alive token is not dead
  sender,     \* "up", "dying" (token killed, OBJECT_DELETED in progress), "gone"
  silent,     \* the SILENT flag
  book,       \* every connection ever made; its index is its identity
  conns,      \* Private::connections, by signal
  shot,       \* connections whose shotToken is dead
  stack,      \* per thread, the triggers in progress, innermost first
  queue,      \* closures posted to the loop whose callback has not begun, oldest first
  fired,      \* trigger calls so far; the number is the data of a trigger
  ran,        \* per connection, the data its callback has run with
  looked      \* the loop is in the oldest closure, which has found the sender's token alive

vars == <<use, aliveObs, sender, silent, book, conns, shot, stack, queue, fired, ran, looked>>

Ids == 1 .. MaxConns
Connection == [kind : Kinds, observer : Observers \cup {NULL}]
Frame == [sig : Signals, data : 0 .. MaxTriggers, todo : SUBSET Ids, got : SUBSET Ids,
          upto : 0 .. MaxConns, hasDead : BOOLEAN, pc : {"check", "call", "calling", "posted"}]
Closure == [conn : Ids, data : 0 .. MaxTriggers, checkSender : BOOLEAN]

TypeOK ==
  /\ use \in Uses
  /\ aliveObs \subseteq Observers
  /\ sender \in {"up", "dying", "gone"}
  /\ silent \in BOOLEAN
  /\ book \in Seq(Connection) /\ Len(book) <= MaxConns
  /\ conns \in [Signals -> SUBSET DOMAIN book]
  /\ shot \subseteq DOMAIN book
  /\ stack \in [Threads -> Seq(Frame)]
  /\ queue \in Seq(Closure)
  /\ fired \in 0 .. MaxTriggers
  /\ ran \in [Ids -> Seq(0 .. MaxTriggers)]
  /\ looked \in BOOLEAN

Init ==
  /\ use \in Uses
  /\ aliveObs = use.observers
  /\ sender = "up"
  /\ silent = FALSE
  /\ book = <<>>
  /\ conns = [s \in Signals |-> {}]
  /\ shot = {}
  /\ stack = [t \in Threads |-> <<>>]
  /\ queue = <<>>
  /\ fired = 0
  /\ ran = [c \in Ids |-> <<>>]
  /\ looked = FALSE

-----------------------------------------------------------------------------

Observer(c) == book[c].observer
Once(c) == book[c].kind.once
ObserverDead(c) == Observer(c) \in Observers \ aliveObs

\* Mutant: only the observer counts.
IsDeadObserverOnly(c) == ObserverDead(c)

\* isDead: the observer is gone or the connection has fired its only shot.
IsDead(c) == ObserverDead(c) \/ c \in shot

Top(t) == Head(stack[t])

\* The thread runs code outside the sender: its own, or a direct callback's.
InCallback(t) == stack[t] # <<>> => Top(t).pc = "calling"

\* A thread may call the sender when it is not inside trigger itself, and
\* once the sender is dying only from a callback of the last trigger.
Free(t) ==
  /\ InCallback(t)
  /\ sender = "up" \/ (sender = "dying" /\ stack[t] # <<>>)

SetTop(t, f) == stack' = [stack EXCEPT ![t] = <<f>> \o Tail(@)]

-----------------------------------------------------------------------------
(* What callers and callbacks do.                                          *)

\* connect and once: append under the lock.
Connect(t, o, k) ==
  /\ Free(t)
  /\ Len(book) < MaxConns
  /\ o \in aliveObs \cup {NULL}
  /\ book' = Append(book, [kind |-> k, observer |-> o])
  /\ conns' = [conns EXCEPT ![k.sig] = @ \cup {Len(book) + 1}]
  /\ UNCHANGED <<use, aliveObs, sender, silent, shot, stack, queue, fired, ran, looked>>

\* disconnect(signal, observer) and disconnect(observer).
Disconnect(t, o, sigs) ==
  /\ Free(t)
  /\ conns' = [s \in Signals |-> {c \in conns[s] : s \in sigs => Observer(c) # o}]
  /\ UNCHANGED <<use, aliveObs, sender, silent, book, shot, stack, queue, fired, ran, looked>>

\* An observer is destroyed: its alive token dies, the sender is not told.
DestroyObserver(t, o) ==
  /\ InCallback(t)
  /\ o \in aliveObs
  /\ aliveObs' = aliveObs \ {o}
  /\ UNCHANGED <<use, sender, silent, book, conns, shot, stack, queue, fired, ran, looked>>

\* silent(on)
SetSilent(t, on) ==
  /\ Free(t)
  /\ silent' = on
  /\ UNCHANGED <<use, aliveObs, sender, book, conns, shot, stack, queue, fired, ran, looked>>

-----------------------------------------------------------------------------
(* trigger.                                                                *)

\* The snapshot, taken under the lock.
Enter(t, s, n) ==
  stack' = [stack EXCEPT ![t] =
    <<[sig |-> s, data |-> n, todo |-> conns[s], got |-> {}, upto |-> Len(book),
       hasDead |-> FALSE, pc |-> "check"]>> \o @]

Trigger(t) ==
  /\ Free(t)
  /\ ~ silent
  /\ Len(stack[t]) < use.depth
  /\ fired < MaxTriggers
  /\ fired' = fired + 1
  /\ Enter(t, "changed", fired + 1)
  /\ UNCHANGED <<use, aliveObs, sender, silent, book, conns, shot, queue, ran, looked>>

\* ~Object: kill the token, then trigger OBJECT_DELETED, silent or not.  On
\* the loop's own thread, no closure is between its look and its call.
DestroySender(t) ==
  /\ \A u \in Threads : stack[u] = <<>>
  /\ sender = "up"
  /\ use.home => ~ looked
  /\ sender' = "dying"
  /\ Enter(t, "deleted", 0)
  /\ UNCHANGED <<use, aliveObs, silent, book, conns, shot, queue, fired, ran, looked>>

\* The next connection of the snapshot.
Due(f) == Min(f.todo)

\* Mutant: the first dead connection ends the dispatch.
SkipRest(f) == [f EXCEPT !.todo = {}, !.hasDead = TRUE]

\* A dead connection is passed over.
Skip(f) == [f EXCEPT !.todo = @ \ {Due(f)}, !.hasDead = TRUE]

\* After a call or a post: go on; a shot that was fired is to be swept.
AfterFiring(f) ==
  [f EXCEPT !.todo = @ \ {Due(f)}, !.pc = "check", !.hasDead = @ \/ Once(Due(f))]

\* Mutant: the closure does not look at the sender again.
ClosureUnchecked(c, f) == [conn |-> c, data |-> f.data, checkSender |-> FALSE]

\* What is posted to the loop for a queued connection.
ClosureOf(c, f) == [conn |-> c, data |-> f.data, checkSender |-> f.sig # "deleted"]

\* LoopRef::post
Post(q, cl) == Append(q, cl)

\* The tokens of the next connection of the snapshot are looked at ...
Check(t) ==
  LET f == Top(t)
  IN  /\ stack[t] # <<>>
      /\ f.pc = "check"
      /\ f.todo # {}
      /\ \/ IsDead(Due(f)) /\ SetTop(t, Skip(f))
         \/ ~ IsDead(Due(f)) /\ SetTop(t, [f EXCEPT !.pc = "call"])
      /\ UNCHANGED <<use, aliveObs, sender, silent, book, conns, shot, queue, fired, ran, looked>>

\* ... and then its callback is posted or called, with no lock held.
Dispatch(t) ==
  LET f == Top(t)
      c == Due(f)
  IN  /\ stack[t] # <<>>
      /\ f.pc = "call"
      /\ \/ /\ book[c].kind.queued
            /\ queue' = Post(queue, ClosureOf(c, f))
            /\ SetTop(t, [f EXCEPT !.got = @ \cup {c}, !.pc = "posted"])
            /\ UNCHANGED ran
         \/ /\ ~ book[c].kind.queued
            /\ ran' = [ran EXCEPT ![c] = Append(@, f.data)]
            /\ SetTop(t, [f EXCEPT !.got = @ \cup {c}, !.pc = "calling"])
            /\ UNCHANGED queue
      /\ UNCHANGED <<use, aliveObs, sender, silent, book, conns, shot, fired, looked>>

\* The direct callback has returned, or the post is done: kill the shot token.
Fired(t) ==
  LET f == Top(t)
      c == Due(f)
  IN  /\ stack[t] # <<>>
      /\ f.pc \in {"calling", "posted"}
      /\ shot' = IF Once(c) THEN shot \cup {c} ELSE shot
      /\ SetTop(t, AfterFiring(f))
      /\ UNCHANGED <<use, aliveObs, sender, silent, book, conns, queue, fired, ran, looked>>

\* The sweep keeps the connections that are not dead.
Swept(cs, f) == {c \in cs : ~ IsDead(c)}

\* The end of trigger, and of ~Object when the signal was OBJECT_DELETED.
Finish(t) ==
  LET f == Top(t)
      after == IF f.hasDead THEN [conns EXCEPT ![f.sig] = Swept(@, f)] ELSE conns
  IN  /\ stack[t] # <<>>
      /\ f.pc = "check"
      /\ f.todo = {}
      /\ stack' = [stack EXCEPT ![t] = Tail(@)]
      /\ \/ /\ f.sig = "changed"
            /\ conns' = after
            /\ UNCHANGED sender
         \/ /\ f.sig = "deleted"
            /\ sender' = "gone"
            /\ conns' = [s \in Signals |-> {}]
      /\ UNCHANGED <<use, aliveObs, silent, book, shot, queue, fired, ran, looked>>

\* The loop comes to the oldest closure, which looks at the sender's token
\* only, and returns when it is dead ...
LookPosted ==
  /\ queue # <<>>
  /\ ~ looked
  /\ Head(queue).checkSender
  /\ \/ /\ sender # "up"
        /\ queue' = Tail(queue)
        /\ UNCHANGED looked
     \/ /\ sender = "up"
        /\ looked' = TRUE
        /\ UNCHANGED queue
  /\ UNCHANGED <<use, aliveObs, sender, silent, book, conns, shot, stack, fired, ran>>

\* ... and then calls the callback, with nothing held that keeps the sender.
RunPosted ==
  LET q == Head(queue)
  IN  /\ queue # <<>>
      /\ q.checkSender => looked
      /\ queue' = Tail(queue)
      /\ ran' = [ran EXCEPT ![q.conn] = Append(@, q.data)]
      /\ looked' = FALSE
      /\ UNCHANGED <<use, aliveObs, sender, silent, book, conns, shot, stack, fired>>

Next ==
  \/ \E t \in use.threads :
       \/ \E o \in Observers \cup {NULL}, k \in use.kinds : Connect(t, o, k)
       \/ \E o \in use.observers :
            \/ Disconnect(t, o, Signals)
            \/ \E s \in Signals : Disconnect(t, o, {s})
            \/ DestroyObserver(t, o)
       \/ \E on \in BOOLEAN : SetSilent(t, on)
       \/ Trigger(t)
       \/ DestroySender(t)
       \/ Check(t)
       \/ Dispatch(t)
       \/ Fired(t)
       \/ Finish(t)
  \/ LookPosted
  \/ RunPosted

Spec == Init /\ [][Next]_vars

-----------------------------------------------------------------------------
(* Properties.                                                             *)

\* A trigger reaches every persistent connection that was there when it
\* began and is still there, with a living observer, when it ends - whatever
\* callbacks connected, disconnected or triggered meanwhile.
EveryoneReached ==
  [][\A t \in DOMAIN stack :
       Len(stack'[t]) < Len(stack[t]) =>
         \A c \in DOMAIN book :
           /\ c <= Top(t).upto
           /\ c \in conns[Top(t).sig]
           /\ ~ IsDead(c)
           => c \in Top(t).got]_vars

\* A sweep takes dead connections only: what a trigger's end removes from a
\* list is dead, and connections made while callbacks ran are kept.
SweepSparesTheLiving ==
  [][sender' = sender /\ (\E t \in DOMAIN stack : Len(stack'[t]) < Len(stack[t])) =>
       \A s \in Signals : {c \in conns'[s] : ~ IsDead(c)} = {c \in conns[s] : ~ IsDead(c)}]_vars

\* Both: who is connected is called, and stays connected (trigger).
ReachedAndKept == EveryoneReached /\ SweepSparesTheLiving

\* When no trigger is in progress, a single-shot connection that has fired
\* is no longer in the list.
FiredAreSwept ==
  (\A t \in DOMAIN stack : stack[t] = <<>>) =>
    \A s \in Signals : conns[s] \cap shot = {}

\* Once the sender's destructor has begun, the closures that are posted do
\* nothing (RunPosted).  Unless they are about the deletion itself, none runs
\* when the sender ends on the loop's own thread; when it ends on another,
\* only the one runs that had looked at the token before, and no further one
\* passes the look.
SenderOutlivesCallbacks ==
  /\ [][\A c \in Ids : ran'[c] # ran[c] /\ book[c].kind.queued /\ book[c].kind.sig = "changed"
         => sender = "up" \/ (looked /\ ~ use.home)]_vars
  /\ [][sender # "up" /\ looked' => looked]_vars

\* once: "auto-disconnects after first trigger" - the callback runs at most
\* once (object.h).
OnceAtMostOnce == \A c \in DOMAIN book : Once(c) => Len(ran[c]) <= 1

\* A callback sees the data of successive triggers in the order in which
\* they were raised.
InOrder == \A c \in Ids : \A i, j \in DOMAIN ran[c] : i < j => ran[c][i] < ran[c][j]

\* One thread uses the sender, and no callback triggers it again.
Alone == use.depth = 1 /\ \E t \in Threads : use.threads = {t}

\* What has fired is swept from the list once no trigger is in progress; and
\* without nesting, a single shot is fired once and every callback sees the
\* data in the order they were triggered (once and trigger of object.cpp).
CalledInTurn == FiredAreSwept /\ (Alone => OnceAtMostOnce /\ InOrder)

\* A callback never runs for an observer that has been destroyed: "observer
\* destructed -> alive token killed, callback stops" (subscribe_service.cpp).
ObserverOutlivesCallbacks ==
  [][\A c \in Ids : ran'[c] # ran[c] => ~ ObserverDead(c)]_vars

-----------------------------------------------------------------------------
(* Uses to check with: one thread whose callbacks do not trigger again,    *)
(* every observer and every kind of connection; and all threads, whose     *)
(* direct callbacks trigger again, with one observer.                      *)

Kind(s, q, o) == [sig |-> s, queued |-> q, once |-> o]

\* Direct or queued, persistent or single-shot, on an ordinary signal, and
\* the two ways to observe the sender's end.
AllKinds ==
  {Kind("changed", q, o) : q, o \in BOOLEAN} \cup {Kind("deleted", q, FALSE) : q \in BOOLEAN}

\* Direct callbacks, and both observations of the end.
NestedKinds ==
  {Kind("changed", FALSE, o) : o \in BOOLEAN} \cup {Kind("deleted", q, FALSE) : q \in BOOLEAN}

SomeOf(S) == {CHOOSE x \in S : TRUE}

AloneAndNested ==
  [threads : {SomeOf(Threads)}, observers : {Observers}, kinds : {AllKinds}, depth : {1}, home : BOOLEAN]
    \cup [threads : {Threads}, observers : {SomeOf(Observers)}, kinds : {NestedKinds}, depth : {2}, home : {TRUE}]
=============================================================================
