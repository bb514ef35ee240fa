------------------------- MODULE ObjectSignalProofs -------------------------
(***************************************************************************)
(* Proofs about ObjectSignal for any threads, observers and ways of use.   *)
(*                                                                         *)
(* The inductive invariant IInv says what a trigger in progress knows of   *)
(* the connections, whoever connects, disconnects or triggers meanwhile,   *)
(* and, for a sender used by one thread without nesting, which data a      *)
(* connection may still have ahead of it.                                  *)
(***************************************************************************)
EXTENDS ObjectSignal, SequenceTheorems, WellFoundedInduction, TLAPS

OfSig(s) == {c \in DOMAIN book : book[c].kind.sig = s}

\* A trigger in progress: what it has to do is of its signal, it has come
\* to that in turn, and it began before what was connected since.
FrameOk(f) ==
  /\ f.todo \subseteq OfSig(f.sig)
  /\ f.upto <= Len(book)
  /\ f.data <= fired
  /\ f.todo \cap f.got = IF f.pc \in {"calling", "posted"} THEN {Due(f)} ELSE {}
  /\ f.pc # "check" => f.todo # {}

FramesOk == \A t \in Threads : \A i \in DOMAIN stack[t] : FrameOk(stack[t][i])

\* Connections are listed under their signal, and posted closures come from
\* queued ones.
Listed == \A s \in Signals : conns[s] \subseteq OfSig(s)
ClosureOk(q) ==
  /\ q.conn \in DOMAIN book /\ book[q.conn].kind.queued
  /\ q.data <= fired
  /\ book[q.conn].kind.sig = "changed" => q.checkSender
ClosuresOk == \A j \in DOMAIN queue : ClosureOk(queue[j])

\* The trigger of OBJECT_DELETED is the last: nothing is below or beside it.
Ending ==
  \A t \in Threads : \A i \in DOMAIN stack[t] : stack[t][i].sig = "deleted" =>
    sender = "dying" /\ i = Len(stack[t]) /\ \A u \in Threads \ {t} : stack[u] = <<>>

\* A trigger has reached, or has still to look at, every living connection
\* that was there when it began.
Reaches(f) == \A c \in conns[f.sig] : c <= f.upto /\ ~ IsDead(c) => c \in f.got \cup f.todo
Reached == \A t \in Threads : \A i \in DOMAIN stack[t] : Reaches(stack[t][i])

\* A shot connection that is still listed will be swept by a trigger in progress.
Sweeps(s) == \E t \in Threads : \E i \in DOMAIN stack[t] : stack[t][i].sig = s /\ stack[t][i].hasDead
Sweeping == \A s \in Signals : conns[s] \cap shot # {} => Sweeps(s)

-----------------------------------------------------------------------------
(* Least members, and stacks of triggers.                                  *)

LEMMA NatLess == OpToRel(<, Nat) = {ss \in Nat \X Nat : ss[1] < ss[2]}
BY Zenon DEF OpToRel

LEMMA NatMin ==
  ASSUME NEW T \in SUBSET Nat, T # {}
  PROVE  Min(T) \in T /\ \A k \in T : Min(T) <= k
<1> DEFINE R == {ss \in Nat \X Nat : ss[1] < ss[2]}
<1>1. IsWellFoundedOn(R, Nat)
  BY NatLessThanWellFounded, NatLess, Zenon
<1>2. PICK m \in T : \A k \in T : ~ (<<k, m>> \in R)
  BY <1>1, WFMin, Zenon
<1>3. ASSUME NEW k \in T PROVE m <= k
  <2>1. k \in Nat /\ m \in Nat
    OBVIOUS
  <2>2. <<k, m>>[1] = k /\ <<k, m>>[2] = m
    OBVIOUS
  <2>3. ~ (k < m)
    BY <1>2, <2>1, <2>2
  <2>4. QED BY <2>1, <2>3
<1>4. \E n \in T : \A k \in T : n <= k
  BY <1>3
<1>5. QED BY <1>4, Zenon DEF Min

LEMMA DueIsTodo ==
  ASSUME NEW f \in Frame, f.todo # {}
  PROVE  Due(f) \in f.todo
<1>1. f.todo \in SUBSET Nat
  BY ObjectSignalAssumption DEF Frame, Ids
<1>2. QED BY <1>1, NatMin DEF Due

LEMMA Taken ==
  ASSUME NEW F, NEW q \in Seq(F), q # <<>>
  PROVE  /\ Head(q) \in F /\ Tail(q) \in Seq(F) /\ 1 \in DOMAIN q /\ Head(q) = q[1]
         /\ Len(Tail(q)) = Len(q) - 1 /\ Len(q) \in Nat \ {0}
         /\ \A i \in DOMAIN Tail(q) : i \in Nat /\ i + 1 \in DOMAIN q /\ i + 1 > 1 /\ Tail(q)[i] = q[i + 1]
         /\ \A i \in DOMAIN q : i = 1 \/ (i - 1 \in DOMAIN Tail(q) /\ Tail(q)[i - 1] = q[i])
OBVIOUS

LEMMA Added ==
  ASSUME NEW F, NEW q \in Seq(F), NEW f \in F
  PROVE  /\ Append(q, f) \in Seq(F) /\ Len(Append(q, f)) = Len(q) + 1 /\ Len(q) \in Nat
         /\ \A i \in DOMAIN Append(q, f) :
              \/ i = Len(q) + 1 /\ Append(q, f)[i] = f
              \/ i \in DOMAIN q /\ i <= Len(q) /\ Append(q, f)[i] = q[i]
         /\ \A i \in DOMAIN q : i \in DOMAIN Append(q, f) /\ Append(q, f)[i] = q[i]
OBVIOUS

LEMMA Pushed ==
  ASSUME NEW F, NEW q \in Seq(F), NEW f \in F
  PROVE  /\ <<f>> \o q \in Seq(F) /\ Len(<<f>> \o q) = Len(q) + 1 /\ Len(q) \in Nat
         /\ (<<f>> \o q)[1] = f
         /\ \A i \in DOMAIN (<<f>> \o q) :
              \/ i = 1
              \/ i > 1 /\ i - 1 \in DOMAIN q /\ (<<f>> \o q)[i] = q[i - 1]
         /\ \A i \in DOMAIN q : i + 1 \in DOMAIN (<<f>> \o q) /\ (<<f>> \o q)[i + 1] = q[i]
<1>1. <<f>> \in Seq(F) /\ Len(<<f>>) = 1 /\ <<f>>[1] = f
  OBVIOUS
<1>2. QED BY <1>1, ConcatProperties

\* The innermost trigger of t is replaced, ends, or is followed by another.
LEMMA TopReplaced ==
  ASSUME TypeOK, NEW t \in Threads, stack[t] # <<>>, NEW g \in Frame, SetTop(t, g)
  PROVE  /\ stack' \in [Threads -> Seq(Frame)]
         /\ Top(t) = stack[t][1] /\ Top(t) \in Frame /\ 1 \in DOMAIN stack[t]
         /\ \A u \in Threads : Len(stack'[u]) = Len(stack[u]) /\ DOMAIN stack'[u] = DOMAIN stack[u]
         /\ \A u \in Threads : \A i \in DOMAIN stack[u] :
              stack'[u][i] = IF u = t /\ i = 1 THEN g ELSE stack[u][i]
<1> DEFINE q == Tail(stack[t])
<1>1. stack[t] \in Seq(Frame)
  BY DEF TypeOK
<1>2. /\ Head(stack[t]) \in Frame /\ q \in Seq(Frame) /\ 1 \in DOMAIN stack[t] /\ Head(stack[t]) = stack[t][1]
      /\ Len(q) = Len(stack[t]) - 1
      /\ \A i \in DOMAIN stack[t] : i = 1 \/ (i - 1 \in DOMAIN q /\ q[i - 1] = stack[t][i])
  BY <1>1, Taken
<1>3. stack' = [stack EXCEPT ![t] = <<g>> \o q]
  BY DEF SetTop
<1> HIDE DEF q
<1>4. /\ <<g>> \o q \in Seq(Frame) /\ Len(<<g>> \o q) = Len(q) + 1
      /\ (<<g>> \o q)[1] = g
      /\ \A i \in DOMAIN q : (<<g>> \o q)[i + 1] = q[i]
  BY <1>2, Pushed
<1>5. stack'[t] = <<g>> \o q /\ \A u \in Threads \ {t} : stack'[u] = stack[u]
  BY <1>3 DEF TypeOK
<1>6. stack' \in [Threads -> Seq(Frame)]
  BY <1>3, <1>4 DEF TypeOK
<1>7. Len(stack'[t]) = Len(stack[t]) /\ DOMAIN stack'[t] = DOMAIN stack[t]
  BY <1>1, <1>2, <1>4, <1>5
<1>8. ASSUME NEW i \in DOMAIN stack[t] PROVE stack'[t][i] = IF i = 1 THEN g ELSE stack[t][i]
  <2>1. CASE i = 1
    BY <2>1, <1>4, <1>5
  <2>2. CASE i # 1
    <3>1. i \in Nat
      BY <1>1
    <3>2. i - 1 \in DOMAIN q /\ q[i - 1] = stack[t][i]
      BY <2>2, <1>2
    <3>3. (<<g>> \o q)[(i - 1) + 1] = q[i - 1]
      BY <3>2, <1>4
    <3>4. (i - 1) + 1 = i
      BY <3>1
    <3>5. QED BY <3>2, <3>3, <3>4, <2>2, <1>5
  <2>3. QED BY <2>1, <2>2
<1>9. QED BY <1>2, <1>5, <1>6, <1>7, <1>8 DEF Top

LEMMA TopEntered ==
  ASSUME TypeOK, NEW t \in Threads, NEW g \in Frame, stack' = [stack EXCEPT ![t] = <<g>> \o @]
  PROVE  /\ stack' \in [Threads -> Seq(Frame)]
         /\ Len(stack'[t]) = Len(stack[t]) + 1 /\ Len(stack[t]) \in Nat
         /\ \A u \in Threads \ {t} : stack'[u] = stack[u]
         /\ 1 \in DOMAIN stack'[t] /\ stack'[t][1] = g
         /\ \A i \in DOMAIN stack'[t] :
              i = 1 \/ (i > 1 /\ i - 1 \in DOMAIN stack[t] /\ stack'[t][i] = stack[t][i - 1])
         /\ \A i \in DOMAIN stack[t] : i + 1 \in DOMAIN stack'[t] /\ stack'[t][i + 1] = stack[t][i]
<1> DEFINE q == stack[t]
<1>1. q \in Seq(Frame)
  BY DEF TypeOK
<1> HIDE DEF q
<1>2. /\ <<g>> \o q \in Seq(Frame) /\ Len(<<g>> \o q) = Len(q) + 1 /\ Len(q) \in Nat
      /\ (<<g>> \o q)[1] = g
      /\ \A i \in DOMAIN (<<g>> \o q) :
           \/ i = 1
           \/ i > 1 /\ i - 1 \in DOMAIN q /\ (<<g>> \o q)[i] = q[i - 1]
      /\ \A i \in DOMAIN q : i + 1 \in DOMAIN (<<g>> \o q) /\ (<<g>> \o q)[i + 1] = q[i]
  BY <1>1, Pushed
<1>3. stack'[t] = <<g>> \o q /\ \A u \in Threads \ {t} : stack'[u] = stack[u]
  BY DEF TypeOK, q
<1>4. stack' \in [Threads -> Seq(Frame)]
  BY <1>2 DEF TypeOK, q
<1>5. 1 \in DOMAIN stack'[t]
  BY <1>2, <1>3, <1>4
<1>6. q = stack[t]
  BY DEF q
<1>7. QED BY <1>2, <1>3, <1>4, <1>5, <1>6

LEMMA TopEnded ==
  ASSUME TypeOK, NEW t \in Threads, stack[t] # <<>>, stack' = [stack EXCEPT ![t] = Tail(@)]
  PROVE  /\ stack' \in [Threads -> Seq(Frame)]
         /\ Top(t) = stack[t][1] /\ Top(t) \in Frame /\ 1 \in DOMAIN stack[t]
         /\ Len(stack'[t]) = Len(stack[t]) - 1 /\ Len(stack[t]) \in Nat \ {0}
         /\ \A u \in Threads \ {t} : stack'[u] = stack[u]
         /\ \A i \in DOMAIN stack'[t] : i \in Nat /\ i + 1 \in DOMAIN stack[t] /\ stack'[t][i] = stack[t][i + 1]
         /\ \A i \in DOMAIN stack[t] : i = 1 \/ (i - 1 \in DOMAIN stack'[t] /\ stack'[t][i - 1] = stack[t][i])
<1>1. stack[t] \in Seq(Frame)
  BY DEF TypeOK
<1>2. stack'[t] = Tail(stack[t]) /\ \A u \in Threads \ {t} : stack'[u] = stack[u]
  BY DEF TypeOK
<1>3. Tail(stack[t]) \in Seq(Frame)
  BY <1>1, Taken
<1>4. stack' \in [Threads -> Seq(Frame)]
  BY <1>3 DEF TypeOK
<1>5. /\ Head(stack[t]) \in Frame /\ 1 \in DOMAIN stack[t] /\ Head(stack[t]) = stack[t][1]
      /\ Len(Tail(stack[t])) = Len(stack[t]) - 1 /\ Len(stack[t]) \in Nat \ {0}
      /\ \A i \in DOMAIN Tail(stack[t]) : i \in Nat /\ i + 1 \in DOMAIN stack[t] /\ Tail(stack[t])[i] = stack[t][i + 1]
      /\ \A i \in DOMAIN stack[t] : i = 1 \/ (i - 1 \in DOMAIN Tail(stack[t]) /\ Tail(stack[t])[i - 1] = stack[t][i])
  BY <1>1, Taken
<1>6. QED BY <1>2, <1>4, <1>5 DEF Top

-----------------------------------------------------------------------------
(* The frames that trigger makes.                                          *)

LEMMA FrameMade ==
  ASSUME TypeOK, NEW s \in Signals, NEW n \in 0 .. MaxTriggers
  PROVE  [sig |-> s, data |-> n, todo |-> conns[s], got |-> {}, upto |-> Len(book),
          hasDead |-> FALSE, pc |-> "check"] \in Frame
<1>1. conns[s] \subseteq Ids /\ Len(book) \in 0 .. MaxConns
  BY ObjectSignalAssumption DEF TypeOK, Ids
<1>2. QED BY <1>1 DEF Frame

LEMMA FrameMoves ==
  ASSUME TypeOK, NEW f \in Frame, f.todo # {}, f.todo \subseteq DOMAIN book
  PROVE  /\ Due(f) \in f.todo /\ Due(f) \in Ids
         /\ Skip(f) \in Frame
         /\ [f EXCEPT !.pc = "call"] \in Frame
         /\ [f EXCEPT !.got = @ \cup {Due(f)}, !.pc = "posted"] \in Frame
         /\ [f EXCEPT !.got = @ \cup {Due(f)}, !.pc = "calling"] \in Frame
         /\ AfterFiring(f) \in Frame
<1>1. Due(f) \in f.todo /\ Due(f) \in Ids
  BY DueIsTodo DEF Frame
<1>3. Skip(f) \in Frame
  BY DEF Frame, Skip
<1>4. AfterFiring(f) \in Frame
  <2>1. (f.hasDead \/ Once(Due(f))) \in BOOLEAN
    BY Zenon
  <2> DEFINE d == Due(f)  h == f.hasDead \/ Once(Due(f))
  <2>2. AfterFiring(f) = [f EXCEPT !.todo = @ \ {d}, !.pc = "check", !.hasDead = h]
    BY DEF AfterFiring
  <2>3. h \in BOOLEAN
    BY <2>1
  <2> HIDE DEF d, h
  <2>4. QED BY <2>2, <2>3 DEF Frame
<1>5. [f EXCEPT !.pc = "call"] \in Frame
  BY DEF Frame
<1>6. [f EXCEPT !.got = @ \cup {Due(f)}, !.pc = "posted"] \in Frame
  BY <1>1 DEF Frame
<1>7. [f EXCEPT !.got = @ \cup {Due(f)}, !.pc = "calling"] \in Frame
  BY <1>1 DEF Frame
<1>8. QED BY <1>1, <1>3, <1>4, <1>5, <1>6, <1>7

LEMMA ClosureMade ==
  ASSUME TypeOK, NEW f \in Frame, NEW c \in Ids
  PROVE  ClosureOf(c, f) \in Closure
<1>1. (f.sig # "deleted") \in BOOLEAN
  BY Zenon
<1>2. QED BY <1>1 DEF ClosureOf, Closure, Frame

-----------------------------------------------------------------------------
(* Types.                                                                  *)

LEMMA InitTyped == Init => TypeOK
<1> SUFFICES ASSUME Init PROVE TypeOK
  OBVIOUS
<1>1. \A S : <<>> \in Seq(S)
  OBVIOUS
<1>2. Len(book) = 0 /\ DOMAIN book = {}
  BY DEF Init
<1>3. use \in Uses /\ aliveObs \subseteq Observers
  BY ObjectSignalAssumption DEF Init, Use
<1>4. book \in Seq(Connection) /\ queue \in Seq(Closure) /\ Len(book) <= MaxConns
  BY <1>1, <1>2, ObjectSignalAssumption DEF Init
<1>5. stack \in [Threads -> Seq(Frame)] /\ ran \in [Ids -> Seq(0 .. MaxTriggers)]
  BY <1>1 DEF Init
<1>6. silent \in BOOLEAN
  BY Zenon DEF Init
<1>7. conns \in [Signals -> SUBSET DOMAIN book] /\ shot \subseteq DOMAIN book
  BY <1>2 DEF Init
<1>8. fired \in 0 .. MaxTriggers /\ sender \in {"up", "dying", "gone"}
  BY ObjectSignalAssumption DEF Init
<1>9. looked \in BOOLEAN
  BY Zenon DEF Init
<1>10. QED BY <1>3, <1>4, <1>5, <1>6, <1>7, <1>8, <1>9 DEF TypeOK

LEMMA TypedKept == TypeOK /\ FramesOk /\ Listed /\ [Next]_vars => TypeOK'
<1> SUFFICES ASSUME TypeOK, FramesOk, Listed, [Next]_vars PROVE TypeOK'
  OBVIOUS
<1>0. \A t \in use.threads : t \in Threads
  BY ObjectSignalAssumption DEF TypeOK, Use
<1>1. ASSUME NEW t \in Threads, NEW o \in Observers \cup {NULL}, NEW k \in use.kinds, Connect(t, o, k) PROVE TypeOK'
  <2>1. [kind |-> k, observer |-> o] \in Connection
    BY ObjectSignalAssumption DEF TypeOK, Use, Connection
  <2>2. book' \in Seq(Connection) /\ Len(book') = Len(book) + 1 /\ DOMAIN book' = 1 .. Len(book) + 1 /\ DOMAIN book = 1 .. Len(book)
    BY <1>1, <2>1 DEF Connect, TypeOK
  <2>3. conns' \in [Signals -> SUBSET DOMAIN book']
    <3>1. k.sig \in Signals /\ Len(book) \in Nat
      BY ObjectSignalAssumption DEF TypeOK, Use, Kinds
    <3>2. conns' = [conns EXCEPT ![k.sig] = @ \cup {Len(book) + 1}]
      BY <1>1 DEF Connect
    <3>3. \A s \in Signals : conns[s] \cup {Len(book) + 1} \subseteq DOMAIN book' /\ conns[s] \subseteq DOMAIN book'
      BY <2>2, <3>1 DEF TypeOK
    <3>4. QED BY <3>1, <3>2, <3>3 DEF TypeOK
  <2>4. Len(book') <= MaxConns /\ shot \subseteq DOMAIN book'
    BY <1>1, <2>2, ObjectSignalAssumption DEF Connect, TypeOK
  <2>5. QED BY <1>1, <2>2, <2>3, <2>4 DEF Connect, TypeOK
<1>2. ASSUME NEW t \in Threads, NEW o \in Observers, NEW S, Disconnect(t, o, S) PROVE TypeOK'
  BY <1>2 DEF Disconnect, TypeOK
<1>3. ASSUME NEW t \in Threads, NEW o \in Observers, DestroyObserver(t, o) PROVE TypeOK'
  BY <1>3 DEF DestroyObserver, TypeOK
<1>4. ASSUME NEW t \in Threads, NEW on \in BOOLEAN, SetSilent(t, on) PROVE TypeOK'
  BY <1>4 DEF SetSilent, TypeOK
<1>5. ASSUME NEW t \in Threads, Trigger(t) PROVE TypeOK'
  <2>1. fired + 1 \in 0 .. MaxTriggers
    BY <1>5, ObjectSignalAssumption DEF Trigger, TypeOK
  <2>2. stack' \in [Threads -> Seq(Frame)]
    <3>1. PICK g \in Frame : stack' = [stack EXCEPT ![t] = <<g>> \o @]
      BY <1>5, <2>1, FrameMade DEF Trigger, Enter, Signals
    <3>2. QED BY <3>1, TopEntered
  <2>3. QED BY <1>5, <2>1, <2>2 DEF Trigger, TypeOK
<1>6. ASSUME NEW t \in Threads, DestroySender(t) PROVE TypeOK'
  <2>1. 0 \in 0 .. MaxTriggers /\ "deleted" \in Signals
    BY ObjectSignalAssumption DEF Signals
  <2>2. stack' \in [Threads -> Seq(Frame)]
    <3>1. PICK g \in Frame : stack' = [stack EXCEPT ![t] = <<g>> \o @]
      BY <1>6, <2>1, FrameMade DEF DestroySender, Enter
    <3>2. QED BY <3>1, TopEntered
  <2>3. QED BY <1>6, <2>2 DEF DestroySender, TypeOK
<1>7. ASSUME NEW t \in Threads, stack[t] # <<>> PROVE Top(t) \in Frame /\ FrameOk(Top(t)) /\ Top(t).todo \subseteq DOMAIN book
  <2>1. Top(t) \in Frame /\ Top(t) = stack[t][1] /\ 1 \in DOMAIN stack[t]
    BY <1>7, Taken DEF TypeOK, Top
  <2>2. FrameOk(Top(t))
    BY <2>1 DEF FramesOk
  <2>3. QED BY <2>1, <2>2 DEF FrameOk, OfSig
<1>8. ASSUME NEW t \in Threads, Check(t) PROVE TypeOK'
  <2>1. stack[t] # <<>>
    BY <1>8 DEF Check
  <2>2. PICK g \in Frame : SetTop(t, g)
    BY <1>8, <1>7, FrameMoves DEF Check
  <2>3. stack' \in [Threads -> Seq(Frame)]
    BY <2>1, <2>2, TopReplaced
  <2>4. QED BY <1>8, <2>3 DEF Check, TypeOK
<1>9. ASSUME NEW t \in Threads, Dispatch(t) PROVE TypeOK'
  <2>1. stack[t] # <<>>
    BY <1>9 DEF Dispatch
  <2>2. PICK f \in Frame : f = Top(t) /\ FrameOk(f) /\ f.todo \subseteq DOMAIN book
    BY <2>1, <1>7
  <2>3. f.pc = "call" /\ f.todo # {}
    BY <1>9, <2>2 DEF Dispatch, FrameOk
  <2>4. Due(f) \in Ids
    BY <2>2, <2>3, FrameMoves
  <2>5. PICK g \in Frame : SetTop(t, g)
    BY <1>9, <2>2, <2>3, FrameMoves DEF Dispatch
  <2>6. stack' \in [Threads -> Seq(Frame)]
    BY <2>1, <2>5, TopReplaced
  <2>7. queue' \in Seq(Closure)
    <3>1. ClosureOf(Due(f), f) \in Closure
      BY <2>4, ClosureMade
    <3>2. queue' = queue \/ queue' = Append(queue, ClosureOf(Due(f), f))
      BY <1>9, <2>2 DEF Dispatch, Post
    <3>3. queue \in Seq(Closure)
      BY DEF TypeOK
    <3>4. QED BY <3>1, <3>2, <3>3, Added
  <2>8. ran' \in [Ids -> Seq(0 .. MaxTriggers)]
    <3>1. Append(ran[Due(f)], f.data) \in Seq(0 .. MaxTriggers)
      BY <2>4 DEF TypeOK, Frame
    <3>2. QED BY <1>9, <2>2, <3>1 DEF Dispatch, TypeOK
  <2>9. QED BY <1>9, <2>6, <2>7, <2>8 DEF Dispatch, TypeOK
<1>10. ASSUME NEW t \in Threads, Fired(t) PROVE TypeOK'
  <2>1. stack[t] # <<>>
    BY <1>10 DEF Fired
  <2>2. PICK f \in Frame : f = Top(t) /\ FrameOk(f) /\ f.todo \subseteq DOMAIN book
    BY <2>1, <1>7
  <2>3. f.todo # {}
    BY <1>10, <2>2 DEF Fired, FrameOk
  <2>4. Due(f) \in DOMAIN book
    BY <2>2, <2>3, FrameMoves
  <2>5. PICK g \in Frame : SetTop(t, g)
    BY <1>10, <2>2, <2>3, FrameMoves DEF Fired
  <2>6. stack' \in [Threads -> Seq(Frame)]
    BY <2>1, <2>5, TopReplaced
  <2>7. shot' \subseteq DOMAIN book
    BY <1>10, <2>2, <2>4 DEF Fired, TypeOK
  <2>8. QED BY <1>10, <2>6, <2>7 DEF Fired, TypeOK
<1>11. ASSUME NEW t \in Threads, Finish(t) PROVE TypeOK'
  <2>1. stack' \in [Threads -> Seq(Frame)]
    BY <1>11, TopEnded DEF Finish
  <2>2. conns' \in [Signals -> SUBSET DOMAIN book]
    BY <1>11 DEF Finish, Swept, TypeOK
  <2>3. sender' \in {"up", "dying", "gone"}
    BY <1>11 DEF Finish, TypeOK
  <2>4. QED BY <1>11, <2>1, <2>2, <2>3 DEF Finish, TypeOK
<1>12. CASE LookPosted \/ RunPosted
  <2>0. looked' \in BOOLEAN
    BY <1>12 DEF LookPosted, RunPosted, TypeOK
  <2>1. Head(queue) \in Closure /\ Tail(queue) \in Seq(Closure)
    BY <1>12, Taken DEF LookPosted, RunPosted, TypeOK
  <2>2. ran' \in [Ids -> Seq(0 .. MaxTriggers)]
    <3>1. Append(ran[Head(queue).conn], Head(queue).data) \in Seq(0 .. MaxTriggers)
      BY <2>1 DEF TypeOK, Closure
    <3>2. QED BY <1>12, <3>1 DEF LookPosted, RunPosted, TypeOK
  <2>3. QED BY <1>12, <2>0, <2>1, <2>2 DEF LookPosted, RunPosted, TypeOK
<1>13. CASE UNCHANGED vars
  BY <1>13 DEF vars, TypeOK
<1>14. ASSUME NEW o \in Observers PROVE o \in Observers \cup {NULL}
  OBVIOUS
<1>15. \A o \in use.observers : o \in Observers
  BY ObjectSignalAssumption DEF TypeOK, Use
<1>16. QED BY <1>0, <1>1, <1>2, <1>3, <1>4, <1>5, <1>6, <1>8, <1>9, <1>10, <1>11, <1>12, <1>13, <1>15 DEF Next

-----------------------------------------------------------------------------
(* What every step does to the book and to the stacks.                     *)

Grows ==
  /\ Len(book) <= Len(book') /\ fired <= fired'
  /\ \A c \in DOMAIN book : c \in DOMAIN book' /\ book'[c] = book[c]

Entered(t, g) == stack' = [stack EXCEPT ![t] = <<g>> \o @]
Ended(t) == stack[t] # <<>> /\ stack' = [stack EXCEPT ![t] = Tail(@)]
Replaced(t, g) == stack[t] # <<>> /\ SetTop(t, g)

\* The loop is done with the oldest closure, whose callback has run or not.
Drains ==
  /\ queue # <<>> /\ queue' = Tail(queue)
  /\ UNCHANGED ran \/ ran' = [ran EXCEPT ![Head(queue).conn] = Append(@, Head(queue).data)]
  /\ UNCHANGED <<use, aliveObs, sender, silent, book, conns, shot, stack, fired>>

LEMMA LoopSteps ==
  ASSUME LookPosted \/ RunPosted
  PROVE  Drains \/ UNCHANGED <<use, aliveObs, sender, silent, book, conns, shot, stack, queue, fired, ran>>
BY DEF LookPosted, RunPosted, Drains

LEMMA BookGrows == TypeOK /\ [Next]_vars => Grows
<1> SUFFICES ASSUME TypeOK, [Next]_vars PROVE Grows
  OBVIOUS
<1>0. Len(book) \in Nat /\ DOMAIN book = 1 .. Len(book) /\ fired \in Nat
  BY ObjectSignalAssumption DEF TypeOK
<1>1. ASSUME NEW t, NEW o, NEW k, Connect(t, o, k) PROVE Grows
  BY <1>1, <1>0 DEF Connect, Grows, TypeOK
<1>2. ASSUME UNCHANGED book, fired' = fired \/ fired' = fired + 1 PROVE Grows
  BY <1>2, <1>0 DEF Grows
<1>3. CASE UNCHANGED vars
  BY <1>2, <1>3 DEF vars
<1>4. CASE LookPosted \/ RunPosted
  BY <1>2, <1>4 DEF LookPosted, RunPosted
<1>5. ASSUME NEW t, NEW o, NEW S, Disconnect(t, o, S) PROVE Grows
  BY <1>2, <1>5 DEF Disconnect
<1>6. ASSUME NEW t, NEW o, DestroyObserver(t, o) PROVE Grows
  BY <1>2, <1>6 DEF DestroyObserver
<1>7. ASSUME NEW t, NEW on, SetSilent(t, on) PROVE Grows
  BY <1>2, <1>7 DEF SetSilent
<1>8. ASSUME NEW t, Trigger(t) \/ DestroySender(t) PROVE Grows
  BY <1>2, <1>8 DEF Trigger, DestroySender
<1>9. ASSUME NEW t, Check(t) \/ Dispatch(t) \/ Fired(t) \/ Finish(t) PROVE Grows
  BY <1>2, <1>9 DEF Check, Dispatch, Fired, Finish
<1>10. QED BY <1>1, <1>3, <1>4, <1>5, <1>6, <1>7, <1>8, <1>9 DEF Next

LEMMA TopKnown ==
  ASSUME TypeOK, FramesOk, NEW t \in Threads, stack[t] # <<>>
  PROVE  /\ Top(t) \in Frame /\ Top(t) = stack[t][1] /\ 1 \in DOMAIN stack[t]
         /\ FrameOk(Top(t)) /\ Top(t).todo \subseteq DOMAIN book
<1>1. Top(t) \in Frame /\ Top(t) = stack[t][1] /\ 1 \in DOMAIN stack[t]
  BY Taken DEF TypeOK, Top
<1>2. FrameOk(Top(t))
  BY <1>1 DEF FramesOk
<1>3. QED BY <1>1, <1>2 DEF FrameOk, OfSig

LEMMA FrameStays ==
  ASSUME TypeOK, TypeOK', Grows, NEW f \in Frame, FrameOk(f)
  PROVE  FrameOk(f)'
<1>1. f.upto \in Nat /\ f.data \in Nat /\ Len(book) \in Nat /\ fired \in Nat /\ Len(book') \in Nat /\ fired' \in Nat
  BY ObjectSignalAssumption DEF TypeOK, Frame, Grows
<1>2. f.upto <= Len(book') /\ f.data <= fired'
  BY <1>1 DEF Grows, FrameOk
<1>3. f.todo \subseteq OfSig(f.sig)'
  BY DEF Grows, FrameOk, OfSig
<1>4. QED BY <1>2, <1>3 DEF FrameOk, Due

LEMMA NewTopOk ==
  ASSUME TypeOK, TypeOK', FramesOk, Grows, NEW t \in Threads, NEW g \in Frame, FrameOk(g)',
         Entered(t, g) \/ Replaced(t, g)
  PROVE  FramesOk'
<1> SUFFICES ASSUME NEW u \in Threads, NEW i \in DOMAIN stack'[u] PROVE FrameOk(stack[u][i])'
  BY DEF FramesOk
<1>1. stack'[u][i] = g \/ \E j \in DOMAIN stack[u] : stack'[u][i] = stack[u][j]
  BY TopEntered, TopReplaced DEF Entered, Replaced
<1>2. CASE stack'[u][i] = g
  BY <1>2 DEF FrameOk, Due, OfSig
<1>3. ASSUME NEW j \in DOMAIN stack[u], stack'[u][i] = stack[u][j] PROVE FrameOk(stack[u][i])'
  <2>1. PICK f \in Frame : f = stack[u][j] /\ FrameOk(f)
    BY DEF FramesOk, TypeOK
  <2>2. FrameOk(f)'
    BY <2>1, FrameStays
  <2>3. f = stack'[u][i]
    BY <2>1, <1>3
  <2>4. QED BY <2>2, <2>3 DEF FrameOk, Due, OfSig
<1>4. QED BY <1>1, <1>2, <1>3

LEMMA OldStackOk ==
  ASSUME TypeOK, TypeOK', FramesOk, Grows, NEW t \in Threads, UNCHANGED stack \/ Ended(t)
  PROVE  FramesOk'
<1> SUFFICES ASSUME NEW u \in Threads, NEW i \in DOMAIN stack'[u] PROVE FrameOk(stack[u][i])'
  BY DEF FramesOk
<1>1. PICK j \in DOMAIN stack[u] : stack'[u][i] = stack[u][j]
  BY TopEnded DEF Ended
<1>2. PICK f \in Frame : f = stack[u][j] /\ FrameOk(f)
  BY DEF FramesOk, TypeOK
<1>3. FrameOk(f)'
  BY <1>2, FrameStays
<1>4. f = stack'[u][i]
  BY <1>2, <1>1
<1>5. QED BY <1>3, <1>4 DEF FrameOk, Due, OfSig

\* The steps of a trigger.
Opening(t, g) ==
  /\ Entered(t, g)
  /\ g.sig \in Signals /\ g.todo = conns[g.sig] /\ g.got = {} /\ g.upto = Len(book)
  /\ g.pc = "check" /\ ~ g.hasDead
  /\ \/ Trigger(t) /\ g.sig = "changed" /\ g.data = fired + 1
     \/ DestroySender(t) /\ g.sig = "deleted" /\ g.data = 0

LEMMA Begins ==
  ASSUME TypeOK, NEW t \in Threads, Trigger(t) \/ DestroySender(t)
  PROVE  \E g \in Frame : Opening(t, g)
<1>1. CASE Trigger(t)
  <2>1. fired + 1 \in 0 .. MaxTriggers /\ "changed" \in Signals
    BY <1>1, ObjectSignalAssumption DEF Trigger, TypeOK, Signals
  <2>2. QED BY <1>1, <2>1, FrameMade DEF Trigger, Enter, Entered, Opening
<1>2. CASE DestroySender(t)
  <2>1. 0 \in 0 .. MaxTriggers /\ "deleted" \in Signals
    BY ObjectSignalAssumption DEF Signals
  <2>2. QED BY <1>2, <2>1, FrameMade DEF DestroySender, Enter, Entered, Opening
<1>3. QED BY <1>1, <1>2

Passes(f, c, g) ==
  /\ f.pc = "check" /\ IsDead(c)
  /\ g.todo = f.todo \ {c} /\ g.got = f.got /\ g.pc = "check" /\ g.hasDead
Chooses(f, c, g) ==
  /\ f.pc = "check" /\ ~ IsDead(c)
  /\ g.todo = f.todo /\ g.got = f.got /\ g.pc = "call" /\ g.hasDead = f.hasDead
Calls(f, c, g) ==
  /\ f.pc = "call"
  /\ g.todo = f.todo /\ g.got = f.got \cup {c} /\ g.hasDead = f.hasDead
  /\ \/ /\ book[c].kind.queued /\ g.pc = "posted"
        /\ queue' = Append(queue, ClosureOf(c, f)) /\ UNCHANGED ran
     \/ /\ ~ book[c].kind.queued /\ g.pc = "calling"
        /\ ran' = [ran EXCEPT ![c] = Append(@, f.data)] /\ UNCHANGED queue
GoesOn(f, c, g) ==
  /\ f.pc \in {"calling", "posted"}
  /\ g.todo = f.todo \ {c} /\ g.got = f.got /\ g.pc = "check" /\ g.hasDead = (f.hasDead \/ Once(c))
  /\ shot' = IF Once(c) THEN shot \cup {c} ELSE shot

Proceeding(t, f, c, g) ==
  /\ stack[t] # <<>> /\ f = stack[t][1] /\ 1 \in DOMAIN stack[t] /\ Replaced(t, g) /\ FrameOk(f)
  /\ c = Due(f) /\ c \in f.todo /\ c \in DOMAIN book
  /\ g.sig = f.sig /\ g.data = f.data /\ g.upto = f.upto
  /\ \/ Check(t) /\ Passes(f, c, g)
     \/ Check(t) /\ Chooses(f, c, g)
     \/ Dispatch(t) /\ Calls(f, c, g)
     \/ Fired(t) /\ GoesOn(f, c, g)

LEMMA Proceeds ==
  ASSUME TypeOK, FramesOk, NEW t \in Threads, Check(t) \/ Dispatch(t) \/ Fired(t)
  PROVE  \E f, g \in Frame, c \in Ids : Proceeding(t, f, c, g)
<1>1. stack[t] # <<>>
  BY DEF Check, Dispatch, Fired
<1>2. PICK f \in Frame : f = Top(t) /\ f = stack[t][1] /\ 1 \in DOMAIN stack[t] /\ FrameOk(f) /\ f.todo \subseteq DOMAIN book
  BY <1>1, TopKnown
<1>3. f.todo # {}
  BY <1>2 DEF Check, Dispatch, Fired, FrameOk
<1>4. PICK c \in Ids : c = Due(f) /\ c \in f.todo /\ c \in DOMAIN book
  BY <1>2, <1>3, FrameMoves
<1>5. CASE Check(t)
  <2>1. f.pc = "check"
    BY <1>2, <1>5 DEF Check
  <2>2. CASE IsDead(c) /\ SetTop(t, Skip(f))
    <3>1. PICK g \in Frame : g = Skip(f)
      BY <1>2, <1>3, FrameMoves
    <3>2. g = [f EXCEPT !.todo = @ \ {c}, !.hasDead = TRUE]
      BY <3>1, <1>4 DEF Skip
    <3>3. Passes(f, c, g) /\ g.sig = f.sig /\ g.data = f.data /\ g.upto = f.upto
      BY <2>1, <2>2, <3>2 DEF Passes, Frame
    <3>4. Replaced(t, g)
      BY <1>1, <2>2, <3>1 DEF Replaced
    <3>5. QED BY <1>1, <1>2, <1>4, <1>5, <3>3, <3>4 DEF Proceeding
  <2>3. CASE ~ IsDead(c) /\ SetTop(t, [f EXCEPT !.pc = "call"])
    <3>1. PICK g \in Frame : g = [f EXCEPT !.pc = "call"]
      BY <1>2, <1>3, FrameMoves
    <3>3. Chooses(f, c, g) /\ g.sig = f.sig /\ g.data = f.data /\ g.upto = f.upto
      BY <2>1, <2>3, <3>1 DEF Chooses, Frame
    <3>4. Replaced(t, g)
      BY <1>1, <2>3, <3>1 DEF Replaced
    <3>5. QED BY <1>1, <1>2, <1>4, <1>5, <3>3, <3>4 DEF Proceeding
  <2>4. QED BY <1>2, <1>4, <1>5, <2>2, <2>3 DEF Check
<1>6. CASE Dispatch(t)
  <2>1. f.pc = "call"
    BY <1>2, <1>6 DEF Dispatch
  <2>2. CASE /\ book[c].kind.queued
             /\ queue' = Append(queue, ClosureOf(c, f)) /\ UNCHANGED ran
             /\ SetTop(t, [f EXCEPT !.got = @ \cup {c}, !.pc = "posted"])
    <3>1. PICK g \in Frame : g = [f EXCEPT !.got = @ \cup {c}, !.pc = "posted"]
      BY <1>2, <1>3, <1>4, FrameMoves
    <3>3. Calls(f, c, g) /\ g.sig = f.sig /\ g.data = f.data /\ g.upto = f.upto
      BY <2>1, <2>2, <3>1 DEF Calls, Frame
    <3>4. Replaced(t, g)
      BY <1>1, <2>2, <3>1 DEF Replaced
    <3>5. QED BY <1>1, <1>2, <1>4, <1>6, <3>3, <3>4 DEF Proceeding
  <2>3. CASE /\ ~ book[c].kind.queued
             /\ ran' = [ran EXCEPT ![c] = Append(@, f.data)] /\ UNCHANGED queue
             /\ SetTop(t, [f EXCEPT !.got = @ \cup {c}, !.pc = "calling"])
    <3>1. PICK g \in Frame : g = [f EXCEPT !.got = @ \cup {c}, !.pc = "calling"]
      BY <1>2, <1>3, <1>4, FrameMoves
    <3>3. Calls(f, c, g) /\ g.sig = f.sig /\ g.data = f.data /\ g.upto = f.upto
      BY <2>1, <2>3, <3>1 DEF Calls, Frame
    <3>4. Replaced(t, g)
      BY <1>1, <2>3, <3>1 DEF Replaced
    <3>5. QED BY <1>1, <1>2, <1>4, <1>6, <3>3, <3>4 DEF Proceeding
  <2>4. QED BY <1>2, <1>4, <1>6, <2>2, <2>3 DEF Dispatch, Post
<1>7. CASE Fired(t)
  <2>1. f.pc \in {"calling", "posted"} /\ SetTop(t, AfterFiring(f)) /\ shot' = IF Once(c) THEN shot \cup {c} ELSE shot
    BY <1>2, <1>4, <1>7 DEF Fired
  <2>2. PICK g \in Frame : g = AfterFiring(f)
    BY <1>2, <1>3, FrameMoves
  <2>3. g = [f EXCEPT !.todo = @ \ {c}, !.pc = "check", !.hasDead = @ \/ Once(c)]
    BY <2>2, <1>4 DEF AfterFiring
  <2>4. /\ g.todo = f.todo \ {c} /\ g.got = f.got /\ g.pc = "check"
        /\ g.sig = f.sig /\ g.data = f.data /\ g.upto = f.upto
    BY <2>3 DEF Frame
  <2>5. g.hasDead = (f.hasDead \/ Once(c))
    BY <2>3, Zenon DEF Frame
  <2>6. GoesOn(f, c, g)
    BY <2>1, <2>4, <2>5 DEF GoesOn
  <2>7. Replaced(t, g)
    BY <1>1, <2>1, <2>2 DEF Replaced
  <2>8. QED BY <1>1, <1>2, <1>4, <1>7, <2>4, <2>6, <2>7 DEF Proceeding
<1>8. QED BY <1>5, <1>6, <1>7

LEMMA FramesKept == TypeOK /\ TypeOK' /\ FramesOk /\ Listed /\ [Next]_vars => FramesOk'
<1> SUFFICES ASSUME TypeOK, TypeOK', FramesOk, Listed, [Next]_vars PROVE FramesOk'
  OBVIOUS
<1>0. Grows
  BY BookGrows
<1>1. ASSUME NEW t \in Threads, Trigger(t) \/ DestroySender(t) PROVE FramesOk'
  <2>1. PICK g \in Frame : Opening(t, g)
    BY <1>1, Begins
  <2>2. book' = book /\ Len(book) <= Len(book) /\ g.data <= fired'
    BY <2>1, ObjectSignalAssumption DEF TypeOK, Trigger, DestroySender, Opening
  <2>3. FrameOk(g)'
    BY <2>1, <2>2 DEF FrameOk, OfSig, Listed, Opening
  <2>4. QED BY <1>0, <2>1, <2>3, NewTopOk DEF Opening, Proceeding
<1>2. ASSUME NEW t \in Threads, Check(t) \/ Dispatch(t) \/ Fired(t) PROVE FramesOk'
  <2>1. PICK f, g \in Frame, c \in Ids : Proceeding(t, f, c, g)
    BY <1>2, Proceeds
  <2>2. FrameOk(g)
    <3>1. g.todo \subseteq f.todo
      BY <2>1 DEF Proceeding, Passes, Chooses, Calls, GoesOn
    <3>2. g.todo \cap g.got = IF g.pc \in {"calling", "posted"} THEN {Due(g)} ELSE {}
      BY <2>1 DEF Proceeding, Passes, Chooses, Calls, GoesOn, FrameOk, Due
    <3>3. g.pc # "check" => g.todo # {}
      BY <2>1 DEF Proceeding, Passes, Chooses, Calls, GoesOn
    <3>4. QED BY <2>1, <3>1, <3>2, <3>3 DEF FrameOk, Proceeding
  <2>3. FrameOk(g)'
    BY <1>0, <2>2, FrameStays DEF Proceeding
  <2>4. QED BY <1>0, <2>1, <2>3, NewTopOk DEF Opening, Proceeding
<1>3. ASSUME NEW t \in Threads, Finish(t) PROVE FramesOk'
  BY <1>0, <1>3, OldStackOk DEF Finish, Ended
<1>4. ASSUME NEW t \in Threads, UNCHANGED stack PROVE FramesOk'
  BY <1>0, <1>4, OldStackOk
<1>5. CASE UNCHANGED stack
  BY <1>4, <1>5 DEF FramesOk
<1>6. QED
  <2>1. \A t \in use.threads : t \in Threads
    BY ObjectSignalAssumption DEF TypeOK, Use
  <2>2. QED BY <1>1, <1>2, <1>3, <1>5, <2>1 DEF Next, vars, Connect, Disconnect, DestroyObserver, SetSilent, LookPosted, RunPosted

-----------------------------------------------------------------------------
(* Lists, closures and the last trigger.                                   *)

LEMMA ListedKept == TypeOK /\ TypeOK' /\ Listed /\ [Next]_vars => Listed'
<1> SUFFICES ASSUME TypeOK, TypeOK', Listed, [Next]_vars PROVE Listed'
  OBVIOUS
<1>0. Grows
  BY BookGrows
<1>1. ASSUME NEW s \in Signals PROVE OfSig(s) \subseteq OfSig(s)'
  BY <1>0 DEF Grows, OfSig
<1>2. CASE \A s \in Signals : conns'[s] \subseteq conns[s]
  BY <1>1, <1>2 DEF Listed
<1>3. ASSUME NEW t \in Threads, NEW o \in Observers \cup {NULL}, NEW k \in use.kinds, Connect(t, o, k) PROVE Listed'
  <2> SUFFICES ASSUME NEW s \in Signals, NEW c \in conns'[s] PROVE c \in OfSig(s)'
    BY DEF Listed
  <2>1. k.sig \in Signals /\ Len(book) \in Nat
    BY ObjectSignalAssumption DEF TypeOK, Use, Kinds
  <2>2. c \in conns[s] \/ (c = Len(book) + 1 /\ s = k.sig)
    BY <1>3, <2>1 DEF Connect, TypeOK
  <2>3. c = Len(book) + 1 => book'[c].kind = k /\ c \in DOMAIN book'
    BY <1>3, <2>1 DEF Connect, TypeOK
  <2>4. QED BY <1>1, <2>2, <2>3 DEF Listed, OfSig
<1>4. ASSUME NEW t, NEW o, NEW S, Disconnect(t, o, S) PROVE Listed'
  BY <1>4, <1>2 DEF Disconnect
<1>5. ASSUME NEW t, Finish(t) PROVE Listed'
  <2>1. Top(t).sig \in Signals => \A s \in Signals : conns'[s] \subseteq conns[s]
    BY <1>5 DEF Finish, Swept, TypeOK
  <2>2. Top(t).sig \in Signals
    BY <1>5 DEF Finish, Signals
  <2>3. QED BY <2>1, <2>2, <1>2
<1>6. CASE UNCHANGED conns
  BY <1>6, <1>2
<1>7. QED
  <2>1. \A t \in use.threads : t \in Threads
    BY ObjectSignalAssumption DEF TypeOK, Use
  <2>2. QED BY <2>1, <1>3, <1>4, <1>5, <1>6 DEF Next, vars, DestroyObserver, SetSilent, Trigger, DestroySender,
       Check, Dispatch, Fired, LookPosted, RunPosted

LEMMA ClosureStays ==
  ASSUME TypeOK, TypeOK', Grows, NEW q \in Closure, ClosureOk(q)
  PROVE  ClosureOk(q)'
<1>1. q.data \in Nat /\ fired \in Nat /\ fired' \in Nat
  BY ObjectSignalAssumption DEF TypeOK, Closure
<1>2. q.data <= fired'
  BY <1>1 DEF Grows, ClosureOk
<1>3. QED BY <1>2 DEF Grows, ClosureOk

LEMMA ClosuresKept == TypeOK /\ TypeOK' /\ FramesOk /\ ClosuresOk /\ [Next]_vars => ClosuresOk'
<1> SUFFICES ASSUME TypeOK, TypeOK', FramesOk, ClosuresOk, [Next]_vars,
                    NEW j \in DOMAIN queue'
             PROVE  ClosureOk(queue[j])'
  BY DEF ClosuresOk
<1>0. Grows
  BY BookGrows
<1>1. ASSUME NEW i \in DOMAIN queue, queue'[j] = queue[i] PROVE ClosureOk(queue[j])'
  <2>1. PICK q \in Closure : q = queue[i] /\ ClosureOk(q)
    BY DEF ClosuresOk, TypeOK
  <2>2. ClosureOk(q)'
    BY <1>0, <2>1, ClosureStays
  <2>3. q = queue'[j]
    BY <2>1, <1>1
  <2>4. QED BY <2>2, <2>3 DEF ClosureOk
<1>2. CASE UNCHANGED queue
  BY <1>1, <1>2
<1>3. CASE Drains
  <2>1. queue # <<>> /\ queue' = Tail(queue) /\ queue \in Seq(Closure)
    BY <1>3 DEF Drains, TypeOK
  <2>2. j + 1 \in DOMAIN queue /\ queue'[j] = queue[j + 1]
    BY <2>1, Taken
  <2>3. QED BY <2>2, <1>1
<1>4. ASSUME NEW t \in Threads, Dispatch(t) PROVE ClosureOk(queue[j])'
  <2>1. PICK f, g \in Frame, c \in Ids : Proceeding(t, f, c, g)
    BY <1>4, Proceeds
  <2>2. UNCHANGED <<book, fired>>
    BY <1>4 DEF Dispatch
  <2>3. CASE queue' = Append(queue, ClosureOf(c, f)) /\ book[c].kind.queued
    <3>1. PICK q \in Closure : q = ClosureOf(c, f)
      BY ClosureMade
    <3>2. book[c].kind.sig = f.sig /\ f.data <= fired /\ c \in DOMAIN book
      BY <2>1 DEF Proceeding, FrameOk, OfSig
    <3>3. ClosureOk(q)
      BY <2>3, <3>1, <3>2 DEF ClosureOk, ClosureOf
    <3>4. ClosureOk(q)'
      BY <1>0, <3>3, ClosureStays
    <3>5. queue'[j] = q \/ (j \in DOMAIN queue /\ queue'[j] = queue[j])
      <4>1. queue \in Seq(Closure) /\ queue' = Append(queue, q)
        BY <2>3, <3>1 DEF TypeOK
      <4>2. \A i \in DOMAIN Append(queue, q) :
              (i = Len(queue) + 1 /\ Append(queue, q)[i] = q) \/ (i \in DOMAIN queue /\ Append(queue, q)[i] = queue[i])
        BY <4>1, Added
      <4>3. QED BY <4>1, <4>2
    <3>6. CASE queue'[j] = q
      BY <3>4, <3>6 DEF ClosureOk
    <3>7. QED BY <3>5, <3>6, <1>1
  <2>4. (queue' = Append(queue, ClosureOf(c, f)) /\ book[c].kind.queued) \/ UNCHANGED queue
    BY <1>4, <2>1 DEF Proceeding, Calls, Passes, Chooses, GoesOn, Check, Dispatch, Fired
  <2>5. QED BY <2>3, <2>4, <1>2
<1>5. QED
  <2>1. \A t \in use.threads : t \in Threads
    BY ObjectSignalAssumption DEF TypeOK, Use
  <2>2. QED BY <2>1, <1>2, <1>3, <1>4, LoopSteps DEF Next, vars, Connect, Disconnect, DestroyObserver, SetSilent, Trigger,
       DestroySender, Check, Fired, Finish

LEMMA EndingKept == TypeOK /\ TypeOK' /\ FramesOk /\ Ending /\ [Next]_vars => Ending'
<1> SUFFICES ASSUME TypeOK, TypeOK', FramesOk, Ending, [Next]_vars PROVE Ending'
  OBVIOUS
<1>1. CASE UNCHANGED <<stack, sender>>
  BY <1>1 DEF Ending
<1>2. ASSUME NEW t \in Threads, Trigger(t) PROVE Ending'
  <2>1. PICK g \in Frame : Opening(t, g)
    BY <1>2, Begins
  <2>2. Entered(t, g) /\ g.sig = "changed" /\ sender' = sender
    BY <1>2, <2>1 DEF Opening, Trigger, DestroySender
  <2> SUFFICES ASSUME NEW u \in Threads, NEW i \in DOMAIN stack'[u], stack'[u][i].sig = "deleted"
               PROVE  sender' = "dying" /\ i = Len(stack'[u]) /\ \A w \in Threads \ {u} : stack'[w] = <<>>
    BY DEF Ending
  <2>3. CASE u = t
    <3>0. i \in DOMAIN stack'[t] /\ stack'[t][i].sig = "deleted"
      BY <2>3
    <3>1. i > 1 /\ i - 1 \in DOMAIN stack[t] /\ stack'[t][i] = stack[t][i - 1]
      <4>1. /\ stack'[t][1] = g
            /\ i = 1 \/ (i > 1 /\ i - 1 \in DOMAIN stack[t] /\ stack'[t][i] = stack[t][i - 1])
        BY <2>2, <3>0, TopEntered DEF Entered
      <4>2. i # 1
        BY <2>2, <3>0, <4>1
      <4>3. QED BY <4>1, <4>2
    <3>2. sender = "dying" /\ i - 1 = Len(stack[t]) /\ \A w \in Threads \ {t} : stack[w] = <<>>
      BY <2>3, <3>1 DEF Ending
    <3>3. Len(stack'[t]) = Len(stack[t]) + 1 /\ Len(stack[t]) \in Nat /\ \A w \in Threads \ {t} : stack'[w] = stack[w]
      BY <2>2, TopEntered DEF Entered
    <3>4. i \in Nat
      BY <2>3 DEF TypeOK
    <3>5. QED BY <2>2, <2>3, <3>2, <3>3, <3>4
  <2>4. CASE u # t
    <3>1. stack'[u] = stack[u]
      BY <2>2, <2>4, TopEntered DEF Entered
    <3>2. sender = "dying" /\ stack[t] = <<>>
      BY <2>4, <3>1 DEF Ending
    <3>3. QED BY <1>2, <3>2 DEF Trigger, Free
  <2>5. QED BY <2>3, <2>4
<1>3. ASSUME NEW t \in Threads, DestroySender(t) PROVE Ending'
  <2>1. PICK g \in Frame : Opening(t, g)
    BY <1>3, Begins
  <2>2. Entered(t, g) /\ sender' = "dying" /\ \A u \in Threads : stack[u] = <<>>
    BY <1>3, <2>1 DEF Opening, DestroySender
  <2>3. Len(stack[t]) = 0
    BY <2>2
  <2>4. Len(stack'[t]) = 1 /\ \A u \in Threads \ {t} : stack'[u] = <<>>
    <3>1. Len(stack'[t]) = Len(stack[t]) + 1 /\ \A u \in Threads \ {t} : stack'[u] = stack[u]
      BY <2>2, TopEntered DEF Entered
    <3>2. QED BY <2>2, <2>3, <3>1
  <2>5. \A u \in Threads \ {t} : Len(stack'[u]) = 0
    BY <2>4
  <2>6. \A u \in Threads : \A i \in DOMAIN stack'[u] : u = t /\ i = 1
    BY <2>4, <2>5 DEF TypeOK
  <2>7. QED BY <2>2, <2>4, <2>6 DEF Ending
<1>4. ASSUME NEW t \in Threads, Check(t) \/ Dispatch(t) \/ Fired(t) PROVE Ending'
  <2>1. PICK f, g \in Frame, c \in Ids : Proceeding(t, f, c, g)
    BY <1>4, Proceeds
  <2>2. Replaced(t, g) /\ f = stack[t][1] /\ g.sig = f.sig /\ sender' = sender
    BY <1>4, <2>1 DEF Proceeding, Check, Dispatch, Fired
  <2>3. /\ 1 \in DOMAIN stack[t]
        /\ \A u \in Threads : Len(stack'[u]) = Len(stack[u]) /\ DOMAIN stack'[u] = DOMAIN stack[u]
        /\ \A u \in Threads : \A i \in DOMAIN stack[u] : stack'[u][i] = IF u = t /\ i = 1 THEN g ELSE stack[u][i]
    BY <2>2, TopReplaced DEF Replaced
  <2>4. \A u \in Threads : \A i \in DOMAIN stack[u] : stack'[u][i].sig = stack[u][i].sig
    BY <2>2, <2>3
  <2>5. \A u \in Threads : stack[u] = <<>> => stack'[u] = <<>>
    BY <2>3 DEF TypeOK
  <2>6. QED BY <2>2, <2>3, <2>4, <2>5 DEF Ending
<1>5. ASSUME NEW t \in Threads, Finish(t) PROVE Ending'
  <2>1. Ended(t) /\ (sender' = sender \/ Top(t).sig = "deleted")
    BY <1>5 DEF Finish, Ended
  <2>2. /\ Top(t) = stack[t][1] /\ 1 \in DOMAIN stack[t]
        /\ Len(stack'[t]) = Len(stack[t]) - 1 /\ Len(stack[t]) \in Nat \ {0}
        /\ \A u \in Threads \ {t} : stack'[u] = stack[u]
        /\ \A i \in DOMAIN stack'[t] : i \in Nat /\ i + 1 \in DOMAIN stack[t] /\ stack'[t][i] = stack[t][i + 1]
    BY <2>1, TopEnded DEF Ended
  <2>3. CASE Top(t).sig = "deleted"
    <3>1. Len(stack[t]) = 1 /\ \A u \in Threads \ {t} : stack[u] = <<>>
      BY <2>2, <2>3 DEF Ending
    <3>2. \A u \in Threads : Len(stack'[u]) = 0
      BY <2>2, <3>1
    <3>3. \A u \in Threads : DOMAIN stack'[u] = {}
      BY <3>2 DEF TypeOK
    <3>4. QED BY <3>3 DEF Ending
  <2>4. CASE sender' = sender
    <3> SUFFICES ASSUME NEW u \in Threads, NEW i \in DOMAIN stack'[u], stack'[u][i].sig = "deleted"
                 PROVE  sender' = "dying" /\ i = Len(stack'[u]) /\ \A w \in Threads \ {u} : stack'[w] = <<>>
      BY DEF Ending
    <3>1. CASE u = t
      <4>1. sender = "dying" /\ i + 1 = Len(stack[t]) /\ \A w \in Threads \ {t} : stack[w] = <<>>
        BY <2>2, <3>1 DEF Ending
      <4>2. QED BY <2>2, <2>4, <3>1, <4>1
    <3>2. CASE u # t
      <4>1. stack[t] = <<>>
        BY <2>2, <3>2 DEF Ending
      <4>2. QED BY <2>1, <4>1 DEF Ended
    <3>3. QED BY <3>1, <3>2
  <2>5. QED BY <2>1, <2>3, <2>4
<1>6. QED
  <2>1. \A t \in use.threads : t \in Threads
    BY ObjectSignalAssumption DEF TypeOK, Use
  <2>2. QED BY <2>1, <1>1, <1>2, <1>3, <1>4, <1>5 DEF Next, vars, Connect, Disconnect, DestroyObserver, SetSilent, LookPosted, RunPosted

-----------------------------------------------------------------------------
(* Who is reached, and who is swept.                                       *)

\* A dead connection stays dead, and only new connections join a list.
LEMMA ListsAge ==
  ASSUME TypeOK, FramesOk, [Next]_vars
  PROVE  /\ \A c \in DOMAIN book : IsDead(c) => IsDead(c)'
         /\ \A s \in Signals : \A c \in conns'[s] : c \in conns[s] \/ (c = Len(book) + 1 /\ UNCHANGED shot)
<1>0. Grows
  BY BookGrows
<1>1. aliveObs' \subseteq aliveObs /\ shot \subseteq shot'
  <2>1. CASE UNCHANGED <<aliveObs, shot>>
    BY <2>1
  <2>2. ASSUME NEW t, NEW o, DestroyObserver(t, o) PROVE aliveObs' \subseteq aliveObs /\ shot \subseteq shot'
    BY <2>2 DEF DestroyObserver
  <2>3. ASSUME NEW t, Fired(t) PROVE aliveObs' \subseteq aliveObs /\ shot \subseteq shot'
    BY <2>3 DEF Fired
  <2>4. QED BY <2>1, <2>2, <2>3 DEF Next, vars, Connect, Disconnect, SetSilent, Trigger, DestroySender, Check,
       Dispatch, Finish, LookPosted, RunPosted
<1>2. \A c \in DOMAIN book : IsDead(c) => IsDead(c)'
  BY <1>0, <1>1 DEF IsDead, ObserverDead, Observer, Grows
<1>3. \A s \in Signals : \A c \in conns'[s] : c \in conns[s] \/ (c = Len(book) + 1 /\ UNCHANGED shot)
  <2>1. CASE \A s \in Signals : conns'[s] \subseteq conns[s]
    BY <2>1
  <2>2. ASSUME NEW t, NEW o, NEW k, Connect(t, o, k)
        PROVE  \A s \in Signals : \A c \in conns'[s] : c \in conns[s] \/ (c = Len(book) + 1 /\ UNCHANGED shot)
    BY <2>2 DEF Connect, TypeOK
  <2>3. ASSUME NEW t, NEW o, NEW S, Disconnect(t, o, S) PROVE \A s \in Signals : conns'[s] \subseteq conns[s]
    BY <2>3 DEF Disconnect
  <2>4. ASSUME NEW t, Finish(t) PROVE \A s \in Signals : conns'[s] \subseteq conns[s]
    <3>1. Top(t).sig \in Signals
      BY <2>4 DEF Finish, Signals
    <3>2. QED BY <2>4, <3>1 DEF Finish, Swept, TypeOK
  <2>5. CASE UNCHANGED conns
    BY <2>5, <2>1
  <2>6. QED BY <2>1, <2>2, <2>3, <2>4, <2>5 DEF Next, vars, DestroyObserver, SetSilent, Trigger, DestroySender, Check,
       Dispatch, Fired, LookPosted, RunPosted
<1>4. QED BY <1>2, <1>3

LEMMA ReachStays ==
  ASSUME TypeOK, FramesOk, Listed, [Next]_vars, NEW f \in Frame, FrameOk(f), Reaches(f)
  PROVE  Reaches(f)'
<1> SUFFICES ASSUME NEW c \in conns'[f.sig], c <= f.upto, ~ IsDead(c)' PROVE c \in f.got \cup f.todo
  BY DEF Reaches
<1>1. f.sig \in Signals /\ f.upto \in Nat /\ Len(book) \in Nat /\ f.upto <= Len(book)
  BY ObjectSignalAssumption DEF Frame, FrameOk, TypeOK
<1>2. c \in conns[f.sig]
  BY <1>1, ListsAge
<1>3. c \in DOMAIN book
  BY <1>1, <1>2 DEF TypeOK
<1>4. ~ IsDead(c)
  BY <1>3, ListsAge
<1>5. QED BY <1>2, <1>4 DEF Reaches

LEMMA ReachedKept == TypeOK /\ TypeOK' /\ FramesOk /\ Listed /\ Reached /\ [Next]_vars => Reached'
<1> SUFFICES ASSUME TypeOK, TypeOK', FramesOk, Listed, Reached, [Next]_vars PROVE Reached'
  OBVIOUS
<1>1. ASSUME NEW u \in Threads, NEW i \in DOMAIN stack'[u], NEW j \in DOMAIN stack[u], stack'[u][i] = stack[u][j]
      PROVE  Reaches(stack[u][i])'
  <2>1. PICK f \in Frame : f = stack[u][j] /\ FrameOk(f) /\ Reaches(f)
    BY DEF FramesOk, Reached, TypeOK
  <2>2. Reaches(f)'
    BY <2>1, ReachStays
  <2>3. f = stack'[u][i]
    BY <2>1, <1>1
  <2>4. QED BY <2>2, <2>3 DEF Reaches
<1>2. CASE UNCHANGED stack
  BY <1>1, <1>2 DEF Reached
<1>3. ASSUME NEW t \in Threads, Finish(t) PROVE Reached'
  <2>1. \A u \in Threads : \A i \in DOMAIN stack'[u] : \E j \in DOMAIN stack[u] : stack'[u][i] = stack[u][j]
    <3>1. /\ \A u \in Threads \ {t} : stack'[u] = stack[u]
          /\ \A i \in DOMAIN stack'[t] : i + 1 \in DOMAIN stack[t] /\ stack'[t][i] = stack[t][i + 1]
      BY <1>3, TopEnded DEF Finish, Ended
    <3>2. \A u \in Threads \ {t} : DOMAIN stack'[u] = DOMAIN stack[u]
      BY <3>1
    <3>3. QED BY <3>1, <3>2
  <2>2. QED BY <1>1, <2>1 DEF Reached
<1>4. ASSUME NEW t \in Threads, NEW g \in Frame, Reaches(g)', Entered(t, g) \/ Replaced(t, g) PROVE Reached'
  <2> SUFFICES ASSUME NEW u \in Threads, NEW i \in DOMAIN stack'[u] PROVE Reaches(stack[u][i])'
    BY DEF Reached
  <2>1. stack'[u][i] = g \/ \E j \in DOMAIN stack[u] : stack'[u][i] = stack[u][j]
    <3>1. CASE Entered(t, g)
      <4>1. /\ \A w \in Threads \ {t} : stack'[w] = stack[w]
            /\ stack'[t][1] = g
            /\ \A j \in DOMAIN stack'[t] : j = 1 \/ (j - 1 \in DOMAIN stack[t] /\ stack'[t][j] = stack[t][j - 1])
        BY <3>1, TopEntered DEF Entered
      <4>2. u # t => stack'[u] = stack[u]
        BY <4>1
      <4>3. QED BY <4>1, <4>2
    <3>2. CASE Replaced(t, g)
      BY <3>2, TopReplaced DEF Replaced
    <3>3. QED BY <1>4, <3>1, <3>2
  <2>2. CASE stack'[u][i] = g
    BY <1>4, <2>2 DEF Reaches
  <2>3. QED BY <1>1, <2>1, <2>2
<1>5. ASSUME NEW t \in Threads, Trigger(t) \/ DestroySender(t) PROVE Reached'
  <2>1. PICK g \in Frame : Opening(t, g)
    BY <1>5, Begins
  <2>2. conns' = conns /\ g.todo = conns[g.sig] /\ Entered(t, g)
    BY <2>1, <1>5 DEF Opening, Trigger, DestroySender
  <2>3. Reaches(g)'
    BY <2>2 DEF Reaches
  <2>4. QED BY <1>4, <2>2, <2>3
<1>6. ASSUME NEW t \in Threads, Check(t) \/ Dispatch(t) \/ Fired(t) PROVE Reached'
  <2>1. PICK f, g \in Frame, c \in Ids : Proceeding(t, f, c, g)
    BY <1>6, Proceeds
  <2>2. FrameOk(f) /\ Reaches(f) /\ Replaced(t, g) /\ g.sig = f.sig /\ g.upto = f.upto /\ c = Due(f) /\ c \in DOMAIN book
    BY <2>1 DEF Proceeding, Reached
  <2>3. Reaches(f)'
    BY <2>2, ReachStays
  <2>4. \A d \in f.got \cup f.todo : d \in g.got \cup g.todo \/ IsDead(d)'
    <3>1. CASE Passes(f, c, g)
      <4>1. IsDead(c)'
        BY <2>2, <3>1, ListsAge DEF Passes
      <4>2. QED BY <4>1, <3>1 DEF Passes
    <3>2. CASE Chooses(f, c, g) \/ Calls(f, c, g)
      BY <3>2 DEF Chooses, Calls
    <3>3. CASE GoesOn(f, c, g)
      <4>1. c \in f.got
        BY <2>2, <3>3 DEF GoesOn, FrameOk
      <4>2. QED BY <4>1, <3>3 DEF GoesOn
    <3>4. QED BY <2>1, <3>1, <3>2, <3>3 DEF Proceeding
  <2>5. Reaches(g)'
    BY <2>2, <2>3, <2>4 DEF Reaches
  <2>6. QED BY <1>4, <2>2, <2>5
<1>7. QED
  <2>1. \A t \in use.threads : t \in Threads
    BY ObjectSignalAssumption DEF TypeOK, Use
  <2>2. QED BY <2>1, <1>2, <1>3, <1>5, <1>6 DEF Next, vars, Connect, Disconnect, DestroyObserver, SetSilent, LookPosted, RunPosted

LEMMA SweepingKept == TypeOK /\ TypeOK' /\ FramesOk /\ Listed /\ Sweeping /\ [Next]_vars => Sweeping'
<1> SUFFICES ASSUME TypeOK, TypeOK', FramesOk, Listed, Sweeping, [Next]_vars PROVE Sweeping'
  OBVIOUS
<1>0. Grows
  BY BookGrows
<1>1. ASSUME UNCHANGED shot, NEW s \in Signals, NEW c \in conns'[s] \cap shot' PROVE Sweeps(s)
  <2>1. Len(book) + 1 \notin shot
    BY DEF TypeOK
  <2>2. c \in conns[s]
    BY <1>1, <2>1, ListsAge
  <2>3. QED BY <1>1, <2>2 DEF Sweeping
<1>2. CASE UNCHANGED <<shot, stack>>
  BY <1>1, <1>2 DEF Sweeping, Sweeps
<1>3. ASSUME NEW t \in Threads, Finish(t) PROVE Sweeping'
  <2> SUFFICES ASSUME NEW s \in Signals, NEW c \in conns'[s] \cap shot' PROVE Sweeps(s)'
    BY DEF Sweeping
  <2>1. UNCHANGED shot /\ Ended(t)
    BY <1>3 DEF Finish, Ended
  <2>2. PICK u \in Threads : \E i \in DOMAIN stack[u] : stack[u][i].sig = s /\ stack[u][i].hasDead
    BY <1>1, <2>1 DEF Sweeps
  <2>0. PICK i \in DOMAIN stack[u] : stack[u][i].sig = s /\ stack[u][i].hasDead
    BY <2>2
  <2>3. CASE u # t
    <3>1. stack'[u] = stack[u]
      BY <2>1, <2>3, TopEnded DEF Ended
    <3>2. QED BY <2>0, <3>1 DEF Sweeps
  <2>4. CASE u = t /\ i = 1
    <3>1. Top(t).hasDead /\ Top(t).sig = s
      BY <2>1, <2>0, <2>4, TopEnded DEF Ended
    <3>2. c \in shot
      BY <2>1
    <3>3. conns'[s] = {} \/ conns'[s] = Swept(conns[s], Top(t))
      BY <1>3, <3>1 DEF Finish, TypeOK
    <3>4. QED BY <3>2, <3>3 DEF Swept, IsDead
  <2>5. CASE u = t /\ i # 1
    <3>1. i - 1 \in DOMAIN stack'[t] /\ stack'[t][i - 1] = stack[t][i]
      BY <2>1, <2>5, TopEnded DEF Ended
    <3>2. QED BY <2>0, <2>5, <3>1 DEF Sweeps
  <2>6. QED BY <2>3, <2>4, <2>5
<1>4. ASSUME NEW t \in Threads, Trigger(t) \/ DestroySender(t) PROVE Sweeping'
  <2> SUFFICES ASSUME NEW s \in Signals, NEW c \in conns'[s] \cap shot' PROVE Sweeps(s)'
    BY DEF Sweeping
  <2>1. PICK g \in Frame : Opening(t, g)
    BY <1>4, Begins
  <2>2. UNCHANGED shot /\ Entered(t, g)
    BY <1>4, <2>1 DEF Opening, Trigger, DestroySender
  <2>3. PICK u \in Threads : \E i \in DOMAIN stack[u] : stack[u][i].sig = s /\ stack[u][i].hasDead
    BY <1>1, <2>2 DEF Sweeps
  <2>0. PICK i \in DOMAIN stack[u] : stack[u][i].sig = s /\ stack[u][i].hasDead
    BY <2>3
  <2>4. \E j \in DOMAIN stack'[u] : stack'[u][j] = stack[u][i]
    <3>1. /\ \A w \in Threads \ {t} : stack'[w] = stack[w]
          /\ \A j \in DOMAIN stack[t] : j + 1 \in DOMAIN stack'[t] /\ stack'[t][j + 1] = stack[t][j]
      BY <2>2, TopEntered DEF Entered
    <3>2. u # t => stack'[u] = stack[u]
      BY <3>1
    <3>3. CASE u = t
      BY <3>1, <3>3
    <3>4. CASE u # t
      BY <3>2, <3>4
    <3>5. QED BY <3>3, <3>4
  <2>5. QED BY <2>0, <2>4 DEF Sweeps
<1>5. ASSUME NEW t \in Threads, Check(t) \/ Dispatch(t) \/ Fired(t) PROVE Sweeping'
  <2> SUFFICES ASSUME NEW s \in Signals, NEW c \in conns'[s] \cap shot' PROVE Sweeps(s)'
    BY DEF Sweeping
  <2>1. PICK f, g \in Frame, d \in Ids : Proceeding(t, f, d, g)
    BY <1>5, Proceeds
  <2>2. Replaced(t, g) /\ f = stack[t][1] /\ g.sig = f.sig /\ (f.hasDead => g.hasDead)
    BY <2>1, Zenon DEF Proceeding, Passes, Chooses, Calls, GoesOn
  <2>3. /\ 1 \in DOMAIN stack[t]
        /\ \A u \in Threads : DOMAIN stack'[u] = DOMAIN stack[u]
        /\ \A u \in Threads : \A i \in DOMAIN stack[u] : stack'[u][i] = IF u = t /\ i = 1 THEN g ELSE stack[u][i]
    BY <2>2, TopReplaced DEF Replaced
  <2>4. CASE Sweeps(s)
    BY <2>2, <2>3, <2>4 DEF Sweeps
  <2>5. CASE c \notin shot
    <3>1. conns' = conns /\ (UNCHANGED shot \/ GoesOn(f, d, g))
      BY <1>5, <2>1 DEF Proceeding, Check, Dispatch, Fired
    <3>2. c = d /\ GoesOn(f, d, g) /\ Once(d)
      BY <2>5, <3>1 DEF GoesOn
    <3>3. g.hasDead
      BY <3>2, Zenon DEF GoesOn
    <3>4. d \in OfSig(f.sig) /\ d \in OfSig(s)
      BY <2>1, <3>1, <3>2 DEF Proceeding, FrameOk, Listed
    <3>5. g.sig = s
      BY <2>2, <3>4 DEF OfSig
    <3>6. QED BY <2>3, <3>3, <3>5 DEF Sweeps
  <2>6. CASE c \in shot
    <3>1. conns' = conns
      BY <1>5 DEF Check, Dispatch, Fired
    <3>2. QED BY <2>4, <2>6, <3>1 DEF Sweeping
  <2>7. QED BY <2>5, <2>6
<1>6. QED
  <2>1. \A t \in use.threads : t \in Threads
    BY ObjectSignalAssumption DEF TypeOK, Use
  <2>2. QED BY <2>1, <1>2, <1>3, <1>4, <1>5 DEF Next, vars, Connect, Disconnect, DestroyObserver, SetSilent, LookPosted, RunPosted

-----------------------------------------------------------------------------
(* What a trigger in progress knows, together.                             *)

Base == TypeOK /\ FramesOk /\ Listed /\ ClosuresOk /\ Ending /\ Reached /\ Sweeping

LEMMA BaseHolds == Init => Base
<1> SUFFICES ASSUME Init PROVE Base
  OBVIOUS
<1>1. TypeOK
  BY InitTyped
<1>2. DOMAIN <<>> = {}
  OBVIOUS
<1>3. \A t \in Threads : DOMAIN stack[t] = {}
  BY <1>2 DEF Init
<1>4. FramesOk /\ Ending /\ Reached
  BY <1>3 DEF FramesOk, Ending, Reached
<1>5. Listed /\ Sweeping
  BY DEF Init, Listed, Sweeping
<1>6. ClosuresOk
  BY <1>2 DEF Init, ClosuresOk
<1>7. QED BY <1>1, <1>4, <1>5, <1>6 DEF Base

LEMMA BaseKept == Base /\ [Next]_vars => Base'
<1> SUFFICES ASSUME Base, [Next]_vars PROVE Base'
  OBVIOUS
<1> USE DEF Base
<1>1. TypeOK'
  BY TypedKept
<1>2. FramesOk'
  BY <1>1, FramesKept
<1>3. Listed' /\ ClosuresOk'
  BY <1>1, ListedKept, ClosuresKept
<1>4. Ending' /\ Reached'
  BY <1>1, EndingKept, ReachedKept
<1>5. Sweeping'
  BY <1>1, SweepingKept
<1>6. QED BY <1>1, <1>2, <1>3, <1>4, <1>5

-----------------------------------------------------------------------------
(* One thread, no nesting.                                                 *)

SoloBy(t) == use.threads = {t} /\ use.depth = 1

\* Only that thread triggers, one trigger at a time.
Sole(t) == (\A u \in Threads \ {t} : stack[u] = <<>>) /\ Len(stack[t]) <= 1

LEMMA SoleSteps ==
  ASSUME Base, NEW t \in Threads, SoloBy(t), Sole(t), [Next]_vars
  PROVE  /\ Sole(t)'
         /\ \/ UNCHANGED <<stack, ran, queue, fired, sender, shot>>
            \/ \E g \in Frame :
                 /\ Opening(t, g) /\ 1 \notin DOMAIN stack[t] /\ stack'[t][1] = g
                 /\ UNCHANGED <<ran, queue, shot, book, conns>>
                 /\ sender' = "up" => g.sig = "changed"
            \/ \E f, g \in Frame, c \in Ids :
                 /\ Proceeding(t, f, c, g) /\ stack'[t][1] = g /\ 1 \in DOMAIN stack'[t]
                 /\ UNCHANGED <<fired, sender, book>>
            \/ /\ stack[t][1].todo = {} /\ 1 \notin DOMAIN stack'[t]
               /\ UNCHANGED <<ran, queue, shot, fired, book>> /\ (sender' = "up" => sender = "up")
            \/ Drains
<1>0. TypeOK /\ FramesOk
  BY DEF Base
<1>1. CASE UNCHANGED <<stack, ran, queue, fired, sender, shot>>
  BY <1>1 DEF Sole
<1>2. CASE Drains
  BY <1>2 DEF Sole, Drains
<1>3. CASE Trigger(t) \/ DestroySender(t)
  <2>1. PICK g \in Frame : Opening(t, g)
    BY <1>0, <1>3, Begins
  <2>2. Len(stack[t]) < 1 /\ stack[t] \in Seq(Frame)
    BY <1>0, <1>3 DEF Trigger, DestroySender, SoloBy, TypeOK
  <2>3. 1 \notin DOMAIN stack[t] /\ Len(stack[t]) = 0
    BY <2>2
  <2>4. Entered(t, g)
    BY <2>1 DEF Opening
  <2>5. /\ Len(stack'[t]) = Len(stack[t]) + 1 /\ stack'[t][1] = g
        /\ \A u \in Threads \ {t} : stack'[u] = stack[u]
    BY <1>0, <2>4, TopEntered DEF Entered
  <2>6. Sole(t)'
    BY <2>3, <2>5 DEF Sole
  <2>7. UNCHANGED <<ran, queue, shot, book, conns>>
    BY <1>3 DEF Trigger, DestroySender
  <2>8. sender' = "up" => g.sig = "changed"
    BY <2>1 DEF Opening, DestroySender
  <2>9. QED BY <2>1, <2>3, <2>5, <2>6, <2>7, <2>8
<1>4. CASE Check(t) \/ Dispatch(t) \/ Fired(t)
  <2>1. PICK f, g \in Frame, c \in Ids : Proceeding(t, f, c, g)
    BY <1>0, <1>4, Proceeds
  <2>2. Replaced(t, g)
    BY <2>1 DEF Proceeding
  <2>3. /\ 1 \in DOMAIN stack[t]
        /\ \A u \in Threads : Len(stack'[u]) = Len(stack[u]) /\ DOMAIN stack'[u] = DOMAIN stack[u]
        /\ \A u \in Threads : \A i \in DOMAIN stack[u] : stack'[u][i] = IF u = t /\ i = 1 THEN g ELSE stack[u][i]
    BY <1>0, <2>2, TopReplaced DEF Replaced
  <2>4. \A u \in Threads \ {t} : stack'[u] = stack[u]
    BY <1>0, <2>2 DEF Replaced, SetTop, TypeOK
  <2>5. Sole(t)'
    BY <2>3, <2>4 DEF Sole
  <2>6. UNCHANGED <<fired, sender, book>>
    BY <1>4 DEF Check, Dispatch, Fired
  <2>7. stack'[t][1] = g /\ 1 \in DOMAIN stack'[t]
    BY <2>3
  <2>8. QED BY <2>1, <2>5, <2>6, <2>7
<1>5. CASE Finish(t)
  <2>1. Ended(t) /\ Top(t).todo = {} /\ UNCHANGED <<ran, queue, shot, fired, book>> /\ (sender' = "up" => sender = "up")
    BY <1>5 DEF Finish, Ended
  <2>2. /\ Top(t) = stack[t][1]
        /\ Len(stack'[t]) = Len(stack[t]) - 1 /\ Len(stack[t]) \in Nat \ {0}
        /\ \A u \in Threads \ {t} : stack'[u] = stack[u]
        /\ stack' \in [Threads -> Seq(Frame)]
    BY <1>0, <2>1, TopEnded DEF Ended
  <2>3. Len(stack'[t]) = 0
    <3>1. Len(stack[t]) <= 1
      BY Zenon DEF Sole
    <3>2. \A n \in Nat \ {0} : n <= 1 => n = 1
      OBVIOUS
    <3>3. Len(stack[t]) = 1
      BY <2>2, <3>1, <3>2, Zenon
    <3>4. Len(stack'[t]) = 1 - 1
      BY <2>2, <3>3, Zenon
    <3>5. QED BY <3>4
  <2>4. 1 \notin DOMAIN stack'[t]
    BY <2>2, <2>3
  <2>5. Sole(t)'
    BY <2>2, <2>3 DEF Sole
  <2>6. QED BY <2>1, <2>2, <2>4, <2>5
<1>6. QED
  BY <1>1, <1>2, <1>3, <1>4, <1>5, LoopSteps DEF Next, vars, SoloBy, Connect, Disconnect, DestroyObserver, SetSilent

\* Every value that c has been called with, or will be from the loop, is below n.
Before(c, n) ==
  /\ \A i \in DOMAIN ran[c] : ran[c][i] < n
  /\ \A j \in DOMAIN queue : queue[j].conn = c => queue[j].data < n

\* The loop will call each connection with newer and newer data.
InTurn ==
  /\ \A i, j \in DOMAIN queue : i < j /\ queue[i].conn = queue[j].conn => queue[i].data < queue[j].data
  /\ \A j \in DOMAIN queue : \A i \in DOMAIN ran[queue[j].conn] : ran[queue[j].conn][i] < queue[j].data

\* The data of a trigger is newer than all that a connection it has still to
\* reach has seen; nobody has seen the sender's end while it is up.
Ahead(t) == 1 \in DOMAIN stack[t] =>
  \A c \in stack[t][1].todo \ stack[t][1].got : Before(c, stack[t][1].data)
Newest == \A c \in Ids : Before(c, fired + 1)
NoEnd == sender = "up" => \A c \in Ids : c \in OfSig("changed") \/ Before(c, 0)
Turn(t) == Newest /\ NoEnd /\ Ahead(t) /\ InTurn /\ InOrder

LEMMA ConnInIds == TypeOK => \A j \in DOMAIN queue : queue[j].conn \in Ids
<1> SUFFICES ASSUME TypeOK, NEW j \in DOMAIN queue PROVE queue[j].conn \in Ids
  OBVIOUS
<1>1. queue \in Seq(Closure)
  BY DEF TypeOK
<1>2. queue[j] \in Closure
  BY <1>1
<1>3. QED BY <1>2 DEF Closure

\* c is called with n, or n is posted for it: n must be ahead of what it has seen.
LEMMA CalledNext ==
  ASSUME TypeOK, NEW c \in Ids, NEW n \in 0 .. MaxTriggers, Before(c, n), InTurn, InOrder,
         ran' = [ran EXCEPT ![c] = Append(@, n)], UNCHANGED queue,
         \A j \in DOMAIN queue : queue[j].conn # c
  PROVE  /\ InTurn' /\ InOrder'
         /\ \A d \in Ids : \A m \in Int : Before(d, m) /\ (d = c => n < m) => Before(d, m)'
<1>1. ran[c] \in Seq(0 .. MaxTriggers)
  BY DEF TypeOK
<1>2. ran'[c] = Append(ran[c], n) /\ \A d \in Ids \ {c} : ran'[d] = ran[d]
  BY DEF TypeOK
<1>3. \A i \in DOMAIN ran'[c] :
        (i = Len(ran[c]) + 1 /\ ran'[c][i] = n) \/ (i \in DOMAIN ran[c] /\ i <= Len(ran[c]) /\ ran'[c][i] = ran[c][i])
  BY <1>1, <1>2, Added
<1>4. ASSUME NEW d \in Ids, NEW m \in Int, Before(d, m), d = c => n < m PROVE Before(d, m)'
  <2>1. CASE d = c
    BY <1>3, <1>4, <2>1 DEF Before
  <2>2. CASE d # c
    BY <1>2, <1>4, <2>2 DEF Before
  <2>3. QED BY <2>1, <2>2
<1>5. InTurn'
  <2>1. \A j \in DOMAIN queue : queue[j].conn \in Ids
    BY ConnInIds
  <2>2. \A j \in DOMAIN queue : ran'[queue[j].conn] = ran[queue[j].conn]
    BY <1>2, <2>1
  <2>3. QED BY <2>2 DEF InTurn
<1>6. InOrder'
  <2> SUFFICES ASSUME NEW d \in Ids, NEW i \in DOMAIN ran'[d], NEW j \in DOMAIN ran'[d], i < j PROVE ran'[d][i] < ran'[d][j]
    BY DEF InOrder
  <2>1. CASE d # c
    BY <1>2, <2>1 DEF InOrder
  <2>2. CASE d = c
    <3>1. i \in DOMAIN ran[c] /\ ran'[c][i] = ran[c][i]
      <4>1. i # Len(ran[c]) + 1
        BY <1>1, <1>3, <2>2
      <4>2. QED BY <1>3, <2>2, <4>1
    <3>2. CASE ran'[c][j] = n
      BY <2>2, <3>1, <3>2 DEF Before
    <3>3. CASE j \in DOMAIN ran[c] /\ ran'[c][j] = ran[c][j]
      BY <2>2, <3>1, <3>3 DEF InOrder
    <3>4. QED BY <1>3, <2>2, <3>2, <3>3
  <2>3. QED BY <2>1, <2>2
<1>7. QED BY <1>4, <1>5, <1>6

LEMMA PostedNext ==
  ASSUME TypeOK, NEW q \in Closure, Before(q.conn, q.data), InTurn,
         queue' = Append(queue, q), UNCHANGED ran
  PROVE  /\ InTurn'
         /\ \A d \in Ids : \A m \in Int : Before(d, m) /\ (d = q.conn => q.data < m) => Before(d, m)'
<1>1. queue \in Seq(Closure)
  BY DEF TypeOK
<1>2. \A i \in DOMAIN queue' :
        (i = Len(queue) + 1 /\ queue'[i] = q) \/ (i \in DOMAIN queue /\ i <= Len(queue) /\ queue'[i] = queue[i])
  BY <1>1, Added
<1>3. ASSUME NEW d \in Ids, NEW m \in Int, Before(d, m), d = q.conn => q.data < m PROVE Before(d, m)'
  BY <1>2, <1>3 DEF Before
<1>4. ASSUME NEW i \in DOMAIN queue', NEW j \in DOMAIN queue', i < j, queue'[i].conn = queue'[j].conn
      PROVE  queue'[i].data < queue'[j].data
  <2>1. i \in DOMAIN queue /\ queue'[i] = queue[i]
    <3>1. i # Len(queue) + 1
      BY <1>1, <1>2, <1>4
    <3>2. QED BY <1>2, <3>1
  <2>2. CASE queue'[j] = q
    BY <1>4, <2>1, <2>2 DEF Before
  <2>3. CASE j \in DOMAIN queue /\ queue'[j] = queue[j]
    BY <1>4, <2>1, <2>3 DEF InTurn
  <2>4. QED BY <1>2, <2>2, <2>3
<1>5. ASSUME NEW j \in DOMAIN queue', NEW i \in DOMAIN ran[queue'[j].conn]
      PROVE  ran[queue'[j].conn][i] < queue'[j].data
  BY <1>2, <1>5 DEF Before, InTurn
<1>6. QED BY <1>3, <1>4, <1>5 DEF InTurn

LEMMA LoopNext ==
  ASSUME TypeOK, InTurn, InOrder, Drains
  PROVE  /\ InTurn' /\ InOrder'
         /\ \A d \in Ids : \A m \in Int : Before(d, m) => Before(d, m)'
<1>1. PICK q \in Closure : q = Head(queue) /\ 1 \in DOMAIN queue /\ q = queue[1]
  BY Taken DEF Drains, TypeOK
<1>2. \A j \in DOMAIN queue' : j \in Nat /\ j + 1 \in DOMAIN queue /\ j + 1 > 1 /\ queue'[j] = queue[j + 1]
  BY Taken DEF Drains, TypeOK
<1>3. q.conn \in Ids /\ q.data \in 0 .. MaxTriggers
  BY DEF Closure
<1>4. ran[q.conn] \in Seq(0 .. MaxTriggers)
  BY <1>3 DEF TypeOK
<1>5. \A d \in Ids : ran'[d] = ran[d] \/ (d = q.conn /\ ran'[d] = Append(ran[q.conn], q.data))
  BY <1>1, <1>3 DEF Drains, TypeOK
<1>6. ASSUME NEW d \in Ids, NEW i \in DOMAIN ran'[d]
      PROVE  \/ i \in DOMAIN ran[d] /\ i <= Len(ran[d]) /\ ran'[d][i] = ran[d][i]
             \/ d = q.conn /\ i = Len(ran[d]) + 1 /\ ran'[d][i] = q.data
  <2>1. ran[d] \in Seq(0 .. MaxTriggers)
    BY DEF TypeOK
  <2>2. CASE ran'[d] = ran[d]
    BY <2>1, <2>2
  <2>3. CASE d = q.conn /\ ran'[d] = Append(ran[q.conn], q.data)
    BY <1>3, <1>4, <2>3, Added
  <2>4. QED BY <1>5, <2>2, <2>3
<1>7. ASSUME NEW d \in Ids, NEW m \in Int, Before(d, m) PROVE Before(d, m)'
  <2>1. \A i \in DOMAIN ran'[d] : ran'[d][i] < m
    BY <1>1, <1>6, <1>7 DEF Before
  <2>2. \A j \in DOMAIN queue' : queue'[j].conn = d => queue'[j].data < m
    BY <1>2, <1>7 DEF Before
  <2>3. QED BY <2>1, <2>2 DEF Before
<1>8. ASSUME NEW d \in Ids, NEW i \in DOMAIN ran'[d], NEW j \in DOMAIN ran'[d], i < j PROVE ran'[d][i] < ran'[d][j]
  <2>0. Len(ran[d]) \in Nat
    BY DEF TypeOK
  <2>1. i \in DOMAIN ran[d] /\ ran'[d][i] = ran[d][i]
    <3>1. ~ (i = Len(ran[d]) + 1)
      BY <1>6, <1>8, <2>0
    <3>2. QED BY <1>6, <3>1
  <2>2. CASE j \in DOMAIN ran[d] /\ ran'[d][j] = ran[d][j]
    BY <1>8, <2>1, <2>2 DEF InOrder
  <2>3. CASE d = q.conn /\ ran'[d][j] = q.data
    BY <1>1, <2>1, <2>3 DEF InTurn
  <2>4. QED BY <1>6, <2>2, <2>3
<1>9. InTurn'
  <2>1. ASSUME NEW i \in DOMAIN queue', NEW j \in DOMAIN queue', i < j, queue'[i].conn = queue'[j].conn
        PROVE  queue'[i].data < queue'[j].data
    BY <1>2, <2>1 DEF InTurn
  <2>2. ASSUME NEW j \in DOMAIN queue', NEW i \in DOMAIN ran'[queue'[j].conn]
        PROVE  ran'[queue'[j].conn][i] < queue'[j].data
    <3>1. queue'[j] = queue[j + 1] /\ j + 1 \in DOMAIN queue /\ 1 < j + 1
      BY <1>2
    <3>2. PICK d \in Ids : d = queue[j + 1].conn
      BY <3>1, ConnInIds
    <3>3. i \in DOMAIN ran'[d]
      BY <2>2, <3>1, <3>2
    <3>4. CASE i \in DOMAIN ran[d] /\ ran'[d][i] = ran[d][i]
      BY <3>1, <3>2, <3>4 DEF InTurn
    <3>5. CASE d = q.conn /\ ran'[d][i] = q.data
      BY <1>1, <3>1, <3>2, <3>5 DEF InTurn
    <3>6. QED BY <1>6, <3>3, <3>4, <3>5
  <2>3. QED BY <2>1, <2>2 DEF InTurn
<1>10. QED BY <1>7, <1>8, <1>9 DEF InOrder

LEMMA BeforeGrows ==
  ASSUME TypeOK, NEW c \in Ids, NEW n \in Int, NEW m \in Int, n <= m, Before(c, n)
  PROVE  Before(c, m)
<1>1. \A i \in DOMAIN ran[c] : ran[c][i] \in Int
  BY ObjectSignalAssumption DEF TypeOK
<1>2. \A j \in DOMAIN queue : queue[j].data \in Int
  <2>1. \A q \in Closure : q.data \in Int
    BY ObjectSignalAssumption DEF Closure
  <2>2. QED BY <2>1 DEF TypeOK
<1>3. QED BY <1>1, <1>2 DEF Before

LEMMA TurnKept ==
  ASSUME Base, Base', NEW t \in Threads, SoloBy(t), Sole(t), Turn(t), [Next]_vars
  PROVE  Turn(t)'
<1>0. TypeOK /\ TypeOK' /\ FramesOk /\ Listed /\ ClosuresOk /\ Ending
  BY DEF Base
<1>1. Newest /\ NoEnd /\ Ahead(t) /\ InTurn /\ InOrder
  BY DEF Turn
<1>2. OfSig("changed") \subseteq OfSig("changed")'
  BY <1>0, BookGrows DEF Grows, OfSig
<1>3. fired \in Nat /\ fired' \in Nat
  BY <1>0, ObjectSignalAssumption DEF TypeOK
<1>4. CASE UNCHANGED <<stack, ran, queue, fired, sender, shot>>
  BY <1>1, <1>2, <1>4 DEF Turn, Newest, NoEnd, Ahead, InTurn, InOrder, Before
<1>5. ASSUME NEW g \in Frame,
             Opening(t, g), 1 \notin DOMAIN stack[t], stack'[t][1] = g,
             UNCHANGED <<ran, queue, shot, book, conns>>,
             sender' = "up" => g.sig = "changed"
      PROVE  Turn(t)'
  <2>1. \/ Trigger(t) /\ g.sig = "changed" /\ g.data = fired + 1 /\ fired' = fired + 1 /\ sender' = sender
        \/ DestroySender(t) /\ g.sig = "deleted" /\ g.data = 0 /\ fired' = fired /\ sender' = "dying" /\ sender = "up"
    BY <1>5 DEF Opening, Trigger, DestroySender
  <2>2. \A c \in Ids : \A n : Before(c, n) => Before(c, n)'
    BY <1>5 DEF Before
  <2>3. Newest'
    <3>2. \A c \in Ids : Before(c, fired' + 1)
      BY <1>0, <1>1, <1>3, <2>1, BeforeGrows DEF Newest
    <3>3. QED BY <1>5, <3>2 DEF Newest, Before
  <2>4. NoEnd'
    BY <1>1, <1>2, <2>1, <2>2 DEF NoEnd
  <2>5. \A c \in g.todo : Before(c, g.data)
    <3>1. g.todo \subseteq Ids /\ g.todo \subseteq OfSig(g.sig)
      BY <1>0, <1>5 DEF Opening, Listed, Frame
    <3>2. g.sig = "deleted" => \A c \in g.todo : c \notin OfSig("changed")
      BY <3>1 DEF OfSig
    <3>3. QED BY <1>1, <2>1, <3>1, <3>2 DEF Newest, NoEnd
  <2>6. Ahead(t)'
    BY <1>5, <2>5 DEF Ahead, Before
  <2>7. InTurn' /\ InOrder'
    BY <1>1, <1>5 DEF InTurn, InOrder
  <2>8. QED BY <2>3, <2>4, <2>6, <2>7 DEF Turn
<1>6. ASSUME NEW f \in Frame, NEW g \in Frame, NEW c \in Ids,
             Proceeding(t, f, c, g), stack'[t][1] = g, UNCHANGED <<fired, sender, book>>
      PROVE  Turn(t)'
  <2>0. /\ f = stack[t][1] /\ 1 \in DOMAIN stack[t] /\ c = Due(f) /\ c \in f.todo /\ c \in DOMAIN book
        /\ g.sig = f.sig /\ g.data = f.data /\ FrameOk(f)
    BY <1>6 DEF Proceeding
  <2>1. CASE UNCHANGED <<ran, queue>> /\ g.todo \ g.got \subseteq f.todo \ f.got
    BY <1>1, <1>2, <1>6, <2>0, <2>1 DEF Turn, Newest, NoEnd, Ahead, InTurn, InOrder, Before
  <2>2. CASE Dispatch(t) /\ Calls(f, c, g)
    <3>1. f.data \in 0 .. MaxTriggers /\ f.data \in Int /\ f.data <= fired /\ f.data < fired + 1
      BY <1>3, <2>0, ObjectSignalAssumption DEF Frame, FrameOk
    <3>2. c \notin f.got
      BY <2>0, <2>2 DEF FrameOk, Calls
    <3>3. Before(c, f.data)
      BY <1>1, <2>0, <3>2 DEF Ahead
    <3>4. InTurn' /\ InOrder' /\ \A d \in Ids : \A m \in Int : Before(d, m) /\ (d = c => f.data < m) => Before(d, m)'
      <4>1. CASE book[c].kind.queued
        <5>1. queue' = Append(queue, ClosureOf(c, f)) /\ UNCHANGED ran
          BY <2>2, <4>1 DEF Calls
        <5>2. PICK q \in Closure : q = ClosureOf(c, f)
          BY <1>0, ClosureMade
        <5>3. q.conn = c /\ q.data = f.data
          BY <5>2 DEF ClosureOf
        <5>4. InTurn' /\ \A d \in Ids : \A m \in Int : Before(d, m) /\ (d = q.conn => q.data < m) => Before(d, m)'
          BY <1>0, <1>1, <3>3, <5>1, <5>2, <5>3, PostedNext
        <5>5. InOrder'
          BY <1>1, <5>1 DEF InOrder
        <5>6. QED BY <5>3, <5>4, <5>5
      <4>2. CASE ~ book[c].kind.queued
        <5>1. ran' = [ran EXCEPT ![c] = Append(@, f.data)] /\ UNCHANGED queue
          BY <2>2, <4>2 DEF Calls
        <5>2. \A j \in DOMAIN queue : queue[j].conn # c
          BY <1>0, <4>2 DEF ClosuresOk, ClosureOk
        <5>3. PICK n \in 0 .. MaxTriggers : n = f.data
          BY <3>1
        <5>4. ran' = [ran EXCEPT ![c] = Append(@, n)] /\ Before(c, n)
          BY <5>1, <5>3, <3>3
        <5>5. InTurn' /\ InOrder' /\ \A d \in Ids : \A m \in Int : Before(d, m) /\ (d = c => n < m) => Before(d, m)'
          BY <1>0, <1>1, <5>1, <5>2, <5>4, CalledNext
        <5>6. QED BY <5>3, <5>5
      <4>3. QED BY <4>1, <4>2
    <3>5. Newest'
      <4>1. \A d \in Ids : Before(d, fired + 1) /\ fired + 1 \in Int
        BY <1>1, <1>3 DEF Newest
      <4>2. PICK n \in Int : n = fired + 1
        BY <1>3
      <4>3. \A d \in Ids : Before(d, n)'
        BY <3>1, <3>4, <4>1, <4>2
      <4>4. n = fired' + 1
        BY <1>6, <4>2
      <4>5. QED BY <4>3, <4>4 DEF Newest, Before
    <3>6. NoEnd'
      <4> SUFFICES ASSUME sender = "up", NEW d \in Ids, d \notin OfSig("changed") PROVE Before(d, 0)'
        BY <1>2, <1>6 DEF NoEnd
      <4>1. Before(d, 0)
        BY <1>1 DEF NoEnd
      <4>2. f.sig = "changed"
        BY <1>0, <2>0 DEF Ending, Frame, Signals
      <4>3. c \in OfSig("changed")
        BY <2>0, <4>2 DEF FrameOk
      <4>4. d # c
        BY <4>3
      <4>5. QED BY <3>4, <4>1, <4>4
    <3>7. Ahead(t)'
      <4>1. \A d \in g.todo \ g.got : d # c /\ d \in f.todo \ f.got /\ d \in Ids
        BY <2>2 DEF Calls, Frame
      <4>2. \A d \in g.todo \ g.got : Before(d, f.data)
        BY <1>1, <2>0, <4>1 DEF Ahead
      <4>3. \A d \in g.todo \ g.got : Before(d, g.data)'
        <5>1. PICK n \in Int : n = f.data
          BY <3>1
        <5>2. \A d \in g.todo \ g.got : Before(d, n)'
          BY <3>4, <4>1, <4>2, <5>1
        <5>3. QED BY <2>0, <5>1, <5>2
      <4>4. QED BY <1>6, <4>3 DEF Ahead, Before
    <3>8. QED BY <3>4, <3>5, <3>6, <3>7 DEF Turn
  <2>3. CASE Check(t) /\ (Passes(f, c, g) \/ Chooses(f, c, g))
    BY <2>1, <2>3 DEF Check, Passes, Chooses
  <2>4. CASE Fired(t) /\ GoesOn(f, c, g)
    BY <2>1, <2>4 DEF Fired, GoesOn
  <2>5. QED BY <1>6, <2>2, <2>3, <2>4 DEF Proceeding
<1>7. CASE /\ 1 \notin DOMAIN stack'[t]
           /\ UNCHANGED <<ran, queue, shot, fired, book>> /\ (sender' = "up" => sender = "up")
  BY <1>1, <1>2, <1>7 DEF Turn, Newest, NoEnd, Ahead, InTurn, InOrder, Before
<1>8. CASE Drains
  <2>1. InTurn' /\ InOrder' /\ \A d \in Ids : \A m \in Int : Before(d, m) => Before(d, m)'
    BY <1>0, <1>1, <1>8, LoopNext
  <2>2. UNCHANGED <<stack, fired, sender, book>>
    BY <1>8 DEF Drains
  <2>3. Newest'
    <3>1. PICK n \in Int : n = fired + 1
      BY <1>3
    <3>2. \A d \in Ids : Before(d, n)'
      BY <1>1, <2>1, <3>1 DEF Newest
    <3>3. n = fired' + 1
      BY <2>2, <3>1
    <3>4. QED BY <3>2, <3>3 DEF Newest, Before
  <2>4. NoEnd'
    BY <1>1, <1>2, <2>1, <2>2 DEF NoEnd
  <2>5. Ahead(t)'
    <3> SUFFICES ASSUME 1 \in DOMAIN stack[t], NEW c \in stack[t][1].todo \ stack[t][1].got
                 PROVE  Before(c, stack[t][1].data)'
      BY <2>2 DEF Ahead
    <3>1. PICK f \in Frame : f = stack[t][1]
      BY <1>0 DEF TypeOK
    <3>2. c \in Ids /\ f.data \in Int /\ Before(c, f.data)
      BY <1>1, <3>1, ObjectSignalAssumption DEF Frame, Ahead
    <3>3. PICK n \in Int : n = f.data
      BY <3>2
    <3>4. Before(c, n)'
      BY <2>1, <3>2, <3>3
    <3>5. n = stack'[t][1].data
      BY <2>2, <3>1, <3>3
    <3>6. QED BY <3>4, <3>5 DEF Before
  <2>6. QED BY <2>1, <2>3, <2>4, <2>5 DEF Turn
<1>9. QED BY <1>4, <1>5, <1>6, <1>7, <1>8, SoleSteps

\* c has been called, or will be from the loop.
Heard(c) == ran[c] # <<>> \/ \E j \in DOMAIN queue : queue[j].conn = c

\* What a single shot has led to is one call or one closure, and once it has
\* led to that it is shot, or about to be: the trigger that fired it is at it.
Shots(t) ==
  /\ \A c \in Ids \ DOMAIN book : ~ Heard(c)
  /\ OnceAtMostOnce
  /\ \A i \in DOMAIN queue : Once(queue[i].conn) =>
       ran[queue[i].conn] = <<>> /\ \A j \in DOMAIN queue : queue[j].conn = queue[i].conn => i = j
  /\ \A c \in DOMAIN book : Once(c) /\ Heard(c) =>
       c \in shot \/ (1 \in DOMAIN stack[t] /\ c \in stack[t][1].todo \cap stack[t][1].got)
  /\ 1 \in DOMAIN stack[t] /\ stack[t][1].pc = "call" => Due(stack[t][1]) \notin shot

LEMMA ShotsKept ==
  ASSUME Base, Base', NEW t \in Threads, SoloBy(t), Sole(t), Shots(t), [Next]_vars
  PROVE  Shots(t)'
<1>0. TypeOK /\ TypeOK' /\ FramesOk /\ Listed /\ ClosuresOk /\ Grows
  BY BookGrows DEF Base
<1>1. /\ \A c \in Ids \ DOMAIN book : ~ Heard(c)
      /\ \A c \in DOMAIN book : Once(c) => Len(ran[c]) <= 1
      /\ \A i \in DOMAIN queue : Once(queue[i].conn) =>
           ran[queue[i].conn] = <<>> /\ \A j \in DOMAIN queue : queue[j].conn = queue[i].conn => i = j
      /\ \A c \in DOMAIN book : Once(c) /\ Heard(c) =>
           c \in shot \/ (1 \in DOMAIN stack[t] /\ c \in stack[t][1].todo \cap stack[t][1].got)
      /\ 1 \in DOMAIN stack[t] /\ stack[t][1].pc = "call" => Due(stack[t][1]) \notin shot
  BY DEF Shots, OnceAtMostOnce
<1>2. \A c \in DOMAIN book : c \in DOMAIN book' /\ Once(c)' = Once(c)
  BY <1>0 DEF Grows, Once
<1>3. \A j \in DOMAIN queue : queue[j].conn \in DOMAIN book
  BY <1>0 DEF ClosuresOk, ClosureOk
<1>4. DOMAIN book' \subseteq Ids /\ DOMAIN book \subseteq Ids
  BY <1>0, ObjectSignalAssumption DEF TypeOK, Ids
\* Nothing is called or posted: the last two parts remain.
<1>5. ASSUME UNCHANGED <<ran, queue>>,
             \A c \in DOMAIN book : Once(c) /\ Heard(c) =>
               c \in shot' \/ (1 \in DOMAIN stack'[t] /\ c \in stack'[t][1].todo \cap stack'[t][1].got),
             1 \in DOMAIN stack'[t] /\ stack'[t][1].pc = "call" => Due(stack[t][1])' \notin shot'
      PROVE  Shots(t)'
  <2>1. \A c \in Ids : Heard(c)' = Heard(c)
    BY <1>5 DEF Heard
  <2>2. \A c \in DOMAIN book' : c \in DOMAIN book \/ ~ Heard(c)
    BY <1>1, <1>4
  <2>3. \A c \in Ids \ DOMAIN book' : ~ Heard(c)'
    BY <1>1, <1>2, <2>1
  <2>4. \A c \in DOMAIN book' : ~ Heard(c) => Len(ran[c]) <= 1
    BY DEF Heard
  <2>5. OnceAtMostOnce'
    <3> SUFFICES ASSUME NEW c \in DOMAIN book', Once(c)' PROVE Len(ran'[c]) <= 1
      BY DEF OnceAtMostOnce
    <3>1. ran'[c] = ran[c]
      BY <1>5
    <3>2. CASE c \in DOMAIN book
      BY <1>1, <1>2, <3>1, <3>2
    <3>3. CASE ~ Heard(c)
      BY <2>4, <3>1, <3>3
    <3>4. QED BY <2>2, <3>2, <3>3
  <2>6. \A i \in DOMAIN queue' : Once(queue[i].conn)' =>
          ran'[queue'[i].conn] = <<>> /\ \A j \in DOMAIN queue' : queue'[j].conn = queue'[i].conn => i = j
    <3> SUFFICES ASSUME NEW i \in DOMAIN queue, Once(queue[i].conn)'
                 PROVE  ran[queue[i].conn] = <<>> /\ \A j \in DOMAIN queue : queue[j].conn = queue[i].conn => i = j
      BY <1>5
    <3>1. PICK c \in DOMAIN book : c = queue[i].conn
      BY <1>3
    <3>2. c = queue'[i].conn
      BY <1>5, <3>1
    <3>3. Once(c)'
      BY <3>2 DEF Once
    <3>4. Once(queue[i].conn)
      BY <1>2, <3>1, <3>3 DEF Once
    <3>5. QED BY <1>1, <3>4
  <2>7. \A c \in DOMAIN book' : Once(c)' /\ Heard(c)' =>
          c \in shot' \/ (1 \in DOMAIN stack'[t] /\ c \in stack'[t][1].todo \cap stack'[t][1].got)
    BY <1>2, <1>4, <1>5, <2>1, <2>2
  <2>8. QED BY <1>1, <1>5, <2>3, <2>5, <2>6, <2>7 DEF Shots
<1>6. CASE UNCHANGED <<stack, ran, queue, fired, sender, shot>>
  BY <1>1, <1>5, <1>6 DEF Due
<1>7. ASSUME NEW g \in Frame,
             Opening(t, g), 1 \notin DOMAIN stack[t], stack'[t][1] = g, UNCHANGED <<ran, queue, shot, book, conns>>
      PROVE  Shots(t)'
  BY <1>1, <1>5, <1>7 DEF Opening
<1>8. CASE /\ stack[t][1].todo = {} /\ 1 \notin DOMAIN stack'[t]
           /\ UNCHANGED <<ran, queue, shot, fired, book>>
  BY <1>1, <1>5, <1>8
<1>9. ASSUME NEW f \in Frame, NEW g \in Frame, NEW c \in Ids,
             Proceeding(t, f, c, g), stack'[t][1] = g, 1 \in DOMAIN stack'[t], UNCHANGED <<fired, sender, book>>
      PROVE  Shots(t)'
  <2>0. /\ f = stack[t][1] /\ 1 \in DOMAIN stack[t] /\ c = Due(f) /\ c \in f.todo /\ c \in DOMAIN book
        /\ f.todo \cap f.got = IF f.pc \in {"calling", "posted"} THEN {c} ELSE {}
    BY <1>9 DEF Proceeding, FrameOk
  <2>1. CASE Check(t) /\ Passes(f, c, g)
    BY <1>1, <1>5, <1>9, <2>0, <2>1 DEF Check, Passes
  <2>2. CASE Check(t) /\ Chooses(f, c, g)
    <3>1. UNCHANGED <<ran, queue, shot>> /\ c \notin shot /\ g.todo = f.todo /\ f.pc = "check"
      BY <2>2 DEF Check, Chooses, IsDead
    <3>2. Due(stack[t][1])' = c
      BY <1>9, <2>0, <3>1 DEF Due
    <3>3. QED BY <1>1, <1>5, <2>0, <3>1, <3>2
  <2>3. CASE Fired(t) /\ GoesOn(f, c, g)
    <3>1. UNCHANGED <<ran, queue>> /\ g.pc = "check" /\ f.pc \in {"calling", "posted"} /\ shot \subseteq shot'
      BY <2>3 DEF Fired, GoesOn
    <3>2. Once(c) => c \in shot'
      BY <2>3 DEF GoesOn
    <3>3. \A d \in DOMAIN book : Once(d) /\ Heard(d) => d \in shot'
      BY <1>1, <2>0, <3>1, <3>2
    <3>4. QED BY <1>5, <1>9, <3>1, <3>3
  <2>4. CASE Dispatch(t) /\ Calls(f, c, g)
    <3>1. /\ f.pc = "call" /\ g.todo = f.todo /\ g.got = f.got \cup {c} /\ g.pc \in {"calling", "posted"}
          /\ UNCHANGED <<shot, book>>
      BY <2>4 DEF Dispatch, Calls
    <3>2. c \notin shot /\ \A d \in DOMAIN book : Once(d) /\ Heard(d) => d \in shot
      BY <1>1, <2>0, <3>1
    <3>3. Once(c) => ~ Heard(c)
      BY <2>0, <3>2
    <3>4. \A d \in DOMAIN book : Once(d)' = Once(d)
      BY <1>2
    <3>5. CASE book[c].kind.queued
      <4>1. UNCHANGED ran
        BY <2>4, <3>5 DEF Calls
      <4>2. PICK q \in Closure : q = ClosureOf(c, f)
        BY <1>0, ClosureMade
      <4>3. q.conn = c /\ queue' = Append(queue, q) /\ queue \in Seq(Closure)
        BY <1>0, <2>4, <3>5, <4>2 DEF Calls, ClosureOf, TypeOK
      <4>4. \A i \in DOMAIN queue' :
              (i = Len(queue) + 1 /\ queue'[i] = q) \/ (i \in DOMAIN queue /\ queue'[i] = queue[i])
        BY <4>3, Added
      <4>5. \A d \in Ids : Heard(d)' => Heard(d) \/ d = c
        BY <4>1, <4>3, <4>4 DEF Heard
      <4>6. \A d \in Ids \ DOMAIN book' : ~ Heard(d)'
        BY <1>1, <1>2, <2>0, <4>5
      <4>7. OnceAtMostOnce'
        BY <1>1, <3>1, <3>4, <4>1 DEF OnceAtMostOnce
      <4>8. \A i \in DOMAIN queue' : Once(queue[i].conn)' =>
              ran'[queue'[i].conn] = <<>> /\ \A j \in DOMAIN queue' : queue'[j].conn = queue'[i].conn => i = j
        <5> SUFFICES ASSUME NEW i \in DOMAIN queue', Once(queue[i].conn)'
                     PROVE  ran[queue'[i].conn] = <<>> /\ \A j \in DOMAIN queue' : queue'[j].conn = queue'[i].conn => i = j
          BY <4>1
        <5>1. PICK d \in DOMAIN book : d = queue'[i].conn
          BY <1>3, <2>0, <4>3, <4>4
        <5>2. Once(d)
          BY <3>4, <5>1 DEF Once
        <5>3. CASE d = c
          <6>1. ~ Heard(c)
            BY <3>3, <5>2, <5>3
          <6>2. \A j \in DOMAIN queue' : queue'[j].conn = c => j = Len(queue) + 1
            BY <4>4, <6>1 DEF Heard
          <6>3. QED BY <5>1, <5>3, <6>1, <6>2 DEF Heard
        <5>4. CASE d # c
          <6>1. \A j \in DOMAIN queue' : queue'[j].conn = d => j \in DOMAIN queue /\ queue[j].conn = d
            BY <4>3, <4>4, <5>4
          <6>2. i \in DOMAIN queue /\ queue[i].conn = d
            BY <5>1, <6>1
          <6>3. QED BY <1>1, <5>1, <5>2, <6>1, <6>2
        <5>5. QED BY <5>3, <5>4
      <4>9. \A d \in DOMAIN book' : Once(d)' /\ Heard(d)' => d \in shot' \/ d \in g.todo \cap g.got
        BY <1>4, <2>0, <3>1, <3>2, <3>4, <4>5
      <4>10. QED BY <1>9, <3>1, <4>6, <4>7, <4>8, <4>9 DEF Shots
    <3>6. CASE ~ book[c].kind.queued
      <4>1. UNCHANGED queue /\ ran' = [ran EXCEPT ![c] = Append(@, f.data)]
        BY <2>4, <3>6 DEF Calls
      <4>2. ran'[c] = Append(ran[c], f.data) /\ \A d \in Ids \ {c} : ran'[d] = ran[d]
        BY <1>0, <4>1 DEF TypeOK
      <4>3. \A d \in Ids : Heard(d)' => Heard(d) \/ d = c
        BY <4>1, <4>2 DEF Heard
      <4>4. \A d \in Ids \ DOMAIN book' : ~ Heard(d)'
        BY <1>1, <1>2, <2>0, <4>3
      <4>5. Once(c) => Len(ran'[c]) <= 1
        <5>1. ASSUME Once(c) PROVE Len(ran'[c]) <= 1
          <6>1. ran[c] = <<>>
            BY <3>3, <5>1 DEF Heard
          <6>2. Len(Append(<<>>, f.data)) = 1
            OBVIOUS
          <6>3. QED BY <4>2, <6>1, <6>2
        <5>2. QED BY <5>1
      <4>6. OnceAtMostOnce'
        <5> SUFFICES ASSUME NEW d \in DOMAIN book, Once(d) PROVE Len(ran'[d]) <= 1
          BY <3>1, <3>4 DEF OnceAtMostOnce
        <5>1. QED BY <1>1, <1>4, <4>2, <4>5
      <4>7. \A j \in DOMAIN queue : queue[j].conn # c
        BY <1>0, <3>6 DEF ClosuresOk, ClosureOk
      <4>8. \A i \in DOMAIN queue' : Once(queue[i].conn)' =>
              ran'[queue'[i].conn] = <<>> /\ \A j \in DOMAIN queue' : queue'[j].conn = queue'[i].conn => i = j
        <5> SUFFICES ASSUME NEW i \in DOMAIN queue, Once(queue[i].conn)'
                     PROVE  ran'[queue[i].conn] = <<>> /\ \A j \in DOMAIN queue : queue[j].conn = queue[i].conn => i = j
          BY <4>1
        <5>1. PICK d \in DOMAIN book : d = queue[i].conn
          BY <1>3
        <5>2. Once(queue[i].conn)
          BY <3>1, <4>1 DEF Once
        <5>3. ran'[d] = ran[d]
          BY <1>4, <4>2, <4>7, <5>1
        <5>4. QED BY <1>1, <5>1, <5>2, <5>3
      <4>9. \A d \in DOMAIN book' : Once(d)' /\ Heard(d)' => d \in shot' \/ d \in g.todo \cap g.got
        BY <1>4, <2>0, <3>1, <3>2, <3>4, <4>3
      <4>10. QED BY <1>9, <3>1, <4>4, <4>6, <4>8, <4>9 DEF Shots
    <3>7. QED BY <3>5, <3>6
  <2>5. QED BY <1>9, <2>1, <2>2, <2>3, <2>4 DEF Proceeding
<1>10. CASE Drains
  <2>0. UNCHANGED <<stack, book, shot>>
    BY <1>10 DEF Drains
  <2>1. PICK q \in Closure : q = Head(queue) /\ 1 \in DOMAIN queue /\ q = queue[1]
    BY <1>0, <1>10, Taken DEF Drains, TypeOK
  <2>2. \A j \in DOMAIN queue' : j \in Nat /\ j + 1 \in DOMAIN queue /\ j + 1 > 1 /\ queue'[j] = queue[j + 1]
    BY <1>0, <1>10, Taken DEF Drains, TypeOK
  <2>3. q.conn \in Ids /\ q.conn \in DOMAIN book
    BY <1>3, <2>1 DEF Closure
  <2>4. \A d \in Ids : ran'[d] = ran[d] \/ (d = q.conn /\ ran'[d] = Append(ran[d], q.data))
    BY <1>0, <1>10, <2>1, <2>3 DEF Drains, TypeOK
  <2>5. \A d \in Ids : Heard(d)' => Heard(d)
    BY <2>1, <2>2, <2>4 DEF Heard
  <2>6. \A d \in DOMAIN book : Once(d)' = Once(d)
    BY <1>2
  <2>7. Once(q.conn) => ran[q.conn] = <<>> /\ \A j \in DOMAIN queue : queue[j].conn = q.conn => j = 1
    BY <1>1, <2>1
  <2>8. OnceAtMostOnce'
    <3> SUFFICES ASSUME NEW d \in DOMAIN book, Once(d) PROVE Len(ran'[d]) <= 1
      BY <2>0, <2>6 DEF OnceAtMostOnce
    <3>1. CASE ran'[d] = ran[d]
      BY <1>1, <3>1
    <3>2. CASE d = q.conn /\ ran'[d] = Append(ran[d], q.data)
      <4>1. ran[d] = <<>>
        BY <2>7, <3>2
      <4>2. Len(Append(<<>>, q.data)) = 1
        OBVIOUS
      <4>3. QED BY <3>2, <4>1, <4>2
    <3>3. QED BY <1>4, <2>4, <3>1, <3>2
  <2>9. \A i \in DOMAIN queue' : Once(queue[i].conn)' =>
          ran'[queue'[i].conn] = <<>> /\ \A j \in DOMAIN queue' : queue'[j].conn = queue'[i].conn => i = j
    <3> SUFFICES ASSUME NEW i \in DOMAIN queue', Once(queue[i].conn)'
                 PROVE  ran'[queue'[i].conn] = <<>> /\ \A j \in DOMAIN queue' : queue'[j].conn = queue'[i].conn => i = j
      OBVIOUS
    <3>1. PICK d \in DOMAIN book : d = queue[i + 1].conn
      BY <1>3, <2>2
    <3>2. d = queue'[i].conn /\ i + 1 \in DOMAIN queue /\ i \in Nat /\ i + 1 > 1
      BY <2>2, <3>1
    <3>3. Once(d)
      BY <2>6, <3>2 DEF Once
    <3>4. ran[d] = <<>> /\ \A j \in DOMAIN queue : queue[j].conn = d => i + 1 = j
      BY <1>1, <3>1, <3>2, <3>3
    <3>5. d # q.conn
      BY <2>1, <3>2, <3>4
    <3>6. ran'[d] = <<>>
      BY <1>4, <2>4, <3>4, <3>5
    <3>7. \A j \in DOMAIN queue' : queue'[j].conn = d => i = j
      BY <2>2, <3>2, <3>4
    <3>8. QED BY <3>2, <3>6, <3>7
  <2>10. \A d \in DOMAIN book' : Once(d)' /\ Heard(d)' =>
           d \in shot' \/ (1 \in DOMAIN stack'[t] /\ d \in stack'[t][1].todo \cap stack'[t][1].got)
    BY <1>1, <1>4, <2>0, <2>5, <2>6
  <2>11. \A d \in Ids \ DOMAIN book' : ~ Heard(d)'
    BY <1>1, <2>0, <2>5
  <2>12. 1 \in DOMAIN stack'[t] /\ stack'[t][1].pc = "call" => Due(stack[t][1])' \notin shot'
    BY <1>1, <2>0 DEF Due
  <2>13. QED BY <2>8, <2>9, <2>10, <2>11, <2>12 DEF Shots
<1>11. QED BY <1>6, <1>7, <1>8, <1>9, <1>10, SoleSteps

-----------------------------------------------------------------------------
(* The theorems.                                                           *)

AloneInTurn == \A t \in Threads : SoloBy(t) => Sole(t) /\ Turn(t) /\ Shots(t)
\* The loop's own thread does not end the sender inside a closure.
HomeLooks == looked /\ use.home => sender = "up"

IInv == Base /\ AloneInTurn /\ HomeLooks

LEMMA InitHolds == Init => IInv
<1> SUFFICES ASSUME Init PROVE IInv
  OBVIOUS
<1>1. Base
  BY BaseHolds
<1>2. DOMAIN <<>> = {} /\ Len(<<>>) = 0
  OBVIOUS
<1>3. (\A t \in Threads : stack[t] = <<>> /\ DOMAIN stack[t] = {}) /\ DOMAIN queue = {} /\ DOMAIN book = {}
  BY <1>2 DEF Init
<1>4. \A c \in Ids : ran[c] = <<>> /\ DOMAIN ran[c] = {}
  BY <1>2 DEF Init
<1>5. \A c \in Ids : ~ Heard(c) /\ \A n : Before(c, n)
  BY <1>3, <1>4 DEF Heard, Before
<1>6. ASSUME NEW t \in Threads PROVE Sole(t) /\ Turn(t) /\ Shots(t)
  <2>1. Sole(t)
    BY <1>2, <1>3 DEF Sole
  <2>2. InTurn /\ InOrder /\ OnceAtMostOnce
    BY <1>3, <1>4 DEF InTurn, InOrder, OnceAtMostOnce
  <2>3. Turn(t)
    BY <1>3, <1>5, <2>2 DEF Turn, Newest, NoEnd, Ahead
  <2>4. Shots(t)
    BY <1>3, <1>5, <2>2 DEF Shots
  <2>5. QED BY <2>1, <2>3, <2>4
<1>7. HomeLooks
  BY Zenon DEF Init, HomeLooks
<1>8. QED BY <1>1, <1>6, <1>7 DEF IInv, AloneInTurn

LEMMA InvInductive == IInv /\ [Next]_vars => IInv'
<1> SUFFICES ASSUME IInv, [Next]_vars PROVE IInv'
  OBVIOUS
<1>1. Base /\ Base'
  BY BaseKept DEF IInv
<1>2. UNCHANGED use
  BY DEF Next, vars, Connect, Disconnect, DestroyObserver, SetSilent, Trigger, DestroySender, Check, Dispatch, Fired,
     Finish, LookPosted, RunPosted
<1>3. ASSUME NEW t \in Threads, SoloBy(t)' PROVE Sole(t)' /\ Turn(t)' /\ Shots(t)'
  <2>1. SoloBy(t)
    BY <1>2, <1>3 DEF SoloBy
  <2>2. Sole(t) /\ Turn(t) /\ Shots(t)
    BY <2>1 DEF IInv, AloneInTurn
  <2>3. QED BY <1>1, <2>1, <2>2, SoleSteps, TurnKept, ShotsKept
<1>4. HomeLooks'
  <2>1. CASE UNCHANGED <<sender, looked>>
    BY <1>2, <2>1 DEF IInv, HomeLooks
  <2>2. CASE LookPosted \/ RunPosted
    BY <1>2, <2>2 DEF IInv, HomeLooks, LookPosted, RunPosted
  <2>3. ASSUME NEW t, DestroySender(t) PROVE HomeLooks'
    BY <1>2, <2>3 DEF HomeLooks, DestroySender
  <2>4. ASSUME NEW t \in Threads, Finish(t) PROVE HomeLooks'
    <3>1. CASE Top(t).sig = "changed"
      BY <1>2, <2>4, <3>1 DEF IInv, HomeLooks, Finish
    <3>2. CASE Top(t).sig = "deleted"
      <4>1. sender = "dying"
        BY <1>1, <2>4, <3>2, Taken DEF Base, Ending, Finish, Top, TypeOK
      <4>2. QED BY <1>2, <2>4, <4>1 DEF IInv, HomeLooks, Finish
    <3>3. QED BY <2>4, <3>1, <3>2 DEF Finish
  <2>5. \A t \in use.threads : t \in Threads
    BY <1>1, ObjectSignalAssumption DEF Base, TypeOK, Use
  <2>6. QED BY <2>1, <2>2, <2>3, <2>4, <2>5 DEF Next, vars, Connect, Disconnect, DestroyObserver, SetSilent, Trigger,
       Check, Dispatch, Fired
<1>5. QED BY <1>1, <1>3, <1>4 DEF IInv, AloneInTurn

\* The state of a sender keeps its shape, whoever uses it (ve::Object).
THEOREM TypeCorrect == Spec => []TypeOK
<1>1. IInv => TypeOK
  BY DEF IInv, Base
<1>2. QED BY <1>1, InitHolds, InvInductive, PTL DEF Spec

\* Whatever threads, observers and kinds of connection use the sender, and
\* however deep its callbacks trigger it again: what has fired is swept from
\* the lists once no trigger is in progress; used by one thread without
\* nesting, a single shot is called at most once, and every callback sees
\* the data in the order in which it was triggered (once and trigger).
THEOREM OnceAndInOrder == Spec => []CalledInTurn
<1>1. IInv => CalledInTurn
  <2> SUFFICES ASSUME IInv PROVE CalledInTurn
    OBVIOUS
  <2>1. FiredAreSwept
    <3> SUFFICES ASSUME \A t \in DOMAIN stack : stack[t] = <<>>, NEW s \in Signals PROVE conns[s] \cap shot = {}
      BY DEF FiredAreSwept
    <3>1. DOMAIN stack = Threads /\ DOMAIN <<>> = {}
      BY DEF IInv, Base, TypeOK
    <3>2. ~ Sweeps(s)
      BY <3>1 DEF Sweeps
    <3>3. QED BY <3>2 DEF IInv, Base, Sweeping
  <2>2. Alone => OnceAtMostOnce /\ InOrder
    BY DEF Alone, IInv, AloneInTurn, SoloBy, Turn, Shots
  <2>3. QED BY <2>1, <2>2 DEF CalledInTurn
<1>2. QED BY <1>1, InitHolds, InvInductive, PTL DEF Spec

\* Once the sender's destructor has begun, no callback that was posted runs,
\* unless it observes the end itself - but for the one closure that has looked
\* at the token before, when the sender ends on another thread than the
\* loop's; and no further closure passes the look (trigger's closure).
THEOREM NotAfterTheEnd == Spec => SenderOutlivesCallbacks
<1>1. IInv /\ [Next]_vars =>
        [\A c \in Ids : ran'[c] # ran[c] /\ book[c].kind.queued /\ book[c].kind.sig = "changed"
           => sender = "up" \/ (looked /\ ~ use.home)]_vars
  <2> SUFFICES ASSUME IInv, [Next]_vars, NEW c \in Ids, ran'[c] # ran[c],
                      book[c].kind.queued, book[c].kind.sig = "changed"
               PROVE  sender = "up" \/ (looked /\ ~ use.home)
    OBVIOUS
  <2>1. TypeOK /\ FramesOk /\ ClosuresOk
    BY DEF IInv, Base
  <2>2. ASSUME NEW t \in Threads, Dispatch(t) PROVE sender = "up"
    <3>1. PICK f, g \in Frame, d \in Ids : Proceeding(t, f, d, g)
      BY <2>1, <2>2, Proceeds
    <3>2. UNCHANGED ran \/ (~ book[d].kind.queued /\ ran' = [ran EXCEPT ![d] = Append(@, f.data)])
      BY <3>1, <2>2 DEF Proceeding, Calls, Check, Fired
    <3>3. QED BY <2>1, <3>2 DEF TypeOK
  <2>3. CASE RunPosted
    <3>1. PICK q \in Closure : q = Head(queue) /\ ClosureOk(q)
      BY <2>1, <2>3, Taken DEF RunPosted, TypeOK, ClosuresOk
    <3>2. ~ q.checkSender \/ looked
      BY <2>3, <3>1 DEF RunPosted
    <3>3. q.conn = c
      BY <2>1, <2>3, <3>1 DEF RunPosted, TypeOK
    <3>4. looked
      BY <3>1, <3>2, <3>3 DEF ClosureOk
    <3>5. QED BY <3>4 DEF IInv, HomeLooks
  <2>4. CASE UNCHANGED ran
    BY <2>4
  <2>5. QED
    <3>1. \A t \in use.threads : t \in Threads
      BY <2>1, ObjectSignalAssumption DEF TypeOK, Use
    <3>2. QED BY <2>2, <2>3, <2>4, <3>1 DEF Next, vars, Connect, Disconnect, DestroyObserver, SetSilent, Trigger,
         DestroySender, Check, Fired, Finish, LookPosted
<1>2. IInv /\ [Next]_vars => [sender # "up" /\ looked' => looked]_vars
  <2> SUFFICES ASSUME IInv, [Next]_vars, sender # "up", looked' PROVE looked
    OBVIOUS
  <2>1. CASE LookPosted
    BY <2>1 DEF LookPosted
  <2>2. CASE RunPosted
    BY <2>2 DEF RunPosted
  <2>3. CASE UNCHANGED looked
    BY <2>3
  <2>4. QED BY <2>1, <2>2, <2>3 DEF Next, vars, Connect, Disconnect, DestroyObserver, SetSilent, Trigger, DestroySender,
       Check, Dispatch, Fired, Finish
<1>3. QED BY <1>1, <1>2, InitHolds, InvInductive, PTL DEF Spec, SenderOutlivesCallbacks

\* Only the end of a trigger takes it from its stack.
LEMMA OnlyFinishEnds ==
  ASSUME Base, [Next]_vars, NEW t \in Threads, Len(stack'[t]) < Len(stack[t])
  PROVE  Finish(t)
<1>0. TypeOK /\ FramesOk
  BY DEF Base
<1>1. Len(stack[t]) \in Nat
  BY <1>0 DEF TypeOK
<1>2. CASE UNCHANGED stack
  BY <1>1, <1>2
<1>3. ASSUME NEW u \in Threads, Trigger(u) \/ DestroySender(u) PROVE FALSE
  <2>1. PICK g \in Frame : Opening(u, g)
    BY <1>0, <1>3, Begins
  <2>2. Len(stack'[u]) = Len(stack[u]) + 1 /\ Len(stack[u]) \in Nat /\ \A w \in Threads \ {u} : stack'[w] = stack[w]
    BY <1>0, <2>1, TopEntered DEF Opening, Entered
  <2>3. CASE t = u
    BY <1>1, <2>2, <2>3
  <2>4. CASE t # u
    BY <1>1, <2>2, <2>4
  <2>5. QED BY <2>3, <2>4
<1>4. ASSUME NEW u \in Threads, Check(u) \/ Dispatch(u) \/ Fired(u) PROVE FALSE
  <2>1. PICK f, g \in Frame, c \in Ids : Proceeding(u, f, c, g)
    BY <1>0, <1>4, Proceeds
  <2>2. Len(stack'[t]) = Len(stack[t])
    BY <1>0, <2>1, TopReplaced DEF Proceeding, Replaced
  <2>3. QED BY <1>1, <2>2
<1>5. ASSUME NEW u \in Threads, Finish(u) PROVE u = t
  <2>1. u # t => stack'[t] = stack[t]
    BY <1>0, <1>5, TopEnded DEF Finish, Ended
  <2>2. QED BY <1>1, <2>1
<1>6. QED
  <2>1. \A u \in use.threads : u \in Threads
    BY <1>0, ObjectSignalAssumption DEF TypeOK, Use
  <2>2. QED BY <2>1, <1>2, <1>3, <1>4, <1>5 DEF Next, vars, Connect, Disconnect, DestroyObserver, SetSilent, LookPosted, RunPosted

\* Whatever callbacks connect, disconnect, destroy or trigger meanwhile, and
\* however many threads do: a trigger that ends has reached every connection
\* that was there when it began and still is, with a living observer, and its
\* sweep takes no connection that is alive (trigger).
THEOREM EveryoneReachedAndKept == Spec => ReachedAndKept
<1>1. IInv /\ [Next]_vars =>
        [\A t \in DOMAIN stack : Len(stack'[t]) < Len(stack[t]) =>
           \A c \in DOMAIN book :
             /\ c <= Top(t).upto
             /\ c \in conns[Top(t).sig]
             /\ ~ IsDead(c)
             => c \in Top(t).got]_vars
  <2> SUFFICES ASSUME IInv, [Next]_vars, NEW t \in DOMAIN stack, Len(stack'[t]) < Len(stack[t]),
                      NEW c \in DOMAIN book, c <= Top(t).upto, c \in conns[Top(t).sig], ~ IsDead(c)
               PROVE  c \in Top(t).got
    OBVIOUS
  <2>1. TypeOK /\ FramesOk /\ Reached /\ t \in Threads
    BY DEF IInv, Base, TypeOK
  <2>2. Finish(t)
    BY <2>1, OnlyFinishEnds DEF IInv
  <2>3. PICK f \in Frame : f = Top(t) /\ f = stack[t][1] /\ 1 \in DOMAIN stack[t] /\ f.todo = {}
    BY <2>1, <2>2, TopKnown DEF Finish
  <2>4. Reaches(f)
    BY <2>1, <2>3 DEF Reached
  <2>5. QED BY <2>3, <2>4 DEF Reaches
<1>2. IInv /\ [Next]_vars =>
        [sender' = sender /\ (\E t \in DOMAIN stack : Len(stack'[t]) < Len(stack[t])) =>
           \A s \in Signals : {c \in conns'[s] : ~ IsDead(c)} = {c \in conns[s] : ~ IsDead(c)}]_vars
  <2> SUFFICES ASSUME IInv, [Next]_vars, sender' = sender,
                      NEW t \in DOMAIN stack, Len(stack'[t]) < Len(stack[t]), NEW s \in Signals
               PROVE  {c \in conns'[s] : ~ IsDead(c)} = {c \in conns[s] : ~ IsDead(c)}
    OBVIOUS
  <2>1. TypeOK /\ FramesOk /\ Ending /\ t \in Threads
    BY DEF IInv, Base, TypeOK
  <2>2. Finish(t)
    BY <2>1, OnlyFinishEnds DEF IInv
  <2>3. Top(t) = stack[t][1] /\ 1 \in DOMAIN stack[t]
    BY <2>1, <2>2, TopKnown DEF Finish
  <2>4. Top(t).sig # "deleted"
    BY <2>1, <2>2, <2>3 DEF Finish, Ending
  <2>5. conns' = conns \/ conns' = [conns EXCEPT ![Top(t).sig] = Swept(@, Top(t))]
    BY <2>2, <2>4 DEF Finish
  <2>6. conns'[s] = conns[s] \/ conns'[s] = Swept(conns[s], Top(t))
    BY <2>1, <2>5 DEF TypeOK
  <2>7. QED BY <2>6 DEF Swept
<1>3. QED BY <1>1, <1>2, InitHolds, InvInductive, PTL DEF Spec, ReachedAndKept, EveryoneReached, SweepSparesTheLiving
=============================================================================
