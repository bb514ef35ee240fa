---------------------------- MODULE ServiceProofs ---------------------------
(***************************************************************************)
(* Proofs about what several threads share, part by part: for any number   *)
(* of threads that ensure and take children, of writers, listeners and     *)
(* nodes, of servers' ports, of workers and tasks, of commands, clients    *)
(* and requests, and of objects and names.                                 *)
(*                                                                         *)
(* Each part has its own inductive invariant, which holds at the start     *)
(* (...Start), is kept by every step (...Step) and implies what the part   *)
(* promises (...Safe); the theorems at the end say it of the whole.  The   *)
(* objects are those of careful users.                                     *)
(***************************************************************************)
EXTENDS MCServices, FiniteSetTheorems, WellFoundedInduction, TLAPS

-----------------------------------------------------------------------------
(* The children of a node.  What is shared is the list of the overlaps of  *)
(* one name.                                                               *)

\* The list holds nodes that were made.
Listed == kids = NULL \/ kids \in Seq(1 .. fresh)
\* No node is twice in it.
Apart == kids # NULL => \A i, j \in DOMAIN kids : kids[i] = kids[j] => i = j
\* A node is handed out once, and no node of the list was (Node::take).
Handed ==
  /\ taken \in [Fa!Kin -> {0, 1}]
  /\ \A n \in Fa!Kin : n > fresh => taken[n] = 0
  /\ kids # NULL => \A i \in DOMAIN kids : taken[kids[i]] = 0
\* Whoever was given a node for an overlap finds it there, as nothing has been taken.
Standing ==
  \A a \in answers : a.node \in Fa!Kin =>
    kids # NULL /\ a.overlap + 1 \in DOMAIN kids /\ kids[a.overlap + 1] = a.node
\* What holds of the children between two steps.
ChildrenInv ==
  /\ fresh \in 0 .. MaxNodes
  /\ want \in [Threads -> Nat] /\ seen \in [Threads -> Nat]
  /\ answers \subseteq [overlap : Nat, node : Int]
  /\ Listed /\ Apart /\ Handed /\ Standing

\* Before the first call there is no list.
LEMMA ChildrenStart == ASSUME Fa!Init PROVE ChildrenInv
BY ChildrenAssumption DEF Fa!Init, ChildrenInv, Listed, Apart, Handed, Standing, Fa!Kin

\* A sequence over a set is one over a larger set.
LEMMA SeqOfMore == ASSUME NEW S, NEW T, S \subseteq T, NEW s \in Seq(S) PROVE s \in Seq(T)
OBVIOUS

\* Of a list without the place i.
LEMMA RemovedAt ==
  ASSUME NEW S, NEW s \in Seq(S), NEW i \in DOMAIN s
  PROVE  /\ Fa!RemoveAt(s, i) \in Seq(S)
         /\ DOMAIN Fa!RemoveAt(s, i) = 1 .. Len(s) - 1
         /\ \A j \in 1 .. Len(s) - 1 : Fa!RemoveAt(s, i)[j] = s[IF j < i THEN j ELSE j + 1]
<1> DEFINE a == SubSeq(s, 1, i - 1)
           b == SubSeq(s, i + 1, Len(s))
<1>1. i \in Nat /\ i >= 1 /\ i <= Len(s) /\ Len(s) \in Nat
  OBVIOUS
<1>2. a \in Seq(S) /\ b \in Seq(S)
  BY <1>1
<1>3. Len(a) = i - 1 /\ Len(b) = Len(s) - i
  BY <1>1
<1>4. /\ \A j \in 1 .. i - 1 : a[j] = s[j]
      /\ \A j \in 1 .. Len(s) - i : b[j] = s[i + j]
  BY <1>1
<1> HIDE DEF a, b
<1>5. a \o b \in Seq(S) /\ Len(a \o b) = Len(s) - 1
  BY <1>1, <1>2, <1>3
<1>6. DOMAIN (a \o b) = 1 .. Len(s) - 1
  BY <1>5
<1>7. ASSUME NEW j \in 1 .. Len(s) - 1
      PROVE  (a \o b)[j] = s[IF j < i THEN j ELSE j + 1]
  <2>1. CASE j < i
    <3>1. j \in 1 .. i - 1 /\ (a \o b)[j] = a[j]
      BY <1>1, <1>2, <1>3, <2>1
    <3> QED BY <3>1, <1>4, <2>1
  <2>2. CASE ~ j < i
    <3>1. j - i + 1 \in 1 .. Len(s) - i /\ (a \o b)[j] = b[j - i + 1]
      BY <1>1, <1>2, <1>3, <2>2
    <3>2. i + (j - i + 1) = j + 1
      BY <1>1
    <3> QED BY <3>1, <3>2, <1>4, <2>2
  <2> QED BY <2>1, <2>2
<1>8. Fa!RemoveAt(s, i) = a \o b
  BY DEF Fa!RemoveAt, a, b
<1> QED BY <1>5, <1>6, <1>7, <1>8

\* Calls that look, lock, append and take keep it, whatever they saw before the lock (Node::atKey, Node::take).
LEMMA ChildrenStep ==
  ASSUME ChildrenInv, Fa!Next
  PROVE  ChildrenInv'
<1> USE ChildrenAssumption DEF Fa!Kin
<1>0. fresh \in Nat /\ fresh <= MaxNodes
  BY DEF ChildrenInv
<1>1. ASSUME NEW t \in Threads, NEW overlap \in 0 .. MaxOverlap, Fa!At(t, overlap) PROVE ChildrenInv'
  <2>1. UNCHANGED <<kids, fresh, seen, taken>> /\ want' \in [Threads -> Nat]
    BY <1>1 DEF Fa!At, ChildrenInv
  <2>2. Listed' /\ Apart' /\ Handed'
    BY <2>1 DEF Listed, Apart, Handed, ChildrenInv
  <2>3. CASE answers' = answers
    BY <2>1, <2>2, <2>3 DEF ChildrenInv, Standing
  <2>4. CASE answers' = answers \cup {[overlap |-> overlap, node |-> Fa!Found(overlap)]} /\ Fa!Found(overlap) # NULL
    <3>1. CASE Fa!Child(overlap) = NULL
      <4>1. Fa!Found(overlap) = -(overlap + 1) /\ -(overlap + 1) \in Int /\ -(overlap + 1) \notin Fa!Kin
        <5>1. overlap \in Nat /\ -(overlap + 1) \in Int /\ ~ -(overlap + 1) >= 1
          OBVIOUS
        <5>2. Fa!Found(overlap) = -(overlap + 1)
          BY <2>4, <3>1 DEF Fa!Found
        <5> QED BY <5>1, <5>2
      <4>2. Standing'
        BY <4>1, <2>1, <2>4 DEF Standing, ChildrenInv
      <4> QED BY <4>1, <4>2, <2>1, <2>2, <2>4 DEF ChildrenInv
    <3>2. CASE Fa!Child(overlap) # NULL
      <4>1. kids # NULL /\ overlap < Len(kids) /\ Fa!Found(overlap) = kids[overlap + 1] /\ kids \in Seq(1 .. fresh)
        BY <3>2 DEF Fa!Found, Fa!Child, Fa!Kids, ChildrenInv, Listed
      <4>2. overlap + 1 \in DOMAIN kids /\ kids[overlap + 1] \in Int
        BY <4>1, <1>0
      <4>3. Standing'
        BY <4>1, <4>2, <2>1, <2>4 DEF Standing, ChildrenInv
      <4> QED BY <4>1, <4>2, <4>3, <2>1, <2>2, <2>4 DEF ChildrenInv
    <3> QED BY <3>1, <3>2
  <2> QED BY <2>3, <2>4, <1>1 DEF Fa!At
<1>2. ASSUME NEW t \in Threads, Fa!Count(t) PROVE ChildrenInv'
  <2>1. Len(Fa!Kids) \in Nat
    BY <1>0 DEF Fa!Kids, ChildrenInv, Listed
  <2> QED BY <1>2, <2>1 DEF Fa!Count, ChildrenInv, Listed, Apart, Handed, Standing
<1>3. ASSUME NEW t \in Threads, Fa!Append_(t) PROVE ChildrenInv'
  <2> DEFINE n == Fa!Missing(t)
  <2>1. UNCHANGED <<answers, taken>>
    BY <1>3 DEF Fa!Append_
  <2>2. CASE UNCHANGED <<kids, fresh>> /\ Fa!Return(t, NULL)
    <3>1. want' \in [Threads -> Nat] /\ seen' \in [Threads -> Nat]
      BY <2>2 DEF Fa!Return, ChildrenInv
    <3> QED BY <2>1, <2>2, <3>1 DEF ChildrenInv, Listed, Apart, Handed, Standing
  <2>3. CASE n > 0 /\ fresh + n <= MaxNodes /\ fresh' = fresh + n /\ kids' = Fa!Kids \o [i \in 1 .. n |-> fresh + i] /\ UNCHANGED <<want, seen>>
    <3> DEFINE k == Fa!Kids
               more == [i \in 1 .. n |-> fresh + i]
    <3>1. n \in Nat
      BY <2>3 DEF Fa!Missing, ChildrenInv
    <3> HIDE DEF n
    <3>2. k \in Seq(1 .. fresh) /\ (kids # NULL => k = kids) /\ (kids = NULL => k = <<>>)
      <4>1. <<>> \in Seq(1 .. fresh)
        OBVIOUS
      <4> QED BY <4>1 DEF Fa!Kids, ChildrenInv, Listed
    <3> HIDE DEF k
    <3>3. more \in Seq(1 .. fresh + n) /\ Len(more) = n /\ k \in Seq(1 .. fresh + n)
      <4>1. \A i \in 1 .. n : fresh + i \in 1 .. fresh + n
        BY <3>1, <1>0
      <4>2. more \in Seq(1 .. fresh + n)
        BY <4>1, <3>1
      <4>3. Len(more) = n
        BY <3>1
      <4>4. \A i \in DOMAIN k : k[i] \in 1 .. fresh + n
        BY <3>1, <3>2, <1>0
      <4>5. 1 .. fresh \subseteq 1 .. fresh + n
        BY <3>1, <1>0
      <4> QED BY <4>2, <4>3, <4>4, <4>5, <3>2, SeqOfMore
    <3>4. \A i \in 1 .. n : more[i] = fresh + i
      OBVIOUS
    <3> HIDE DEF more
    <3>5. /\ kids' \in Seq(1 .. fresh') /\ Len(kids') = Len(k) + n
          /\ \A i \in 1 .. Len(k) : kids'[i] = k[i]
          /\ \A i \in Len(k) + 1 .. Len(k) + n : kids'[i] = fresh + (i - Len(k))
      <4>1. kids' = k \o more
        BY <2>3 DEF k, more, n
      <4>2. k \o more \in Seq(1 .. fresh + n) /\ Len(k \o more) = Len(k) + n
        BY <3>3
      <4>3. ASSUME NEW i \in Len(k) + 1 .. Len(k) + n PROVE (k \o more)[i] = fresh + (i - Len(k))
        <5>1. i - Len(k) \in 1 .. n /\ (k \o more)[i] = more[i - Len(k)]
          BY <3>1, <3>2, <3>3
        <5> QED BY <5>1, <3>4
      <4>4. \A i \in 1 .. Len(k) : (k \o more)[i] = k[i]
        BY <3>3
      <4>5. fresh' = fresh + n
        BY <2>3 DEF n
      <4> QED BY <4>1, <4>2, <4>3, <4>4, <4>5
    <3>6. kids' # NULL /\ Listed' /\ fresh' \in 0 .. MaxNodes /\ fresh' = fresh + n
      <4>1. kids' \in Seq(Nat)
        BY <3>5, <3>1, <1>0, <2>3
      <4>2. fresh' = fresh + n /\ fresh + n <= MaxNodes
        BY <2>3 DEF n
      <4> QED BY <4>1, <4>2, <3>5, <1>0, <3>1 DEF Listed
    <3>7. DOMAIN kids' = 1 .. Len(k) + n /\ Len(k) \in Nat /\ DOMAIN k = 1 .. Len(k)
      BY <3>5, <3>2
    <3>8. \A i \in 1 .. Len(k) : k[i] \in Nat /\ k[i] >= 1 /\ k[i] <= fresh
      BY <3>2, <1>0
    <3>9. Apart'
      <4> SUFFICES ASSUME NEW i \in 1 .. Len(k) + n, NEW j \in 1 .. Len(k) + n, kids'[i] = kids'[j] PROVE i = j
        BY <3>7 DEF Apart
      <4>1. \A p, q \in 1 .. Len(k) : k[p] = k[q] => p = q
        <5>1. CASE kids = NULL
          BY <5>1, <3>2
        <5>2. CASE kids # NULL
          BY <5>2, <3>2, <3>7 DEF ChildrenInv, Apart
        <5> QED BY <5>1, <5>2
      <4>2. i \in 1 .. Len(k) \/ i \in Len(k) + 1 .. Len(k) + n
        BY <3>1, <3>7
      <4>3. j \in 1 .. Len(k) \/ j \in Len(k) + 1 .. Len(k) + n
        BY <3>1, <3>7
      <4> QED BY <4>1, <4>2, <4>3, <3>1, <3>5, <3>7, <3>8, <1>0
    <3>10. Handed'
      <4>1. \A i \in 1 .. Len(k) : taken[k[i]] = 0
        BY <3>2, <3>7 DEF ChildrenInv, Handed
      <4>2. \A i \in Len(k) + 1 .. Len(k) + n : kids'[i] \in Fa!Kin /\ kids'[i] > fresh
        BY <3>1, <3>5, <3>6, <3>7, <1>0
      <4>3. ASSUME NEW i \in 1 .. Len(k) + n PROVE taken[kids'[i]] = 0
        <5>1. CASE i \in 1 .. Len(k)
          BY <5>1, <4>1, <3>5
        <5>2. CASE i \in Len(k) + 1 .. Len(k) + n
          BY <5>2, <4>2 DEF ChildrenInv, Handed
        <5> QED BY <5>1, <5>2, <3>1, <3>7
      <4>4. \A m \in Fa!Kin : m > fresh' => m > fresh
        BY <3>6, <3>1, <1>0
      <4> QED BY <4>3, <4>4, <3>7, <2>1 DEF ChildrenInv, Handed
    <3>11. Standing'
      <4> SUFFICES ASSUME NEW a \in answers, a.node \in Fa!Kin
                   PROVE  kids' # NULL /\ a.overlap + 1 \in DOMAIN kids' /\ kids'[a.overlap + 1] = a.node
        BY <2>1 DEF Standing
      <4>1. kids # NULL /\ a.overlap + 1 \in DOMAIN kids /\ kids[a.overlap + 1] = a.node
        BY DEF ChildrenInv, Standing
      <4>2. a.overlap + 1 \in 1 .. Len(k) /\ k[a.overlap + 1] = a.node
        BY <4>1, <3>2, <3>7
      <4> QED BY <4>2, <3>5, <3>6, <3>7, <3>1
    <3> QED BY <3>6, <3>9, <3>10, <3>11, <2>1, <2>3 DEF ChildrenInv
  <2> QED BY <1>3, <2>2, <2>3 DEF Fa!Append_
<1>4. ASSUME NEW t \in Threads, Fa!Rematch(t) PROVE ChildrenInv'
  <2>1. UNCHANGED <<kids, fresh, taken>> /\ Fa!Answer(t, Fa!Rematched(t))
    BY <1>4 DEF Fa!Rematch
  <2>2. want' \in [Threads -> Nat] /\ seen' \in [Threads -> Nat]
    BY <2>1 DEF Fa!Answer, Fa!Return, ChildrenInv
  <2>3. Listed' /\ Apart' /\ Handed'
    BY <2>1 DEF Listed, Apart, Handed, ChildrenInv
  <2>4. want[t] \in Nat
    BY DEF ChildrenInv
  <2>5. CASE Fa!Rematched(t) = NULL
    <3>1. answers' = answers
      BY <2>1, <2>5 DEF Fa!Answer
    <3> QED BY <3>1, <2>1, <2>2, <2>3 DEF ChildrenInv, Standing
  <2>6. CASE Fa!Rematched(t) # NULL
    <3>1. kids # NULL /\ want[t] < Len(kids) /\ Fa!Rematched(t) = kids[want[t] + 1] /\ kids \in Seq(1 .. fresh)
      <4>1. Fa!Kids # <<>>
        BY <2>6, <2>4 DEF Fa!Rematched, Fa!Child
      <4> QED BY <4>1, <2>6 DEF Fa!Rematched, Fa!Child, Fa!Kids, ChildrenInv, Listed
    <3>2. want[t] + 1 \in DOMAIN kids /\ kids[want[t] + 1] \in Int
      BY <3>1, <2>4, <1>0
    <3>3. answers' = answers \cup {[overlap |-> want[t], node |-> kids[want[t] + 1]]}
      BY <2>1, <2>6, <3>1 DEF Fa!Answer
    <3>4. Standing'
      BY <3>1, <3>2, <3>3, <2>1 DEF ChildrenInv, Standing
    <3> QED BY <3>2, <3>3, <3>4, <2>1, <2>2, <2>3, <2>4 DEF ChildrenInv
  <2> QED BY <2>5, <2>6
<1>5. ASSUME NEW t \in Threads, NEW n \in Fa!Kin, Fa!TakeCheck(t, n) PROVE ChildrenInv'
  BY <1>5 DEF Fa!TakeCheck, ChildrenInv, Listed, Apart, Handed, Standing
<1>6. ASSUME NEW t \in Threads, Fa!TakeLocked(t) PROVE ChildrenInv'
  <2> DEFINE n == want[t]
  <2>0. fresh' = fresh
    BY <1>6 DEF Fa!TakeLocked
  <2>1. CASE UNCHANGED <<kids, answers, taken>> /\ (UNCHANGED <<want, seen>> \/ Fa!Return(t, NULL))
    <3>1. want' \in [Threads -> Nat] /\ seen' \in [Threads -> Nat]
      <4>1. CASE UNCHANGED <<want, seen>>
        BY <4>1 DEF ChildrenInv
      <4>2. CASE Fa!Return(t, NULL)
        BY <4>2 DEF Fa!Return, ChildrenInv
      <4> QED BY <2>1, <4>1, <4>2
    <3> QED BY <2>0, <2>1, <3>1 DEF ChildrenInv, Listed, Apart, Handed, Standing
  <2>2. ASSUME kids # NULL, NEW i \in DOMAIN kids, kids[i] = n, kids' = Fa!RemoveAt(kids, i),
               taken' = [taken EXCEPT ![n] = @ + 1], answers' = {}, Fa!Return(t, n)
        PROVE  ChildrenInv'
    <3>1. want' \in [Threads -> Nat] /\ seen' \in [Threads -> Nat]
      BY <2>2 DEF Fa!Return, ChildrenInv
    <3>2. kids \in Seq(1 .. fresh)
      BY <2>2 DEF ChildrenInv, Listed
    <3>21. \A p \in 1 .. Len(kids) : kids[p] \in 1 .. fresh
      <4>1. ASSUME NEW S, NEW s \in Seq(S), NEW p \in 1 .. Len(s) PROVE s[p] \in S
        OBVIOUS
      <4> QED BY <3>2, <4>1
    <3>3. /\ kids' \in Seq(1 .. fresh) /\ DOMAIN kids' = 1 .. Len(kids) - 1
          /\ \A j \in 1 .. Len(kids) - 1 : kids'[j] = kids[IF j < i THEN j ELSE j + 1]
      BY <2>2, <3>2, RemovedAt
    <3>4. Len(kids) \in Nat /\ DOMAIN kids = 1 .. Len(kids) /\ i \in 1 .. Len(kids) /\ n \in Fa!Kin /\ n <= fresh
      BY <3>2, <2>2, <1>0
    <3>5. \A p, q \in 1 .. Len(kids) : kids[p] = kids[q] => p = q
      BY <3>4, <2>2 DEF ChildrenInv, Apart
    <3>6. Apart'
      <4> SUFFICES ASSUME NEW p \in 1 .. Len(kids) - 1, NEW q \in 1 .. Len(kids) - 1, kids'[p] = kids'[q] PROVE p = q
        BY <3>3 DEF Apart
      <4>1. (IF p < i THEN p ELSE p + 1) \in 1 .. Len(kids) /\ (IF q < i THEN q ELSE q + 1) \in 1 .. Len(kids)
        BY <3>4
      <4>2. (IF p < i THEN p ELSE p + 1) = (IF q < i THEN q ELSE q + 1)
        BY <4>1, <3>3, <3>5
      <4> QED BY <4>2, <3>4
    <3>7. taken \in [Fa!Kin -> {0, 1}] /\ taken[n] = 0
      BY <3>4, <2>2 DEF ChildrenInv, Handed
    <3>8. Handed'
      <4>1. taken' \in [Fa!Kin -> {0, 1}] /\ \A m \in Fa!Kin : m # n => taken'[m] = taken[m]
        BY <3>7, <3>4, <2>2
      <4>2. ASSUME NEW j \in 1 .. Len(kids) - 1 PROVE taken'[kids'[j]] = 0
        <5>1. PICK p \in 1 .. Len(kids) : kids'[j] = kids[p] /\ p # i
          BY <3>3, <3>4
        <5>2. kids[p] # n
          BY <5>1, <3>4, <3>5, <2>2
        <5>3. kids[p] \in 1 .. fresh
          BY <5>1, <3>21
        <5>4. kids[p] \in Fa!Kin
          BY <5>3, <1>0
        <5>5. taken[kids[p]] = 0
          BY <5>1, <3>4, <2>2 DEF ChildrenInv, Handed
        <5> QED BY <5>1, <5>2, <5>4, <5>5, <4>1
      <4>3. \A m \in Fa!Kin : m > fresh => m # n
        BY <3>4, <1>0
      <4> QED BY <4>1, <4>2, <4>3, <3>3, <2>0 DEF ChildrenInv, Handed
    <3> QED BY <2>0, <2>2, <3>1, <3>3, <3>6, <3>8 DEF ChildrenInv, Listed, Standing
  <2> QED BY <1>6, <2>1, <2>2 DEF Fa!TakeLocked
<1>7. ASSUME NEW t \in Threads, Fa!ClearCheck(t) PROVE ChildrenInv'
  BY <1>7 DEF Fa!ClearCheck, ChildrenInv, Listed, Apart, Handed, Standing
<1>8. ASSUME NEW t \in Threads, Fa!ClearLocked(t) PROVE ChildrenInv'
  <2>1. want' \in [Threads -> Nat] /\ seen' \in [Threads -> Nat]
    BY <1>8 DEF Fa!ClearLocked, Fa!Return, ChildrenInv
  <2> QED BY <1>8, <2>1 DEF Fa!ClearLocked, ChildrenInv, Listed, Apart, Handed, Standing
<1> QED BY <1>1, <1>2, <1>3, <1>4, <1>5, <1>6, <1>7, <1>8 DEF Fa!Next

\* Two who are given a node for the same overlap are given the same.
LEMMA ChildrenSafe == ASSUME ChildrenInv PROVE Fa!EnsureAgrees /\ Fa!TakenOnce
<1>1. Fa!EnsureAgrees
  BY DEF ChildrenInv, Standing, Fa!EnsureAgrees
<1>2. Fa!TakenOnce
  BY DEF ChildrenInv, Handed, Fa!TakenOnce
<1> QED BY <1>1, <1>2

-----------------------------------------------------------------------------
(* The ports of the four servers, opened in Order and closed in Closing.   *)

\* Where a round stands, and what is open.
PortsTyped ==
  /\ stage \in {"down", "opening", "up", "closing"} /\ at \in Nat /\ rounds \in Nat
  /\ stage = "opening" => at \in 1 .. Len(Order) /\ trying \in Nat /\ trying >= Port[Order[at]]
  /\ stage = "closing" => at \in 1 .. Len(Closing)
  /\ open \in [Served!Servers -> SUBSET Nat]
  /\ listening \in [Served!Servers -> BOOLEAN] /\ port \in [Served!Servers -> Nat]
\* What the node tree shows of a server is what is open (server_module.cpp).
Shown ==
  \A s \in Served!Servers :
    /\ listening[s] <=> open[s] # {}
    /\ listening[s] => open[s] = {port[s]} /\ port[s] \in Port[s] .. Served!LastPort(s)
\* What has not been opened yet or is already closed has no port.
Shut ==
  /\ stage = "down" => \A s \in Served!Servers : open[s] = {}
  /\ stage = "opening" => \A j \in 1 .. Len(Order) : j >= at => open[Order[j]] = {}
  /\ stage = "closing" => \A j \in 1 .. Len(Closing) : j < at => open[Closing[j]] = {}
\* The REPL of a client is not opened again once a round is over.
Replaced == client /\ rounds > 0 => Served!Repl \notin enabled /\ open[Served!Repl] = {}
\* What holds of the ports between two steps.
PortsInv == PortsTyped /\ Shown /\ Shut /\ Replaced

\* What is said of the orders, place by place.
LEMMA PortFacts ==
  /\ Len(Order) \in Nat /\ Len(Order) >= 1 /\ DOMAIN Order = 1 .. Len(Order)
  /\ \A i \in 1 .. Len(Order) : Order[i] \in Served!Servers
  /\ Len(Closing) \in Nat /\ Len(Closing) >= 1 /\ DOMAIN Closing = 1 .. Len(Closing)
  /\ \A i \in 1 .. Len(Closing) : Closing[i] \in Served!Servers
  /\ \A s \in Served!Servers : \E i \in 1 .. Len(Closing) : Closing[i] = s
  /\ Served!Repl \in Served!Servers /\ Served!Repl = Order[1]
  /\ \A s \in Served!Servers : Port[s] \in Nat /\ Served!LastPort(s) \in 0 .. Width - 1
<1>1. /\ Len(Order) \in Nat /\ Len(Order) >= 1 /\ DOMAIN Order = 1 .. Len(Order)
      /\ \A i \in 1 .. Len(Order) : Order[i] \in Served!Servers
  BY PortsAssumption
<1>2. /\ Len(Closing) \in Nat /\ DOMAIN Closing = 1 .. Len(Closing)
      /\ \A i \in 1 .. Len(Closing) : Closing[i] \in Served!Servers
      /\ \A s \in Served!Servers : \E i \in 1 .. Len(Closing) : Closing[i] = s
  <2>1. Closing \in Seq(Served!Servers) /\ \A s \in {Closing[i] : i \in DOMAIN Closing} : \E i \in DOMAIN Closing : Closing[i] = s
    BY PortsAssumption
  <2>2. Len(Closing) \in Nat /\ DOMAIN Closing = 1 .. Len(Closing)
    BY <2>1
  <2>3. \A i \in 1 .. Len(Closing) : Closing[i] \in Served!Servers
    BY <2>1, <2>2
  <2> QED BY <2>1, <2>2, <2>3, PortsAssumption
<1>3. Served!Repl \in Served!Servers /\ Served!Repl = Order[1]
  BY <1>1 DEF Served!Repl
<1>4. Len(Closing) >= 1
  BY <1>2, <1>3
<1>5. \A s \in Served!Servers : Port[s] \in Nat /\ Served!LastPort(s) \in 0 .. Width - 1
  BY PortsAssumption
<1> QED BY <1>1, <1>2, <1>3, <1>4, <1>5

\* At the start nothing is open.
LEMMA PortsStart == ASSUME Served!PortInit PROVE PortsInv
<1> HIDE DEF Served!Servers, Served!Repl
<1> QED BY PortFacts DEF Served!PortInit, PortsInv, PortsTyped, Shown, Shut, Replaced

\* On to the next server, what is open staying as it is told.
LEMMA PortsOnwards ==
  ASSUME PortsTyped, stage = "opening", Served!Onwards, open' \in [Served!Servers -> SUBSET Nat],
         \A j \in 1 .. Len(Order) : j > at => open'[Order[j]] = {}
  PROVE  /\ stage' \in {"opening", "up"} /\ at' \in Nat
         /\ stage' = "opening" => at' \in 1 .. Len(Order) /\ trying' \in Nat /\ trying' >= Port[Order[at']]
         /\ stage' = "opening" => \A j \in 1 .. Len(Order) : j >= at' => open'[Order[j]] = {}
<1>1. at \in 1 .. Len(Order)
  BY DEF PortsTyped
<1>2. CASE at = Len(Order)
  BY <1>1, <1>2 DEF Served!Onwards
<1>3. CASE at # Len(Order)
  <2>1. stage' = "opening" /\ at' = at + 1 /\ trying' = Port[Order[at + 1]]
    BY <1>3 DEF Served!Onwards
  <2>2. at + 1 \in 1 .. Len(Order)
    BY <1>1, <1>3, PortFacts
  <2>3. Port[Order[at + 1]] \in Nat
    BY <2>2, PortFacts
  <2>4. \A j \in 1 .. Len(Order) : j >= at + 1 => j > at
    BY <1>1
  <2> QED BY <2>1, <2>2, <2>3, <2>4
<1> QED BY <1>2, <1>3

\* Opening, retrying the next port, failing, closing and a second round keep it (ServerModule::ready, deinit).
LEMMA PortsStep ==
  ASSUME PortsInv, Served!PortNext
  PROVE  PortsInv'
<1> HIDE DEF Served!Servers, Served!Repl, Served!LastPort
<1>0. PortsTyped /\ Shown /\ Shut /\ Replaced
  BY DEF PortsInv
<1>1. CASE Served!InitModule
  BY <1>1, <1>0, PortFacts DEF Served!InitModule, PortsInv, PortsTyped, Shown, Shut, Replaced
<1>2. CASE Served!Skip
  <2>1. UNCHANGED <<enabled, client, open, listening, port, rounds>> /\ Served!Onwards /\ stage = "opening"
    BY <1>2 DEF Served!Skip
  <2>2. \A j \in 1 .. Len(Order) : j > at => open'[Order[j]] = {}
    BY <1>0, <2>1 DEF Shut, PortsTyped
  <2>3. /\ stage' \in {"opening", "up"} /\ at' \in Nat
        /\ stage' = "opening" => at' \in 1 .. Len(Order) /\ trying' \in Nat /\ trying' >= Port[Order[at']]
        /\ stage' = "opening" => \A j \in 1 .. Len(Order) : j >= at' => open'[Order[j]] = {}
    BY <1>0, <2>1, <2>2, PortsOnwards DEF PortsTyped
  <2> QED BY <1>0, <2>1, <2>3 DEF PortsInv, PortsTyped, Shown, Shut, Replaced
<1>3. CASE Served!Opens
  <2> DEFINE s == Order[at]
  <2>1. /\ stage = "opening" /\ s \in enabled /\ trying <= Served!LastPort(s)
        /\ open' = [open EXCEPT ![s] = {Served!Bound(trying)}]
        /\ listening' = [listening EXCEPT ![s] = TRUE] /\ port' = [port EXCEPT ![s] = trying]
        /\ Served!Onwards /\ UNCHANGED <<enabled, client, rounds>>
    BY <1>3 DEF Served!Opens, Served!Turn
  <2>2. at \in 1 .. Len(Order) /\ s \in Served!Servers /\ trying \in Nat /\ trying >= Port[s]
    BY <1>0, <2>1, PortFacts DEF PortsTyped
  <2>3. Served!Bound(trying) = trying
    <3>1. Served!LastPort(s) \in 0 .. Width - 1
      BY <2>2, PortFacts
    <3>2. trying < Width /\ Width \in Nat
      BY <3>1, <2>1, <2>2, PortsAssumption
    <3> QED BY <3>2, <2>2 DEF Served!Bound
  <2> HIDE DEF s
  <2>4. /\ open' \in [Served!Servers -> SUBSET Nat] /\ listening' \in [Served!Servers -> BOOLEAN]
        /\ port' \in [Served!Servers -> Nat]
        /\ open'[s] = {trying} /\ port'[s] = trying
        /\ \A x \in Served!Servers : x # s => open'[x] = open[x] /\ port'[x] = port[x]
    BY <1>0, <2>1, <2>2, <2>3 DEF PortsTyped
  <2>41. listening'[s] /\ \A x \in Served!Servers : x # s => listening'[x] = listening[x]
    BY <1>0, <2>1, <2>2 DEF PortsTyped
  <2>5. \A j \in 1 .. Len(Order) : j > at => Order[j] # s
    <3> SUFFICES ASSUME NEW j \in 1 .. Len(Order), j > at, Order[j] = s PROVE FALSE
      OBVIOUS
    <3>1. \A i, k \in 1 .. Len(Order) : Order[i] = Order[k] => i = k
      BY PortFacts, PortsAssumption
    <3>2. j = at
      BY <3>1, <2>2 DEF s
    <3> QED BY <3>2, <2>2
  <2>6. \A j \in 1 .. Len(Order) : j > at => open'[Order[j]] = {}
    BY <1>0, <2>1, <2>2, <2>4, <2>5, PortFacts DEF Shut
  <2>7. /\ stage' \in {"opening", "up"} /\ at' \in Nat
        /\ stage' = "opening" => at' \in 1 .. Len(Order) /\ trying' \in Nat /\ trying' >= Port[Order[at']]
        /\ stage' = "opening" => \A j \in 1 .. Len(Order) : j >= at' => open'[Order[j]] = {}
    BY <1>0, <2>1, <2>4, <2>6, PortsOnwards
  <2>8. PortsTyped'
    BY <1>0, <2>1, <2>4, <2>7 DEF PortsTyped
  <2>9. Shown'
    <3> SUFFICES ASSUME NEW x \in Served!Servers
                 PROVE  /\ listening'[x] <=> open'[x] # {}
                        /\ listening'[x] => open'[x] = {port'[x]} /\ port'[x] \in Port[x] .. Served!LastPort(x)
      BY DEF Shown
    <3>1. CASE x # s
      BY <3>1, <1>0, <2>4, <2>41 DEF Shown
    <3>2. CASE x = s
      <4>1. trying \in Port[s] .. Served!LastPort(s)
        BY <2>1, <2>2, PortFacts
      <4> QED BY <3>2, <4>1, <2>4, <2>41
    <3> QED BY <3>1, <3>2
  <2>10. Shut'
    BY <2>7 DEF Shut
  <2>11. Replaced'
    BY <1>0, <2>1, <2>4, PortFacts DEF Replaced
  <2> QED BY <2>8, <2>9, <2>10, <2>11 DEF PortsInv
<1>4. CASE Served!Fails
  <2>1. trying + 1 \in Nat /\ trying + 1 >= Port[Order[at]] /\ stage = "opening"
    BY <1>4, <1>0, PortFacts DEF Served!Fails, PortsTyped
  <2> QED BY <2>1, <1>4, <1>0 DEF Served!Fails, PortsInv, PortsTyped, Shown, Shut, Replaced
<1>5. CASE Served!GivesUp
  <2>1. /\ UNCHANGED <<enabled, client, open, port, rounds>> /\ Served!Onwards /\ stage = "opening"
        /\ \/ listening' = listening
           \/ listening' = [listening EXCEPT ![Order[at]] = FALSE]
    BY <1>5 DEF Served!GivesUp, Served!Turn
  <2>2. \A j \in 1 .. Len(Order) : j > at => open'[Order[j]] = {}
    BY <1>0, <2>1 DEF Shut, PortsTyped
  <2>3. /\ stage' \in {"opening", "up"} /\ at' \in Nat
        /\ stage' = "opening" => at' \in 1 .. Len(Order) /\ trying' \in Nat /\ trying' >= Port[Order[at']]
        /\ stage' = "opening" => \A j \in 1 .. Len(Order) : j >= at' => open'[Order[j]] = {}
    BY <1>0, <2>1, <2>2, PortsOnwards DEF PortsTyped
  <2>4. at \in 1 .. Len(Order) /\ Order[at] \in Served!Servers /\ open[Order[at]] = {} /\ ~ listening[Order[at]]
    BY <1>0, <2>1, PortFacts DEF PortsTyped, Shut, Shown
  <2>5. listening' \in [Served!Servers -> BOOLEAN] /\ \A x \in Served!Servers : listening'[x] = listening[x]
    BY <1>0, <2>1, <2>4 DEF PortsTyped
  <2> QED BY <1>0, <2>1, <2>3, <2>5 DEF PortsInv, PortsTyped, Shown, Shut, Replaced
<1>6. CASE Served!Deinit
  BY <1>6, <1>0, PortFacts DEF Served!Deinit, PortsInv, PortsTyped, Shown, Shut, Replaced
<1>7. CASE Served!Close
  <2> DEFINE s == Closing[at]
  <2>1. /\ stage = "closing" /\ UNCHANGED <<trying, enabled, client, port, rounds>>
        /\ open' = [x \in Served!Servers |-> IF x = s THEN {} ELSE open[x]]
        /\ listening' = [x \in Served!Servers |-> IF x = s THEN FALSE ELSE listening[x]]
        /\ IF at = Len(Closing) THEN stage' = "down" /\ at' = 1 ELSE stage' = stage /\ at' = at + 1
    BY <1>7 DEF Served!Close, Served!Closed
  <2>2. at \in 1 .. Len(Closing) /\ s \in Served!Servers
    BY <1>0, <2>1, PortFacts DEF PortsTyped
  <2> HIDE DEF s
  <2>3. /\ open' \in [Served!Servers -> SUBSET Nat] /\ listening' \in [Served!Servers -> BOOLEAN]
        /\ \A x \in Served!Servers : IF x = s THEN open'[x] = {} ELSE open'[x] = open[x]
    BY <1>0, <2>1 DEF PortsTyped
  <2>4. \A x \in Served!Servers : IF x = s THEN ~ listening'[x] ELSE listening'[x] = listening[x]
    BY <1>0, <2>1 DEF PortsTyped
  <2>5. \A j \in 1 .. Len(Closing) : j < at + 1 => open'[Closing[j]] = {}
    <3> SUFFICES ASSUME NEW j \in 1 .. Len(Closing), j < at + 1 PROVE open'[Closing[j]] = {}
      OBVIOUS
    <3>1. Closing[j] \in Served!Servers
      BY PortFacts
    <3>2. CASE j = at
      BY <3>1, <3>2, <2>3 DEF s
    <3>3. CASE j < at
      BY <3>1, <3>3, <2>1, <2>3, <1>0 DEF Shut
    <3> QED BY <3>2, <3>3, <2>2
  <2>6. stage' = "down" => \A x \in Served!Servers : open'[x] = {}
    <3> SUFFICES ASSUME at = Len(Closing), NEW x \in Served!Servers PROVE open'[x] = {}
      BY <2>1
    <3>1. PICK i \in 1 .. Len(Closing) : Closing[i] = x
      BY PortFacts
    <3>2. i < at + 1
      BY <2>2, PortFacts
    <3> QED BY <3>1, <3>2, <2>5
  <2>7. PortsTyped'
    <3>1. stage' \in {"down", "closing"} /\ at' \in Nat /\ (stage' = "closing" => at' \in 1 .. Len(Closing))
      <4>1. CASE at = Len(Closing)
        BY <4>1, <2>1
      <4>2. CASE at # Len(Closing)
        <5>1. stage' = "closing" /\ at' = at + 1
          BY <4>2, <2>1
        <5>2. at + 1 \in 1 .. Len(Closing) /\ at + 1 \in Nat
          <6>1. Len(Closing) \in Nat
            BY PortFacts
          <6>2. at \in 1 .. Len(Closing) /\ at # Len(Closing)
            BY <4>2, <2>2
          <6> HIDE DEF s
          <6> QED BY <6>1, <6>2, Z3
        <5> QED BY <5>1, <5>2
      <4> QED BY <4>1, <4>2
    <3> QED BY <3>1, <1>0, <2>1, <2>3 DEF PortsTyped
  <2>8. Shown'
    BY <1>0, <2>1, <2>3, <2>4 DEF Shown
  <2>9. Shut'
    BY <2>1, <2>5, <2>6 DEF Shut
  <2>10. Replaced'
    BY <1>0, <2>1, <2>3, PortFacts DEF Replaced
  <2> QED BY <2>7, <2>8, <2>9, <2>10 DEF PortsInv
<1>8. ASSUME NEW p \in Others, Served!Grab(p) \/ Served!Free(p) PROVE PortsInv'
  <2>1. UNCHANGED <<stage, at, trying, enabled, client, open, listening, port, rounds>>
    BY <1>8 DEF Served!Grab, Served!Free
  <2> QED BY <2>1, <1>0 DEF PortsInv, PortsTyped, Shown, Shut, Replaced
<1> QED BY <1>1, <1>2, <1>3, <1>4, <1>5, <1>6, <1>7, <1>8 DEF Served!PortNext

\* A server that shows a port has that one and no other.
LEMMA PortsSafe == ASSUME PortsInv PROVE Served!ListensWhereSaid
BY DEF PortsInv, Shown, Shut, Replaced, Served!ListensWhereSaid

-----------------------------------------------------------------------------
(* The pool of the real-time toolkit.                                      *)

\* Where a worker is in its loop (ThreadPool::run).
Places == {"none", "head", "locking", "testing", "drowsy", "asleep", "woken", "busy", "gone"}
\* The queue holds tasks, a hand a task or nobody.
PoolTyped ==
  /\ queue \in Seq(Tasks) /\ place \in [Workers -> Places]
  /\ hand \in [Workers -> Tasks \cup {Nobody}] /\ done \in [Tasks -> {0, 1}]
\* A task is in the queue once, in one hand, or done.
Once ==
  /\ \A i, j \in DOMAIN queue : queue[i] = queue[j] => i = j
  /\ \A v, w \in Workers : hand[v] = hand[w] /\ hand[v] # Nobody => v = w
  /\ \A i \in DOMAIN queue : done[queue[i]] = 0 /\ \A w \in Workers : hand[w] # queue[i]
  /\ \A w \in Workers : hand[w] # Nobody => done[hand[w]] = 0
  /\ \A w \in Workers : hand[w] # Nobody <=> place[w] = "busy"
\* Who has looked at the queue holds the mutex until it waits.
Locked ==
  /\ \A w \in Workers : place[w] \in {"testing", "drowsy"} => mutex = w
  /\ \A w \in Workers : place[w] = "drowsy" => queue = <<>>
  /\ owner = "out" /\ ~ turning => \A w \in Workers : place[w] = "none"
\* A task is slept over only until who adds it notifies.
Watched == queue # <<>> /\ (\A w \in Workers : place[w] = "asleep") => adding # {}
\* What holds of the pool between two steps.
PoolInv == PoolTyped /\ Once /\ Locked /\ Watched

\* Nobody works and nothing is queued.
LEMMA PoolStart == ASSUME Rtt!PoolInit PROVE PoolInv
<1>1. <<>> \in Seq(Tasks)
  OBVIOUS
<1> QED BY <1>1, PoolAssumption DEF Rtt!PoolInit, PoolInv, PoolTyped, Places, Once, Locked, Watched

\* Workers, those who add tasks and who stops the pool keep it (ThreadPool::run, addTask, stop).
LEMMA PoolStep == ASSUME PoolInv, Rtt!PoolNext PROVE PoolInv'
<1> USE PoolAssumption
<1>0. PoolTyped /\ Once /\ Locked /\ Watched
  BY DEF PoolInv
<1>1. CASE Rtt!Start
  <2>1. \A w \in Workers : place[w] = "none"
    BY <1>0, <1>1 DEF Rtt!Start, Locked
  <2>2. place' = [w \in Workers |-> "head"] /\ turning' /\ UNCHANGED <<queue, hand, done, adding, mutex>>
    BY <1>1 DEF Rtt!Start
  <2> QED BY <1>0, <2>1, <2>2 DEF PoolInv, PoolTyped, Places, Once, Locked, Watched
<1>2. CASE Rtt!Stop
  BY <1>0, <1>2 DEF Rtt!Stop, PoolInv, PoolTyped, Places, Once, Locked, Watched
<1>3. CASE Rtt!NotifyAll
  <2>1. /\ place' = [w \in Workers |-> IF place[w] = "asleep" THEN "woken" ELSE place[w]]
        /\ owner' = "joining" /\ UNCHANGED <<turning, queue, hand, done, adding, mutex>>
    BY <1>3 DEF Rtt!NotifyAll
  <2>2. PoolTyped'
    BY <1>0, <2>1 DEF PoolTyped, Places
  <2>3. \A w \in Workers : place'[w] # "asleep" /\ (place[w] # "asleep" => place'[w] = place[w])
                         /\ (place[w] = "asleep" => place'[w] = "woken")
    BY <2>1
  <2>4. Once' /\ Locked'
    BY <1>0, <2>1, <2>3 DEF Once, Locked
  <2> QED BY <2>1, <2>2, <2>3, <2>4 DEF PoolInv, Watched
<1>4. CASE Rtt!Join
  BY <1>0, <1>4 DEF Rtt!Join, PoolInv, PoolTyped, Places, Once, Locked, Watched
<1>5. ASSUME NEW t \in Tasks, Rtt!AddTask(t) PROVE PoolInv'
  <2>1. /\ t \notin Rtt!Added /\ mutex = Nobody /\ queue' = Append(queue, t) /\ adding' = adding \cup {t}
        /\ UNCHANGED <<turning, owner, mutex, place, hand, done>>
    BY <1>5 DEF Rtt!AddTask
  <2>2. done[t] = 0 /\ (\A w \in Workers : hand[w] # t) /\ \A i \in DOMAIN queue : queue[i] # t
    BY <2>1, <1>0 DEF Rtt!Added, Rtt!Queued, Rtt!Held, PoolTyped
  <2>3. /\ Len(queue) \in Nat /\ queue' \in Seq(Tasks)
        /\ DOMAIN queue' = 1 .. Len(queue) + 1 /\ DOMAIN queue = 1 .. Len(queue)
        /\ queue'[Len(queue) + 1] = t /\ \A i \in 1 .. Len(queue) : queue'[i] = queue[i]
    BY <2>1, <1>0 DEF PoolTyped
  <2>4. PoolTyped'
    BY <1>0, <2>1, <2>3 DEF PoolTyped
  <2>5. \A i, j \in DOMAIN queue' : queue'[i] = queue'[j] => i = j
    <3> SUFFICES ASSUME NEW i \in 1 .. Len(queue) + 1, NEW j \in 1 .. Len(queue) + 1, queue'[i] = queue'[j] PROVE i = j
      BY <2>3
    <3>1. i \in 1 .. Len(queue) \/ i = Len(queue) + 1
      BY <2>3
    <3>2. j \in 1 .. Len(queue) \/ j = Len(queue) + 1
      BY <2>3
    <3> QED BY <3>1, <3>2, <2>2, <2>3, <1>0 DEF Once
  <2>6. \A i \in DOMAIN queue' : done[queue'[i]] = 0 /\ \A w \in Workers : hand[w] # queue'[i]
    <3> SUFFICES ASSUME NEW i \in 1 .. Len(queue) + 1 PROVE done[queue'[i]] = 0 /\ \A w \in Workers : hand[w] # queue'[i]
      BY <2>3
    <3>1. i \in 1 .. Len(queue) \/ i = Len(queue) + 1
      BY <2>3
    <3> QED BY <3>1, <2>2, <2>3, <1>0 DEF Once
  <2>7. Once'
    BY <1>0, <2>1, <2>5, <2>6 DEF Once
  <2>8. Locked'
    BY <1>0, <2>1 DEF Locked
  <2> QED BY <2>1, <2>4, <2>7, <2>8 DEF PoolInv, Watched
<1>6. ASSUME NEW t \in Tasks, Rtt!NotifyOne(t) PROVE PoolInv'
  <2>0. UNCHANGED <<turning, owner, queue, mutex, hand, done>>
    BY <1>6 DEF Rtt!NotifyOne
  <2>1. CASE \E w \in Workers : place[w] = "asleep" /\ place' = [place EXCEPT ![w] = "woken"]
    <3>1. PICK w \in Workers : place[w] = "asleep" /\ place' = [place EXCEPT ![w] = "woken"]
      BY <2>1
    <3>2. place' \in [Workers -> Places] /\ place'[w] = "woken" /\ \A v \in Workers : v # w => place'[v] = place[v]
      BY <1>0, <3>1 DEF PoolTyped, Places
    <3>3. PoolTyped'
      BY <1>0, <2>0, <3>2 DEF PoolTyped
    <3>4. Once'
      BY <1>0, <2>0, <3>1, <3>2 DEF Once
    <3>5. Locked'
      BY <1>0, <2>0, <3>1, <3>2 DEF Locked
    <3> QED BY <3>2, <3>3, <3>4, <3>5 DEF PoolInv, Watched
  <2>2. CASE (\A w \in Workers : place[w] # "asleep") /\ UNCHANGED place
    BY <1>0, <2>0, <2>2 DEF PoolInv, PoolTyped, Once, Locked, Watched
  <2> QED BY <1>6, <2>1, <2>2 DEF Rtt!NotifyOne
<1>7. ASSUME NEW w \in Workers, Rtt!Works(w) \/ Rtt!Wake(w) PROVE PoolInv'
  <2>1. ASSUME NEW p \in Places \ {"none", "testing", "drowsy", "busy", "asleep"}, place' = [place EXCEPT ![w] = p],
               place[w] \in {"head", "asleep"}, UNCHANGED <<turning, owner, queue, mutex, hand, done, adding>>
        PROVE  PoolInv'
    <3>1. place' \in [Workers -> Places] /\ place'[w] = p /\ \A v \in Workers : v # w => place'[v] = place[v]
      BY <1>0, <2>1 DEF PoolTyped
    <3> QED BY <1>0, <2>1, <3>1 DEF PoolInv, PoolTyped, Once, Locked, Watched
  <2>2. CASE Rtt!Round(w) \/ Rtt!Wake(w)
    <3>1. (IF turning THEN "locking" ELSE "gone") \in Places \ {"none", "testing", "drowsy", "busy", "asleep"}
          /\ "woken" \in Places \ {"none", "testing", "drowsy", "busy", "asleep"}
      BY DEF Places
    <3> QED BY <2>1, <2>2, <3>1 DEF Rtt!Round, Rtt!Wake
  <2>3. CASE Rtt!Lock(w)
    <3>1. /\ place[w] \in {"locking", "woken"} /\ mutex = Nobody /\ mutex' = w /\ place' = [place EXCEPT ![w] = "testing"]
          /\ UNCHANGED <<turning, owner, queue, hand, done, adding>>
      BY <2>3 DEF Rtt!Lock
    <3>2. place' \in [Workers -> Places] /\ place'[w] = "testing" /\ \A v \in Workers : v # w => place'[v] = place[v]
      BY <1>0, <3>1 DEF PoolTyped, Places
    <3> QED BY <1>0, <3>1, <3>2 DEF PoolInv, PoolTyped, Once, Locked, Watched
  <2>4. CASE Rtt!Test(w)
    <3>0. place[w] = "testing" /\ mutex = w /\ UNCHANGED <<turning, owner, done, adding>>
      BY <1>0, <2>4 DEF Rtt!Test, Locked
    <3>1. CASE queue # <<>> /\ hand' = [hand EXCEPT ![w] = queue[1]] /\ queue' = Tail(queue)
               /\ mutex' = Nobody /\ place' = [place EXCEPT ![w] = "busy"]
      <4>1. place' \in [Workers -> Places] /\ place'[w] = "busy" /\ \A v \in Workers : v # w => place'[v] = place[v]
        BY <1>0, <3>1 DEF PoolTyped, Places
      <4>2. /\ Len(queue) \in Nat /\ Len(queue) >= 1 /\ DOMAIN queue = 1 .. Len(queue) /\ queue[1] \in Tasks
            /\ queue' \in Seq(Tasks) /\ DOMAIN queue' = 1 .. Len(queue) - 1
            /\ \A i \in 1 .. Len(queue) - 1 : queue'[i] = queue[i + 1] /\ i + 1 \in 1 .. Len(queue) /\ i + 1 # 1
        BY <1>0, <3>1 DEF PoolTyped
      <4>3. /\ hand' \in [Workers -> Tasks \cup {Nobody}] /\ hand'[w] = queue[1]
            /\ \A v \in Workers : v # w => hand'[v] = hand[v]
        BY <1>0, <3>1, <4>2 DEF PoolTyped
      <4>4. PoolTyped'
        BY <1>0, <3>0, <4>1, <4>2, <4>3 DEF PoolTyped
      <4>5. queue[1] # Nobody /\ done[queue[1]] = 0 /\ \A v \in Workers : hand[v] # queue[1]
        BY <1>0, <4>2 DEF Once
      <4>6. \A i, j \in DOMAIN queue' : queue'[i] = queue'[j] => i = j
        <5> SUFFICES ASSUME NEW i \in 1 .. Len(queue) - 1, NEW j \in 1 .. Len(queue) - 1, queue'[i] = queue'[j] PROVE i = j
          BY <4>2
        <5>1. i + 1 = j + 1
          BY <1>0, <4>2 DEF Once
        <5> QED BY <5>1, <4>2
      <4>7. \A i \in DOMAIN queue' : done[queue'[i]] = 0 /\ queue'[i] # queue[1] /\ \A v \in Workers : hand[v] # queue'[i]
        BY <1>0, <4>2 DEF Once
      <4>8. \A v \in Workers : hand'[v] # Nobody <=> place'[v] = "busy"
        BY <1>0, <4>1, <4>3, <4>5 DEF Once
      <4>9. Once'
        <5>1. \A u, v \in Workers : hand'[u] = hand'[v] /\ hand'[u] # Nobody => u = v
          BY <1>0, <4>3, <4>5 DEF Once
        <5>2. \A i \in DOMAIN queue' : done'[queue'[i]] = 0 /\ \A v \in Workers : hand'[v] # queue'[i]
          BY <3>0, <4>3, <4>7
        <5>3. \A v \in Workers : hand'[v] # Nobody => done'[hand'[v]] = 0
          BY <1>0, <3>0, <4>3, <4>5 DEF Once
        <5> QED BY <4>6, <4>8, <5>1, <5>2, <5>3 DEF Once
      <4>10. Locked'
        BY <1>0, <3>0, <3>1, <4>1 DEF Locked
      <4> QED BY <4>1, <4>4, <4>9, <4>10 DEF PoolInv, Watched
    <3>2. CASE queue = <<>> /\ ~ turning /\ mutex' = Nobody /\ place' = [place EXCEPT ![w] = "gone"] /\ UNCHANGED <<hand, queue>>
      <4>1. place' \in [Workers -> Places] /\ place'[w] = "gone" /\ \A v \in Workers : v # w => place'[v] = place[v]
        BY <1>0, <3>2 DEF PoolTyped, Places
      <4> QED BY <1>0, <3>0, <3>2, <4>1 DEF PoolInv, PoolTyped, Once, Locked, Watched
    <3>3. CASE queue = <<>> /\ turning /\ place' = [place EXCEPT ![w] = "drowsy"] /\ UNCHANGED <<hand, queue, mutex>>
      <4>1. place' \in [Workers -> Places] /\ place'[w] = "drowsy" /\ \A v \in Workers : v # w => place'[v] = place[v]
        BY <1>0, <3>3 DEF PoolTyped, Places
      <4> QED BY <1>0, <3>0, <3>3, <4>1 DEF PoolInv, PoolTyped, Once, Locked, Watched
    <3> QED BY <2>4, <3>1, <3>2, <3>3 DEF Rtt!Test
  <2>5. CASE Rtt!Sleep(w)
    <3>1. /\ place[w] = "drowsy" /\ mutex' = Nobody /\ place' = [place EXCEPT ![w] = "asleep"]
          /\ UNCHANGED <<turning, owner, queue, hand, done, adding>>
      BY <2>5 DEF Rtt!Sleep
    <3>2. place' \in [Workers -> Places] /\ place'[w] = "asleep" /\ \A v \in Workers : v # w => place'[v] = place[v]
      BY <1>0, <3>1 DEF PoolTyped, Places
    <3> QED BY <1>0, <3>1, <3>2 DEF PoolInv, PoolTyped, Once, Locked, Watched
  <2>6. CASE Rtt!PoolRunTask(w)
    <3>1. /\ place[w] = "busy" /\ done' = [done EXCEPT ![hand[w]] = @ + 1]
          /\ hand' = [hand EXCEPT ![w] = Nobody] /\ place' = [place EXCEPT ![w] = "head"]
          /\ UNCHANGED <<turning, owner, queue, mutex, adding>>
      BY <2>6 DEF Rtt!PoolRunTask
    <3>2. place' \in [Workers -> Places] /\ place'[w] = "head" /\ \A v \in Workers : v # w => place'[v] = place[v]
      BY <1>0, <3>1 DEF PoolTyped, Places
    <3>3. hand[w] \in Tasks /\ done[hand[w]] = 0 /\ hand[w] # Nobody
      BY <1>0, <3>1 DEF PoolTyped, Once
    <3>4. done' \in [Tasks -> {0, 1}] /\ \A t \in Tasks : t # hand[w] => done'[t] = done[t]
      BY <1>0, <3>1, <3>3 DEF PoolTyped
    <3>5. hand' \in [Workers -> Tasks \cup {Nobody}] /\ hand'[w] = Nobody /\ \A v \in Workers : v # w => hand'[v] = hand[v]
      BY <1>0, <3>1 DEF PoolTyped
    <3>6. PoolTyped'
      BY <1>0, <3>1, <3>2, <3>4, <3>5 DEF PoolTyped
    <3>7. \A i \in DOMAIN queue : queue[i] \in Tasks
      BY <1>0 DEF PoolTyped
    <3>8. Once'
      <4>1. \A i \in DOMAIN queue : done'[queue[i]] = 0 /\ \A v \in Workers : hand'[v] # queue[i]
        BY <1>0, <3>3, <3>4, <3>5, <3>7 DEF Once
      <4>2. \A v \in Workers : hand'[v] # Nobody => done'[hand'[v]] = 0
        <5> SUFFICES ASSUME NEW v \in Workers, hand'[v] # Nobody PROVE done'[hand'[v]] = 0
          OBVIOUS
        <5>1. v # w /\ hand'[v] = hand[v] /\ hand[v] # hand[w] /\ hand[v] \in Tasks
          BY <1>0, <3>3, <3>5 DEF Once, PoolTyped
        <5> QED BY <1>0, <3>4, <5>1 DEF Once
      <4>3. \A v \in Workers : hand'[v] # Nobody <=> place'[v] = "busy"
        BY <1>0, <3>2, <3>5 DEF Once
      <4>4. \A u, v \in Workers : hand'[u] = hand'[v] /\ hand'[u] # Nobody => u = v
        BY <1>0, <3>5 DEF Once
      <4> QED BY <1>0, <3>1, <4>1, <4>2, <4>3, <4>4 DEF Once
    <3>9. Locked'
      BY <1>0, <3>1, <3>2 DEF Locked
    <3> QED BY <3>2, <3>6, <3>8, <3>9 DEF PoolInv, Watched
  <2> QED BY <1>7, <2>2, <2>3, <2>4, <2>5, <2>6 DEF Rtt!Works
<1> QED BY <1>1, <1>2, <1>3, <1>4, <1>5, <1>6, <1>7 DEF Rtt!PoolNext

\* A task is run once, and none is forgotten while all sleep.
LEMMA PoolSafe == ASSUME PoolInv PROVE Rtt!TasksKept /\ Rtt!NoneForgotten
<1> USE PoolAssumption
<1>0. PoolTyped /\ Once /\ Watched
  BY DEF PoolInv
<1>1. Rtt!NoneForgotten
  BY <1>0 DEF Watched, Rtt!NoneForgotten
<1>2. ASSUME NEW t \in Rtt!Added
      PROVE  Cardinality({i \in DOMAIN queue : queue[i] = t}) + Cardinality({w \in Workers : hand[w] = t}) + done[t] = 1
  <2> DEFINE Q == {i \in DOMAIN queue : queue[i] = t}
             H == {w \in Workers : hand[w] = t}
  <2>1. Cardinality({}) = 0
    BY FS_EmptySet
  <2>2. CASE \E i \in DOMAIN queue : queue[i] = t
    <3>1. PICK i \in DOMAIN queue : queue[i] = t
      BY <2>2
    <3>2. Q = {i} /\ H = {} /\ done[t] = 0
      BY <3>1, <1>0 DEF Once
    <3>3. Cardinality(Q) = 1
      BY <3>2, FS_Singleton
    <3> HIDE DEF Q, H
    <3>4. Cardinality(Q) + Cardinality(H) + done[t] = 1
      BY <3>2, <3>3, <2>1
    <3> QED BY <3>4 DEF Q, H
  <2>3. CASE \E w \in Workers : hand[w] = t
    <3>1. PICK w \in Workers : hand[w] = t
      BY <2>3
    <3>2. t # Nobody
      <4>1. Nobody \notin Tasks /\ \A i \in DOMAIN queue : queue[i] \in Tasks
        BY <1>0 DEF PoolTyped
      <4> QED BY <4>1 DEF Rtt!Added, Rtt!Held, Rtt!Queued
    <3>3. H = {w} /\ Q = {} /\ done[t] = 0
      BY <3>1, <3>2, <1>0 DEF Once
    <3>4. Cardinality(H) = 1
      BY <3>3, FS_Singleton
    <3> HIDE DEF Q, H
    <3>5. Cardinality(Q) + Cardinality(H) + done[t] = 1
      BY <3>3, <3>4, <2>1
    <3> QED BY <3>5 DEF Q, H
  <2>4. CASE (\A i \in DOMAIN queue : queue[i] # t) /\ \A w \in Workers : hand[w] # t
    <3>1. Q = {} /\ H = {}
      BY <2>4
    <3>2. t \in Tasks /\ done[t] > 0
      BY <2>4 DEF Rtt!Added, Rtt!Held, Rtt!Queued
    <3>3. done[t] = 1
      BY <3>2, <1>0 DEF PoolTyped
    <3> HIDE DEF Q, H
    <3>4. Cardinality(Q) + Cardinality(H) + done[t] = 1
      BY <3>1, <3>3, <2>1
    <3> QED BY <3>4 DEF Q, H
  <2> QED BY <2>2, <2>3, <2>4
<1>3. Rtt!TasksKept
  <2> SUFFICES ASSUME NEW t \in Rtt!Added
               PROVE  Cardinality({i \in DOMAIN queue : queue[i] = t}) + Cardinality({w \in Workers : hand[w] = t}) + done[t] = 1
    <3>1. ASSUME NEW S PROVE Rtt!Cardinality(S) = Cardinality(S)
      BY DEF Rtt!Cardinality, Cardinality
    <3> QED BY <3>1 DEF Rtt!TasksKept
  <2> QED BY <1>2
<1> QED BY <1>1, <1>3

-----------------------------------------------------------------------------
(* The commands: copies of a template, run by steps.                       *)

\* A set of numbers has a least one.
LEMMA LeastOf ==
  ASSUME NEW T \in SUBSET Nat, T # {}
  PROVE  \E m \in T : \A k \in T : m <= k
<1> DEFINE R == {ss \in Nat \X Nat : ss[1] < ss[2]}
<1>1. IsWellFoundedOn(R, Nat)
  <2>1. OpToRel(<, Nat) = R
    BY Zenon DEF OpToRel
  <2>2. QED BY <2>1, NatLessThanWellFounded, Zenon
<1>2. PICK m \in T : \A k \in T : ~ (<<k, m>> \in R)
  BY <1>1, WFMin, Zenon
<1>3. m \in Nat /\ \A k \in T : k \in Nat /\ ~ (k < m)
  BY <1>2
<1>4. QED BY <1>3

\* A step of a command: whether a loop runs it, and how it ends.
OrderStep == [loop : BOOLEAN, result : STRING]
\* All steps a copy had when it was made.
All(o) == Rtt!StepsOf(o)
\* A copy of a command's template.
IsCopy(o) ==
  /\ o = [by |-> o.by, addr |-> o.addr, id |-> o.id, key |-> o.key, steps |-> o.steps,
          ran |-> o.ran, state |-> o.state, told |-> o.told, kept |-> o.kept]
  /\ o.key \in DOMAIN Templates /\ o.addr \in Clients /\ o.by \in {"sdk", "sys"}
\* What is left are the last steps, none before ended it.
Ahead(o) ==
  /\ o.ran \in Nat /\ o.told = <<>>
  /\ o.steps \in Seq(OrderStep) /\ Len(All(o)) = Len(o.steps) + o.ran
  /\ \A j \in 1 .. Len(o.steps) : o.steps[j] = All(o)[o.ran + j]
  /\ \A i \in 1 .. o.ran - 1 : ~ Rtt!OrderEnds(All(o), i)
\* The last step run did not end it.
GoesOn(o) == o.ran > 0 => ~ Rtt!OrderEnds(All(o), o.ran)
\* A copy at its end ran to the first step that ends it and was told of it once.
Over(o) ==
  /\ \A i \in 1 .. o.ran - 1 : ~ Rtt!OrderEnds(All(o), i)
  /\ All(o) # <<>> => /\ Rtt!OrderEnds(All(o), o.ran)
                      /\ All(o)[o.ran].result = Rtt!Accepted \/ o.told = <<All(o)[o.ran].result>>
  /\ Len(o.told) = 1 /\ o.ran \in Nat
\* A copy in one of the four states it can be left in.
Well(o) ==
  /\ IsCopy(o)
  /\ o.state \in {"posted", "awaiting", "finished"}
  /\ o.state = "posted" => Ahead(o) /\ GoesOn(o) /\ o.steps # <<>> /\ o.steps[1].loop
  /\ o.state = "awaiting" => Ahead(o) /\ o.ran >= 1 /\ All(o)[o.ran].result = Rtt!Accepted
  /\ o.state = "finished" => Over(o)
\* The same copy, further on.
Alike(o, s) == s.by = o.by /\ s.addr = o.addr /\ s.id = o.id /\ s.key = o.key

\* A copy keeps its steps.
LEMMA AlikeAll == ASSUME NEW o, NEW s, Alike(o, s) PROVE All(s) = All(o)
BY DEF Alike, All, Rtt!StepsOf

\* They are steps that handleResult knows.
LEMMA AllSteps ==
  ASSUME NEW o, o.key \in DOMAIN Templates
  PROVE  /\ All(o) \in Seq(OrderStep) /\ Len(All(o)) \in Nat
         /\ \A i \in 1 .. Len(All(o)) - 1 : All(o)[i].loop => All(o)[i].result \in {"success", "accept", "fail"}
<1> DEFINE t == Templates[o.key]
<1>1. t \in Seq(OrderStep) /\ \A i \in 1 .. Len(t) - 1 : t[i].loop => t[i].result \in {"success", "accept", "fail"}
  BY StepsAssumption DEF OrderStep
<1> HIDE DEF t
<1>2. CASE All(o) = <<>> \o t
  <2>1. All(o) = t
    BY <1>1, <1>2
  <2> QED BY <1>1, <2>1
<1>3. ASSUME NEW s \in OrderStep, ~ s.loop, All(o) = <<s>> \o t
      PROVE  /\ All(o) \in Seq(OrderStep) /\ Len(All(o)) \in Nat
             /\ \A i \in 1 .. Len(All(o)) - 1 : All(o)[i].loop => All(o)[i].result \in {"success", "accept", "fail"}
  <2>1. <<s>> \in Seq(OrderStep) /\ Len(<<s>>) = 1 /\ <<s>>[1] = s
    OBVIOUS
  <2>2. /\ All(o) \in Seq(OrderStep) /\ Len(All(o)) = 1 + Len(t) /\ Len(t) \in Nat /\ All(o)[1] = s
    BY <1>1, <1>3, <2>1
  <2>3. \A i \in 2 .. Len(t) + 1 : All(o)[i] = t[i - 1]
    BY <1>1, <1>3, <2>1
  <2>4. ASSUME NEW i \in 1 .. Len(t), All(o)[i].loop PROVE All(o)[i].result \in {"success", "accept", "fail"}
    <3>1. i # 1
      BY <2>2, <2>4, <1>3
    <3>2. i - 1 \in 1 .. Len(t) - 1 /\ All(o)[i] = t[i - 1]
      BY <2>2, <2>3, <3>1
    <3> QED BY <3>2, <1>1, <2>4
  <2> QED BY <2>2, <2>4
<1>4. CASE o.by = "sdk" /\ o.key \in DOMAIN Cips
  <2>1. [loop |-> FALSE, result |-> Cips[o.key]] \in OrderStep
    BY <1>4, StepsAssumption DEF OrderStep
  <2>2. All(o) = <<[loop |-> FALSE, result |-> Cips[o.key]]>> \o t
    BY <1>4 DEF All, Rtt!StepsOf, t
  <2> QED BY <2>1, <2>2, <1>3
<1>5. CASE ~ (o.by = "sdk" /\ o.key \in DOMAIN Cips)
  <2>1. All(o) = <<>> \o t
    BY <1>5 DEF All, Rtt!StepsOf, t
  <2> QED BY <2>1, <1>2
<1> QED BY <1>4, <1>5

\* The place at which a run of steps pauses is the first such.
LEMMA FirstPauseIs ==
  ASSUME NEW s \in Seq(OrderStep), s # <<>>
  PROVE  LET i == Rtt!FirstPause(s) IN
           i \in 1 .. Len(s) /\ Rtt!Pauses(s, i) /\ \A j \in 1 .. i - 1 : ~ Rtt!Pauses(s, j)
<1> DEFINE T == {i \in 1 .. Len(s) : Rtt!Pauses(s, i)}
<1>1. Len(s) \in Nat /\ Len(s) \in 1 .. Len(s) /\ DOMAIN s = 1 .. Len(s)
  OBVIOUS
<1>2. Len(s) \in T /\ T \in SUBSET Nat
  BY <1>1 DEF Rtt!Pauses
<1>3. PICK m \in T : \A k \in T : m <= k
  <2> HIDE DEF T
  <2> QED BY <1>2, LeastOf
<1>4. m \in DOMAIN s /\ Rtt!Pauses(s, m) /\ \A j \in 1 .. m - 1 : ~ Rtt!Pauses(s, j)
  <2>1. m \in 1 .. Len(s)
    OBVIOUS
  <2>2. ASSUME NEW j \in 1 .. m - 1 PROVE ~ Rtt!Pauses(s, j)
    <3>1. j \in 1 .. Len(s) /\ ~ m <= j
      BY <1>1, <2>1
    <3> QED BY <3>1, <1>3
  <2> QED BY <1>1, <2>1, <2>2
<1> HIDE DEF T
<1>5. \E i \in DOMAIN s : Rtt!Pauses(s, i) /\ \A j \in 1 .. i - 1 : ~ Rtt!Pauses(s, j)
  BY <1>4
<1>6. /\ Rtt!FirstPause(s) \in DOMAIN s /\ Rtt!Pauses(s, Rtt!FirstPause(s))
      /\ \A j \in 1 .. Rtt!FirstPause(s) - 1 : ~ Rtt!Pauses(s, j)
  BY <1>5, Zenon DEF Rtt!FirstPause
<1> QED BY <1>1, <1>6

\* A copy that ends is told once.
LEMMA FinishedIs ==
  ASSUME NEW o, IsCopy(o), o.told = <<>>, NEW r
  PROVE  LET s == Rtt!Finished(o, r) IN
           /\ IsCopy(s) /\ Alike(o, s) /\ s.state = "finished" /\ s.told = <<r>> /\ s.ran = o.ran /\ s.steps = o.steps
<1> DEFINE s == Rtt!Finished(o, r)
<1>1. Append(o.told, r) = <<r>>
  OBVIOUS
<1>3. ASSUME NEW p, p = [o EXCEPT !.state = "finished", !.told = Append(@, r)]
      PROVE  p = [by |-> o.by, addr |-> o.addr, id |-> o.id, key |-> o.key, steps |-> o.steps,
                  ran |-> o.ran, state |-> "finished", told |-> Append(o.told, r), kept |-> o.kept]
  BY <1>3 DEF IsCopy
<1>2. s = [by |-> o.by, addr |-> o.addr, id |-> o.id, key |-> o.key, steps |-> o.steps,
           ran |-> o.ran, state |-> "finished", told |-> <<r>>, kept |-> o.kept]
  BY <1>1, <1>3 DEF Rtt!Finished
<1> QED BY <1>2 DEF IsCopy, Alike

\* The copy after its first k steps.
RestOf(o, k, st) ==
  [by |-> o.by, addr |-> o.addr, id |-> o.id, key |-> o.key, steps |-> SubSeq(o.steps, k + 1, Len(o.steps)),
   ran |-> o.ran + k, state |-> st, told |-> o.told, kept |-> o.kept]

\* What a copy has ahead after k steps that did not pause.
LEMMA RestIs ==
  ASSUME NEW o, IsCopy(o), Ahead(o), GoesOn(o), NEW k \in 0 .. Len(o.steps),
         \A j \in 1 .. k - 1 : ~ Rtt!Pauses(o.steps, j), NEW st, NEW r, r = RestOf(o, k, st)
  PROVE  /\ IsCopy(r) /\ Alike(o, r) /\ Ahead(r) /\ r.state = st /\ r.ran = o.ran + k /\ r.told = <<>>
         /\ k >= 1 => All(r)[r.ran] = o.steps[k]
         /\ k < Len(o.steps) => r.steps # <<>> /\ r.steps[1] = o.steps[k + 1]
         /\ k = Len(o.steps) => r.steps = <<>>
<1>1. /\ IsCopy(r) /\ Alike(o, r) /\ r.state = st /\ r.ran = o.ran + k /\ r.told = <<>>
      /\ r.steps = SubSeq(o.steps, k + 1, Len(o.steps))
  BY DEF IsCopy, Alike, Ahead, RestOf
<1>2. All(r) = All(o) /\ All(o) \in Seq(OrderStep) /\ Len(All(o)) \in Nat
  BY <1>1, AlikeAll, AllSteps DEF IsCopy
<1>3. o.ran \in Nat /\ o.steps \in Seq(OrderStep) /\ Len(o.steps) \in Nat /\ Len(All(o)) = Len(o.steps) + o.ran
  BY DEF Ahead
<1>4. /\ r.steps \in Seq(OrderStep) /\ Len(r.steps) = Len(o.steps) - k
      /\ \A j \in 1 .. Len(o.steps) - k : r.steps[j] = o.steps[k + j]
  <2>1. ASSUME NEW a \in Seq(OrderStep), NEW b, b = SubSeq(a, k + 1, Len(a)), k \in 0 .. Len(a)
        PROVE  /\ b \in Seq(OrderStep) /\ Len(b) = Len(a) - k
               /\ \A j \in 1 .. Len(a) - k : b[j] = a[k + j]
    BY <2>1
  <2> QED BY <1>1, <1>3, <2>1
<1>5. \A j \in 1 .. Len(r.steps) : r.steps[j] = All(r)[r.ran + j]
  <2> SUFFICES ASSUME NEW j \in 1 .. Len(r.steps) PROVE r.steps[j] = All(r)[r.ran + j]
    OBVIOUS
  <2>0. j \in 1 .. Len(o.steps) - k /\ All(r)[r.ran + j] = All(o)[o.ran + k + j]
    BY <1>1, <1>2, <1>4
  <2>1. k + j \in 1 .. Len(o.steps) /\ o.ran + (k + j) = o.ran + k + j
    BY <1>3, <2>0
  <2>2. o.steps[k + j] = All(o)[o.ran + (k + j)]
    BY <2>1 DEF Ahead
  <2> QED BY <1>4, <2>0, <2>1, <2>2
<1>6. \A i \in 1 .. r.ran - 1 : ~ Rtt!OrderEnds(All(r), i)
  <2> SUFFICES ASSUME NEW i \in 1 .. r.ran - 1 PROVE ~ Rtt!OrderEnds(All(r), i)
    OBVIOUS
  <2> SUFFICES ~ Rtt!OrderEnds(All(o), i)
    BY <1>2
  <2>0. i \in 1 .. o.ran + k - 1
    <3>1. r.ran = o.ran + k
      BY <1>1
    <3>2. ASSUME NEW a \in Nat, NEW b \in Nat PROVE (a + b) - 1 = a + (b - 1)
      OBVIOUS
    <3>3. k \in Nat
      BY <1>3
    <3> QED BY <3>1, <3>2, <3>3, <1>3
  <2>1. CASE i < o.ran
    BY <2>0, <2>1, <1>3 DEF Ahead
  <2>2. CASE i = o.ran
    BY <2>0, <2>2 DEF GoesOn
  <2>3. CASE i > o.ran
    <3>1. i - o.ran \in 1 .. k - 1 /\ i - o.ran \in 1 .. Len(o.steps) /\ o.ran + (i - o.ran) = i
      BY <2>0, <2>3, <1>3
    <3>2. ~ Rtt!Pauses(o.steps, i - o.ran) /\ o.steps[i - o.ran] = All(o)[i]
      BY <3>1 DEF Ahead
    <3> QED BY <3>2, <1>3 DEF Rtt!Pauses, Rtt!OrderEnds
  <2> QED BY <2>0, <2>1, <2>2, <2>3, <1>3
<1>7. Ahead(r)
  <2>1. Len(All(r)) = Len(r.steps) + r.ran /\ r.ran \in Nat
    <3>1. Len(All(r)) = Len(All(o))
      BY <1>2
    <3>2. Len(r.steps) + r.ran = (Len(o.steps) - k) + (o.ran + k)
      BY <1>1, <1>4
    <3>3. k \in Nat
      BY <1>3
    <3> QED BY <3>1, <3>2, <3>3, <1>1, <1>3
  <2> QED BY <2>1, <1>1, <1>4, <1>5, <1>6 DEF Ahead
<1>8. k >= 1 => All(r)[r.ran] = o.steps[k]
  <2> SUFFICES ASSUME k >= 1 PROVE All(o)[o.ran + k] = o.steps[k]
    BY <1>1, <1>2
  <2>1. k \in 1 .. Len(o.steps)
    BY <1>3
  <2> QED BY <2>1 DEF Ahead
<1>9. k < Len(o.steps) => r.steps # <<>> /\ r.steps[1] = o.steps[k + 1]
  <2> SUFFICES ASSUME k < Len(o.steps) PROVE r.steps # <<>> /\ r.steps[1] = o.steps[k + 1]
    OBVIOUS
  <2>1. Len(r.steps) >= 1 /\ 1 \in 1 .. Len(o.steps) - k
    BY <1>3, <1>4
  <2> QED BY <2>1, <1>4
<1>10. k = Len(o.steps) => r.steps = <<>>
  BY <1>3, <1>4
<1> QED BY <1>1, <1>7, <1>8, <1>9, <1>10

\* Running a copy leaves it posted, waiting or at its end (Command::step).
LEMMA StartedWell ==
  ASSUME NEW o, IsCopy(o), Ahead(o), GoesOn(o), o.steps = <<>> => All(o) = <<>>
  PROVE  Well(Rtt!Started(o).object) /\ Alike(o, Rtt!Started(o).object)
<1>0. o.ran \in Nat /\ o.steps \in Seq(OrderStep) /\ Len(o.steps) \in Nat /\ o.told = <<>>
  BY DEF Ahead
<1>1. CASE o.steps = <<>>
  <2> DEFINE s == Rtt!Finished(o, Rtt!Success)
  <2>1. Rtt!Started(o).object = s
    BY <1>1 DEF Rtt!Started
  <2>2. IsCopy(s) /\ Alike(o, s) /\ s.state = "finished" /\ s.told = <<Rtt!Success>> /\ s.ran = o.ran
    BY <1>0, FinishedIs
  <2> HIDE DEF s
  <2>3. All(s) = <<>> /\ Len(s.told) = 1
    BY <1>1, <2>2, AlikeAll
  <2>4. Over(s)
    BY <2>2, <2>3, <1>0, <1>1 DEF Over, Ahead
  <2> QED BY <2>1, <2>2, <2>4 DEF Well
<1>2. CASE o.steps # <<>>
  <2> DEFINE i == Rtt!FirstPause(o.steps)
             step == o.steps[i]
             rest == [o EXCEPT !.steps = SubSeq(@, i + (IF step.loop THEN 0 ELSE 1), Len(@)), !.ran = @ + i - (IF step.loop THEN 1 ELSE 0)]
             result == IF step.loop THEN [rest EXCEPT !.state = "posted"]
                       ELSE IF step.result = Rtt!Accepted THEN [rest EXCEPT !.state = "awaiting"]
                       ELSE Rtt!Finished(rest, step.result)
             k == i - (IF step.loop THEN 1 ELSE 0)
  <2>1. i \in 1 .. Len(o.steps) /\ Rtt!Pauses(o.steps, i) /\ \A j \in 1 .. i - 1 : ~ Rtt!Pauses(o.steps, j)
    BY <1>0, <1>2, FirstPauseIs
  <2>2. Rtt!Started(o).object = result
    BY <1>2, Zenon DEF Rtt!Started
  <2>3. k \in 0 .. Len(o.steps) /\ i + (IF step.loop THEN 0 ELSE 1) = k + 1 /\ o.ran + i - (IF step.loop THEN 1 ELSE 0) = o.ran + k
    BY <2>1, <1>0
  <2> HIDE DEF k
  <2>4. \A j \in 1 .. k - 1 : ~ Rtt!Pauses(o.steps, j)
    BY <2>1, <2>3, <1>0 DEF k
  <2> HIDE DEF i, step
  <2>5. rest = RestOf(o, k, o.state)
    <3>1. ASSUME NEW p, NEW a, p = [o EXCEPT !.steps = SubSeq(@, a, Len(@)), !.ran = @ + i - (IF step.loop THEN 1 ELSE 0)]
          PROVE  p = [by |-> o.by, addr |-> o.addr, id |-> o.id, key |-> o.key, steps |-> SubSeq(o.steps, a, Len(o.steps)),
                      ran |-> o.ran + i - (IF step.loop THEN 1 ELSE 0), state |-> o.state, told |-> o.told, kept |-> o.kept]
      BY <3>1 DEF IsCopy
    <3> QED BY <3>1, <2>3 DEF RestOf
  <2> HIDE DEF rest
  <2>6. ASSUME NEW st, NEW p, p = [rest EXCEPT !.state = st]
        PROVE  p = RestOf(o, k, st)
    BY <2>5, <2>6 DEF RestOf
  <2>7. CASE step.loop
    <3> DEFINE s == [rest EXCEPT !.state = "posted"]
    <3>1. result = s
      BY <2>7
    <3>11. s = RestOf(o, k, "posted")
      BY <2>6
    <3> HIDE DEF s
    <3>2. /\ IsCopy(s) /\ Alike(o, s) /\ Ahead(s) /\ s.state = "posted" /\ s.ran = o.ran + k
          /\ k >= 1 => All(s)[s.ran] = o.steps[k]
          /\ k < Len(o.steps) => s.steps # <<>> /\ s.steps[1] = o.steps[k + 1]
      BY <2>3, <2>4, <3>11, RestIs
    <3>3. k = i - 1 /\ k \in Nat /\ k < Len(o.steps) /\ k + 1 = i
      BY <2>1, <2>7, <1>0 DEF k
    <3>4. s.steps # <<>> /\ s.steps[1].loop
      BY <3>2, <3>3, <2>7 DEF step
    <3>5. GoesOn(s)
      <4>1. CASE k = 0
        <5>1. s.ran = o.ran /\ All(s) = All(o)
          BY <3>2, <4>1, <1>0, AlikeAll
        <5> QED BY <5>1 DEF GoesOn
      <4>2. CASE k >= 1
        <5>1. All(s)[s.ran] = o.steps[k] /\ ~ Rtt!Pauses(o.steps, k)
          BY <3>2, <3>3, <4>2, <2>1
        <5>2. Len(All(s)) = Len(s.steps) + s.ran /\ Len(s.steps) \in Nat /\ s.steps # <<>> /\ s.ran \in Nat /\ Len(s.steps) # 0
          BY <3>2, <3>4 DEF Ahead
        <5> QED BY <5>1, <5>2 DEF GoesOn, Rtt!Pauses, Rtt!OrderEnds
      <4> QED BY <4>1, <4>2, <3>3
    <3> QED BY <2>2, <3>1, <3>2, <3>4, <3>5 DEF Well
  <2>8. CASE ~ step.loop /\ step.result = Rtt!Accepted
    <3> DEFINE s == [rest EXCEPT !.state = "awaiting"]
    <3>1. result = s
      BY <2>8
    <3>11. s = RestOf(o, k, "awaiting")
      BY <2>6
    <3> HIDE DEF s
    <3>2. /\ IsCopy(s) /\ Alike(o, s) /\ Ahead(s) /\ s.state = "awaiting" /\ s.ran = o.ran + k
          /\ k >= 1 => All(s)[s.ran] = o.steps[k]
      BY <2>3, <2>4, <3>11, RestIs
    <3>3. k = i /\ k \in Nat /\ k >= 1
      BY <2>1, <2>8, <1>0 DEF k
    <3>4. s.ran >= 1 /\ All(s)[s.ran].result = Rtt!Accepted
      BY <3>2, <3>3, <2>8, <1>0 DEF step
    <3> QED BY <2>2, <3>1, <3>2, <3>4 DEF Well
  <2>9. CASE ~ step.loop /\ step.result # Rtt!Accepted
    <3> DEFINE s == Rtt!Finished(rest, step.result)
    <3>1. result = s
      BY <2>9
    <3>2. /\ IsCopy(rest) /\ Alike(o, rest) /\ Ahead(rest) /\ rest.ran = o.ran + k /\ rest.told = <<>>
          /\ k >= 1 => All(rest)[rest.ran] = o.steps[k]
          /\ k = Len(o.steps) => rest.steps = <<>>
      BY <2>3, <2>4, <2>5, RestIs
    <3>3. k = i /\ k \in Nat /\ k >= 1
      BY <2>1, <2>9, <1>0 DEF k
    <3>4. IsCopy(s) /\ Alike(rest, s) /\ s.state = "finished" /\ s.told = <<step.result>> /\ s.ran = rest.ran /\ s.steps = rest.steps
      BY <3>2, FinishedIs
    <3> HIDE DEF s
    <3>5. All(s) = All(rest) /\ Alike(o, s)
      BY <3>2, <3>4, AlikeAll DEF Alike
    <3>6. All(s)[s.ran] = step
      BY <3>2, <3>3, <3>4, <3>5 DEF step
    <3>7. Rtt!OrderEnds(All(s), s.ran)
      <4>1. Rtt!IsError(step.result) \/ i = Len(o.steps)
        BY <2>1, <2>9 DEF Rtt!Pauses, step
      <4>2. i = Len(o.steps) => s.ran = Len(All(s))
        <5>1. Len(All(rest)) = Len(rest.steps) + rest.ran /\ rest.ran \in Nat
          BY <3>2 DEF Ahead
        <5>2. i = Len(o.steps) => Len(rest.steps) = 0
          BY <3>2, <3>3
        <5> QED BY <5>1, <5>2, <3>4, <3>5
      <4> QED BY <4>1, <4>2, <3>6 DEF Rtt!OrderEnds
    <3>8. Over(s)
      <4>1. \A j \in 1 .. s.ran - 1 : ~ Rtt!OrderEnds(All(s), j)
        BY <3>2, <3>4, <3>5 DEF Ahead
      <4>2. Len(s.told) = 1
        BY <3>4
      <4>3. s.ran \in Nat
        BY <3>2, <3>4 DEF Ahead
      <4> QED BY <4>1, <4>2, <4>3, <3>4, <3>6, <3>7 DEF Over
    <3> QED BY <2>2, <3>1, <3>4, <3>5, <3>8 DEF Well
  <2> QED BY <2>7, <2>8, <2>9
<1> QED BY <1>1, <1>2

\* So does the loop's handling of a posted one.
LEMMA HandledWell ==
  ASSUME NEW o, Well(o), o.state = "posted"
  PROVE  Well(Rtt!Handled(o)) /\ Alike(o, Rtt!Handled(o))
<1>0. IsCopy(o) /\ Ahead(o) /\ GoesOn(o) /\ o.steps # <<>> /\ o.steps[1].loop
  BY DEF Well
<1>1. o.ran \in Nat /\ o.steps \in Seq(OrderStep) /\ Len(o.steps) \in Nat /\ Len(o.steps) >= 1 /\ o.told = <<>>
  BY <1>0 DEF Ahead
<1> DEFINE step == o.steps[1]
           rest == [o EXCEPT !.steps = Tail(@), !.ran = @ + 1]
<1>2. rest = RestOf(o, 1, o.state)
  <2>1. ASSUME NEW p, p = [o EXCEPT !.steps = Tail(@), !.ran = @ + 1]
        PROVE  p = [by |-> o.by, addr |-> o.addr, id |-> o.id, key |-> o.key, steps |-> Tail(o.steps),
                    ran |-> o.ran + 1, state |-> o.state, told |-> o.told, kept |-> o.kept]
    BY <1>0, <2>1 DEF IsCopy
  <2>2. Tail(o.steps) = SubSeq(o.steps, 1 + 1, Len(o.steps))
    BY <1>1
  <2> QED BY <2>1, <2>2 DEF RestOf
<1>3. step.result \in STRING /\ step = All(o)[o.ran + 1] /\ Len(All(o)) = Len(o.steps) + o.ran
  <2>1. 1 \in 1 .. Len(o.steps)
    BY <1>1
  <2>2. step \in OrderStep
    BY <1>1, <2>1
  <2> QED BY <1>0, <2>1, <2>2 DEF Ahead, OrderStep
<1> HIDE DEF step, rest
<1>4. /\ IsCopy(rest) /\ Alike(o, rest) /\ Ahead(rest) /\ rest.ran = o.ran + 1 /\ rest.told = <<>>
      /\ All(rest)[rest.ran] = step
      /\ 1 = Len(o.steps) => rest.steps = <<>>
      /\ 1 < Len(o.steps) => rest.steps # <<>>
  <2>1. 1 \in 0 .. Len(o.steps) /\ \A j \in 1 .. 1 - 1 : ~ Rtt!Pauses(o.steps, j)
    BY <1>1
  <2> QED BY <2>1, <1>0, <1>2, RestIs DEF step
<1>5. All(rest) = All(o)
  BY <1>4, AlikeAll
<1>6. Rtt!Handled(o) = IF step.result = Rtt!Accepted THEN [rest EXCEPT !.state = "awaiting"]
                       ELSE IF Rtt!IsError(step.result) \/ rest.steps = <<>> THEN Rtt!Finished(rest, step.result)
                       ELSE IF step.result = Rtt!Success THEN Rtt!Started(rest).object ELSE [rest EXCEPT !.state = "stuck"]
  BY Zenon DEF Rtt!Handled, step, rest
<1>7. CASE step.result = Rtt!Accepted
  <2> DEFINE s == [rest EXCEPT !.state = "awaiting"]
  <2>1. s = RestOf(o, 1, "awaiting")
    <3>1. ASSUME NEW p, p = [rest EXCEPT !.state = "awaiting"] PROVE p = RestOf(o, 1, "awaiting")
      BY <1>2, <3>1 DEF RestOf
    <3> QED BY <3>1
  <2> HIDE DEF s
  <2>2. 1 \in 0 .. Len(o.steps) /\ \A j \in 1 .. 1 - 1 : ~ Rtt!Pauses(o.steps, j)
    BY <1>1
  <2>3. IsCopy(s) /\ Alike(o, s) /\ Ahead(s) /\ s.state = "awaiting" /\ s.ran = o.ran + 1 /\ All(s)[s.ran] = step
    BY <2>1, <2>2, <1>0, RestIs DEF step
  <2>4. s.ran >= 1
    BY <2>3, <1>1
  <2> QED BY <1>6, <1>7, <2>3, <2>4 DEF Well, s
<1>8. CASE step.result # Rtt!Accepted /\ (Rtt!IsError(step.result) \/ rest.steps = <<>>)
  <2> DEFINE s == Rtt!Finished(rest, step.result)
  <2>1. IsCopy(s) /\ Alike(rest, s) /\ s.state = "finished" /\ s.told = <<step.result>> /\ s.ran = rest.ran
    BY <1>4, FinishedIs
  <2>2. Rtt!Handled(o) = s
    BY <1>6, <1>8
  <2> HIDE DEF s
  <2>3. All(s) = All(rest) /\ Alike(o, s) /\ Len(s.told) = 1
    BY <2>1, <1>4, AlikeAll DEF Alike
  <2>4. Rtt!OrderEnds(All(s), s.ran)
    <3>1. rest.steps = <<>> => s.ran = Len(All(s))
      <4>1. Len(All(rest)) = Len(rest.steps) + rest.ran /\ rest.ran \in Nat
        BY <1>4 DEF Ahead
      <4> QED BY <4>1, <2>1, <2>3
    <3> QED BY <3>1, <1>4, <1>8, <2>1, <2>3 DEF Rtt!OrderEnds
  <2>5. Over(s)
    BY <1>4, <2>1, <2>3, <2>4 DEF Over, Ahead
  <2> QED BY <2>1, <2>2, <2>3, <2>5 DEF Well
<1>9. CASE step.result # Rtt!Accepted /\ ~ Rtt!IsError(step.result) /\ rest.steps # <<>>
  <2>1. Len(o.steps) # 1
    BY <1>4, <1>9
  <2>2. o.ran + 1 \in 1 .. Len(All(o)) - 1 /\ o.ran + 1 # Len(All(o))
    <3>1. Len(All(o)) \in Nat /\ o.ran + 1 < Len(All(o))
      <4>1. ASSUME NEW a \in Nat, NEW b \in Nat, a >= 1, a # 1, NEW c, c = a + b PROVE c \in Nat /\ b + 1 < c
        BY <4>1
      <4> QED BY <4>1, <1>1, <1>3, <2>1
    <3> QED BY <3>1, <1>1
  <2>3. step.result \in {"success", "accept", "fail"}
    BY <2>2, <1>0, <1>3, AllSteps DEF IsCopy, step
  <2>4. step.result = Rtt!Success
    BY <2>3, <1>9 DEF Rtt!Success, Rtt!Accepted, Rtt!IsError
  <2>5. GoesOn(rest)
    BY <1>4, <1>5, <1>9, <2>2 DEF GoesOn, Rtt!OrderEnds
  <2>6. Well(Rtt!Started(rest).object) /\ Alike(rest, Rtt!Started(rest).object)
    BY <1>4, <1>9, <2>5, StartedWell
  <2>7. Rtt!Handled(o) = Rtt!Started(rest).object
    BY <1>6, <1>9, <2>4
  <2> QED BY <2>6, <2>7, <1>4 DEF Alike
<1> QED BY <1>7, <1>8, <1>9

\* A client of a copy that ended has its note.
Heard(o) ==
  o.addr \in conns /\ o.by = "sdk" /\ o.state = "finished" =>
    \E m \in Rtt!NotesOf(o.addr) : m.id = o.id /\ m.c = <<[key |-> o.key, result |-> Rtt!ToJson(o.told[1])]>>
\* What was sent to a client is a sequence.
SentTyped ==
  /\ sent = [a \in Clients |-> sent[a]]
  /\ \A a \in Clients : \E S : sent[a] \in Seq(S)
\* Copies have numbers, and the posted ones are posted.
Filing ==
  /\ \E S : objects \in Seq(S)
  /\ posted \subseteq DOMAIN objects
  /\ \A n \in DOMAIN objects : Well(objects[n]) /\ (objects[n].state = "posted") = (n \in posted)
\* What a service has in hand of a request.
IsWork(w) ==
  /\ w = [addr |-> w.addr, request |-> w.request, left |-> w.left, answer |-> w.answer]
  /\ w.addr \in Clients
\* Nobody misses the news of its own copy.
AllHeard == \A n \in DOMAIN objects : Heard(objects[n])
\* What holds of the commands between two steps.
OrdersInv ==
  /\ conns \subseteq Clients /\ SentTyped /\ Filing
  /\ \A w \in serving : IsWork(w)
  /\ AllHeard

\* Sending takes nothing back.
LEMMA SentMore ==
  ASSUME SentTyped, NEW b \in Clients, NEW m, sent' = sent \/ sent' = Rtt!Sent(b, m)
  PROVE  /\ SentTyped' /\ \A a \in Clients : Rtt!NotesOf(a) \subseteq Rtt!NotesOf(a)'
         /\ b \in conns /\ m.kind = "note" /\ sent' = Rtt!Sent(b, m) => m \in Rtt!NotesOf(b)'
<1>1. CASE sent' = sent /\ ~ (b \in conns /\ sent' = Rtt!Sent(b, m))
  BY <1>1 DEF SentTyped, Rtt!NotesOf
<1>2. CASE b \notin conns
  BY <1>2 DEF SentTyped, Rtt!NotesOf, Rtt!Sent
<1>3. CASE sent' = Rtt!Sent(b, m) /\ b \in conns
  <2>1. sent' = [sent EXCEPT ![b] = Append(sent[b], m)]
    BY <1>3 DEF Rtt!Sent
  <2>2. PICK S : sent[b] \in Seq(S)
    BY DEF SentTyped
  <2>3. /\ Append(sent[b], m) \in Seq(S \cup {m}) /\ DOMAIN Append(sent[b], m) = DOMAIN sent[b] \cup {Len(sent[b]) + 1}
        /\ Append(sent[b], m)[Len(sent[b]) + 1] = m /\ \A i \in DOMAIN sent[b] : Append(sent[b], m)[i] = sent[b][i]
    BY <2>2
  <2>4. sent'[b] = Append(sent[b], m) /\ sent' = [a \in Clients |-> sent'[a]]
        /\ \A a \in Clients \ {b} : sent'[a] = sent[a]
    BY <2>1 DEF SentTyped
  <2>5. SentTyped'
    <3>1. ASSUME NEW a \in Clients PROVE \E T : sent'[a] \in Seq(T)
      <4>1. CASE a = b
        BY <2>3, <2>4, <4>1
      <4>2. CASE a # b
        BY <2>4, <4>2 DEF SentTyped
      <4> QED BY <4>1, <4>2
    <3> QED BY <2>4, <3>1 DEF SentTyped
  <2>6. ASSUME NEW a \in Clients PROVE Rtt!NotesOf(a) \subseteq Rtt!NotesOf(a)'
    <3>1. CASE a = b
      BY <2>3, <2>4, <3>1 DEF Rtt!NotesOf
    <3>2. CASE a # b
      BY <2>4, <3>2 DEF Rtt!NotesOf
    <3> QED BY <3>1, <3>2
  <2>7. m.kind = "note" => m \in Rtt!NotesOf(b)'
    BY <2>3, <2>4 DEF Rtt!NotesOf
  <2> QED BY <2>5, <2>6, <2>7
<1> QED BY <1>1, <1>2, <1>3

\* Who has heard has heard for good.
LEMMA HeardOn ==
  ASSUME NEW o, o.addr \in Clients, Heard(o), conns' \subseteq conns,
         \A a \in Clients : Rtt!NotesOf(a) \subseteq Rtt!NotesOf(a)'
  PROVE  Heard(o)'
BY DEF Heard

\* Filing a copy leaves the others alone.
LEMMA FiledWell ==
  ASSUME Filing, NEW n \in 1 .. Len(objects) + 1, NEW o, Well(o), NEW was, Rtt!Filed(n, o, was)
  PROVE  /\ Filing' /\ DOMAIN objects' = DOMAIN objects \cup {n} /\ objects'[n] = o
         /\ \A i \in DOMAIN objects \ {n} : objects'[i] = objects[i]
<1>1. PICK S : objects \in Seq(S)
  BY DEF Filing
<1>2. /\ objects' = [i \in DOMAIN objects \cup {n} |-> IF i = n THEN o ELSE objects[i]]
      /\ posted' = (posted \ {n}) \cup (IF o.state = "posted" THEN {n} ELSE {})
  BY DEF Rtt!Filed
<1>3. DOMAIN objects = 1 .. Len(objects) /\ Len(objects) \in Nat
  BY <1>1
<1>4. PICK k \in Nat : DOMAIN objects \cup {n} = 1 .. k
  <2>1. CASE n \in DOMAIN objects
    BY <1>3, <2>1
  <2>2. CASE n = Len(objects) + 1
    <3>1. DOMAIN objects \cup {n} = 1 .. Len(objects) + 1 /\ Len(objects) + 1 \in Nat
      BY <1>3, <2>2
    <3> QED BY <3>1
  <2> QED BY <2>1, <2>2, <1>3
<1>5. \A i \in 1 .. k : (IF i = n THEN o ELSE objects[i]) \in S \cup {o}
  <2> SUFFICES ASSUME NEW i \in 1 .. k, i # n PROVE objects[i] \in S
    OBVIOUS
  <2>1. i \in 1 .. Len(objects)
    BY <1>3, <1>4
  <2> QED BY <1>1, <2>1
<1>6. objects' \in Seq(S \cup {o})
  <2>1. objects' \in [1 .. k -> S \cup {o}]
    BY <1>2, <1>4, <1>5
  <2> QED BY <2>1
<1>7. /\ DOMAIN objects' = DOMAIN objects \cup {n} /\ objects'[n] = o
      /\ \A i \in DOMAIN objects \ {n} : objects'[i] = objects[i]
  BY <1>2
<1>8. \A i \in DOMAIN objects' : Well(objects'[i]) /\ (objects'[i].state = "posted") = (i \in posted')
  <2> SUFFICES ASSUME NEW i \in DOMAIN objects' PROVE Well(objects'[i]) /\ (objects'[i].state = "posted") = (i \in posted')
    OBVIOUS
  <2>1. CASE i = n
    BY <2>1, <1>2, <1>7
  <2>2. CASE i # n
    <3>1. i \in DOMAIN objects /\ objects'[i] = objects[i] /\ (i \in posted') = (i \in posted)
      BY <2>2, <1>2, <1>7
    <3> QED BY <3>1 DEF Filing
  <2> QED BY <2>1, <2>2
<1>9. posted' \subseteq DOMAIN objects'
  BY <1>2, <1>7 DEF Filing
<1>10. \A x : Well(x)' = Well(x)
  BY DEF Well, IsCopy, Ahead, GoesOn, Over, All, Rtt!StepsOf, Rtt!OrderEnds, Rtt!IsError, Rtt!Accepted
<1> QED BY <1>6, <1>7, <1>8, <1>9, <1>10 DEF Filing

\* Who keeps a copy changes nothing else of it.
LEMMA KeptWell ==
  ASSUME NEW o, Well(o), NEW b
  PROVE  LET s == [o EXCEPT !.kept = b] IN Well(s) /\ Alike(o, s) /\ s.state = o.state /\ s.told = o.told
<1> DEFINE s == [o EXCEPT !.kept = b]
<1>1. ASSUME NEW q, q = [o EXCEPT !.kept = b]
      PROVE  q = [by |-> o.by, addr |-> o.addr, id |-> o.id, key |-> o.key, steps |-> o.steps,
                  ran |-> o.ran, state |-> o.state, told |-> o.told, kept |-> b]
  BY <1>1 DEF Well, IsCopy
<1>2. s = [by |-> o.by, addr |-> o.addr, id |-> o.id, key |-> o.key, steps |-> o.steps,
           ran |-> o.ran, state |-> o.state, told |-> o.told, kept |-> b]
  BY <1>1
<1> HIDE DEF s
<1>3. /\ s.by = o.by /\ s.addr = o.addr /\ s.id = o.id /\ s.key = o.key /\ s.steps = o.steps
      /\ s.ran = o.ran /\ s.state = o.state /\ s.told = o.told /\ s.kept = b
  BY <1>2
<1>4. Alike(o, s) /\ All(s) = All(o)
  BY <1>3, AlikeAll DEF Alike
<1>5. IsCopy(s)
  BY <1>2, <1>3 DEF Well, IsCopy
<1>6. Well(s)
  BY <1>3, <1>4, <1>5 DEF Well, Ahead, GoesOn, Over
<1> QED BY <1>3, <1>4, <1>6 DEF s

\* A copy just made and run is one of those.
LEMMA MadeWell ==
  ASSUME NEW by \in {"sdk", "sys"}, NEW addr \in Clients, NEW id, NEW cmd \in DOMAIN Templates, NEW first,
         first = IF by = "sdk" /\ cmd \in DOMAIN Cips THEN <<[loop |-> FALSE, result |-> Cips[cmd]]>> ELSE <<>>
  PROVE  LET o == Rtt!Copy(by, addr, id, cmd, first) IN Well(Rtt!Started(o).object) /\ Alike(o, Rtt!Started(o).object)
<1> DEFINE o == Rtt!Copy(by, addr, id, cmd, first)
<1>1. o = [by |-> by, addr |-> addr, id |-> id, key |-> cmd, steps |-> first \o Templates[cmd], ran |-> 0,
           state |-> "new", told |-> <<>>, kept |-> FALSE]
  BY DEF Rtt!Copy
<1> HIDE DEF o
<1>2. IsCopy(o) /\ o.ran = 0 /\ o.told = <<>> /\ o.steps = first \o Templates[cmd] /\ o.by = by /\ o.key = cmd
  BY <1>1 DEF IsCopy
<1>3. All(o) = o.steps
  BY <1>2 DEF All, Rtt!StepsOf
<1>4. o.steps \in Seq(OrderStep) /\ Len(o.steps) \in Nat
  BY <1>2, <1>3, AllSteps DEF IsCopy
<1>5. Ahead(o) /\ GoesOn(o)
  <2>1. \A j \in 1 .. Len(o.steps) : o.steps[j] = All(o)[o.ran + j]
    BY <1>2, <1>3, <1>4
  <2>2. Len(All(o)) = Len(o.steps) + o.ran /\ ~ o.ran > 0 /\ o.ran \in Nat
    BY <1>2, <1>3, <1>4
  <2>3. \A i \in 1 .. o.ran - 1 : ~ Rtt!OrderEnds(All(o), i)
    <3>1. o.ran - 1 = -1 /\ 1 .. -1 = {}
      BY <1>2
    <3> QED BY <3>1
  <2> QED BY <2>1, <2>2, <2>3, <1>2, <1>4 DEF Ahead, GoesOn
<1>6. Well(Rtt!Started(o).object) /\ Alike(o, Rtt!Started(o).object)
  BY <1>2, <1>3, <1>5, StartedWell
<1> QED BY <1>6 DEF o

\* A copy is filed and its client told if it is at its end.
LEMMA NewsHeard ==
  ASSUME OrdersInv, NEW n \in 1 .. Len(objects) + 1, NEW o, Well(o), NEW was, was = <<>>, Rtt!Filed(n, o, was),
         conns' = conns,
         sent' = IF Rtt!Tells(o, was) THEN Rtt!Sent(o.addr, Rtt!Note(o, o.told[1])) ELSE sent
  PROVE  SentTyped' /\ Filing' /\ AllHeard'
<1>1. PICK m : m = Rtt!Note(o, o.told[1])
  OBVIOUS
<1>2. PICK b : b = o.addr
  OBVIOUS
<1>3. b \in Clients /\ IsCopy(o)
  BY <1>2 DEF Well, IsCopy
<1>4. sent' = sent \/ sent' = Rtt!Sent(b, m)
  BY <1>1, <1>2
<1>5. /\ SentTyped' /\ \A a \in Clients : Rtt!NotesOf(a) \subseteq Rtt!NotesOf(a)'
      /\ b \in conns /\ m.kind = "note" /\ sent' = Rtt!Sent(b, m) => m \in Rtt!NotesOf(b)'
  BY <1>3, <1>4, SentMore DEF OrdersInv
<1>6. /\ Filing' /\ DOMAIN objects' = DOMAIN objects \cup {n} /\ objects'[n] = o
      /\ \A i \in DOMAIN objects \ {n} : objects'[i] = objects[i]
  BY FiledWell DEF OrdersInv
<1>7. Heard(o)'
  <2> SUFFICES ASSUME o.addr \in conns, o.by = "sdk", o.state = "finished"
               PROVE  m \in Rtt!NotesOf(o.addr)' /\ m.id = o.id /\ m.c = <<[key |-> o.key, result |-> Rtt!ToJson(o.told[1])]>>
    BY DEF Heard
  <2>1. Len(o.told) = 1
    BY DEF Well, Over
  <2>2. Rtt!Tells(o, was)
    BY <2>1 DEF Rtt!Tells
  <2>3. m = [kind |-> "note", id |-> o.id, c |-> <<[key |-> o.key, result |-> Rtt!ToJson(o.told[1])]>>]
    BY <1>1 DEF Rtt!Note
  <2> QED BY <2>2, <2>3, <1>1, <1>2, <1>5
<1>8. ASSUME NEW i \in DOMAIN objects', NEW q, q = objects'[i] PROVE Heard(q)'
  <2>1. CASE i = n
    BY <2>1, <1>6, <1>7, <1>8
  <2>2. CASE i # n
    <3>1. i \in DOMAIN objects /\ objects[i] = q /\ q.addr \in Clients /\ Heard(q)
      BY <2>2, <1>6, <1>8 DEF OrdersInv, AllHeard, Filing, Well, IsCopy
    <3> QED BY <3>1, <1>5, HeardOn
  <2> QED BY <2>1, <2>2
<1>9. AllHeard'
  BY <1>8 DEF AllHeard, Heard
<1> QED BY <1>5, <1>6, <1>9

\* No client, no copy.
LEMMA OrdersStart == MCInit => OrdersInv
<1> SUFFICES ASSUME MCInit PROVE OrdersInv
  OBVIOUS
<1>1. conns = Clients /\ objects = <<>> /\ posted = {} /\ serving = {} /\ sent = [a \in Clients |-> <<>>]
  BY DEF MCInit, Rtt!OrderInit
<1>2. <<>> \in Seq({}) /\ DOMAIN <<>> = {}
  OBVIOUS
<1>3. SentTyped
  BY <1>1, <1>2 DEF SentTyped
<1>4. Filing
  BY <1>1, <1>2 DEF Filing
<1> QED BY <1>1, <1>2, <1>3, <1>4 DEF OrdersInv, AllHeard

\* What touches no copy leaves the files as they are.
LEMMA StillFiled == ASSUME Filing, objects' = objects, posted' = posted PROVE Filing'
<1>1. \A x : Well(x)' = Well(x)
  BY DEF Well, IsCopy, Ahead, GoesOn, Over, All, Rtt!StepsOf, Rtt!OrderEnds, Rtt!IsError, Rtt!Accepted
<1>2. PICK S : objects \in Seq(S)
  BY DEF Filing
<1>3. \A n \in DOMAIN objects : Well(objects[n])' /\ (objects[n].state = "posted") = (n \in posted)
  BY <1>1 DEF Filing
<1> QED BY <1>2, <1>3 DEF Filing

\* What is said or left unsaid files nothing.
LEMMA Spoken ==
  ASSUME OrdersInv, NEW b \in Clients, NEW m, sent' = sent \/ sent' = Rtt!Sent(b, m),
         conns' \subseteq conns, objects' = objects, posted' = posted
  PROVE  SentTyped' /\ Filing' /\ AllHeard'
<1>1. SentTyped' /\ \A a \in Clients : Rtt!NotesOf(a) \subseteq Rtt!NotesOf(a)'
  BY SentMore DEF OrdersInv
<1>2. Filing'
  BY StillFiled DEF OrdersInv
<1>3. ASSUME NEW i \in DOMAIN objects, NEW q, q = objects[i] PROVE Heard(q)'
  <2>1. q.addr \in Clients /\ Heard(q)
    BY <1>3 DEF OrdersInv, AllHeard, Filing, Well, IsCopy
  <2> QED BY <2>1, <1>1, HeardOn
<1>4. AllHeard'
  BY <1>3 DEF AllHeard, Heard
<1> QED BY <1>1, <1>2, <1>4

\* A copy that somebody else ends is at its end.
LEMMA FinishWell ==
  ASSUME NEW o, Well(o), o.state = "awaiting", NEW r
  PROVE  Well(Rtt!Finished(o, r)) /\ Alike(o, Rtt!Finished(o, r)) /\ Rtt!Finished(o, r).told = <<r>> /\ o.told = <<>>
<1>1. IsCopy(o) /\ Ahead(o) /\ o.told = <<>> /\ o.ran >= 1 /\ All(o)[o.ran].result = Rtt!Accepted
  BY DEF Well, Ahead
<1> DEFINE s == Rtt!Finished(o, r)
<1>2. IsCopy(s) /\ Alike(o, s) /\ s.state = "finished" /\ s.told = <<r>> /\ s.ran = o.ran
  BY <1>1, FinishedIs
<1> HIDE DEF s
<1>3. All(s) = All(o) /\ Len(s.told) = 1
  BY <1>2, AlikeAll
<1>4. Over(s)
  BY <1>1, <1>2, <1>3 DEF Over, Ahead, Rtt!OrderEnds
<1>5. Well(s)
  BY <1>2, <1>4 DEF Well
<1> QED BY <1>1, <1>2, <1>5 DEF s

\* Requests, posted steps, answers and lost connections keep it (CommandObject, SdkService).
LEMMA OrdersOnwards ==
  ASSUME OrdersInv, Rtt!OrderNext
  PROVE  OrdersInv'
<1>1. PICK S : objects \in Seq(S)
  BY DEF OrdersInv, Filing
<1>2. DOMAIN objects = 1 .. Len(objects) /\ Len(objects) \in Nat
  BY <1>1
<1>3. ASSUME NEW n \in DOMAIN objects, Rtt!OrderRunTask(n) PROVE OrdersInv'
  <2>1. PICK o : o = objects[n]
    OBVIOUS
  <2>2. PICK next : next = Rtt!Handled(o)
    OBVIOUS
  <2>3. Well(o) /\ o.state = "posted"
    BY <1>3, <2>1 DEF OrdersInv, Filing, Rtt!OrderRunTask
  <2>4. Well(next) /\ Alike(o, next) /\ o.told = <<>>
    BY <2>2, <2>3, HandledWell DEF Well, Ahead
  <2>5. /\ Rtt!Filed(n, next, o.told) /\ conns' = conns /\ serving' = serving
        /\ sent' = IF Rtt!Tells(next, o.told) THEN Rtt!Sent(o.addr, Rtt!Note(o, next.told[1])) ELSE sent
    BY <1>3, <2>1, <2>2 DEF Rtt!OrderRunTask
  <2>6. next.addr = o.addr /\ Rtt!Note(next, next.told[1]) = Rtt!Note(o, next.told[1])
    BY <2>4 DEF Alike, Rtt!Note
  <2>7. n \in 1 .. Len(objects) + 1
    BY <1>2
  <2>8. SentTyped' /\ Filing' /\ AllHeard'
    <3>1. PICK was : was = o.told
      OBVIOUS
    <3> QED BY <3>1, <2>4, <2>5, <2>6, <2>7, NewsHeard
  <2> QED BY <2>5, <2>8 DEF OrdersInv, IsWork
<1>4. ASSUME NEW n \in DOMAIN objects, Rtt!Finish(n) PROVE OrdersInv'
  <2>1. PICK o : o = objects[n]
    OBVIOUS
  <2>2. PICK r : Rtt!Filed(n, Rtt!Finished(o, r), o.told) /\ sent' = Rtt!Sent(o.addr, Rtt!Note(o, r))
    BY <1>4, <2>1 DEF Rtt!Finish
  <2>3. PICK next : next = Rtt!Finished(o, r)
    OBVIOUS
  <2>4. Well(o) /\ o.state = "awaiting" /\ conns' = conns /\ serving' = serving
    BY <1>4, <2>1 DEF OrdersInv, Filing, Rtt!Finish
  <2>5. Well(next) /\ Alike(o, next) /\ next.told = <<r>> /\ o.told = <<>>
    BY <2>3, <2>4, FinishWell
  <2>6. next.addr = o.addr /\ Rtt!Note(next, next.told[1]) = Rtt!Note(o, r) /\ Rtt!Tells(next, o.told)
    BY <2>5 DEF Alike, Rtt!Note, Rtt!Tells
  <2>7. n \in 1 .. Len(objects) + 1
    BY <1>2
  <2>8. SentTyped' /\ Filing' /\ AllHeard'
    <3>1. PICK was : was = o.told
      OBVIOUS
    <3> QED BY <3>1, <2>2, <2>3, <2>4, <2>5, <2>6, <2>7, NewsHeard
  <2> QED BY <2>4, <2>8 DEF OrdersInv, IsWork
<1>5. ASSUME NEW a \in Clients, Rtt!OrderDisconnect(a) PROVE OrdersInv'
  <2>1. conns' \subseteq conns /\ objects' = objects /\ posted' = posted /\ serving' = serving /\ sent' = sent
    BY <1>5 DEF Rtt!OrderDisconnect
  <2>2. PICK m : m = 0
    OBVIOUS
  <2>3. SentTyped' /\ Filing' /\ AllHeard'
    BY <2>1, Spoken
  <2> QED BY <2>1, <2>3 DEF OrdersInv, IsWork
<1>6. ASSUME NEW a \in Clients, NEW r \in Requests, Rtt!HandleMessage(a, r) PROVE OrdersInv'
  <2>1. /\ conns' = conns /\ objects' = objects /\ posted' = posted /\ sent' = sent
        /\ \E w : serving' = {w} /\ IsWork(w)
    <3>1. PICK an : serving' = {[addr |-> a, request |-> r, left |-> r.c, answer |-> an]}
      BY <1>6 DEF Rtt!HandleMessage
    <3>2. IsWork([addr |-> a, request |-> r, left |-> r.c, answer |-> an])
      BY DEF IsWork
    <3> QED BY <1>6, <3>1, <3>2 DEF Rtt!HandleMessage
  <2>3. SentTyped' /\ Filing' /\ AllHeard'
    BY <2>1, Spoken
  <2> QED BY <2>1, <2>3 DEF OrdersInv, IsWork
<1>7. ASSUME NEW a \in Clients, NEW line, Rtt!HandleLine(a, line) PROVE OrdersInv'
  <2>1. conns' = conns /\ serving' = serving
    BY <1>7 DEF Rtt!HandleLine
  <2>2. PICK cmd : cmd = Lines[line]
    OBVIOUS
  <2>3. PICK made : made = Rtt!Started(Rtt!Copy("sys", a, <<>>, cmd, <<>>)).object
    OBVIOUS
  <2>4. CASE line \in DOMAIN Lines /\ cmd \in DOMAIN Templates
    <3>1. /\ Rtt!Filed(Len(objects) + 1, made, <<>>)
          /\ sent' = IF Rtt!Tells(made, <<>>) THEN Rtt!Sent(a, Rtt!Note(made, made.told[1])) ELSE sent
      BY <1>7, <2>2, <2>3, <2>4 DEF Rtt!HandleLine
    <3>2. PICK first, id : first = <<>> /\ id = <<>>
      OBVIOUS
    <3>3. PICK by : by = "sys"
      OBVIOUS
    <3>4. first = IF by = "sdk" /\ cmd \in DOMAIN Cips THEN <<[loop |-> FALSE, result |-> Cips[cmd]]>> ELSE <<>>
      BY <3>2, <3>3
    <3>5. LET o == Rtt!Copy(by, a, id, cmd, first) IN Well(Rtt!Started(o).object) /\ Alike(o, Rtt!Started(o).object)
      BY <2>4, <3>3, <3>4, MadeWell
    <3>6. Well(made) /\ made.addr = a
      <4>1. Well(made) /\ Alike(Rtt!Copy(by, a, id, cmd, first), made)
        BY <2>3, <3>2, <3>3, <3>5
      <4>2. Rtt!Copy(by, a, id, cmd, first).addr = a
        BY DEF Rtt!Copy
      <4> QED BY <4>1, <4>2 DEF Alike
    <3>7. Len(objects) + 1 \in 1 .. Len(objects) + 1
      BY <1>2
    <3>8. SentTyped' /\ Filing' /\ AllHeard'
      <4>1. PICK was : was = <<>>
        OBVIOUS
      <4>2. PICK n : n = Len(objects) + 1
        OBVIOUS
      <4> QED BY <4>1, <4>2, <2>1, <3>1, <3>6, <3>7, NewsHeard
    <3> QED BY <2>1, <3>8 DEF OrdersInv, IsWork
  <2>5. CASE ~ (line \in DOMAIN Lines /\ cmd \in DOMAIN Templates)
    <3>1. PICK m : sent' = Rtt!Sent(a, m) /\ objects' = objects /\ posted' = posted
      <4>1. CASE line \in DOMAIN Lines
        BY <1>7, <2>2, <2>5, <4>1 DEF Rtt!HandleLine
      <4>2. CASE line \notin DOMAIN Lines /\ line \in DOMAIN Queries
        BY <1>7, <4>2 DEF Rtt!HandleLine
      <4>3. CASE line \notin DOMAIN Lines /\ line \notin DOMAIN Queries
        BY <1>7, <4>3 DEF Rtt!HandleLine
      <4> QED BY <4>1, <4>2, <4>3
    <3>2. SentTyped' /\ Filing' /\ AllHeard'
      BY <2>1, <3>1, Spoken
    <3> QED BY <2>1, <3>2 DEF OrdersInv, IsWork
  <2> QED BY <2>4, <2>5
<1>8. ASSUME NEW w \in serving, Rtt!Respond(w) PROVE OrdersInv'
  <2>1. /\ conns' = conns /\ objects' = objects /\ posted' = posted /\ serving' = {}
        /\ sent' = Rtt!Sent(w.addr, w.answer) /\ w.addr \in Clients
    BY <1>8 DEF Rtt!Respond, OrdersInv, IsWork
  <2>2. SentTyped' /\ Filing' /\ AllHeard'
    <3>1. PICK b, m : b = w.addr /\ m = w.answer
      OBVIOUS
    <3> QED BY <2>1, <3>1, Spoken
  <2> QED BY <2>1, <2>2 DEF OrdersInv, IsWork
<1>9. ASSUME NEW w \in serving, Rtt!Serve(w) PROVE OrdersInv'
  <2>0. conns' = conns /\ IsWork(w) /\ w.addr \in Clients
    BY <1>9 DEF Rtt!Serve, OrdersInv, IsWork
  <2>1. PICK cmd : cmd = w.left[1]
    OBVIOUS
  <2>2. ASSUME NEW v, v = [w EXCEPT !.left = Tail(@)] PROVE IsWork(v)
    <3>1. v = [addr |-> w.addr, request |-> w.request, left |-> Tail(w.left), answer |-> w.answer]
      BY <2>0, <2>2 DEF IsWork
    <3> QED BY <2>0, <3>1 DEF IsWork
  <2>3. ASSUME NEW v, NEW r, v = [w EXCEPT !.left = Tail(@), !.answer.c = Append(@, [key |-> cmd, result |-> r])] PROVE IsWork(v)
    <3>1. v = [addr |-> w.addr, request |-> w.request, left |-> Tail(w.left), answer |-> v.answer]
      BY <2>0, <2>3 DEF IsWork
    <3> QED BY <2>0, <3>1 DEF IsWork
  <2>4. \A v \in serving' : IsWork(v)
    <3>1. \E v : serving' = {v} /\ IsWork(v)
      BY <1>9, <2>1, <2>2, <2>3 DEF Rtt!Serve
    <3> QED BY <3>1
  <2>5. CASE cmd \notin DOMAIN Templates
    <3>1. objects' = objects /\ posted' = posted /\ sent' = sent
      BY <1>9, <2>1, <2>5 DEF Rtt!Serve
    <3>2. SentTyped' /\ Filing' /\ AllHeard'
      BY <2>0, <3>1, Spoken
    <3> QED BY <2>0, <2>4, <3>2 DEF OrdersInv, IsWork
  <2>6. CASE cmd \in DOMAIN Templates
    <3>1. PICK made : made = Rtt!CCmd(w.addr, w.request.id, cmd)
      OBVIOUS
    <3>2. PICK o : o = [made.object EXCEPT !.kept = made.result # Rtt!Accepted]
      OBVIOUS
    <3>3. /\ Rtt!Filed(Len(objects) + 1, o, <<>>)
          /\ sent' = IF Rtt!Tells(made.object, <<>>) THEN Rtt!Sent(w.addr, Rtt!Note(made.object, made.object.told[1])) ELSE sent
      BY <1>9, <2>1, <2>6, <3>1, <3>2 DEF Rtt!Serve
    <3>4. Well(made.object) /\ made.object.addr = w.addr
      <4>1. PICK first : first = IF cmd \in DOMAIN Cips THEN <<[loop |-> FALSE, result |-> Cips[cmd]]>> ELSE <<>>
        OBVIOUS
      <4>2. PICK by : by = "sdk"
        OBVIOUS
      <4>3. first = IF by = "sdk" /\ cmd \in DOMAIN Cips THEN <<[loop |-> FALSE, result |-> Cips[cmd]]>> ELSE <<>>
        BY <4>1, <4>2
      <4>4. PICK c : c = Rtt!Copy(by, w.addr, w.request.id, cmd, first)
        OBVIOUS
      <4>5. made = Rtt!Started(c)
        BY <3>1, <4>1, <4>2, <4>4 DEF Rtt!CCmd
      <4>6. Well(Rtt!Started(c).object) /\ Alike(c, Rtt!Started(c).object)
        <5>1. PICK a, i : a = w.addr /\ i = w.request.id
          OBVIOUS
        <5> QED BY <2>0, <2>6, <4>2, <4>3, <4>4, <5>1, MadeWell
      <4>7. c.addr = w.addr
        BY <4>4 DEF Rtt!Copy
      <4> QED BY <4>5, <4>6, <4>7 DEF Alike
    <3>5. Well(o) /\ Alike(made.object, o) /\ o.told = made.object.told
      <4>1. PICK p, b : p = made.object /\ b = (made.result # Rtt!Accepted)
        OBVIOUS
      <4> QED BY <3>2, <3>4, <4>1, KeptWell
    <3>6. o.addr = w.addr /\ Rtt!Note(o, o.told[1]) = Rtt!Note(made.object, made.object.told[1])
          /\ Rtt!Tells(o, <<>>) = Rtt!Tells(made.object, <<>>)
      BY <3>4, <3>5 DEF Alike, Rtt!Note, Rtt!Tells
    <3>7. Len(objects) + 1 \in 1 .. Len(objects) + 1
      BY <1>2
    <3>8. SentTyped' /\ Filing' /\ AllHeard'
      <4>1. PICK was : was = <<>>
        OBVIOUS
      <4>2. PICK n : n = Len(objects) + 1
        OBVIOUS
      <4> QED BY <4>1, <4>2, <2>0, <3>3, <3>5, <3>6, <3>7, NewsHeard
    <3> QED BY <2>0, <2>4, <3>8 DEF OrdersInv, IsWork
  <2> QED BY <2>5, <2>6
<1> QED BY <1>3, <1>4, <1>5, <1>6, <1>7, <1>8, <1>9 DEF Rtt!OrderNext

\* The same of a step of the whole.
LEMMA OrdersStep == OrdersInv /\ [MCNext]_all => OrdersInv'
<1> SUFFICES ASSUME OrdersInv, [MCNext]_all PROVE OrdersInv'
  OBVIOUS
<1>1. CASE UNCHANGED orders
  <2>1. Filing'
    BY <1>1, StillFiled DEF orders, OrdersInv
  <2>2. SentTyped'
    BY <1>1 DEF orders, OrdersInv, SentTyped
  <2> QED BY <1>1, <2>1, <2>2 DEF orders, OrdersInv, AllHeard, Heard, IsWork, Rtt!NotesOf
<1>2. CASE Rtt!OrderNext
  BY <1>2, OrdersOnwards
<1>3. [MCNext]_all => Rtt!OrderNext \/ UNCHANGED orders
  BY DEF MCNext, all, toolkit, services
<1> QED BY <1>1, <1>2, <1>3

\* A command ends at the first step that ends it, once, and its client has the note.
LEMMA OrdersSafe == OrdersInv => Rtt!EndsOnce /\ Rtt!ToldOf
<1> SUFFICES ASSUME OrdersInv PROVE Rtt!EndsOnce /\ Rtt!ToldOf
  OBVIOUS
<1>1. Rtt!ToldOf
  BY DEF OrdersInv, AllHeard, Heard, Rtt!ToldOf
<1>2. ASSUME NEW n \in DOMAIN objects, NEW o, o = objects[n], NEW steps, steps = All(o)
      PROVE  /\ (o.state = "posted") = (n \in posted)
             /\ o.state \in {"posted", "awaiting", "finished"}
             /\ \A i \in 1 .. o.ran - 1 : ~ Rtt!OrderEnds(steps, i)
             /\ o.state = "posted" => steps[o.ran + 1].loop /\ (o.ran > 0 => ~ Rtt!OrderEnds(steps, o.ran))
             /\ o.state = "awaiting" => steps[o.ran].result = Rtt!Accepted
             /\ o.state = "finished" => /\ steps # <<>> => Rtt!OrderEnds(steps, o.ran) /\ (steps[o.ran].result = Rtt!Accepted \/ o.told = <<steps[o.ran].result>>)
                                        /\ Len(o.told) = 1
  <2>1. Well(o) /\ (o.state = "posted") = (n \in posted)
    BY <1>2 DEF OrdersInv, Filing
  <2>2. o.state = "posted" => steps[o.ran + 1].loop
    <3> SUFFICES ASSUME o.state = "posted" PROVE steps[o.ran + 1].loop
      OBVIOUS
    <3>1. Ahead(o) /\ o.steps # <<>> /\ o.steps[1].loop
      BY <2>1 DEF Well
    <3>2. 1 \in 1 .. Len(o.steps)
      BY <3>1 DEF Ahead
    <3> QED BY <1>2, <3>1, <3>2 DEF Ahead
  <2>3. \A i \in 1 .. o.ran - 1 : ~ Rtt!OrderEnds(steps, i)
    BY <1>2, <2>1 DEF Well, Ahead, Over
  <2> QED BY <1>2, <2>1, <2>2, <2>3 DEF Well, GoesOn, Over
<1>3. ASSUME NEW n \in DOMAIN objects
      PROVE  LET o == objects[n] steps == All(o) IN
               /\ (o.state = "posted") = (n \in posted)
               /\ o.state \in {"posted", "awaiting", "finished"}
               /\ \A i \in 1 .. o.ran - 1 : ~ Rtt!OrderEnds(steps, i)
               /\ CASE o.state = "posted" -> steps[o.ran + 1].loop /\ (o.ran > 0 => ~ Rtt!OrderEnds(steps, o.ran))
                    [] o.state = "awaiting" -> steps[o.ran].result = Rtt!Accepted
                    [] o.state = "finished" ->
                         /\ steps # <<>> => Rtt!OrderEnds(steps, o.ran) /\ (steps[o.ran].result = Rtt!Accepted \/ o.told = <<steps[o.ran].result>>)
                         /\ Len(o.told) = 1
                    [] OTHER -> TRUE
  <2>1. PICK o : o = objects[n]
    OBVIOUS
  <2>2. PICK steps : steps = All(o)
    OBVIOUS
  <2>3. CASE o.state = "posted"
    BY <2>1, <2>2, <2>3, <1>2
  <2>4. CASE o.state = "awaiting"
    BY <2>1, <2>2, <2>4, <1>2
  <2>5. CASE o.state = "finished"
    BY <2>1, <2>2, <2>5, <1>2
  <2>6. o.state \in {"posted", "awaiting", "finished"}
    BY <2>1, <2>2, <1>2
  <2> QED BY <2>3, <2>4, <2>5, <2>6
<1>4. Rtt!EndsOnce
  BY <1>3 DEF Rtt!EndsOnce, All
<1> QED BY <1>1, <1>4

-----------------------------------------------------------------------------
(* The objects, their table and their connections.                         *)

\* Each of two who are connected disconnects the other when it goes.
HookOf(c) == Rtt!Connection(c.by, Rtt!Deleted, c.on, Rtt!FamilyDisconnects(c.on, c.by))
\* A connection is a user's or the one that disconnects.
IsWire(c) ==
  /\ c = [on |-> c.on, signal |-> c.signal, by |-> c.by, act |-> c.act]
  /\ c.act # Rtt!User => c.signal = Rtt!Deleted /\ c.act = Rtt!FamilyDisconnects(c.by, c.on)
\* Connections join living objects, both ways.
Wired ==
  \A c \in connections :
    /\ IsWire(c) /\ c.on \in alive /\ c.by \in alive
    /\ c.on # c.by => HookOf(c) \in connections
\* A living object has the name it has in the table, or none.
Named ==
  /\ name = [o \in Objects |-> name[o]] /\ alive \subseteq Objects
  /\ \A o, p \in alive : name[o] = name[p] => o = p
  /\ \A o \in alive : name[o] \in DOMAIN entries => entries[name[o]] = o
\* Who is owned by the table is in it.
Owned ==
  /\ owned \subseteq alive
  /\ \A k \in DOMAIN entries : entries[k] \in owned
  /\ \A k, l \in DOMAIN entries : entries[k] = entries[l] => k = l
  /\ \A o \in owned : \E k \in DOMAIN entries : entries[k] = o
\* What holds of the objects between two steps.
FamilyInv ==
  /\ ~ misused /\ Wired /\ Named /\ Owned
  /\ \A c \in calling : c.by \in alive

\* The objects of the start are unnamed and unconnected.
LEMMA FamilyStart == MCInit => FamilyInv
<1> SUFFICES ASSUME MCInit PROVE FamilyInv
  OBVIOUS
<1>1. /\ alive = {} /\ name = [o \in Objects |-> ""] /\ owned = {}
      /\ entries = <<>> /\ connections = {} /\ calling = {} /\ misused = FALSE
  BY DEF MCInit, Rtt!FamilyInit
<1>2. DOMAIN <<>> = {}
  OBVIOUS
<1>3. Named
  BY <1>1 DEF Named
<1>4. Owned
  <2>1. \A k : k \notin DOMAIN entries
    BY <1>1, <1>2
  <2> QED BY <1>1, <2>1 DEF Owned
<1> QED BY <1>1, <1>3, <1>4 DEF FamilyInv, Wired

\* Who goes takes its connections along and touches nobody gone.
LEMMA GoneWell ==
  ASSUME FamilyInv, NEW o \in alive, Rtt!Gone(o)
  PROVE  ~ misused' /\ Wired'
<1> DEFINE cuts == Rtt!CutsOf(o)
<1>1. \A x \in cuts : x.by = o /\ x.at \in alive
  <2> SUFFICES ASSUME NEW x \in cuts PROVE x.by = o /\ x.at \in alive
    OBVIOUS
  <2>1. PICK d \in connections : d.on = o /\ d.signal = Rtt!Deleted /\ d.act # Rtt!User /\ x = d.act
    BY DEF Rtt!CutsOf
  <2>2. x = Rtt!FamilyDisconnects(d.by, o) /\ d.by \in alive
    BY <2>1 DEF FamilyInv, Wired, IsWire
  <2> QED BY <2>2 DEF Rtt!FamilyDisconnects
<1>2. \A c \in connections : c.by = o /\ c.on # o => \E x \in cuts : c.on = x.at /\ c.by = x.by
  <2> SUFFICES ASSUME NEW c \in connections, c.by = o, c.on # o PROVE \E x \in cuts : c.on = x.at /\ c.by = x.by
    OBVIOUS
  <2>1. HookOf(c) \in connections
    BY DEF FamilyInv, Wired
  <2>2. /\ HookOf(c).on = o /\ HookOf(c).signal = Rtt!Deleted
        /\ HookOf(c).act = Rtt!FamilyDisconnects(c.on, o)
    BY DEF HookOf, Rtt!Connection
  <2>3. Rtt!FamilyDisconnects(c.on, o) # Rtt!User /\ Rtt!FamilyDisconnects(c.on, o).at = c.on /\ Rtt!FamilyDisconnects(c.on, o).by = o
    BY DEF Rtt!FamilyDisconnects, Rtt!User
  <2>4. Rtt!FamilyDisconnects(c.on, o) \in cuts
    BY <2>1, <2>2, <2>3 DEF Rtt!CutsOf
  <2> QED BY <2>3, <2>4
<1> HIDE DEF cuts
<1>3. /\ alive' = alive \ {o}
      /\ connections' = {c \in connections : c.on # o /\ \A x \in cuts : ~ (c.on = x.at /\ c.by = x.by)}
  BY DEF Rtt!Gone, cuts
<1>4. connections' = {c \in connections : c.on # o /\ c.by # o}
  BY <1>1, <1>2, <1>3
<1>5. ~ misused'
  BY <1>1 DEF Rtt!Gone, FamilyInv, Wired, cuts
<1>6. Wired'
  <2> SUFFICES ASSUME NEW c \in connections'
               PROVE  IsWire(c) /\ c.on \in alive' /\ c.by \in alive' /\ (c.on # c.by => HookOf(c) \in connections')
    BY DEF Wired, IsWire, HookOf
  <2>1. c \in connections /\ c.on # o /\ c.by # o /\ IsWire(c) /\ c.on \in alive /\ c.by \in alive
        /\ (c.on # c.by => HookOf(c) \in connections)
    BY <1>4 DEF FamilyInv, Wired
  <2>2. HookOf(c).on = c.by /\ HookOf(c).by = c.on
    BY DEF HookOf, Rtt!Connection
  <2> QED BY <1>3, <1>4, <2>1, <2>2
<1> QED BY <1>5, <1>6

\* The keys of an object.
LEMMA OneKey ==
  ASSUME FamilyInv, NEW o \in alive
  PROVE  /\ name[o] \in DOMAIN entries => entries[name[o]] = o
         /\ \A k \in DOMAIN entries : entries[k] = o => Rtt!KeysOf(o) = {k}
         /\ o \in owned <=> Rtt!KeysOf(o) # {}
BY DEF FamilyInv, Named, Owned, Rtt!KeysOf

\* Forgetting a key leaves the others.
LEMMA ForgottenIs ==
  ASSUME FamilyInv, NEW o \in alive, Rtt!Found(o)
  PROVE  LET t == Rtt!Forgotten(o) IN
           /\ \A k \in DOMAIN t : k \in DOMAIN entries /\ t[k] = entries[k] /\ t[k] # o
           /\ \A k \in DOMAIN entries : entries[k] # o => k \in DOMAIN t
           /\ o \in owned
<1>1. PICK k \in DOMAIN entries : entries[k] = o /\ Rtt!KeysOf(o) = {k} /\ (name[o] \in DOMAIN entries => name[o] = k)
  BY OneKey DEF Rtt!Found, Rtt!KeysOf
<1>2. Rtt!Forgotten(o) = Rtt!Without(entries, {k})
  <2>1. CASE name[o] \in DOMAIN entries
    BY <1>1, <2>1 DEF Rtt!Forgotten
  <2>2. CASE name[o] \notin DOMAIN entries
    <3>1. {j \in Rtt!KeysOf(o) : j = CHOOSE m \in Rtt!KeysOf(o) : TRUE} = {k}
      BY <1>1
    <3> QED BY <2>2, <3>1 DEF Rtt!Forgotten
  <2> QED BY <2>1, <2>2
<1>3. \A j \in DOMAIN entries : entries[j] = o => j = k
  BY <1>1 DEF Rtt!KeysOf
<1> QED BY <1>1, <1>2, <1>3, OneKey DEF Rtt!Without

\* An object leaves the table with its only key, and may leave for good.
LEMMA LeavesTable ==
  ASSUME FamilyInv, NEW o \in alive, name' = name, owned' = owned \ {o},
         alive' = alive \ {o} \/ alive' = alive,
         \A k \in DOMAIN entries' : k \in DOMAIN entries /\ entries'[k] = entries[k] /\ entries'[k] # o,
         \A k \in DOMAIN entries : entries[k] # o => k \in DOMAIN entries'
  PROVE  Named' /\ Owned'
<1>1. Named'
  BY DEF FamilyInv, Named
<1>2. Owned'
  BY DEF FamilyInv, Owned
<1> QED BY <1>1, <1>2

\* Naming, connecting, disconnecting, calling and deleting keep it (Object, ObjectManager).
LEMMA FamilyOnwards ==
  ASSUME FamilyInv, Careful = TRUE, Rtt!FamilyNext
  PROVE  FamilyInv'
<1>1. ASSUME NEW o \in Objects, NEW n \in Names, Rtt!New(o, n) \/ Rtt!Rename(o, n) PROVE FamilyInv'
  <2>1. /\ alive \subseteq alive' /\ alive' \subseteq alive \cup {o} /\ o \in alive' /\ name' = [name EXCEPT ![o] = n]
        /\ n \notin Rtt!NamesTaken
        /\ owned' = owned /\ entries' = entries /\ connections' = connections /\ calling' = calling /\ misused' = misused
    BY <1>1 DEF Rtt!New, Rtt!Rename
  <2>2. name'[o] = n /\ name' = [p \in Objects |-> name'[p]] /\ \A p \in Objects \ {o} : name'[p] = name[p]
    BY <2>1 DEF FamilyInv, Named
  <2>3. Named'
    <3>1. n \notin DOMAIN entries /\ \A p \in alive : n # name[p]
      BY <2>1 DEF Rtt!NamesTaken
    <3>2. alive' \subseteq Objects /\ \A p \in alive' \ {o} : p \in alive /\ name'[p] = name[p]
      BY <2>1, <2>2 DEF FamilyInv, Named
    <3>3. \A p, q \in alive' : name'[p] = name'[q] => p = q
      BY <2>2, <3>1, <3>2 DEF FamilyInv, Named
    <3>4. \A p \in alive' : name'[p] \in DOMAIN entries' => entries'[name'[p]] = p
      BY <2>1, <2>2, <3>1, <3>2 DEF FamilyInv, Named
    <3> QED BY <2>2, <3>2, <3>3, <3>4 DEF Named
  <2>4. Owned' /\ Wired'
    BY <2>1 DEF FamilyInv, Owned, Wired, IsWire, HookOf
  <2> QED BY <2>1, <2>3, <2>4 DEF FamilyInv
<1>2. ASSUME NEW o \in Objects, NEW by \in Objects, NEW signal \in {Rtt!Changed, Rtt!Deleted}, Rtt!Connect(o, signal, by) PROVE FamilyInv'
  <2>1. /\ o \in alive /\ by \in alive /\ (signal = Rtt!Deleted => by = o)
        /\ connections' = connections \cup {Rtt!Connection(o, signal, by, Rtt!User)}
                             \cup (IF by # o /\ signal # Rtt!Deleted THEN Rtt!Hooks(o, by) ELSE {})
        /\ alive' = alive /\ name' = name /\ owned' = owned /\ entries' = entries /\ calling' = calling /\ misused' = misused
    BY <1>2 DEF Rtt!Connect
  <2>2. PICK a, b : a = Rtt!Connection(by, Rtt!Deleted, o, Rtt!FamilyDisconnects(o, by)) /\ b = Rtt!Connection(o, Rtt!Deleted, by, Rtt!FamilyDisconnects(by, o))
    OBVIOUS
  <2>3. PICK d : d = Rtt!Connection(o, signal, by, Rtt!User)
    OBVIOUS
  <2>4. connections' = connections \cup {d} \cup (IF by # o THEN {a, b} ELSE {})
    <3>1. by # o => signal # Rtt!Deleted
      BY <2>1
    <3> QED BY <2>1, <2>2, <2>3, <3>1 DEF Rtt!Hooks
  <2>5. /\ IsWire(a) /\ a.on = by /\ a.by = o /\ HookOf(a) = b
        /\ IsWire(b) /\ b.on = o /\ b.by = by /\ HookOf(b) = a
        /\ IsWire(d) /\ d.on = o /\ d.by = by /\ HookOf(d) = a
    BY <2>2, <2>3 DEF IsWire, HookOf, Rtt!Connection, Rtt!FamilyDisconnects, Rtt!User
  <2>6. ASSUME NEW c \in connections' PROVE IsWire(c) /\ c.on \in alive /\ c.by \in alive /\ (c.on # c.by => HookOf(c) \in connections')
    <3>1. CASE c \in connections
      BY <3>1, <2>4 DEF FamilyInv, Wired
    <3>2. CASE c = d
      BY <3>2, <2>1, <2>4, <2>5
    <3>3. CASE by # o /\ c \in {a, b}
      BY <3>3, <2>1, <2>4, <2>5
    <3> QED BY <3>1, <3>2, <3>3, <2>4
  <2>7. Wired'
    BY <2>1, <2>6 DEF Wired, IsWire, HookOf
  <2>8. Named' /\ Owned'
    BY <2>1 DEF FamilyInv, Named, Owned
  <2> QED BY <2>1, <2>7, <2>8 DEF FamilyInv
<1>3. ASSUME NEW o \in Objects, NEW by \in Objects, NEW signal \in {Rtt!Changed, Rtt!Deleted}, Rtt!DisconnectSignal(o, signal, by) PROVE FamilyInv'
  <2>1. /\ signal # Rtt!Deleted
        /\ connections' = {c \in connections : ~ (c.on = o /\ c.signal = signal /\ c.by = by)}
        /\ alive' = alive /\ name' = name /\ owned' = owned /\ entries' = entries /\ calling' = calling /\ misused' = misused
    BY <1>3 DEF Rtt!DisconnectSignal
  <2>2. ASSUME NEW c \in connections' PROVE IsWire(c) /\ c.on \in alive /\ c.by \in alive /\ (c.on # c.by => HookOf(c) \in connections')
    <3>1. HookOf(c).signal = Rtt!Deleted
      BY DEF HookOf, Rtt!Connection
    <3> QED BY <2>1, <3>1 DEF FamilyInv, Wired
  <2>3. Wired'
    BY <2>1, <2>2 DEF Wired, IsWire, HookOf
  <2>4. Named' /\ Owned'
    BY <2>1 DEF FamilyInv, Named, Owned
  <2> QED BY <2>1, <2>3, <2>4 DEF FamilyInv
<1>4. ASSUME NEW o \in Objects, Rtt!Trigger(o) PROVE FamilyInv'
  <2>1. /\ calling' \subseteq connections
        /\ alive' = alive /\ name' = name /\ owned' = owned /\ entries' = entries /\ connections' = connections /\ misused' = misused
    BY <1>4 DEF Rtt!Trigger
  <2>2. Named' /\ Owned' /\ Wired'
    BY <2>1 DEF FamilyInv, Named, Owned, Wired, IsWire, HookOf
  <2> QED BY <2>1, <2>2 DEF FamilyInv, Wired
<1>5. ASSUME NEW o \in Objects, Rtt!Delete(o) PROVE FamilyInv'
  <2>1. /\ o \in alive /\ calling = {} /\ Rtt!Gone(o) /\ owned' = owned \ {o} /\ name' = name /\ calling' = calling
        /\ entries' = IF o \in owned THEN Rtt!Forgotten(o) ELSE entries
    BY <1>5 DEF Rtt!Delete
  <2>2. ~ misused' /\ Wired' /\ alive' = alive \ {o}
    BY <2>1, GoneWell DEF Rtt!Gone
  <2>3. Named' /\ Owned'
    <3>1. CASE o \in owned
      <4>1. Rtt!Found(o)
        BY <2>1, <3>1, OneKey DEF Rtt!Found
      <4> QED BY <2>1, <2>2, <3>1, <4>1, ForgottenIs, LeavesTable
    <3>2. CASE o \notin owned
      <4>1. \A k \in DOMAIN entries : entries[k] # o
        BY <3>2 DEF FamilyInv, Owned
      <4> QED BY <2>1, <2>2, <3>2, <4>1, LeavesTable
    <3> QED BY <3>1, <3>2
  <2> QED BY <2>1, <2>2, <2>3 DEF FamilyInv
<1>6. ASSUME NEW o \in Objects, Rtt!Add(o) PROVE FamilyInv'
  <2>1. /\ o \in alive /\ o \notin owned /\ name[o] \notin DOMAIN entries
        /\ entries' = [k \in DOMAIN entries \cup {name[o]} |-> IF k = name[o] THEN o ELSE entries[k]]
        /\ owned' = owned \cup {o}
        /\ alive' = alive /\ name' = name /\ connections' = connections /\ calling' = calling /\ misused' = misused
    BY <1>6 DEF Rtt!Add
  <2>2. DOMAIN entries' = DOMAIN entries \cup {name[o]} /\ entries'[name[o]] = o /\ \A k \in DOMAIN entries : entries'[k] = entries[k]
    BY <2>1
  <2>3. Named' /\ Owned'
    <3>1. Named'
      BY <2>1, <2>2 DEF FamilyInv, Named
    <3>2. Owned'
      BY <2>1, <2>2 DEF FamilyInv, Owned
    <3> QED BY <3>1, <3>2
  <2>4. Wired'
    BY <2>1 DEF FamilyInv, Wired, IsWire, HookOf
  <2> QED BY <2>1, <2>3, <2>4 DEF FamilyInv
<1>7. ASSUME NEW o \in Objects, Rtt!AddFails(o) PROVE FamilyInv'
  <2>1. o \in alive /\ o \notin owned /\ calling = {} /\ Rtt!Gone(o) /\ name' = name /\ owned' = owned /\ entries' = entries /\ calling' = calling
    BY <1>7 DEF Rtt!AddFails
  <2>2. ~ misused' /\ Wired' /\ alive' = alive \ {o}
    BY <2>1, GoneWell DEF Rtt!Gone
  <2>3. Named' /\ Owned'
    <3>1. \A k \in DOMAIN entries : entries[k] # o
      BY <2>1 DEF FamilyInv, Owned
    <3> QED BY <2>1, <2>2, <3>1, LeavesTable
  <2> QED BY <2>1, <2>2, <2>3 DEF FamilyInv
<1>8. ASSUME NEW c \in calling, Rtt!Call(c) PROVE FamilyInv'
  <2>1. /\ calling' = calling \ {c} /\ misused' = (misused \/ c.by \notin alive)
        /\ alive' = alive /\ name' = name /\ owned' = owned /\ entries' = entries /\ connections' = connections
    BY <1>8 DEF Rtt!Call
  <2>2. Named' /\ Owned' /\ Wired'
    BY <2>1 DEF FamilyInv, Named, Owned, Wired, IsWire, HookOf
  <2> QED BY <2>1, <2>2 DEF FamilyInv
<1>9. ASSUME NEW o \in Objects, NEW deletes \in BOOLEAN, Rtt!RemoveObject(o, deletes) PROVE FamilyInv'
  <2>1. /\ o \in alive /\ Rtt!Found(o) /\ (deletes => calling = {})
        /\ entries' = Rtt!Forgotten(o) /\ owned' = owned \ {o} /\ name' = name /\ calling' = calling
        /\ IF deletes THEN Rtt!Gone(o) ELSE alive' = alive /\ connections' = connections /\ misused' = misused
    BY <1>9 DEF Rtt!RemoveObject
  <2>2. ~ misused' /\ Wired' /\ ((alive' = alive \ {o} /\ calling = {}) \/ alive' = alive)
    <3>1. CASE deletes
      BY <2>1, <3>1, GoneWell DEF Rtt!Gone
    <3>2. CASE ~ deletes
      BY <2>1, <3>2 DEF FamilyInv, Wired, IsWire, HookOf
    <3> QED BY <3>1, <3>2
  <2>3. Named' /\ Owned'
    BY <2>1, <2>2, ForgottenIs, LeavesTable
  <2> QED BY <2>1, <2>2, <2>3 DEF FamilyInv
<1>10. ASSUME NEW k \in DOMAIN entries, NEW deletes \in BOOLEAN, Rtt!RemoveName(k, deletes) PROVE FamilyInv'
  <2>1. PICK o : o = entries[k]
    OBVIOUS
  <2>2. o \in alive /\ o \in owned
    BY <2>1 DEF FamilyInv, Owned
  <2>3. /\ (deletes => calling = {}) /\ entries' = Rtt!Without(entries, {k}) /\ owned' = owned \ {o} /\ name' = name /\ calling' = calling
        /\ IF deletes THEN Rtt!Gone(o) ELSE alive' = alive /\ connections' = connections /\ misused' = (misused \/ o \notin alive)
    BY <1>10, <2>1, <2>2 DEF Rtt!RemoveName
  <2>4. ~ misused' /\ Wired' /\ ((alive' = alive \ {o} /\ calling = {}) \/ alive' = alive)
    <3>1. CASE deletes
      BY <2>2, <2>3, <3>1, GoneWell DEF Rtt!Gone
    <3>2. CASE ~ deletes
      BY <2>2, <2>3, <3>2 DEF FamilyInv, Wired, IsWire, HookOf
    <3> QED BY <3>1, <3>2
  <2>5. /\ \A j \in DOMAIN entries' : j \in DOMAIN entries /\ entries'[j] = entries[j] /\ entries'[j] # o
        /\ \A j \in DOMAIN entries : entries[j] # o => j \in DOMAIN entries'
    BY <2>1, <2>3 DEF Rtt!Without, FamilyInv, Owned
  <2>6. Named' /\ Owned'
    BY <2>2, <2>3, <2>4, <2>5, LeavesTable
  <2> QED BY <2>3, <2>4, <2>6 DEF FamilyInv
<1>11. ~ \E o, by \in Objects : Rtt!FamilyDisconnect(o, by)
  BY DEF Rtt!FamilyDisconnect
<1> QED BY <1>1, <1>2, <1>3, <1>4, <1>5, <1>6, <1>7, <1>8, <1>9, <1>10, <1>11 DEF Rtt!FamilyNext

\* The same of a step of the whole.
LEMMA FamilyStep == Careful = TRUE /\ FamilyInv /\ [MCNext]_all => FamilyInv'
<1> SUFFICES ASSUME Careful = TRUE, FamilyInv, [MCNext]_all PROVE FamilyInv'
  OBVIOUS
<1>1. CASE UNCHANGED family
  BY <1>1 DEF family, FamilyInv, Wired, Named, Owned, IsWire, HookOf
<1>2. CASE Rtt!FamilyNext
  BY <1>2, FamilyOnwards
<1>3. [MCNext]_all => Rtt!FamilyNext \/ UNCHANGED family
  BY DEF MCNext, all, toolkit, services
<1> QED BY <1>1, <1>2, <1>3

\* Nobody calls, finds or disconnects who is gone.
LEMMA FamilySafe == FamilyInv => Rtt!NobodyGone
<1> SUFFICES ASSUME FamilyInv PROVE Rtt!NobodyGone
  OBVIOUS
<1>1. ASSUME NEW o \in owned PROVE Rtt!Cardinality(Rtt!KeysOf(o)) = 1
  <2>1. PICK k \in DOMAIN entries : entries[k] = o
    BY DEF FamilyInv, Owned
  <2>2. Rtt!KeysOf(o) = {k}
    BY <2>1, OneKey DEF FamilyInv, Owned
  <2>3. Cardinality({k}) = 1
    BY FS_Singleton
  <2> QED BY <2>2, <2>3 DEF Rtt!Cardinality, Cardinality
<1> QED BY <1>1 DEF Rtt!NobodyGone, FamilyInv, Wired, Owned

-----------------------------------------------------------------------------
(* The events of nodes, from writers over subscriptions to sessions.       *)

\* An event: for whose key, of which subscription's node, the node written and its
\* value, and the writes there were when its observer was found alive.
Event == [key : Nat, of : Nodes, node : Nodes, value : Nat, looked : Nat]
\* A writer under way: the node written, where its signal is, and whom it has yet to call.
AtWork == [node : Nodes, at : Nodes, bubbles : BOOLEAN, todo : SUBSET Nat, step : {"trigger", "call", "read", "post"}, event : Seq(Event)]
\* A subscription, with the nodes it covers and the value it starts from.
Subscription == [id : Nat, key : Nat, node : Nodes, bubble : BOOLEAN, since : Nat, covers : SUBSET Nodes]

\* Nodes, watchers, keys, writers and events are of their kinds.
EventsTyped ==
  /\ latest \in [Nodes -> Nat] /\ writes \in Nat /\ \A n \in Nodes : latest[n] <= writes
  /\ nodes \subseteq Nodes /\ \A n \in nodes : Parent[n] \in nodes
  /\ key \in [Listeners -> Addresses \cup {0}]
  /\ \A c, d \in Listeners : key[c] # 0 /\ key[c] = key[d] => c = d
  /\ writing \in [Writers -> AtWork \cup {Nobody}]
  /\ told \in Seq(Event) /\ heard \in [Listeners -> Seq(Event)]
  /\ asked \in [Listeners -> SUBSET Nodes] /\ joined \in [Listeners -> Nat]

\* A subscription covers its node, or those on a watched way up to it.
Reaches(s) ==
  IF s.bubble THEN /\ s.covers \subseteq watching
                   /\ \A m \in s.covers : m = s.node \/ (Parent[m] \in s.covers /\ Parent[m] # m)
  ELSE s.covers = {s.node}
\* A subscription's number is its own, and its client is connected.
Subscribed ==
  /\ subs \subseteq Subscription /\ ids \in Nat
  /\ \A s \in subs : s.id <= ids /\ s.key \in Addresses /\ s.since <= writes /\ Reaches(s)
  /\ \A s \in subs : \E c \in Listeners : key[c] = s.key
  /\ \A s, t \in subs : s.id = t.id => s = t
\* Who is about to read has one event to put the value in.
Holds(r) == r.step = "read" => \E e \in Event : r.event = <<e>>
\* Writers write what is there.
Working ==
  \A w \in Writers : writing[w] # Nobody =>
    (~ writing[w].bubbles => writing[w].at = writing[w].node) /\ Holds(writing[w])

\* A client asked for the event, or connected after its observer had been found alive.
For(e, c) == e.of \in asked[c] \/ e.looked <= joined[c]
\* Whoever has the key of an event is somebody it is for.
Meant(e) == e.key \in Addresses /\ e.looked \in Nat /\ e.looked <= writes /\ \A c \in Listeners : key[c] = e.key => For(e, c)
\* Every event under way is meant for who has its key, and clients heard what was for them.
Aware ==
  /\ \A s \in subs, c \in Listeners : s.key = key[c] => s.node \in asked[c]
  /\ \A w \in Writers : writing[w] # Nobody => \A i \in DOMAIN writing[w].event : Meant(writing[w].event[i])
  /\ \A i \in DOMAIN told : Meant(told[i])
  /\ \A c \in Listeners : \A i \in DOMAIN heard[c] : For(heard[c][i], c)

\* The last value of a node is on its way to each of its subscriptions.
Facts(e) == [key |-> e.key, of |-> e.of, node |-> e.node, value |-> e.value]
EventOf(s, n) == [key |-> s.key, of |-> s.node, node |-> n, value |-> latest[n]]
\* A bubbling writer that has yet to reach a subscription on its way up.
Passing(r, s) == r.at \in s.covers /\ (r.at = s.node => r.step = "trigger" \/ s.id \in r.todo)
\* A writer that still owes a node's change to a subscription.
Pending(w, s, n) ==
  /\ writing[w] # Nobody /\ writing[w].node = n
  /\ IF s.bubble THEN ~ writing[w].bubbles \/ Passing(writing[w], s)
     ELSE ~ writing[w].bubbles /\ (writing[w].step = "trigger" \/ s.id \in writing[w].todo)
\* An event for the subscription that is still to get its value.
Blank(e, s, n) == e.key = s.key /\ e.of = s.node /\ e.node = n
\* A writer about to read or to post the last value.
InHand(w, s, n) ==
  /\ writing[w] # Nobody
  /\ \E e \in Event : /\ writing[w].event = <<e>>
                      /\ \/ writing[w].step = "post" /\ Facts(e) = EventOf(s, n)
                         \/ writing[w].step = "read" /\ writing[w].node = n /\ Blank(e, s, n)
\* It waits in the loop of the server.
Posted(s, n) == \E i \in DOMAIN told : Facts(told[i]) = EventOf(s, n)
\* Whoever has the subscription's key has it.
Received(s, n) == \A c \in Listeners : key[c] = s.key => \E i \in DOMAIN heard[c] : Facts(heard[c][i]) = EventOf(s, n)
\* One of the four.
Due(s, n) == (\E w \in Writers : Pending(w, s, n) \/ InHand(w, s, n)) \/ Posted(s, n) \/ Received(s, n)
\* The last value of a node is on its way to each of its subscriptions.
Coming == \A s \in subs : \A n \in s.covers : latest[n] > s.since => Due(s, n)

\* What holds of the events between two steps.
EventsInv == EventsTyped /\ Subscribed /\ Working /\ Aware /\ Coming

\* At the start nobody is connected and nothing is written.
LEMMA EventsStart == MCInit => EventsInv
<1> SUFFICES ASSUME MCInit PROVE EventsInv
  OBVIOUS
<1>1. /\ latest = [n \in Nodes |-> 0] /\ nodes = Nodes \ Later /\ watching = {}
      /\ key = [c \in Listeners |-> 0] /\ keys = 0 /\ subs = {} /\ ids = 0
      /\ writing = [w \in Writers |-> Nobody] /\ told = <<>>
      /\ heard = [c \in Listeners |-> <<>>] /\ asked = [c \in Listeners |-> {}] /\ writes = 0
      /\ joined = [c \in Listeners |-> 0]
  BY DEF MCInit, Events!Init
<1>2. <<>> \in Seq(Event) /\ DOMAIN <<>> = {}
  OBVIOUS
<1>3. EventsTyped
  BY <1>1, <1>2, NodesAssumption DEF EventsTyped
<1>4. Subscribed /\ Working /\ Coming
  BY <1>1 DEF Subscribed, Working, Coming
<1>5. Aware
  BY <1>1, <1>2 DEF Aware
<1> QED BY <1>3, <1>4, <1>5 DEF EventsInv

\* With nothing under way, who listens has heard the last value.
LEMMA EventsSafe == EventsInv => Events!LatestHeard /\ Events!NoStrangers
<1> SUFFICES ASSUME EventsInv PROVE Events!LatestHeard /\ Events!NoStrangers
  OBVIOUS
<1>1. Events!NoStrangers
  BY DEF EventsInv, Aware, For, Events!NoStrangers, Events!Events
<1>2. ASSUME Events!Quiet, NEW c \in Listeners, NEW s \in subs, s.key = key[c], NEW n \in s.covers, latest[n] > s.since
      PROVE  \E e \in Events!Events(c) : e.of = s.node /\ e.node = n /\ e.value = latest[n]
  <2>1. Received(s, n)
    <3>1. Due(s, n)
      BY <1>2 DEF EventsInv, Coming
    <3>2. ~ Posted(s, n)
      <4>1. told = <<>> /\ DOMAIN <<>> = {}
        BY <1>2 DEF Events!Quiet
      <4> QED BY <4>1 DEF Posted
    <3>3. ~ \E w \in Writers : Pending(w, s, n) \/ InHand(w, s, n)
      BY <1>2 DEF Events!Quiet, Pending, InHand
    <3> QED BY <3>1, <3>2, <3>3 DEF Due
  <2>2. PICK i \in DOMAIN heard[c] : Facts(heard[c][i]) = EventOf(s, n)
    BY <1>2, <2>1 DEF Received
  <2> QED BY <2>2 DEF Events!Events, EventOf, Facts
<1>3. Events!LatestHeard
  BY <1>2 DEF Events!LatestHeard
<1> QED BY <1>1, <1>3

\* The way up from a node below is a way to it.
LEMMA UpIs ==
  ASSUME NEW n \in Nodes, NEW m \in Nodes, n \in Events!Up(m), m # n
  PROVE  n \in Events!Up(Parent[m]) /\ Parent[m] # m
<1> DEFINE p == Parent[m]
           Closed(S) == \A k \in S : Parent[k] \in S
<1>1. p \in Nodes /\ Parent \in [Nodes -> Nodes]
  BY NodesAssumption
<1>2. \A S \in SUBSET Nodes : m \in S /\ Closed(S) => n \in S
  BY DEF Events!Up
<1>3. p # m
  <2> SUFFICES ASSUME p = m PROVE FALSE
    OBVIOUS
  <2>1. {m} \in SUBSET Nodes /\ m \in {m} /\ Closed({m})
    OBVIOUS
  <2> QED BY <2>1, <1>2
<1>4. ASSUME NEW S \in SUBSET Nodes, p \in S, Closed(S) PROVE n \in S
  <2>1. S \cup {m} \in SUBSET Nodes /\ Closed(S \cup {m})
    BY <1>4
  <2> QED BY <2>1, <1>2
<1>5. n \in Events!Up(p)
  BY <1>4 DEF Events!Up
<1> QED BY <1>3, <1>5

\* A node on a watched way is covered.
LEMMA BelowReaches ==
  ASSUME EventsTyped, NEW n \in nodes, NEW m \in Events!Below(n), m # n
  PROVE  Parent[m] \in Events!Below(n) /\ Parent[m] # m
<1>1. m \in nodes /\ n \in Events!Up(m) /\ m \in Nodes /\ n \in Nodes /\ Parent[m] \in nodes
  BY DEF EventsTyped, Events!Below
<1> QED BY <1>1, UpIs DEF Events!Below

\* What a step of the server's thread or of a client leaves to the writers.
LEMMA ComingOn ==
  ASSUME EventsInv, writing' = writing, latest' = latest,
         NEW s, s \in subs,
         NEW n \in s.covers, latest[n] > s.since,
         Posted(s, n) => (Posted(s, n) \/ Received(s, n))',
         Received(s, n) => Received(s, n)'
  PROVE  Due(s, n)'
<1>1. Due(s, n)
  BY DEF EventsInv, Coming
<1>2. ASSUME NEW w \in Writers, Pending(w, s, n) \/ InHand(w, s, n) PROVE (\E v \in Writers : Pending(v, s, n) \/ InHand(v, s, n))'
  BY <1>2 DEF Pending, Passing, InHand, EventOf
<1> QED BY <1>1, <1>2 DEF Due

\* A client that connects is given a key that nobody has, and no subscription is left with it.
LEMMA ConnectWell ==
  ASSUME EventsInv, NEW c \in Listeners, Events!Connect(c)
  PROVE  EventsInv'
<1>1. PICK k \in Addresses : /\ \A d \in Listeners : key[d] # k
                             /\ key' = [key EXCEPT ![c] = k]
  BY DEF Events!Connect
<1>2. /\ heard' = [heard EXCEPT ![c] = <<>>] /\ asked' = [asked EXCEPT ![c] = {}] /\ joined' = [joined EXCEPT ![c] = writes]
      /\ latest' = latest /\ nodes' = nodes /\ watching' = watching /\ subs' = subs /\ ids' = ids
      /\ writing' = writing /\ told' = told /\ writes' = writes /\ key[c] = 0
  BY DEF Events!Connect, Events!Forget
<1>3. EventsTyped /\ Subscribed /\ Working /\ Aware /\ Coming /\ writes \in Nat
  BY DEF EventsInv, EventsTyped
<1>4. \A d \in Listeners : IF d = c THEN key'[d] = k /\ heard'[d] = <<>> /\ asked'[d] = {} /\ joined'[d] = writes
                           ELSE key'[d] = key[d] /\ heard'[d] = heard[d] /\ asked'[d] = asked[d] /\ joined'[d] = joined[d]
  BY <1>1, <1>2, <1>3 DEF EventsTyped
<1>5. \A s \in subs : s.key # k
  BY <1>1, <1>3 DEF Subscribed
<1>6. EventsTyped'
  <2>1. <<>> \in Seq(Event)
    OBVIOUS
  <2>2. heard' \in [Listeners -> Seq(Event)] /\ asked' \in [Listeners -> SUBSET Nodes] /\ joined' \in [Listeners -> Nat]
    BY <1>2, <1>3, <2>1 DEF EventsTyped
  <2>3. key' \in [Listeners -> Addresses \cup {0}]
    BY <1>1, <1>3 DEF EventsTyped
  <2>4. \A d, e \in Listeners : key'[d] # 0 /\ key'[d] = key'[e] => d = e
    BY <1>1, <1>3, <1>4 DEF EventsTyped
  <2> QED BY <1>2, <1>3, <2>2, <2>3, <2>4 DEF EventsTyped
<1>7. Subscribed'
  <2>1. ASSUME NEW s \in subs PROVE \E d \in Listeners : key'[d] = s.key
    <3>1. PICK d \in Listeners : key[d] = s.key
      BY <1>3 DEF Subscribed
    <3>2. s.key # 0
      BY <1>3, WritersAssumption DEF Subscribed
    <3> QED BY <1>2, <1>4, <3>1, <3>2
  <2> QED BY <1>2, <1>3, <2>1 DEF Subscribed, Reaches
<1>8. Working'
  BY <1>2, <1>3 DEF Working
<1>9. \A e : Meant(e) => Meant(e)'
  <2> SUFFICES ASSUME NEW e, Meant(e) PROVE Meant(e)'
    OBVIOUS
  <2>1. ASSUME NEW d \in Listeners, key'[d] = e.key PROVE e.of \in asked'[d] \/ e.looked <= joined'[d]
    BY <1>4, <2>1 DEF Meant, For
  <2> QED BY <1>2, <2>1 DEF Meant, For
<1>10. Aware'
  <2>1. \A s \in subs, d \in Listeners : s.key = key'[d] => s.node \in asked'[d]
    BY <1>3, <1>4, <1>5 DEF Aware
  <2>2. ASSUME NEW d \in Listeners, NEW i \in DOMAIN heard'[d]
        PROVE  heard'[d][i].of \in asked'[d] \/ heard'[d][i].looked <= joined'[d]
    <3>1. DOMAIN <<>> = {}
      OBVIOUS
    <3> QED BY <1>3, <1>4, <3>1 DEF Aware, For
  <2>3. ASSUME NEW w \in Writers, writing[w] # Nobody, NEW i \in DOMAIN writing[w].event, NEW e, e = writing[w].event[i] PROVE Meant(e)'
    BY <1>3, <1>9, <2>3 DEF Aware
  <2>4. ASSUME NEW i \in DOMAIN told, NEW e, e = told[i] PROVE Meant(e)'
    BY <1>3, <1>9, <2>4 DEF Aware
  <2> QED BY <1>2, <2>1, <2>2, <2>3, <2>4 DEF Aware, Meant, For
<1>11. Coming'
  <2> SUFFICES ASSUME NEW s \in subs, NEW n \in s.covers, latest[n] > s.since PROVE Due(s, n)'
    BY <1>2 DEF Coming
  <2>1. Posted(s, n) => Posted(s, n)'
    BY <1>2 DEF Posted, EventOf
  <2>2. s.key # k
    BY <1>5
  <2>3. Received(s, n) => Received(s, n)'
    <3> SUFFICES ASSUME Received(s, n), NEW d \in Listeners, key'[d] = s.key PROVE \E i \in DOMAIN heard'[d] : Facts(heard'[d][i]) = EventOf(s, n)
      BY <1>2 DEF Received, EventOf
    <3> QED BY <1>4, <2>2 DEF Received
  <2> QED BY <1>2, <2>1, <2>3, ComingOn
<1> QED BY <1>6, <1>7, <1>8, <1>10, <1>11 DEF EventsInv

\* What is meant stays so as long as keys and what was asked do.
LEMMA AwareOn ==
  ASSUME EventsInv, writing' = writing, told' = told, heard' = heard,
         \A e : Meant(e) => Meant(e)',
         joined' = joined, \A c \in Listeners : asked[c] \subseteq asked'[c],
         \A s \in subs', c \in Listeners : s.key = key'[c] => s.node \in asked'[c]
  PROVE  Aware'
<1>1. ASSUME NEW w \in Writers, writing[w] # Nobody, NEW i \in DOMAIN writing[w].event, NEW e, e = writing[w].event[i] PROVE Meant(e)'
  BY <1>1 DEF EventsInv, Aware
<1>2. ASSUME NEW i \in DOMAIN told, NEW e, e = told[i] PROVE Meant(e)'
  BY <1>2 DEF EventsInv, Aware
<1>3. \A c \in Listeners : \A i \in DOMAIN heard[c] : heard[c][i].of \in asked'[c] \/ heard[c][i].looked <= joined[c]
  BY DEF EventsInv, Aware, For
<1> QED BY <1>1, <1>2, <1>3 DEF Aware, Meant, For

\* Who disconnects loses its subscriptions, and its events reach nobody.
LEMMA DisconnectWell ==
  ASSUME EventsInv, NEW c \in Listeners, Events!Disconnect(c)
  PROVE  EventsInv'
<1>1. /\ subs' = {s \in subs : s.key # key[c]} /\ key' = [key EXCEPT ![c] = 0]
      /\ heard' = [heard EXCEPT ![c] = <<>>] /\ asked' = [asked EXCEPT ![c] = {}] /\ joined' = [joined EXCEPT ![c] = 0]
      /\ latest' = latest /\ nodes' = nodes /\ watching' = watching /\ ids' = ids
      /\ writing' = writing /\ told' = told /\ writes' = writes
  BY DEF Events!Disconnect, Events!Forget
<1>2. EventsTyped /\ Subscribed /\ Working /\ Aware /\ Coming
  BY DEF EventsInv, EventsTyped
<1>3. /\ key'[c] = 0 /\ heard'[c] = <<>>
      /\ \A d \in Listeners \ {c} : key'[d] = key[d] /\ heard'[d] = heard[d] /\ asked'[d] = asked[d] /\ joined'[d] = joined[d]
  BY <1>1, <1>2 DEF EventsTyped
<1>0. 0 \notin Addresses
  BY WritersAssumption
<1>4. EventsTyped'
  <2>1. <<>> \in Seq(Event)
    OBVIOUS
  <2>2. heard' \in [Listeners -> Seq(Event)] /\ asked' \in [Listeners -> SUBSET Nodes] /\ joined' \in [Listeners -> Nat]
    BY <1>1, <1>2, <2>1 DEF EventsTyped
  <2>3. key' \in [Listeners -> Addresses \cup {0}] /\ \A d, e \in Listeners : key'[d] # 0 /\ key'[d] = key'[e] => d = e
    BY <1>1, <1>2, <1>3 DEF EventsTyped
  <2> QED BY <1>1, <1>2, <2>2, <2>3 DEF EventsTyped
<1>5. Subscribed' /\ Working'
  <2>1. ASSUME NEW s \in subs' PROVE \E d \in Listeners : key'[d] = s.key
    <3>1. PICK d \in Listeners : key[d] = s.key
      BY <1>1, <1>2 DEF Subscribed
    <3> QED BY <1>1, <1>3, <3>1
  <2> QED BY <1>1, <1>2, <2>1 DEF Subscribed, Reaches, Working
<1>6. \A e : Meant(e) => Meant(e)'
  <2> SUFFICES ASSUME NEW e, Meant(e) PROVE Meant(e)'
    OBVIOUS
  <2>1. ASSUME NEW d \in Listeners, key'[d] = e.key PROVE e.of \in asked'[d] \/ e.looked <= joined'[d]
    BY <1>0, <1>3, <2>1 DEF Meant, For
  <2> QED BY <1>1, <2>1 DEF Meant, For
<1>7. Aware'
  <2>1. ASSUME NEW s \in subs', NEW d \in Listeners, s.key = key'[d] PROVE s.node \in asked'[d]
    <3>1. d # c
      BY <1>0, <1>1, <1>2, <1>3, <2>1 DEF Subscribed
    <3> QED BY <1>1, <1>2, <1>3, <2>1, <3>1 DEF Aware
  <2>2. ASSUME NEW d \in Listeners, NEW i \in DOMAIN heard'[d]
        PROVE  heard'[d][i].of \in asked'[d] \/ heard'[d][i].looked <= joined'[d]
    <3>1. DOMAIN <<>> = {}
      OBVIOUS
    <3> QED BY <1>2, <1>3, <3>1 DEF Aware, For
  <2>3. ASSUME NEW w \in Writers, writing[w] # Nobody, NEW i \in DOMAIN writing[w].event, NEW e, e = writing[w].event[i] PROVE Meant(e)'
    BY <1>2, <1>6, <2>3 DEF Aware
  <2>4. ASSUME NEW i \in DOMAIN told, NEW e, e = told[i] PROVE Meant(e)'
    BY <1>2, <1>6, <2>4 DEF Aware
  <2> QED BY <1>1, <2>1, <2>2, <2>3, <2>4 DEF Aware, Meant, For
<1>8. Coming'
  <2> SUFFICES ASSUME NEW s \in subs, NEW n \in s.covers, latest[n] > s.since PROVE Due(s, n)'
    BY <1>1 DEF Coming
  <2>1. s.key \in Addresses
    BY <1>2 DEF Subscribed
  <2>2. Posted(s, n) => Posted(s, n)'
    BY <1>1 DEF Posted, EventOf
  <2>3. Received(s, n) => Received(s, n)'
    <3> SUFFICES ASSUME Received(s, n), NEW d \in Listeners, key'[d] = s.key PROVE \E i \in DOMAIN heard'[d] : Facts(heard'[d][i]) = EventOf(s, n)
      BY <1>1 DEF Received, EventOf
    <3>1. d # c
      BY <1>0, <1>3, <2>1
    <3> QED BY <1>3, <3>1 DEF Received
  <2> QED BY <1>1, <2>2, <2>3, ComingOn
<1> QED BY <1>4, <1>5, <1>7, <1>8 DEF EventsInv

\* Who unsubscribes is owed nothing.
LEMMA UnsubscribeWell ==
  ASSUME EventsInv, subs' \subseteq subs,
         heard' = heard, asked' = asked, joined' = joined, key' = key,
         latest' = latest, nodes \subseteq nodes', nodes' \subseteq Nodes, \A n \in nodes' : Parent[n] \in nodes',
         watching' = watching, ids' = ids, writing' = writing, told' = told, writes' = writes
  PROVE  EventsInv'
<1>1. EventsTyped' /\ Working'
  BY DEF EventsInv, EventsTyped, Working
<1>2. Subscribed'
  BY DEF EventsInv, Subscribed, Reaches
<1>3. Aware'
  <2>1. \A e : Meant(e) => Meant(e)'
    BY DEF Meant, For
  <2>2. \A s \in subs', d \in Listeners : s.key = key'[d] => s.node \in asked[d]
    BY DEF EventsInv, Aware
  <2> QED BY <2>1, <2>2, AwareOn
<1>4. Coming'
  <2> SUFFICES ASSUME NEW s \in subs, NEW n \in s.covers, latest[n] > s.since PROVE Due(s, n)'
    BY DEF Coming
  <2>1. (Posted(s, n) => Posted(s, n)') /\ (Received(s, n) => Received(s, n)')
    BY DEF Posted, EventOf, Received
  <2> QED BY <2>1, ComingOn
<1> QED BY <1>1, <1>2, <1>3, <1>4 DEF EventsInv

\* Who subscribes is owed what is written from then on.
LEMMA SubscribeWell ==
  ASSUME EventsInv, NEW c \in Listeners, NEW n \in Nodes, NEW bubble \in BOOLEAN, Events!Subscribe(c, n, bubble)
  PROVE  EventsInv'
<1>1. /\ key[c] # 0 /\ n \in nodes /\ ids' = ids + 1
      /\ subs' = subs \cup {[id |-> ids + 1, key |-> key[c], node |-> n, bubble |-> bubble, since |-> writes,
                             covers |-> IF bubble THEN Events!Below(n) ELSE {n}]}
      /\ watching' = (IF bubble THEN watching \cup Events!Below(n) ELSE watching)
      /\ asked' = [asked EXCEPT ![c] = asked[c] \cup {n}]
      /\ heard' = heard /\ joined' = joined /\ key' = key /\ latest' = latest /\ nodes' = nodes
      /\ writing' = writing /\ told' = told /\ writes' = writes
  BY DEF Events!Subscribe, Events!WatchAll
<1>2. EventsTyped /\ Subscribed /\ Working /\ Aware /\ Coming
  BY DEF EventsInv
<1>3. PICK t : t = [id |-> ids + 1, key |-> key[c], node |-> n, bubble |-> bubble, since |-> writes,
                    covers |-> IF bubble THEN Events!Below(n) ELSE {n}]
  OBVIOUS
<1>4. /\ t.id = ids + 1 /\ t.key = key[c] /\ t.node = n /\ t.bubble = bubble /\ t.since = writes
      /\ t.covers = (IF bubble THEN Events!Below(n) ELSE {n}) /\ t.covers \subseteq Nodes
  <2>1. Events!Below(n) \subseteq Nodes
    BY <1>2 DEF EventsTyped, Events!Below
  <2> QED BY <1>3, <2>1
<1>5. /\ ids \in Nat /\ writes \in Nat /\ key[c] \in Addresses
      /\ subs' = subs \cup {t} /\ t \in Subscription
  <2>1. ids \in Nat /\ writes \in Nat /\ key[c] \in Addresses /\ key[c] \in Nat
    BY <1>1, <1>2, WritersAssumption DEF EventsTyped, Subscribed
  <2>2. t \in Subscription
    BY <1>3, <1>4, <2>1 DEF Subscription
  <2> QED BY <1>1, <1>3, <2>1, <2>2
<1>6. \A d \in Listeners : asked[d] \subseteq asked'[d] /\ asked' \in [Listeners -> SUBSET Nodes] /\ n \in asked'[c]
  BY <1>1, <1>2 DEF EventsTyped
<1>7. EventsTyped' /\ Working'
  BY <1>1, <1>2, <1>6 DEF EventsTyped, Working
<1>8. Reaches(t)'
  <2>1. CASE bubble
    <3>1. \A m \in t.covers : m = n \/ (Parent[m] \in t.covers /\ Parent[m] # m)
      BY <1>1, <1>2, <1>4, <2>1, BelowReaches
    <3> QED BY <1>1, <1>4, <2>1, <3>1 DEF Reaches
  <2>2. CASE ~ bubble
    BY <1>4, <2>2 DEF Reaches
  <2> QED BY <2>1, <2>2
<1>9. Subscribed'
  <2>1. ASSUME NEW s \in subs PROVE Reaches(s)'
    <3>1. Reaches(s) /\ watching \subseteq watching'
      BY <1>1, <1>2 DEF Subscribed
    <3> QED BY <3>1 DEF Reaches
  <2>2. \A s \in subs : s.id <= ids /\ s.id \in Nat
    BY <1>2 DEF Subscribed, Subscription
  <2>3. \A s \in subs' : s.id <= ids + 1 /\ s.key \in Addresses /\ s.since <= writes
    <3>1. ASSUME NEW s \in subs PROVE s.id <= ids + 1 /\ s.key \in Addresses /\ s.since <= writes
      BY <1>2, <1>5, <2>2 DEF Subscribed
    <3> QED BY <1>4, <1>5, <3>1
  <2>4. \A s \in subs : s.id # t.id
    BY <1>4, <1>5, <2>2
  <2>5. \A s \in subs' : Reaches(s)'
    BY <1>5, <1>8, <2>1
  <2>6. \A s, u \in subs' : s.id = u.id => s = u
    BY <1>2, <1>5, <2>4 DEF Subscribed
  <2>7. subs' \subseteq Subscription /\ ids' \in Nat
    BY <1>1, <1>2, <1>5 DEF Subscribed
  <2>8. \A s \in subs' : \E d \in Listeners : key[d] = s.key
    BY <1>2, <1>4, <1>5 DEF Subscribed
  <2> QED BY <1>1, <2>3, <2>5, <2>6, <2>7, <2>8 DEF Subscribed, Reaches
<1>10. Aware'
  <2>1. \A e : Meant(e) => Meant(e)'
    BY <1>1, <1>6 DEF Meant, For
  <2>2. \A s \in subs', d \in Listeners : s.key = key'[d] => s.node \in asked'[d]
    <3> SUFFICES ASSUME NEW d \in Listeners, key[d] = key[c] PROVE n \in asked'[d]
      BY <1>1, <1>2, <1>4, <1>5, <1>6 DEF Aware
    <3> QED BY <1>1, <1>2, <1>6 DEF EventsTyped
  <2> QED BY <1>1, <1>6, <2>1, <2>2, AwareOn
<1>11. Coming'
  <2> SUFFICES ASSUME NEW s \in subs', NEW m \in s.covers, latest[m] > s.since PROVE Due(s, m)'
    BY <1>1 DEF Coming
  <2>1. s # t
    <3>1. \A k \in Nodes : latest[k] \in Nat /\ latest[k] <= writes
      BY <1>2 DEF EventsTyped
    <3> QED BY <1>4, <1>5, <3>1
  <2>2. s \in subs
    BY <1>5, <2>1
  <2>3. (Posted(s, m) => Posted(s, m)') /\ (Received(s, m) => Received(s, m)')
    BY <1>1 DEF Posted, EventOf, Received
  <2> QED BY <1>1, <2>2, <2>3, ComingOn
<1> QED BY <1>7, <1>9, <1>10, <1>11 DEF EventsInv

\* A writer's step: what it owes to a subscription it goes on owing or has posted.
LEMMA WriterWell ==
  ASSUME EventsInv, NEW w \in Writers, NEW r \in AtWork \cup {Nobody},
         writing' = [writing EXCEPT ![w] = r],
         r # Nobody => (~ r.bubbles => r.at = r.node) /\ Holds(r),
         r # Nobody => \A i \in DOMAIN r.event : Meant(r.event[i]),
         told' = told \/ \E e \in Seq(Event) : told' = told \o e /\ \A i \in DOMAIN e : Meant(e[i]),
         \A s \in subs : \A n \in s.covers : latest[n] > s.since /\ (Pending(w, s, n) \/ InHand(w, s, n)) =>
           (Pending(w, s, n) \/ InHand(w, s, n) \/ Posted(s, n))',
         heard' = heard, asked' = asked, joined' = joined, key' = key, subs' = subs,
         latest' = latest, nodes' = nodes, watching' = watching, ids' = ids, writes' = writes
  PROVE  EventsInv'
<1>1. EventsTyped /\ Subscribed /\ Working /\ Aware /\ Coming
  BY DEF EventsInv
<1>2. writing' \in [Writers -> AtWork \cup {Nobody}] /\ writing'[w] = r /\ \A v \in Writers \ {w} : writing'[v] = writing[v]
  BY <1>1 DEF EventsTyped
<1>3. /\ told' \in Seq(Event) /\ \A i \in DOMAIN told : i \in DOMAIN told' /\ told'[i] = told[i]
      /\ \A i \in DOMAIN told' : Meant(told'[i])
  <2>1. CASE told' = told
    BY <1>1, <2>1 DEF EventsTyped, Aware
  <2>2. ASSUME NEW e \in Seq(Event), told' = told \o e, \A i \in DOMAIN e : Meant(e[i])
        PROVE  /\ told' \in Seq(Event) /\ \A i \in DOMAIN told : i \in DOMAIN told' /\ told'[i] = told[i]
               /\ \A i \in DOMAIN told' : Meant(told'[i])
    <3>1. told \in Seq(Event) /\ \A i \in DOMAIN told : Meant(told[i])
      BY <1>1 DEF EventsTyped, Aware
    <3>2. told \o e \in Seq(Event) /\ \A i \in DOMAIN told : i \in DOMAIN (told \o e) /\ (told \o e)[i] = told[i]
      BY <3>1, <2>2
    <3>3. \A i \in DOMAIN (told \o e) : (i \in DOMAIN told /\ (told \o e)[i] = told[i]) \/ (\E j \in DOMAIN e : (told \o e)[i] = e[j])
      <4> SUFFICES ASSUME NEW i \in DOMAIN (told \o e), i \notin DOMAIN told PROVE \E j \in DOMAIN e : (told \o e)[i] = e[j]
        BY <3>2
      <4>1. i - Len(told) \in DOMAIN e /\ (told \o e)[i] = e[i - Len(told)]
        BY <3>1, <2>2
      <4> QED BY <4>1
    <3> QED BY <2>2, <3>1, <3>2, <3>3
  <2> QED BY <2>1, <2>2
<1>4. EventsTyped'
  BY <1>1, <1>2, <1>3 DEF EventsTyped
<1>5. Subscribed'
  BY <1>1 DEF Subscribed, Reaches
<1>6. Working'
  BY <1>1, <1>2 DEF Working, Holds
<1>7. Aware'
  <2>1. \A v \in Writers : writing'[v] # Nobody => \A i \in DOMAIN writing'[v].event : Meant(writing'[v].event[i])
    BY <1>1, <1>2 DEF Aware
  <2>2. \A s \in subs, d \in Listeners : s.key = key[d] => s.node \in asked[d]
    BY <1>1 DEF Aware
  <2>3. \A d \in Listeners : \A i \in DOMAIN heard[d] : For(heard[d][i], d)
    BY <1>1 DEF Aware
  <2> QED BY <1>3, <2>1, <2>2, <2>3 DEF Aware, Meant, For
<1>8. Coming'
  <2> SUFFICES ASSUME NEW s \in subs, NEW n \in s.covers, latest[n] > s.since PROVE Due(s, n)'
    BY DEF Coming
  <2>1. Due(s, n)
    BY <1>1 DEF Coming
  <2>2. Posted(s, n) => Posted(s, n)'
    BY <1>3 DEF Posted, EventOf
  <2>3. Received(s, n) => Received(s, n)'
    BY DEF Received, EventOf
  <2>4. ASSUME NEW v \in Writers \ {w}, Pending(v, s, n) \/ InHand(v, s, n) PROVE (\E u \in Writers : Pending(u, s, n) \/ InHand(u, s, n))'
    BY <1>2, <2>4 DEF Pending, Passing, InHand, EventOf
  <2>5. ASSUME Pending(w, s, n) \/ InHand(w, s, n) PROVE Due(s, n)'
    BY <2>5 DEF Due
  <2> QED BY <2>1, <2>2, <2>3, <2>4, <2>5 DEF Due
<1> QED BY <1>4, <1>5, <1>6, <1>7, <1>8 DEF EventsInv

\* A writer with other work ahead.
Work(r, todo, step, event) ==
  [node |-> r.node, at |-> r.at, bubbles |-> r.bubbles, todo |-> todo, step |-> step, event |-> event]
\* One writer changes.
Becomes(f, w, q) == [f EXCEPT ![w] = q]
Ordered(f, w, todo, step) == [f EXCEPT ![w].todo = todo, ![w].step = step]
Emptied(f, w, step, event) == [f EXCEPT ![w].step = step, ![w].event = event]
Filled(f, w, todo, step, event) == [f EXCEPT ![w].todo = todo, ![w].step = step, ![w].event = event]

\* A writer with other work ahead is a writer.
LEMMA WorkIs ==
  ASSUME NEW f \in [Writers -> AtWork \cup {Nobody}], NEW w \in Writers, NEW r, r = f[w], r # Nobody,
         NEW todo \in SUBSET Nat, NEW step \in {"trigger", "call", "read", "post"}, NEW event \in Seq(Event),
         NEW q, q = Work(r, todo, step, event)
  PROVE  q \in AtWork /\ q # Nobody
<1>1. r \in AtWork
  OBVIOUS
<1>2. q \in AtWork
  BY <1>1 DEF AtWork, Work
<1> QED BY <1>2, WritersAssumption DEF AtWork, Event

\* The writer that has its calls to make.
LEMMA OrderedIs ==
  ASSUME NEW f \in [Writers -> AtWork \cup {Nobody}], NEW w \in Writers, NEW r, r = f[w], r # Nobody,
         NEW todo \in SUBSET Nat, NEW step \in {"trigger", "call", "read", "post"}, NEW event \in Seq(Event),
         NEW q, q = Work(r, todo, step, event), event = r.event
  PROVE  q \in AtWork /\ q # Nobody /\ Ordered(f, w, todo, step) = Becomes(f, w, q)
<1>1. r = [node |-> r.node, at |-> r.at, bubbles |-> r.bubbles, todo |-> r.todo, step |-> r.step, event |-> r.event]
  BY DEF AtWork
<1>2. ASSUME NEW p, p = [r EXCEPT !.todo = todo, !.step = step] PROVE p = q
  <2>1. p = [node |-> r.node, at |-> r.at, bubbles |-> r.bubbles, todo |-> todo, step |-> step, event |-> r.event]
    BY <1>1, <1>2
  <2> QED BY <2>1 DEF Work
<1>3. Ordered(f, w, todo, step) = [f EXCEPT ![w] = [r EXCEPT !.todo = todo, !.step = step]]
  BY DEF Ordered
<1>4. [r EXCEPT !.todo = todo, !.step = step] = q
  BY <1>2
<1>5. Ordered(f, w, todo, step) = Becomes(f, w, q)
  BY <1>3, <1>4 DEF Becomes
<1> QED BY <1>5, WorkIs

\* The writer that has an event in hand, or none.
LEMMA EmptiedIs ==
  ASSUME NEW f \in [Writers -> AtWork \cup {Nobody}], NEW w \in Writers, NEW r, r = f[w], r # Nobody,
         NEW step \in {"trigger", "call", "read", "post"}, NEW event \in Seq(Event),
         NEW q, q = Work(r, r.todo, step, event)
  PROVE  q \in AtWork /\ q # Nobody /\ Emptied(f, w, step, event) = Becomes(f, w, q)
<1>1. r = [node |-> r.node, at |-> r.at, bubbles |-> r.bubbles, todo |-> r.todo, step |-> r.step, event |-> r.event]
  BY DEF AtWork
<1>2. ASSUME NEW p, p = [r EXCEPT !.step = step, !.event = event] PROVE p = q
  <2>1. p = [node |-> r.node, at |-> r.at, bubbles |-> r.bubbles, todo |-> r.todo, step |-> step, event |-> event]
    BY <1>1, <1>2
  <2> QED BY <2>1 DEF Work
<1>3. Emptied(f, w, step, event) = [f EXCEPT ![w] = [r EXCEPT !.step = step, !.event = event]]
  BY DEF Emptied
<1>4. [r EXCEPT !.step = step, !.event = event] = q
  BY <1>2
<1>5. Emptied(f, w, step, event) = Becomes(f, w, q)
  BY <1>3, <1>4 DEF Becomes
<1>6. r.todo \in SUBSET Nat
  BY DEF AtWork
<1>7. q \in AtWork /\ q # Nobody
  BY <1>6, WorkIs
<1> QED BY <1>5, <1>7

\* The writer that has taken up one of its calls.
LEMMA FilledIs ==
  ASSUME NEW f \in [Writers -> AtWork \cup {Nobody}], NEW w \in Writers, NEW r, r = f[w], r # Nobody,
         NEW todo, NEW step, NEW event
  PROVE  Filled(f, w, todo, step, event) = Becomes(f, w, Work(r, todo, step, event))
<1> DEFINE q == Work(r, todo, step, event)
<1>1. r = [node |-> r.node, at |-> r.at, bubbles |-> r.bubbles, todo |-> r.todo, step |-> r.step, event |-> r.event]
  BY DEF AtWork
<1>2. ASSUME NEW p, p = [r EXCEPT !.todo = todo, !.step = step, !.event = event] PROVE p = q
  <2>1. PICK a : a = [r EXCEPT !.todo = todo, !.step = step]
    OBVIOUS
  <2>2. a = [node |-> r.node, at |-> r.at, bubbles |-> r.bubbles, todo |-> todo, step |-> step, event |-> r.event]
    BY <2>1, <1>1
  <2>3. p = [a EXCEPT !.event = event]
    BY <1>2, <2>1
  <2>4. p = [node |-> a.node, at |-> a.at, bubbles |-> a.bubbles, todo |-> a.todo, step |-> a.step, event |-> event]
    BY <2>2, <2>3
  <2> QED BY <2>2, <2>4 DEF Work
<1>3. Filled(f, w, todo, step, event) = [f EXCEPT ![w] = [r EXCEPT !.todo = todo, !.step = step, !.event = event]]
  BY DEF Filled
<1>4. [r EXCEPT !.todo = todo, !.step = step, !.event = event] = q
  BY <1>2
<1>5. Filled(f, w, todo, step, event) = Becomes(f, w, q)
  BY <1>3, <1>4 DEF Becomes
<1> QED BY <1>5

\* A signal takes up those connected to its node (Node::trigger).
LEMMA TriggerWell ==
  ASSUME EventsInv, NEW w \in Writers, Events!Trigger(w)
  PROVE  EventsInv'
<1>1. EventsTyped /\ Subscribed /\ Working /\ Aware
  BY DEF EventsInv
<1>2. PICK r : r = writing[w]
  OBVIOUS
<1>3. PICK todo : todo = {s.id : s \in {x \in subs : x.node = r.at /\ x.bubble = r.bubbles}}
  OBVIOUS
<1>4. /\ r # Nobody /\ r.step = "trigger" /\ writing' = Ordered(writing, w, todo, "call")
      /\ heard' = heard /\ asked' = asked /\ joined' = joined /\ key' = key /\ subs' = subs
      /\ latest' = latest /\ nodes' = nodes /\ watching' = watching /\ ids' = ids /\ writes' = writes /\ told' = told
  BY <1>2, <1>3 DEF Events!Trigger, Ordered
<1>5. todo \in SUBSET Nat
  BY <1>1, <1>3 DEF Subscribed, Subscription
<1>6. PICK q : q = Work(r, todo, "call", r.event)
  OBVIOUS
<1>7. r \in AtWork /\ r.event \in Seq(Event)
  BY <1>1, <1>2, <1>4 DEF EventsTyped, AtWork
<1>8. q \in AtWork /\ q # Nobody /\ writing' = [writing EXCEPT ![w] = q]
  <2>1. q \in AtWork /\ q # Nobody /\ writing' = Becomes(writing, w, q)
    <3>1. "call" \in {"trigger", "call", "read", "post"} /\ r # Nobody /\ EventsTyped
      BY <1>1, <1>4
    <3>3. PICK ev, step : ev = r.event /\ step = "call"
      OBVIOUS
    <3>4. q = Work(r, todo, step, ev) /\ ev \in Seq(Event) /\ step \in {"trigger", "call", "read", "post"}
      BY <3>1, <3>3, <1>6, <1>7
    <3>5. PICK f : f = writing
      OBVIOUS
    <3>2. /\ q \in AtWork /\ q # Nobody
          /\ Ordered(f, w, todo, step) = Becomes(f, w, q)
      <4>1. f \in [Writers -> AtWork \cup {Nobody}] /\ r = f[w]
        BY <3>1, <3>5, <1>2 DEF EventsTyped
      <4> QED BY <4>1, <3>1, <3>3, <3>4, <1>5, OrderedIs
    <3> QED BY <3>2, <3>3, <3>5, <1>4
  <2> QED BY <2>1 DEF Becomes
<1>9. writing'[w] = q
  BY <1>1, <1>8 DEF EventsTyped
<1>10. \A s \in subs : \A n \in s.covers : latest[n] > s.since /\ (Pending(w, s, n) \/ InHand(w, s, n)) =>
         (Pending(w, s, n) \/ InHand(w, s, n) \/ Posted(s, n))'
  <2> SUFFICES ASSUME NEW s \in subs, NEW n \in s.covers, Pending(w, s, n) \/ InHand(w, s, n) PROVE Pending(w, s, n)'
    OBVIOUS
  <2>1. Pending(w, s, n)
    BY <1>2, <1>4 DEF InHand
  <2>2. ~ r.bubbles => r.at = r.node
    BY <1>1, <1>2, <1>4 DEF Working
  <2>3. s.bubble \in BOOLEAN /\ r.bubbles \in BOOLEAN /\ s.node = r.at /\ s.bubble = r.bubbles => s.id \in todo
    BY <1>3
  <2>4. s.bubble \in BOOLEAN /\ r.bubbles \in BOOLEAN
    BY <1>1, <1>7 DEF Subscribed, Subscription, AtWork
  <2>5. ~ s.bubble => s.node = n
    BY <1>1 DEF Subscribed, Reaches
  <2>6. q.node = r.node /\ q.at = r.at /\ q.bubbles = r.bubbles /\ q.todo = todo
    BY <1>6 DEF Work
  <2>7. CASE s.bubble
    BY <2>1, <2>3, <2>4, <2>6, <2>7, <1>2, <1>8, <1>9 DEF Pending, Passing
  <2>8. CASE ~ s.bubble
    BY <2>1, <2>2, <2>3, <2>4, <2>5, <2>6, <2>8, <1>2, <1>8, <1>9 DEF Pending, Passing
  <2> QED BY <2>7, <2>8
<1>11. (q # Nobody => (~ q.bubbles => q.at = q.node) /\ Holds(q)) /\ \A i \in DOMAIN q.event : Meant(q.event[i])
  BY <1>1, <1>2, <1>4, <1>6 DEF Working, Holds, Aware, Work
<1> QED BY <1>4, <1>8, <1>10, <1>11, WriterWell

\* An event in hand is posted to the server's loop.
LEMMA PostWell ==
  ASSUME EventsInv, NEW w \in Writers, Events!Post(w)
  PROVE  EventsInv'
<1>1. EventsTyped /\ Subscribed /\ Working /\ Aware
  BY DEF EventsInv
<1>2. PICK r : r = writing[w]
  OBVIOUS
<1>3. PICK none : none = <<>>
  OBVIOUS
<1>4. /\ r # Nobody /\ r.step = "post" /\ writing' = Emptied(writing, w, "call", none)
      /\ told' = told \o r.event
      /\ heard' = heard /\ asked' = asked /\ joined' = joined /\ key' = key /\ subs' = subs
      /\ latest' = latest /\ nodes' = nodes /\ watching' = watching /\ ids' = ids /\ writes' = writes
  BY <1>2, <1>3 DEF Events!Post, Emptied
<1>5. PICK todo : todo = r.todo
  OBVIOUS
<1>6. PICK q : q = Work(r, todo, "call", none)
  OBVIOUS
<1>7. r \in AtWork /\ r.event \in Seq(Event) /\ none \in Seq(Event) /\ DOMAIN none = {} /\ todo \in SUBSET Nat
  BY <1>1, <1>2, <1>3, <1>4, <1>5 DEF EventsTyped, AtWork
<1>8. q \in AtWork /\ q # Nobody /\ writing' = [writing EXCEPT ![w] = q]
  <2>1. q \in AtWork /\ q # Nobody /\ writing' = Becomes(writing, w, q)
    <3>1. "call" \in {"trigger", "call", "read", "post"} /\ r # Nobody /\ EventsTyped /\ none \in Seq(Event) /\ todo \in SUBSET Nat
      BY <1>1, <1>4, <1>7
    <3>3. PICK step : step = "call"
      OBVIOUS
    <3>4. PICK f : f = writing
      OBVIOUS
    <3>2. /\ q \in AtWork /\ q # Nobody
          /\ Emptied(f, w, step, none) = Becomes(f, w, q)
      <4>1. f \in [Writers -> AtWork \cup {Nobody}] /\ r = f[w]
        BY <3>1, <3>4, <1>2 DEF EventsTyped
      <4>2. step \in {"trigger", "call", "read", "post"} /\ q = Work(r, r.todo, step, none)
        BY <1>5, <1>6, <3>3
      <4>3. r # Nobody /\ none \in Seq(Event)
        BY <3>1
      <4> QED BY <4>1, <4>2, <4>3, EmptiedIs
    <3> QED BY <3>2, <3>3, <3>4, <1>4, <1>5
  <2> QED BY <2>1 DEF Becomes
<1>9. writing'[w] = q
  BY <1>1, <1>8 DEF EventsTyped
<1>10. \A s \in subs : \A n \in s.covers : latest[n] > s.since /\ (Pending(w, s, n) \/ InHand(w, s, n)) =>
         (Pending(w, s, n) \/ InHand(w, s, n) \/ Posted(s, n))'
  <2> SUFFICES ASSUME NEW s \in subs, NEW n \in s.covers, Pending(w, s, n) \/ InHand(w, s, n) PROVE Pending(w, s, n)' \/ Posted(s, n)'
    OBVIOUS
  <2>1. q.node = r.node /\ q.at = r.at /\ q.bubbles = r.bubbles /\ q.todo = r.todo
    BY <1>5, <1>6 DEF Work
  <2>2. CASE Pending(w, s, n)
    BY <2>1, <2>2, <1>2, <1>4, <1>8, <1>9 DEF Pending, Passing
  <2>3. CASE InHand(w, s, n)
    <3>1. \E e \in Event : r.event = <<e>> /\ Facts(e) = EventOf(s, n)
      BY <2>3, <1>2, <1>4 DEF InHand
    <3>2. ASSUME NEW e \in Event, r.event = <<e>> PROVE \E i \in DOMAIN told' : told'[i] = e
      <4>1. told \in Seq(Event) /\ told' = told \o <<e>> /\ <<e>> \in Seq(Event)
        BY <1>1, <1>4, <1>7, <3>2 DEF EventsTyped
      <4>2. Len(told) + 1 \in DOMAIN told' /\ told'[Len(told) + 1] = e
        BY <4>1
      <4> QED BY <4>2
    <3> QED BY <3>1, <3>2, <1>4 DEF Posted, EventOf
  <2> QED BY <2>2, <2>3
<1>11. (q # Nobody => (~ q.bubbles => q.at = q.node) /\ Holds(q)) /\ \A i \in DOMAIN q.event : Meant(q.event[i])
  BY <1>1, <1>2, <1>4, <1>6, <1>7 DEF Working, Holds, Work
<1>12. \A i \in DOMAIN r.event : Meant(r.event[i])
  BY <1>1, <1>2, <1>4 DEF Aware
<1> QED BY <1>4, <1>7, <1>8, <1>10, <1>11, <1>12, WriterWell

\* A call makes an event of the value it reads (subscribe_service.cpp).
LEMMA CallWell ==
  ASSUME EventsInv, NEW w \in Writers, Events!Call(w)
  PROVE  EventsInv'
<1>1. EventsTyped /\ Subscribed /\ Working /\ Aware
  BY DEF EventsInv
<1>2. PICK r : r = writing[w]
  OBVIOUS
<1>3. PICK id : id = Events!First(r.todo)
  OBVIOUS
<1>4. PICK mine : mine = {s \in subs : s.id = id}
  OBVIOUS
<1>5. PICK todo : todo = r.todo \ {id}
  OBVIOUS
<1>6. PICK step : step = IF mine = {} THEN "call" ELSE "read"
  OBVIOUS
<1>7. PICK event : event = IF mine = {} THEN <<>>
                           ELSE LET s == CHOOSE x \in mine : TRUE
                                IN  <<[key |-> s.key, of |-> s.node, node |-> r.node, value |-> 0, looked |-> writes]>>
  OBVIOUS
<1>8. /\ r # Nobody /\ r.step = "call" /\ writing' = Filled(writing, w, todo, step, event)
      /\ heard' = heard /\ asked' = asked /\ joined' = joined /\ key' = key /\ subs' = subs
      /\ latest' = latest /\ nodes' = nodes /\ watching' = watching /\ ids' = ids /\ writes' = writes /\ told' = told
  BY <1>2, <1>3, <1>4, <1>5, <1>6, <1>7 DEF Events!Call, Events!Writes, Filled
<1>9. r \in AtWork /\ r.node \in Nodes /\ writes \in Nat /\ todo \in SUBSET Nat /\ step \in {"trigger", "call", "read", "post"}
  BY <1>1, <1>2, <1>5, <1>6, <1>8 DEF EventsTyped, AtWork
<1>10. /\ event \in Seq(Event) /\ \A i \in DOMAIN event : Meant(event[i])
       /\ \A s \in subs : s.id = id => step = "read" /\ event = <<[key |-> s.key, of |-> s.node, node |-> r.node, value |-> 0, looked |-> writes]>>
  <2>1. CASE mine = {}
    <3>1. <<>> \in Seq(Event) /\ DOMAIN <<>> = {}
      OBVIOUS
    <3> QED BY <2>1, <3>1, <1>4, <1>7
  <2>2. ASSUME NEW s \in subs, s.id = id
        PROVE  /\ event \in Seq(Event) /\ \A i \in DOMAIN event : Meant(event[i])
               /\ step = "read" /\ event = <<[key |-> s.key, of |-> s.node, node |-> r.node, value |-> 0, looked |-> writes]>>
    <3>1. mine = {s}
      BY <1>1, <1>4, <2>2 DEF Subscribed
    <3>2. (CHOOSE x \in {s} : TRUE) = s
      OBVIOUS
    <3>3. PICK e : e = [key |-> s.key, of |-> s.node, node |-> r.node, value |-> 0, looked |-> writes]
      OBVIOUS
    <3>4. event = <<e>> /\ step = "read"
      BY <1>6, <1>7, <3>1, <3>2, <3>3
    <3>5. s \in Subscription
      BY <1>1 DEF Subscribed
    <3>6. e \in Event
      BY <3>3, <3>5, <1>9 DEF Event, Subscription
    <3>7. Meant(e)
      <4>1. e.key \in Addresses /\ e.looked \in Nat /\ e.looked <= writes
        BY <1>1, <1>9, <3>3 DEF EventsTyped, Subscribed
      <4>2. \A d \in Listeners : key[d] = e.key => e.of \in asked[d]
        BY <1>1, <3>3 DEF Aware
      <4> QED BY <4>1, <4>2 DEF Meant, For
    <3>8. <<e>> \in Seq(Event) /\ \A i \in DOMAIN <<e>> : <<e>>[i] = e
      BY <3>6
    <3> QED BY <3>3, <3>4, <3>7, <3>8
  <2> QED BY <2>1, <2>2, <1>4
<1>11. PICK q : q = Work(r, todo, step, event)
  OBVIOUS
<1>12. q \in AtWork /\ q # Nobody /\ writing' = [writing EXCEPT ![w] = q]
  <2>1. PICK f : f = writing
    OBVIOUS
  <2>2. f \in [Writers -> AtWork \cup {Nobody}] /\ r = f[w] /\ r # Nobody /\ event \in Seq(Event)
    BY <2>1, <1>1, <1>2, <1>8, <1>10 DEF EventsTyped
  <2>3. q \in AtWork /\ q # Nobody /\ Filled(f, w, todo, step, event) = Becomes(f, w, q)
    <3>1. todo \in SUBSET Nat /\ step \in {"trigger", "call", "read", "post"}
      BY <1>9
    <3>2. q \in AtWork /\ q # Nobody
      BY <2>2, <3>1, <1>11, WorkIs
    <3>3. Filled(f, w, todo, step, event) = Becomes(f, w, Work(r, todo, step, event))
      BY <2>2, FilledIs
    <3> QED BY <3>2, <3>3, <1>11
  <2> QED BY <2>1, <2>3, <1>8 DEF Becomes
<1>13. writing'[w] = q
  BY <1>1, <1>12 DEF EventsTyped
<1>14. \A s \in subs : \A n \in s.covers : latest[n] > s.since /\ (Pending(w, s, n) \/ InHand(w, s, n)) =>
         (Pending(w, s, n) \/ InHand(w, s, n) \/ Posted(s, n))'
  <2> SUFFICES ASSUME NEW s \in subs, NEW n \in s.covers, Pending(w, s, n) \/ InHand(w, s, n) PROVE Pending(w, s, n)' \/ InHand(w, s, n)'
    OBVIOUS
  <2>1. Pending(w, s, n)
    BY <1>2, <1>8 DEF InHand
  <2>2. q.node = r.node /\ q.at = r.at /\ q.bubbles = r.bubbles /\ q.todo = r.todo \ {id} /\ q.step = step /\ q.event = event
    BY <1>5, <1>11 DEF Work
  <2>3. CASE s.id = id
    <3>1. step = "read" /\ event = <<[key |-> s.key, of |-> s.node, node |-> r.node, value |-> 0, looked |-> writes]>>
      BY <2>3, <1>10
    <3>2. r.node = n
      BY <2>1, <1>2 DEF Pending, Passing
    <3>3. PICK e : e = [key |-> s.key, of |-> s.node, node |-> r.node, value |-> 0, looked |-> writes]
      OBVIOUS
    <3>5. e \in Event /\ Blank(e, s, n) /\ q.event = <<e>> /\ q.step = "read" /\ q.node = n
      BY <3>1, <3>2, <3>3, <2>2, <1>1, <1>9 DEF Event, Blank, Subscribed, Subscription
    <3>4. InHand(w, s, n)'
      BY <3>5, <1>8, <1>12, <1>13 DEF InHand, Blank
    <3> QED BY <3>4
  <2>4. CASE s.id # id
    BY <2>1, <2>2, <2>4, <1>2, <1>8, <1>12, <1>13 DEF Pending, Passing
  <2> QED BY <2>3, <2>4
<1>15. (q # Nobody => (~ q.bubbles => q.at = q.node) /\ Holds(q)) /\ \A i \in DOMAIN q.event : Meant(q.event[i])
  <2>1. ASSUME q.step = "read" PROVE \E e \in Event : q.event = <<e>>
    <3>1. step = "read" /\ q.event = event
      BY <2>1, <1>11 DEF Work
    <3>2. PICK s \in subs : s.id = id
      BY <3>1, <1>4, <1>6
    <3>3. PICK e : e = [key |-> s.key, of |-> s.node, node |-> r.node, value |-> 0, looked |-> writes]
      OBVIOUS
    <3>4. e \in Event /\ event = <<e>>
      BY <3>2, <3>3, <1>1, <1>9, <1>10 DEF Event, Subscribed, Subscription
    <3> QED BY <3>1, <3>4
  <2>2. ~ q.bubbles => q.at = q.node
    BY <1>1, <1>2, <1>8, <1>11 DEF Working, Work
  <2>3. \A i \in DOMAIN q.event : Meant(q.event[i])
    BY <1>10, <1>11 DEF Work
  <2> QED BY <2>1, <2>2, <2>3 DEF Holds
<1> QED BY <1>8, <1>12, <1>14, <1>15, WriterWell

\* What an observer that was found alive reads becomes its event's value.
LEMMA ReadWell ==
  ASSUME EventsInv, NEW w \in Writers, Events!Read(w)
  PROVE  EventsInv'
<1>1. EventsTyped /\ Subscribed /\ Working /\ Aware
  BY DEF EventsInv
<1>2. PICK r : r = writing[w]
  OBVIOUS
<1>3. r # Nobody /\ r.step = "read" /\ r \in AtWork /\ r.node \in Nodes /\ latest[r.node] \in Nat
  BY <1>1, <1>2 DEF Events!Read, EventsTyped, AtWork
<1>4. PICK e \in Event : r.event = <<e>>
  BY <1>1, <1>2, <1>3 DEF Working, Holds
<1>5. PICK v : v = latest[r.node]
  OBVIOUS
<1>6. PICK full : full = [e EXCEPT !.value = v]
  OBVIOUS
<1>7. full = [key |-> e.key, of |-> e.of, node |-> e.node, value |-> v, looked |-> e.looked]
  BY <1>4, <1>6 DEF Event
<1>8. PICK event : event = <<full>>
  OBVIOUS
<1>9. full \in Event /\ event \in Seq(Event) /\ \A i \in DOMAIN event : event[i] = full
  BY <1>3, <1>4, <1>5, <1>7, <1>8 DEF Event
<1>10. /\ writing' = Emptied(writing, w, "post", event)
       /\ heard' = heard /\ asked' = asked /\ joined' = joined /\ key' = key /\ subs' = subs
       /\ latest' = latest /\ nodes' = nodes /\ watching' = watching /\ ids' = ids /\ writes' = writes /\ told' = told
  <2>1. writing[w].event[1] = e /\ latest[writing[w].node] = v
    BY <1>2, <1>4, <1>5
  <2>2. <<[writing[w].event[1] EXCEPT !.value = latest[writing[w].node]]>> = event
    BY <2>1, <1>6, <1>8
  <2>3. writing' = Emptied(writing, w, "post", <<[writing[w].event[1] EXCEPT !.value = latest[writing[w].node]]>>)
    BY DEF Events!Read, Emptied
  <2> QED BY <2>2, <2>3 DEF Events!Read
<1>11. PICK q : q = Work(r, r.todo, "post", event)
  OBVIOUS
<1>12. q \in AtWork /\ q # Nobody /\ writing' = [writing EXCEPT ![w] = q]
  <2>1. PICK f, step : f = writing /\ step = "post"
    OBVIOUS
  <2>2. f \in [Writers -> AtWork \cup {Nobody}] /\ r = f[w] /\ r # Nobody /\ step \in {"trigger", "call", "read", "post"}
    BY <2>1, <1>1, <1>2, <1>3 DEF EventsTyped
  <2>3. q = Work(r, r.todo, step, event)
    BY <2>1, <1>11
  <2>4. q \in AtWork /\ q # Nobody /\ Emptied(f, w, step, event) = Becomes(f, w, q)
    BY <2>2, <2>3, <1>9, EmptiedIs
  <2> QED BY <2>1, <2>4, <1>10 DEF Becomes
<1>13. writing'[w] = q
  BY <1>1, <1>12 DEF EventsTyped
<1>14. q.node = r.node /\ q.at = r.at /\ q.bubbles = r.bubbles /\ q.todo = r.todo /\ q.step = "post" /\ q.event = <<full>>
  BY <1>8, <1>11 DEF Work
<1>15. \A s \in subs : \A n \in s.covers : latest[n] > s.since /\ (Pending(w, s, n) \/ InHand(w, s, n)) =>
         (Pending(w, s, n) \/ InHand(w, s, n) \/ Posted(s, n))'
  <2> SUFFICES ASSUME NEW s \in subs, NEW n \in s.covers, Pending(w, s, n) \/ InHand(w, s, n) PROVE Pending(w, s, n)' \/ InHand(w, s, n)'
    OBVIOUS
  <2>1. CASE Pending(w, s, n)
    BY <2>1, <1>2, <1>3, <1>10, <1>12, <1>13, <1>14 DEF Pending, Passing
  <2>2. CASE InHand(w, s, n)
    <3>1. r.node = n /\ Blank(e, s, n)
      BY <2>2, <1>2, <1>3, <1>4 DEF InHand
    <3>2. Facts(full) = EventOf(s, n)
      BY <3>1, <1>5, <1>7 DEF Facts, EventOf, Blank
    <3>3. EventOf(s, n)' = EventOf(s, n)
      BY <1>10 DEF EventOf
    <3>4. InHand(w, s, n)'
      BY <3>2, <3>3, <1>9, <1>12, <1>13, <1>14 DEF InHand
    <3> QED BY <3>4
  <2> QED BY <2>1, <2>2
<1>16. (q # Nobody => (~ q.bubbles => q.at = q.node) /\ Holds(q)) /\ \A i \in DOMAIN q.event : Meant(q.event[i])
  <2>1. Meant(e)
    BY <1>1, <1>2, <1>3, <1>4 DEF Aware
  <2>2. Meant(full)
    <3>1. full.key = e.key /\ full.of = e.of /\ full.looked = e.looked
      BY <1>7
    <3> QED BY <2>1, <3>1 DEF Meant, For
  <2>3. ~ q.bubbles => q.at = q.node
    BY <1>1, <1>2, <1>3, <1>14 DEF Working
  <2>4. \A i \in DOMAIN q.event : Meant(q.event[i])
    BY <2>2, <1>8, <1>9, <1>14
  <2> QED BY <2>3, <2>4, <1>14 DEF Holds
<1> QED BY <1>10, <1>12, <1>15, <1>16, WriterWell

\* A signal goes up only where it is watched (Node::activate).
LEMMA BubbleWell ==
  ASSUME EventsInv, NEW w \in Writers, Events!Bubble(w)
  PROVE  EventsInv'
<1>1. EventsTyped /\ Subscribed /\ Working /\ Aware
  BY DEF EventsInv
<1>2. PICK r : r = writing[w]
  OBVIOUS
<1>3. PICK next : next = IF r.bubbles THEN {Parent[r.at]} \ {r.at} ELSE {r.at}
  OBVIOUS
<1>4. PICK q : q = IF next \cap watching = {} THEN Nobody ELSE [r EXCEPT !.at = CHOOSE n \in next : TRUE, !.bubbles = TRUE, !.step = "trigger"]
  OBVIOUS
<1>5. /\ r # Nobody /\ r.step = "call" /\ r.todo = {} /\ writing' = [writing EXCEPT ![w] = q]
      /\ heard' = heard /\ asked' = asked /\ joined' = joined /\ key' = key /\ subs' = subs
      /\ latest' = latest /\ nodes' = nodes /\ watching' = watching /\ ids' = ids /\ writes' = writes /\ told' = told
  BY <1>1, <1>2, <1>3, <1>4 DEF Events!Bubble, Events!Writes, EventsTyped
<1>6. r \in AtWork /\ r.bubbles \in BOOLEAN /\ r.at \in Nodes /\ Parent[r.at] \in Nodes /\ (~ r.bubbles => r.at = r.node)
  BY <1>1, <1>2, <1>5, NodesAssumption DEF EventsTyped, AtWork, Working
<1>7. ASSUME NEW up, next = {up}, up \in watching
      PROVE  /\ q \in AtWork /\ q # Nobody /\ q.node = r.node /\ q.at = up /\ q.bubbles = TRUE
             /\ q.todo = {} /\ q.step = "trigger" /\ q.event = r.event
  <2>1. (CHOOSE n \in next : TRUE) = up
    BY <1>7
  <2>2. PICK a : a = [r EXCEPT !.at = up, !.bubbles = TRUE]
    OBVIOUS
  <2>3. a = [node |-> r.node, at |-> up, bubbles |-> TRUE, todo |-> r.todo, step |-> r.step, event |-> r.event]
    BY <2>2, <1>6 DEF AtWork
  <2>4. q = [a EXCEPT !.step = "trigger"]
    BY <2>1, <2>2, <1>4, <1>7
  <2>5. q = [node |-> a.node, at |-> a.at, bubbles |-> a.bubbles, todo |-> a.todo, step |-> "trigger", event |-> a.event]
    BY <2>3, <2>4
  <2>6. /\ q.node = r.node /\ q.at = up /\ q.bubbles = TRUE
        /\ q.todo = {} /\ q.step = "trigger" /\ q.event = r.event
    BY <2>3, <2>5, <1>5
  <2>7. up \in Nodes
    BY <1>3, <1>6, <1>7
  <2>8. q \in AtWork
    BY <2>3, <2>5, <2>7, <1>5, <1>6 DEF AtWork
  <2>9. q # Nobody
    BY <2>8, WritersAssumption DEF AtWork, Event
  <2> QED BY <2>6, <2>8, <2>9
<1>8. next \cap watching = {} \/ \E up : next = {up} /\ up \in watching
  BY <1>3
<1>9. q \in AtWork \cup {Nobody}
  BY <1>4, <1>7, <1>8
<1>10. writing'[w] = q
  BY <1>1, <1>5 DEF EventsTyped
<1>11. \A s \in subs : \A n \in s.covers : latest[n] > s.since /\ (Pending(w, s, n) \/ InHand(w, s, n)) =>
         (Pending(w, s, n) \/ InHand(w, s, n) \/ Posted(s, n))'
  <2> SUFFICES ASSUME NEW s \in subs, NEW n \in s.covers, Pending(w, s, n) \/ InHand(w, s, n) PROVE Pending(w, s, n)'
    OBVIOUS
  <2>1. Pending(w, s, n) /\ r.node = n
    BY <1>2, <1>5 DEF InHand, Pending, Passing
  <2>2. s.bubble
    BY <2>1, <1>2, <1>5 DEF Pending, Passing
  <2>3. s.covers \subseteq watching /\ \A m \in s.covers : m = s.node \/ (Parent[m] \in s.covers /\ Parent[m] # m)
    BY <2>2, <1>1 DEF Subscribed, Reaches
  <2>4. PICK up : next = {up} /\ up \in s.covers
    <3>1. CASE ~ r.bubbles
      BY <3>1, <2>1, <1>3, <1>6
    <3>2. CASE r.bubbles
      <4>1. r.at \in s.covers /\ (r.at = s.node => r.step = "trigger" \/ s.id \in r.todo)
        <5>1. Pending(w, s, n) /\ writing[w] = r
          BY <2>1, <1>2
        <5>2. \/ ~ r.bubbles
              \/ r.at \in s.covers /\ (r.at = s.node => r.step = "trigger" \/ s.id \in r.todo)
          BY <5>1, <2>2, Zenon DEF Pending, Passing
        <5> QED BY <5>2, <3>2
      <4>2. r.at # s.node
        BY <4>1, <1>5
      <4> QED BY <3>2, <4>1, <4>2, <2>3, <1>3
    <3> QED BY <3>1, <3>2
  <2>5. q # Nobody /\ q.node = r.node /\ q.at = up /\ q.bubbles = TRUE /\ q.step = "trigger"
    BY <2>3, <2>4, <1>7
  <2> QED BY <2>1, <2>2, <2>4, <2>5, <1>10 DEF Pending, Passing
<1>12. (q # Nobody => (~ q.bubbles => q.at = q.node) /\ Holds(q)) /\ (q # Nobody => \A i \in DOMAIN q.event : Meant(q.event[i]))
  <2>1. \A i \in DOMAIN r.event : Meant(r.event[i])
    BY <1>1, <1>2, <1>5 DEF Aware
  <2>2. CASE next \cap watching = {}
    BY <2>2, <1>4
  <2>3. ASSUME NEW up, next = {up}, up \in watching PROVE q.bubbles = TRUE /\ q.event = r.event /\ q.step = "trigger"
    BY <2>3, <1>7
  <2> QED BY <2>1, <2>2, <2>3, <1>8 DEF Holds
<1> QED BY <1>5, <1>9, <1>11, <1>12, WriterWell

\* A write of a node starts its signal (Node::set).
LEMMA SetWell ==
  ASSUME EventsInv, NEW w \in Writers, NEW m \in Nodes, Events!Set(w, m)
  PROVE  EventsInv'
<1>1. EventsTyped /\ Subscribed /\ Working /\ Aware /\ Coming
  BY DEF EventsInv
<1>2. PICK none : none = <<>>
  OBVIOUS
<1>3. PICK q : q = [node |-> m, at |-> m, bubbles |-> FALSE, todo |-> {}, step |-> "trigger", event |-> none]
  OBVIOUS
<1>4. /\ writing[w] = Nobody /\ writes' = writes + 1 /\ latest' = [latest EXCEPT ![m] = writes + 1]
      /\ writing' = [writing EXCEPT ![w] = q]
      /\ heard' = heard /\ asked' = asked /\ joined' = joined /\ key' = key /\ subs' = subs
      /\ nodes' = nodes /\ watching' = watching /\ ids' = ids /\ told' = told
  BY <1>2, <1>3 DEF Events!Set
<1>5. /\ q.node = m /\ q.at = m /\ q.bubbles = FALSE /\ q.step = "trigger" /\ q.event = none
      /\ none \in Seq(Event) /\ DOMAIN none = {}
  BY <1>2, <1>3
<1>6. q \in AtWork
  BY <1>3, <1>5 DEF AtWork
<1>7. q # Nobody
  BY <1>6, WritersAssumption DEF AtWork, Event
<1>8. writing' \in [Writers -> AtWork \cup {Nobody}] /\ writing'[w] = q /\ \A v \in Writers \ {w} : writing'[v] = writing[v]
  BY <1>1, <1>4, <1>6 DEF EventsTyped
<1>9. /\ writes \in Nat /\ latest' \in [Nodes -> Nat] /\ latest'[m] = writes + 1
      /\ \A n \in Nodes \ {m} : latest'[n] = latest[n]
  BY <1>1, <1>4 DEF EventsTyped
<1>10. \A n \in Nodes : latest[n] \in Nat /\ latest[n] <= writes
  BY <1>1 DEF EventsTyped
<1>11. \A n \in Nodes : latest'[n] <= writes'
  BY <1>4, <1>9, <1>10
<1>12. EventsTyped'
  BY <1>1, <1>4, <1>8, <1>9, <1>11 DEF EventsTyped
<1>13. Subscribed'
  <2>1. \A s \in subs : s.since \in Nat /\ s.since <= writes + 1
    BY <1>1, <1>9 DEF Subscribed, Subscription
  <2> QED BY <1>1, <1>4, <2>1 DEF Subscribed, Reaches
<1>14. Working'
  BY <1>1, <1>5, <1>8 DEF Working, Holds
<1>15. Aware'
  <2>0. \A e : Meant(e) => Meant(e)'
    BY <1>4, <1>9 DEF Meant, For
  <2>1. ASSUME NEW v \in Writers, writing'[v] # Nobody, NEW i \in DOMAIN writing'[v].event, NEW e, e = writing'[v].event[i]
        PROVE  Meant(e)'
    <3>1. Meant(e)
      BY <1>1, <1>5, <1>8, <2>1 DEF Aware
    <3> QED BY <2>0, <3>1
  <2>2. ASSUME NEW i \in DOMAIN told, NEW e, e = told[i] PROVE Meant(e)'
    BY <1>1, <2>0, <2>2 DEF Aware
  <2>3. /\ \A s \in subs, d \in Listeners : s.key = key[d] => s.node \in asked[d]
        /\ \A d \in Listeners : \A i \in DOMAIN heard[d] : For(heard[d][i], d)
    BY <1>1 DEF Aware
  <2> QED BY <1>4, <2>1, <2>2, <2>3 DEF Aware, Meant, For
<1>16. Coming'
  <2> SUFFICES ASSUME NEW s \in subs, NEW n \in s.covers, latest'[n] > s.since PROVE Due(s, n)'
    BY <1>4 DEF Coming
  <2>1. n \in Nodes /\ s.bubble \in BOOLEAN
    BY <1>1 DEF Subscribed, Subscription
  <2>2. CASE n = m
    <3>1. Pending(w, s, n)'
      BY <2>2, <1>5, <1>7, <1>8 DEF Pending
    <3> QED BY <3>1 DEF Due
  <2>3. CASE n # m
    <3>1. latest'[n] = latest[n]
      BY <2>1, <2>3, <1>9
    <3>2. Due(s, n)
      BY <3>1, <1>1 DEF Coming
    <3>3. EventOf(s, n)' = EventOf(s, n)
      BY <3>1 DEF EventOf
    <3>4. (Posted(s, n) => Posted(s, n)') /\ (Received(s, n) => Received(s, n)')
      BY <3>3, <1>4 DEF Posted, Received
    <3>5. ASSUME NEW v \in Writers, Pending(v, s, n) \/ InHand(v, s, n) PROVE (\E u \in Writers : Pending(u, s, n) \/ InHand(u, s, n))'
      <4>1. v # w
        BY <3>5, <1>4 DEF Pending, InHand
      <4>2. Pending(v, s, n)' \/ InHand(v, s, n)'
        BY <4>1, <3>3, <3>5, <1>8 DEF Pending, Passing, InHand
      <4> QED BY <4>2
    <3> QED BY <3>2, <3>4, <3>5 DEF Due
  <2> QED BY <2>2, <2>3
<1> QED BY <1>12, <1>13, <1>14, <1>15, <1>16 DEF EventsInv

\* The loop hands an event to whoever has its key.
LEMMA DeliverWell ==
  ASSUME EventsInv, Events!Deliver
  PROVE  EventsInv'
<1>1. EventsTyped /\ Subscribed /\ Working /\ Aware /\ Coming
  BY DEF EventsInv
<1>2. PICK e : e = Head(told)
  OBVIOUS
<1>3. /\ told # <<>> /\ told' = Tail(told)
      /\ heard' = [c \in Listeners |-> IF key[c] = e.key THEN Append(heard[c], e) ELSE heard[c]]
      /\ latest' = latest /\ nodes' = nodes /\ watching' = watching /\ key' = key /\ joined' = joined /\ subs' = subs
      /\ ids' = ids /\ writing' = writing /\ asked' = asked /\ writes' = writes
  BY <1>2 DEF Events!Deliver
<1>4. /\ told \in Seq(Event) /\ e \in Event /\ told' \in Seq(Event) /\ e = told[1] /\ 1 \in DOMAIN told
      /\ \A i \in DOMAIN told' : i + 1 \in DOMAIN told /\ told'[i] = told[i + 1]
      /\ \A i \in DOMAIN told : i # 1 => i - 1 \in DOMAIN told' /\ told'[i - 1] = told[i]
  <2>1. ASSUME NEW t \in Seq(Event), t # <<>>
        PROVE  /\ Head(t) \in Event /\ Tail(t) \in Seq(Event) /\ Head(t) = t[1] /\ 1 \in DOMAIN t
               /\ \A i \in DOMAIN Tail(t) : i + 1 \in DOMAIN t /\ Tail(t)[i] = t[i + 1]
               /\ \A i \in DOMAIN t : i # 1 => i - 1 \in DOMAIN Tail(t) /\ Tail(t)[i - 1] = t[i]
    BY <2>1
  <2>2. told \in Seq(Event)
    BY <1>1 DEF EventsTyped
  <2> QED BY <2>1, <2>2, <1>2, <1>3
<1>5. ASSUME NEW c \in Listeners
      PROVE  /\ heard'[c] \in Seq(Event) /\ \A i \in DOMAIN heard[c] : i \in DOMAIN heard'[c] /\ heard'[c][i] = heard[c][i]
             /\ key[c] = e.key => \E i \in DOMAIN heard'[c] : heard'[c][i] = e
             /\ \A i \in DOMAIN heard'[c] : (\E j \in DOMAIN heard[c] : heard'[c][i] = heard[c][j]) \/ (key[c] = e.key /\ heard'[c][i] = e)
  <2>1. heard[c] \in Seq(Event)
    BY <1>1 DEF EventsTyped
  <2>2. ASSUME NEW h \in Seq(Event)
        PROVE  /\ Append(h, e) \in Seq(Event) /\ \A i \in DOMAIN h : i \in DOMAIN Append(h, e) /\ Append(h, e)[i] = h[i]
               /\ Len(h) + 1 \in DOMAIN Append(h, e) /\ Append(h, e)[Len(h) + 1] = e
               /\ \A i \in DOMAIN Append(h, e) : i \in DOMAIN h \/ i = Len(h) + 1
    BY <1>4
  <2>3. CASE key[c] = e.key
    <3>1. heard'[c] = Append(heard[c], e)
      BY <2>3, <1>3
    <3> QED BY <2>1, <2>2, <2>3, <3>1
  <2>4. CASE key[c] # e.key
    BY <2>1, <2>4, <1>3
  <2> QED BY <2>3, <2>4
<1>6. EventsTyped'
  <2>1. heard' \in [Listeners -> Seq(Event)]
    BY <1>3, <1>5
  <2> QED BY <1>1, <1>3, <1>4, <2>1 DEF EventsTyped
<1>7. Subscribed' /\ Working'
  BY <1>1, <1>3 DEF Subscribed, Reaches, Working
<1>8. Aware'
  <2>1. \A i \in DOMAIN told' : Meant(told'[i])
    BY <1>1, <1>4 DEF Aware
  <2>2. Meant(e)
    BY <1>1, <1>4 DEF Aware
  <2>3. \A c \in Listeners : \A i \in DOMAIN heard'[c] : For(heard'[c][i], c)
    <3> SUFFICES ASSUME NEW c \in Listeners, NEW i \in DOMAIN heard'[c] PROVE For(heard'[c][i], c)
      OBVIOUS
    <3>1. CASE key[c] = e.key /\ heard'[c][i] = e
      BY <2>2, <3>1 DEF Meant
    <3>2. ASSUME NEW j \in DOMAIN heard[c], heard'[c][i] = heard[c][j] PROVE For(heard'[c][i], c)
      BY <3>2, <1>1 DEF Aware
    <3> QED BY <3>1, <3>2, <1>5
  <2>4. \A v \in Writers : writing[v] # Nobody => \A i \in DOMAIN writing[v].event : Meant(writing[v].event[i])
    BY <1>1 DEF Aware
  <2>5. \A s \in subs, d \in Listeners : s.key = key[d] => s.node \in asked[d]
    BY <1>1 DEF Aware
  <2> QED BY <1>3, <2>1, <2>3, <2>4, <2>5 DEF Aware, Meant, For
<1>9. Coming'
  <2> SUFFICES ASSUME NEW s \in subs, NEW n \in s.covers, latest[n] > s.since PROVE Due(s, n)'
    BY <1>3 DEF Coming
  <2>1. PICK v : v = EventOf(s, n)
    OBVIOUS
  <2>2. EventOf(s, n)' = v /\ v.key = s.key
    BY <2>1, <1>3 DEF EventOf
  <2>3. Received(s, n) => Received(s, n)'
    <3> SUFFICES ASSUME Received(s, n), NEW c \in Listeners, key[c] = s.key PROVE \E i \in DOMAIN heard'[c] : Facts(heard'[c][i]) = v
      BY <2>2, <1>3 DEF Received
    <3>1. PICK i \in DOMAIN heard[c] : Facts(heard[c][i]) = v
      BY <2>1 DEF Received
    <3> QED BY <3>1, <1>5
  <2>4. Posted(s, n) => (Posted(s, n) \/ Received(s, n))'
    <3> SUFFICES ASSUME NEW i \in DOMAIN told, Facts(told[i]) = v PROVE Posted(s, n)' \/ Received(s, n)'
      BY <2>1 DEF Posted
    <3>1. CASE i = 1
      <4>1. Facts(e) = v
        BY <3>1, <1>4
      <4>2. \A c \in Listeners : key[c] = s.key => \E j \in DOMAIN heard'[c] : Facts(heard'[c][j]) = v
        <5>1. e.key = s.key
          BY <4>1, <2>2 DEF Facts
        <5> QED BY <4>1, <5>1, <1>5
      <4>3. Received(s, n)'
        BY <4>2, <2>2, <1>3 DEF Received
      <4> QED BY <4>3
    <3>2. CASE i # 1
      <4>1. i - 1 \in DOMAIN told' /\ Facts(told'[i - 1]) = v
        BY <3>2, <1>4
      <4>2. Posted(s, n)'
        BY <4>1, <2>2 DEF Posted
      <4> QED BY <4>2
    <3> QED BY <3>1, <3>2
  <2> QED BY <1>3, <2>3, <2>4, ComingOn
<1> QED BY <1>6, <1>7, <1>8, <1>9 DEF EventsInv

\* Every step of the events.
LEMMA EventsOnwards ==
  ASSUME EventsInv, Events!Next
  PROVE  EventsInv'
<1>1. ASSUME NEW c \in Listeners, NEW n \in Nodes, Events!Unsubscribe(c, n) PROVE EventsInv'
  <2>1. \A k \in nodes : Parent[k] \in nodes
    BY DEF EventsInv, EventsTyped
  <2> QED BY <1>1, <2>1, UnsubscribeWell DEF Events!Unsubscribe, EventsInv, EventsTyped
<1>2. ASSUME NEW n \in Nodes, Events!MakeNode(n) PROVE EventsInv'
  <2>1. nodes' = nodes \cup {n} /\ n \in Nodes /\ Parent[n] \in nodes /\ nodes \subseteq Nodes /\ \A k \in nodes : Parent[k] \in nodes
    BY <1>2 DEF Events!MakeNode, EventsInv, EventsTyped
  <2>2. nodes \subseteq nodes' /\ nodes' \subseteq Nodes /\ \A k \in nodes' : Parent[k] \in nodes'
    BY <2>1
  <2> QED BY <1>2, <2>2, UnsubscribeWell DEF Events!MakeNode
<1> QED BY <1>1, <1>2, ConnectWell, DisconnectWell, SubscribeWell, SetWell, TriggerWell, CallWell, ReadWell, PostWell, BubbleWell, DeliverWell
  DEF Events!Next

\* The same of a step of the whole.
LEMMA EventsStep == EventsInv /\ [MCNext]_all => EventsInv'
<1> SUFFICES ASSUME EventsInv, [MCNext]_all PROVE EventsInv'
  OBVIOUS
<1>1. CASE UNCHANGED delivery
  <2>1. /\ latest' = latest /\ nodes' = nodes /\ watching' = watching /\ key' = key /\ joined' = joined /\ subs' = subs
        /\ ids' = ids /\ writing' = writing /\ told' = told /\ heard' = heard /\ asked' = asked /\ writes' = writes
    BY <1>1 DEF delivery
  <2>2. nodes \subseteq Nodes /\ \A k \in nodes : Parent[k] \in nodes
    BY DEF EventsInv, EventsTyped
  <2> QED BY <2>1, <2>2, UnsubscribeWell
<1>2. CASE Events!Next
  BY <1>2, EventsOnwards
<1>3. [MCNext]_all => Events!Next \/ UNCHANGED delivery
  BY DEF MCNext, all, toolkit, services
<1> QED BY <1>1, <1>2, <1>3

-----------------------------------------------------------------------------
(* The whole.  A step of another part leaves a part as it is.              *)

\* What the children need of a step of the whole.
LEMMA ChildrenOnwards == ChildrenInv /\ [MCNext]_all => ChildrenInv'
<1>1. CASE UNCHANGED children
  BY <1>1 DEF children, ChildrenInv, Listed, Apart, Handed, Standing
<1>2. [MCNext]_all => Fa!Next \/ UNCHANGED children
  BY DEF MCNext, all, toolkit, services
<1> QED BY <1>1, <1>2, ChildrenStep

\* Threads that ensure one child of a node at the same time get the same node,
\* and no two take the same (Node::atKey, Node::take): who creates looks again
\* under the lock.
THEOREM ChildrenAreAgreed == MCSpec => []ChildrenAgree
<1>1. MCInit => ChildrenInv
  BY ChildrenStart DEF MCInit
<1>2. ChildrenInv => ChildrenAgree
  BY ChildrenSafe DEF ChildrenAgree
<1> QED BY <1>1, <1>2, ChildrenOnwards, PTL DEF MCSpec

\* The ports of a step of the whole.
LEMMA PortsOfStep == PortsInv /\ [MCNext]_all => PortsInv'
<1>1. ASSUME PortsInv, UNCHANGED ports PROVE PortsInv'
  <2> HIDE DEF Served!Servers, Served!Repl, Served!LastPort
  <2> QED BY <1>1 DEF ports, PortsInv, PortsTyped, Shown, Shut, Replaced
<1>2. [MCNext]_all => Served!PortNext \/ UNCHANGED ports
  BY DEF MCNext, all, toolkit, services
<1> QED BY <1>1, <1>2, PortsStep

\* What the node tree shows of the REPLs, the HTTP and the static server is what
\* is open, one port each within its range, whatever ports others hold and
\* however often the module goes down and up (ServerModule::ready, deinit).
THEOREM ServersDoListen == MCSpec => []ServersListen
<1>1. MCInit => PortsInv
  BY PortsStart DEF MCInit
<1>2. PortsInv => ServersListen
  BY PortsSafe DEF ServersListen
<1> QED BY <1>1, <1>2, PortsOfStep, PTL DEF MCSpec

\* The pool of a step of the whole.
LEMMA PoolOnwards == PoolInv /\ [MCNext]_all => PoolInv'
<1>1. CASE UNCHANGED pool
  BY <1>1 DEF pool, PoolInv, PoolTyped, Once, Locked, Watched
<1>2. [MCNext]_all => Rtt!PoolNext \/ UNCHANGED pool
  BY DEF MCNext, all, toolkit, services
<1> QED BY <1>1, <1>2, PoolStep

\* A task added to the pool is run once and is not slept over, a command ends at
\* the first step that ends it and its client is told once, and who is deleted is
\* in no table and no connection, if users are careful (ThreadPool,
\* CommandObject, SdkService, Object).
THEOREM ToolkitDoesKeep == ASSUME Careful = TRUE PROVE MCSpec => []ToolkitKeeps
<1>1. MCInit => PoolInv /\ OrdersInv /\ FamilyInv
  BY PoolStart, OrdersStart, FamilyStart DEF MCInit
<1>2. PoolInv /\ OrdersInv /\ FamilyInv /\ [MCNext]_all => (PoolInv /\ OrdersInv /\ FamilyInv)'
  BY PoolOnwards, OrdersStep, FamilyStep
<1>3. PoolInv /\ OrdersInv /\ FamilyInv => ToolkitKeeps
  BY PoolSafe, OrdersSafe, FamilySafe DEF ToolkitKeeps
<1> QED BY <1>1, <1>2, <1>3, PTL DEF MCSpec

\* With no write, post or delivery under way, every session has heard the last
\* value of what it watches; and of what it did not ask for none hears anything
\* that was written after it connected, although the addresses of sessions are
\* used again (Node::set, subscribe_service.cpp, postToSession).
THEOREM SessionsDoHear == MCSpec => []SessionsHear
<1>1. EventsInv /\ [MCNext]_all => EventsInv'
  BY EventsStep
<1>2. EventsInv => SessionsHear
  BY EventsSafe DEF SessionsHear
<1> QED BY <1>1, <1>2, EventsStart, PTL DEF MCSpec
=============================================================================
