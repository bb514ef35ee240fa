-------------------------- MODULE EventLoopProofs ---------------------------
(***************************************************************************)
(* Proofs about EventLoop: its types, that a stopped loop is quiet, that   *)
(* what dies on the loop's only thread is not called back, and that the    *)
(* loop implements the queue of TaskQueue.                                 *)
(*                                                                         *)
(* The inductive invariant IInv adds to the types and to QuietWhenStopped  *)
(*   - Lives:  who is in which call in which phase of the loop's life;     *)
(*   - Posts:  a task is in one place only: with a caller, queued, begun;  *)
(*   - Works:  what has begun and not ended is what the workers hold.      *)
(***************************************************************************)
EXTENDS MCEventLoop, FiniteSetTheorems, WellFoundedInduction, TLAPS

Joining == {"join", "destroyJoin"}
Destroying == {"destroy", "destroyJoin"}

\* Only a stop in progress holds the mutex; the loop's destructor is alone
\* but for calls through a LoopRef, and after it only those are left.
Lives ==
  /\ \A u \in Users : mtx = u => upc[u] \in Joining
  /\ \A u \in Users : upc[u] \in Destroying =>
       life = "dying" /\ \A v \in Users \ {u} : upc[v] \in {"idle", "ref"}
  /\ life = "gone" => ~ isRunning /\ \A u \in Users : upc[u] \in {"idle", "ref"}

\* A task that has been posted is with a caller, in the queue or begun, once.
Posts ==
  /\ \A i, j \in DOMAIN queue : queue[i] = queue[j] => i = j
  /\ Members(queue) \cap Members(begun) = {}
  /\ \A u \in Users : upc[u] = "ref" <=> uarg[u] # NULL
  /\ \A u \in Users : uarg[u] \notin Members(queue) \cup Members(begun)
  /\ \A u, v \in Users : uarg[u] = uarg[v] => u = v \/ uarg[u] = NULL

Busy == {w \in Workers : wtask[w] # NULL}

\* The workers hold what has begun and not ended, each its own.
Works ==
  /\ ended \subseteq Members(begun)
  /\ \A w \in Busy : wtask[w] \in Members(begun) \ ended
  /\ \A w, v \in Busy : wtask[w] = wtask[v] => w = v
  /\ \A t \in Members(begun) \ ended : \E w \in Busy : wtask[w] = t

\* On the loop's only thread the token is not killed between the look at it
\* and the call.
Checked ==
  Cardinality(threads) = 1 =>
    \A w \in Workers : wpc[w] = "checked" /\ wtask[w] \in Guarded => owner # "task"

IInv == TypeOK /\ QuietWhenStopped /\ Lives /\ Posts /\ Works /\ Checked

-----------------------------------------------------------------------------
(* Sequences as the sets of their members.                                 *)

\* Members of a longer queue, ...
LEMMA AppendMembers ==
  ASSUME NEW S, NEW q \in Seq(S), NEW t \in S
  PROVE  /\ Append(q, t) \in Seq(S)
         /\ Members(Append(q, t)) = Members(q) \cup {t}
<1>1. Append(q, t) \in Seq(S) /\ Len(Append(q, t)) = Len(q) + 1 /\ Len(q) \in Nat
  OBVIOUS
<1>2. \A i \in 1 .. Len(q) : Append(q, t)[i] = q[i]
  OBVIOUS
<1>3. Append(q, t)[Len(q) + 1] = t
  OBVIOUS
<1>4. DOMAIN q = 1 .. Len(q) /\ DOMAIN Append(q, t) = 1 .. Len(q) + 1
  BY <1>1
<1>5. 1 .. Len(q) + 1 = (1 .. Len(q)) \cup {Len(q) + 1}
  BY <1>1
<1>6. QED BY <1>1, <1>2, <1>3, <1>4, <1>5 DEF Members

\* ... which stays without repetition, ...
LEMMA AppendDistinct ==
  ASSUME NEW S, NEW q \in Seq(S), NEW t \in S, t \notin Members(q),
         \A i, j \in DOMAIN q : q[i] = q[j] => i = j
  PROVE  \A i, j \in DOMAIN Append(q, t) : Append(q, t)[i] = Append(q, t)[j] => i = j
<1>1. Append(q, t) \in Seq(S) /\ Len(Append(q, t)) = Len(q) + 1 /\ Len(q) \in Nat
  OBVIOUS
<1>2. \A i \in 1 .. Len(q) : Append(q, t)[i] = q[i] /\ q[i] # t
  BY DEF Members
<1>3. Append(q, t)[Len(q) + 1] = t
  OBVIOUS
<1>4. DOMAIN q = 1 .. Len(q) /\ DOMAIN Append(q, t) = 1 .. Len(q) + 1
  BY <1>1
<1>5. QED BY <1>1, <1>2, <1>3, <1>4

\* ... and of a shorter one.
LEMMA TailMembers ==
  ASSUME NEW S, NEW q \in Seq(S), q # <<>>,
         \A i, j \in DOMAIN q : q[i] = q[j] => i = j
  PROVE  /\ Tail(q) \in Seq(S) /\ Head(q) \in S
         /\ Members(q) = {Head(q)} \cup Members(Tail(q))
         /\ Head(q) \notin Members(Tail(q))
         /\ \A i, j \in DOMAIN Tail(q) : Tail(q)[i] = Tail(q)[j] => i = j
<1>1. Tail(q) \in Seq(S) /\ Head(q) \in S /\ Len(q) \in Nat \ {0} /\ Len(Tail(q)) = Len(q) - 1
  OBVIOUS
<1>2. Head(q) = q[1] /\ \A i \in 1 .. Len(q) - 1 : Tail(q)[i] = q[i + 1]
  OBVIOUS
<1>3. DOMAIN q = 1 .. Len(q) /\ DOMAIN Tail(q) = 1 .. Len(q) - 1
  BY <1>1
<1>4. ASSUME NEW i \in 1 .. Len(q), i # 1
      PROVE  i - 1 \in 1 .. Len(q) - 1 /\ q[i] = Tail(q)[i - 1]
  <2>1. i - 1 \in 1 .. Len(q) - 1 /\ (i - 1) + 1 = i
    BY <1>1, <1>4
  <2>2. QED BY <1>2, <2>1
<1>5. Members(q) = {Head(q)} \cup Members(Tail(q))
  <2>1. ASSUME NEW i \in DOMAIN q PROVE q[i] \in {Head(q)} \cup Members(Tail(q))
    BY <2>1, <1>2, <1>3, <1>4 DEF Members
  <2>2. Head(q) \in Members(q)
    BY <1>1, <1>2, <1>3 DEF Members
  <2>3. ASSUME NEW i \in DOMAIN Tail(q) PROVE Tail(q)[i] \in Members(q)
    <3>1. i + 1 \in DOMAIN q /\ Tail(q)[i] = q[i + 1]
      BY <1>1, <1>2, <1>3
    <3>2. QED BY <3>1 DEF Members
  <2>4. QED BY <2>1, <2>2, <2>3 DEF Members
<1>6. \A i \in 1 .. Len(q) - 1 : i + 1 \in 1 .. Len(q) /\ i + 1 # 1
  BY <1>1
<1>7. Head(q) \notin Members(Tail(q))
  BY <1>1, <1>2, <1>3, <1>6 DEF Members
<1>8. \A i, j \in DOMAIN Tail(q) : Tail(q)[i] = Tail(q)[j] => i = j
  BY <1>1, <1>2, <1>3, <1>6
<1>9. QED BY <1>1, <1>5, <1>7, <1>8

-----------------------------------------------------------------------------
(* Every step preserves the types, and the loop stays quiet while stopped. *)

\* A worker that has a task is one of the loop's, and a quiet loop's has none.
LEMMA QuietIdle ==
  ASSUME TypeOK, QuietWhenStopped, ~ isRunning, mtx = NULL
  PROVE  /\ \A w \in Workers : wpc[w] = "none" /\ wtask[w] = NULL
         /\ Busy = {}
BY DEF TypeOK, QuietWhenStopped, Busy

\* A start finds no worker with a task left over, since it finds the loop quiet.
LEMMA TypeInv == IInv /\ [Next]_vars => TypeOK'
<1> SUFFICES ASSUME IInv, [Next]_vars PROVE TypeOK'
  OBVIOUS
<1> USE EventLoopAssumption
<1>0. TypeOK /\ QuietWhenStopped
  BY DEF IInv
<1>1. ASSUME NEW u \in Users, Start(u) PROVE TypeOK'
  <2>1. \A w \in Workers : wtask[w] = NULL
    BY <1>0, <1>1, QuietIdle DEF Start
  <2>2. QED BY <1>0, <1>1, <2>1 DEF TypeOK, Start, Restarted, Leftover, Spawned
<1>2. ASSUME NEW u \in Users, Stop(u) PROVE TypeOK'
  BY <1>0, <1>2 DEF TypeOK, Stop, Interrupted
<1>3. ASSUME NEW u \in Users, StopReturns(u) PROVE TypeOK'
  BY <1>0, <1>3 DEF TypeOK, StopReturns, workVars
<1>4. ASSUME NEW u \in Users, NEW t \in Tasks, Post(u, t) PROVE TypeOK'
  BY <1>0, <1>4, AppendMembers DEF TypeOK, Post, Enqueue, workVars, loopVars
<1>5. ASSUME NEW u \in Users, NEW t \in Tasks, RefPost(u, t) PROVE TypeOK'
  BY <1>0, <1>5 DEF TypeOK, RefPost, workVars, loopVars
<1>6. ASSUME NEW u \in Users, RefPosts(u) PROVE TypeOK'
  <2>1. uarg[u] \in Tasks
    BY <1>0, <1>6 DEF IInv, TypeOK, Posts, RefPosts
  <2>2. Append(queue, uarg[u]) \in Seq(Tasks)
    BY <1>0, <2>1 DEF TypeOK
  <2>3. QED BY <1>0, <1>6, <2>2 DEF TypeOK, RefPosts, Enqueue, workVars, loopVars
<1>7. ASSUME NEW u \in Users, Kill(u) PROVE TypeOK'
  BY <1>0, <1>7 DEF TypeOK, Kill, workVars, loopVars
<1>8. ASSUME NEW u \in Users, Destroy(u) PROVE TypeOK'
  BY <1>0, <1>8 DEF TypeOK, Destroy, workVars
<1>9. ASSUME NEW u \in Users, Delete(u) PROVE TypeOK'
  BY <1>0, <1>9 DEF TypeOK, Delete, workVars
<1>10. ASSUME NEW w \in Workers, Take(w) PROVE TypeOK'
  <2>1. Head(queue) \in Tasks /\ Tail(queue) \in Seq(Tasks) /\ Append(begun, Head(queue)) \in Seq(Tasks)
    BY <1>0, <1>10 DEF TypeOK, Take
  <2>2. QED BY <1>0, <1>10, <2>1 DEF TypeOK, Take, loopVars
<1>11. ASSUME NEW w \in Workers, Skip(w) PROVE TypeOK'
  BY <1>0, <1>11 DEF TypeOK, Skip, loopVars
<1>12. ASSUME NEW w \in Workers, Check(w) PROVE TypeOK'
  BY <1>0, <1>12 DEF TypeOK, Check, loopVars
<1>13. ASSUME NEW w \in Workers, Call(w) PROVE TypeOK'
  BY <1>0, <1>13 DEF TypeOK, Call, loopVars
<1>14. ASSUME NEW w \in Workers, Return(w) PROVE TypeOK'
  BY <1>0, <1>14 DEF TypeOK, Return, loopVars
<1>15. ASSUME NEW w \in Workers, Leave(w) PROVE TypeOK'
  BY <1>0, <1>15 DEF TypeOK, Leave, loopVars
<1>16. ASSUME NEW w \in Workers, TaskKills(w) PROVE TypeOK'
  BY <1>0, <1>16 DEF TypeOK, TaskKills, loopVars, workVars
<1>17. ASSUME NEW w \in Workers, NEW t \in Tasks, TaskPosts(w, t) PROVE TypeOK'
  BY <1>0, <1>17, AppendMembers DEF TypeOK, TaskPosts, Enqueue, loopVars, workVars
<1>18. CASE UNCHANGED vars
  BY <1>0, <1>18 DEF TypeOK, vars
<1>19. QED
  BY <1>1, <1>2, <1>3, <1>4, <1>5, <1>6, <1>7, <1>8, <1>9, <1>10, <1>11, <1>12,
     <1>13, <1>14, <1>15, <1>16, <1>17, <1>18 DEF Next, Work

\* Workers appear in start only, and stop gives the mutex back when all have left.
LEMMA QuietInv == IInv /\ [Next]_vars => QuietWhenStopped'
<1> SUFFICES ASSUME IInv, [Next]_vars, ~ isRunning', mtx' = NULL, NEW w \in Workers
             PROVE  wpc'[w] = "none"
  BY DEF QuietWhenStopped
<1> USE EventLoopAssumption
<1>0. TypeOK /\ QuietWhenStopped
  BY DEF IInv
<1>1. ASSUME NEW u \in Users, Start(u) PROVE FALSE
  BY <1>1 DEF Start
<1>2. ASSUME NEW u \in Users, Stop(u) PROVE FALSE
  BY <1>2 DEF Stop
<1>3. ASSUME NEW u \in Users, StopReturns(u) PROVE wpc'[w] = "none"
  BY <1>0, <1>3 DEF TypeOK, StopReturns, Joined, workVars
<1>4. CASE isRunning' = isRunning /\ mtx' = mtx
  <2>0. wpc[w] = "none" /\ \A x \in Workers : wpc[x] = "none"
    BY <1>0, <1>4 DEF QuietWhenStopped
  <2>1. ASSUME NEW x \in Workers, Work(x) PROVE wpc'[w] = "none"
    BY <1>0, <2>0, <2>1 DEF TypeOK, Work, Take, Skip, Check, Call, Return, Leave
  <2>2. ASSUME NEW u \in Users, RefPosts(u) \/ Kill(u) \/ Destroy(u) \/ Delete(u) PROVE wpc' = wpc
    BY <2>2 DEF RefPosts, Kill, Destroy, Delete, workVars
  <2>3. ASSUME NEW u \in Users, NEW t \in Tasks, Post(u, t) \/ RefPost(u, t) PROVE wpc' = wpc
    BY <2>3 DEF Post, RefPost, workVars
  <2>4. ASSUME NEW x \in Workers, TaskKills(x) PROVE wpc' = wpc
    BY <2>4 DEF TaskKills, workVars
  <2>5. ASSUME NEW x \in Workers, NEW t \in Tasks, TaskPosts(x, t) PROVE wpc' = wpc
    BY <2>5 DEF TaskPosts, workVars
  <2>6. UNCHANGED vars => wpc' = wpc
    BY DEF vars
  <2>7. QED
    BY <1>1, <1>2, <1>3, <2>0, <2>1, <2>2, <2>3, <2>4, <2>5, <2>6 DEF Next
<1>5. \/ isRunning' = isRunning /\ mtx' = mtx
      \/ \E u \in Users : Start(u) \/ Stop(u) \/ StopReturns(u)
  BY DEF Next, Work, RefPosts, Kill, Destroy, Delete, Post, RefPost, Take, Skip, Check, Call,
         Return, Leave, TaskKills, TaskPosts, loopVars, vars
<1>6. QED BY <1>1, <1>2, <1>3, <1>4, <1>5

\* The workers' steps leave the callers and the life of the loop alone.
LEMMA WorkersKeepLives ==
  ASSUME NEW w \in Workers,
         \/ Work(w) \/ TaskKills(w)
         \/ \E t \in Tasks : TaskPosts(w, t)
  PROVE  UNCHANGED <<mtx, upc, life, isRunning, uarg>>
BY DEF Work, Take, Skip, Check, Call, Return, Leave, TaskKills, TaskPosts, loopVars

\* The destructor begins when it is alone, and nothing but a LoopRef comes later.
LEMMA LivesInv == IInv /\ [Next]_vars => Lives'
<1> SUFFICES ASSUME IInv, [Next]_vars PROVE Lives'
  OBVIOUS
<1> USE EventLoopAssumption
<1>0. TypeOK /\ Lives
  BY DEF IInv
<1>a. upc \in [Users -> {"idle", "join", "ref", "destroy", "destroyJoin"}] /\ mtx \in Users \cup {NULL}
  BY <1>0 DEF TypeOK
<1>1. ASSUME NEW u \in Users, Start(u) PROVE Lives'
  BY <1>0, <1>a, <1>1 DEF Lives, Start, Owns, Joining, Destroying
<1>2. ASSUME NEW u \in Users, Stop(u) PROVE Lives'
  <2>1. CASE Owns(u) /\ upc' = [upc EXCEPT ![u] = "join"]
    BY <1>0, <1>a, <1>2, <2>1 DEF Lives, Stop, Owns, Joining, Destroying
  <2>2. CASE upc[u] = "destroy" /\ upc' = [upc EXCEPT ![u] = "destroyJoin"]
    BY <1>0, <1>a, <1>2, <2>2 DEF Lives, Stop, Joining, Destroying
  <2>3. QED BY <1>2, <2>1, <2>2 DEF Stop
<1>3. ASSUME NEW u \in Users, StopReturns(u) PROVE Lives'
  BY <1>0, <1>a, <1>3 DEF Lives, StopReturns, Joining, Destroying
<1>4. ASSUME NEW u \in Users, NEW t \in Tasks, Post(u, t) PROVE Lives'
  BY <1>0, <1>4 DEF Lives, Post, loopVars
<1>5. ASSUME NEW u \in Users, NEW t \in Tasks, RefPost(u, t) PROVE Lives'
  BY <1>0, <1>a, <1>5 DEF Lives, RefPost, loopVars, Joining, Destroying
<1>6. ASSUME NEW u \in Users, RefPosts(u) PROVE Lives'
  BY <1>0, <1>a, <1>6 DEF Lives, RefPosts, loopVars, Joining, Destroying
<1>7. ASSUME NEW u \in Users, Kill(u) PROVE Lives'
  BY <1>0, <1>7 DEF Lives, Kill, loopVars
<1>8. ASSUME NEW u \in Users, Destroy(u) PROVE Lives'
  BY <1>0, <1>a, <1>8 DEF Lives, Destroy, Owns, Joining, Destroying
<1>9. ASSUME NEW u \in Users, Delete(u) PROVE Lives'
  BY <1>0, <1>a, <1>9 DEF Lives, Delete, Joining, Destroying
<1>10. ASSUME NEW w \in Workers,
              Work(w) \/ TaskKills(w) \/ \E t \in Tasks : TaskPosts(w, t)
       PROVE  Lives'
  BY <1>0, <1>10, WorkersKeepLives DEF Lives
<1>11. CASE UNCHANGED vars
  BY <1>0, <1>11 DEF Lives, vars
<1>12. QED
  BY <1>1, <1>2, <1>3, <1>4, <1>5, <1>6, <1>7, <1>8, <1>9, <1>10, <1>11 DEF Next

\* Every way into the queue takes a task that is nowhere else.
LEMMA PostsInv == IInv /\ [Next]_vars => Posts'
<1> SUFFICES ASSUME IInv, [Next]_vars PROVE Posts'
  OBVIOUS
<1> USE EventLoopAssumption
<1>0. TypeOK /\ Posts
  BY DEF IInv
<1>a. /\ upc \in [Users -> {"idle", "join", "ref", "destroy", "destroyJoin"}]
      /\ uarg \in [Users -> Tasks \cup {NULL}]
      /\ queue \in Seq(Tasks) /\ begun \in Seq(Tasks)
      /\ NULL \notin Members(queue) \cup Members(begun)
  BY <1>0 DEF TypeOK, Members
\* A task nobody has goes to the end of the queue.
<1>b. ASSUME NEW t \in Tasks, Unposted(t), queue' = Append(queue, t),
             UNCHANGED <<begun, upc, uarg>>
      PROVE  Posts'
  <2>1. Members(queue') = Members(queue) \cup {t} /\ t \notin Members(queue)
    BY <1>a, <1>b, AppendMembers DEF Unposted
  <2>2. \A i, j \in DOMAIN queue' : queue'[i] = queue'[j] => i = j
    BY <1>0, <1>a, <1>b, <2>1, AppendDistinct DEF Posts
  <2>3. Members(begun') = Members(begun)
    BY <1>b
  <2>4. QED BY <1>0, <1>b, <2>1, <2>2, <2>3 DEF Posts, Unposted
\* Only the calls that have nothing to do with a LoopRef change.
<1>c. ASSUME UNCHANGED <<queue, begun, uarg>>,
             \A u \in Users : upc'[u] = "ref" <=> upc[u] = "ref"
      PROVE  Posts'
  BY <1>0, <1>c DEF Posts, Members
<1>1. ASSUME NEW u \in Users, Start(u) PROVE Posts'
  BY <1>c, <1>1 DEF Start, Leftover
<1>2. ASSUME NEW u \in Users, Stop(u) PROVE Posts'
  BY <1>a, <1>c, <1>2 DEF Stop, Owns
<1>3. ASSUME NEW u \in Users, StopReturns(u) PROVE Posts'
  BY <1>a, <1>c, <1>3 DEF StopReturns, workVars
<1>4. ASSUME NEW u \in Users, NEW t \in Tasks, Post(u, t) PROVE Posts'
  BY <1>b, <1>4 DEF Post, Enqueue, workVars
<1>5. ASSUME NEW u \in Users, NEW t \in Tasks, RefPost(u, t) PROVE Posts'
  <2>1. /\ UNCHANGED <<queue, begun>> /\ Unposted(t)
        /\ upc' = [upc EXCEPT ![u] = "ref"] /\ uarg' = [uarg EXCEPT ![u] = t]
    BY <1>5 DEF RefPost, workVars
  <2>2. Members(queue') = Members(queue) /\ Members(begun') = Members(begun)
    BY <2>1
  <2>3. t # NULL /\ \A v \in Users : uarg[v] # t
    BY <2>1 DEF Unposted
  <2>4. \A v \in Users : upc'[v] = "ref" <=> uarg'[v] # NULL
    BY <1>0, <1>a, <2>1, <2>3 DEF Posts
  <2>5. \A v \in Users : uarg'[v] \notin Members(queue') \cup Members(begun')
    BY <1>0, <1>a, <2>1, <2>2 DEF Posts, Unposted
  <2>6. \A v, x \in Users : uarg'[v] = uarg'[x] => v = x \/ uarg'[v] = NULL
    BY <1>0, <1>a, <2>1, <2>3 DEF Posts
  <2>7. QED BY <1>0, <2>1, <2>2, <2>4, <2>5, <2>6 DEF Posts
<1>6. ASSUME NEW u \in Users, RefPosts(u) PROVE Posts'
  <2>1. /\ upc[u] = "ref" /\ UNCHANGED begun
        /\ upc' = [upc EXCEPT ![u] = "idle"] /\ uarg' = [uarg EXCEPT ![u] = NULL]
        /\ queue' = Append(queue, uarg[u]) \/ queue' = queue
    BY <1>6 DEF RefPosts, Enqueue, workVars
  <2>2. /\ uarg[u] \in Tasks /\ uarg[u] \notin Members(queue) \cup Members(begun)
        /\ \A v \in Users \ {u} : uarg[v] # uarg[u]
    BY <1>0, <1>a, <2>1 DEF Posts
  <2>3. /\ Members(queue') \subseteq Members(queue) \cup {uarg[u]}
        /\ \A i, j \in DOMAIN queue' : queue'[i] = queue'[j] => i = j
    <3>1. CASE queue' = queue
      BY <1>0, <3>1 DEF Posts
    <3>2. CASE queue' = Append(queue, uarg[u])
      BY <1>0, <1>a, <2>2, <3>2, AppendMembers, AppendDistinct DEF Posts
    <3>3. QED BY <2>1, <3>1, <3>2
  <2>4. Members(begun') = Members(begun)
    BY <2>1
  <2>5. \A v \in Users : upc'[v] = "ref" <=> uarg'[v] # NULL
    BY <1>0, <1>a, <2>1 DEF Posts
  <2>6. Members(queue') \cap Members(begun') = {} /\ NULL \notin Members(queue')
    BY <1>0, <1>a, <2>2, <2>3, <2>4 DEF Posts
  <2>7. \A v \in Users : uarg'[v] \notin Members(queue') \cup Members(begun')
    BY <1>0, <1>a, <2>1, <2>2, <2>3, <2>4, <2>6 DEF Posts
  <2>8. \A v, x \in Users : uarg'[v] = uarg'[x] => v = x \/ uarg'[v] = NULL
    BY <1>0, <1>a, <2>1 DEF Posts
  <2>9. QED BY <2>3, <2>5, <2>6, <2>7, <2>8 DEF Posts
<1>7. ASSUME NEW u \in Users, Kill(u) PROVE Posts'
  BY <1>c, <1>7 DEF Kill, workVars
<1>8. ASSUME NEW u \in Users, Destroy(u) PROVE Posts'
  BY <1>a, <1>c, <1>8 DEF Destroy, Owns, workVars
<1>9. ASSUME NEW u \in Users, Delete(u) PROVE Posts'
  <2>1. /\ queue' = <<>> /\ UNCHANGED <<begun, uarg>>
        /\ upc[u] = "destroy" /\ upc' = [upc EXCEPT ![u] = "idle"]
    BY <1>9 DEF Delete, workVars
  <2>2. Members(queue') = {} /\ DOMAIN queue' = {} /\ Members(begun') = Members(begun)
    BY <2>1 DEF Members
  <2>3. QED BY <1>0, <1>a, <2>1, <2>2 DEF Posts
<1>10. ASSUME NEW w \in Workers, Take(w) PROVE Posts'
  <2>1. /\ queue # <<>> /\ queue' = Tail(queue) /\ begun' = Append(begun, Head(queue))
        /\ UNCHANGED <<upc, uarg>>
    BY <1>10 DEF Take
  <2>2. /\ Members(queue) = {Head(queue)} \cup Members(queue')
        /\ Head(queue) \in Tasks /\ Head(queue) \notin Members(queue')
        /\ \A i, j \in DOMAIN queue' : queue'[i] = queue'[j] => i = j
    BY <1>0, <1>a, <2>1, TailMembers DEF Posts
  <2>3. Members(begun') = Members(begun) \cup {Head(queue)}
    BY <1>a, <2>1, <2>2, AppendMembers
  <2>4. QED BY <1>0, <2>1, <2>2, <2>3 DEF Posts
<1>11. ASSUME NEW w \in Workers, Skip(w) \/ Check(w) \/ Call(w) \/ Return(w) \/ Leave(w)
       PROVE  Posts'
  BY <1>c, <1>11 DEF Skip, Check, Call, Return, Leave
<1>12. ASSUME NEW w \in Workers, TaskKills(w) PROVE Posts'
  BY <1>c, <1>12 DEF TaskKills, workVars
<1>13. ASSUME NEW w \in Workers, NEW t \in Tasks, TaskPosts(w, t) PROVE Posts'
  BY <1>b, <1>13 DEF TaskPosts, Enqueue, workVars
<1>14. CASE UNCHANGED vars
  BY <1>c, <1>14 DEF vars
<1>15. QED
  BY <1>1, <1>2, <1>3, <1>4, <1>5, <1>6, <1>7, <1>8, <1>9, <1>10, <1>11, <1>12, <1>13, <1>14
     DEF Next, Work

\* Both ways for a worker to be done with its task.
LEMMA EndedWorks ==
  ASSUME TypeOK, Works, NEW w \in Workers, wpc[w] \in {"got", "body"},
         ended' = ended \cup {wtask[w]}, wtask' = [wtask EXCEPT ![w] = NULL], begun' = begun
  PROVE  Works'
<1>0. wtask \in [Workers -> Tasks \cup {NULL}] /\ w \in Busy /\ wtask[w] # NULL
  BY DEF TypeOK, Busy
<1>1. Busy' = Busy \ {w} /\ \A x \in Busy \ {w} : wtask'[x] = wtask[x] /\ wtask[x] # wtask[w]
  BY <1>0 DEF Busy, Works
<1>2. Members(begun') = Members(begun)
  OBVIOUS
<1>3. ended' \subseteq Members(begun')
  BY <1>0, <1>2 DEF Works
<1>4. \A x \in Busy' : wtask'[x] \in Members(begun') \ ended'
  BY <1>1, <1>2 DEF Works
<1>5. \A x, v \in Busy' : wtask'[x] = wtask'[v] => x = v
  BY <1>1 DEF Works
<1>6. \A t \in Members(begun') \ ended' : \E x \in Busy' : wtask'[x] = t
  BY <1>1, <1>2 DEF Works
<1>7. QED BY <1>3, <1>4, <1>5, <1>6 DEF Works

\* A worker takes one task when it has none and gives it up when that ends.
LEMMA WorksInv == IInv /\ [Next]_vars => Works'
<1> SUFFICES ASSUME IInv, [Next]_vars PROVE Works'
  OBVIOUS
<1> USE EventLoopAssumption
<1>0. TypeOK /\ Works /\ Posts
  BY DEF IInv
<1>a. wtask \in [Workers -> Tasks \cup {NULL}] /\ queue \in Seq(Tasks) /\ begun \in Seq(Tasks)
  BY <1>0 DEF TypeOK
<1>b. ASSUME UNCHANGED <<wtask, begun, ended>> PROVE Works'
  BY <1>0, <1>b DEF Works, Busy, Members
<1>1. ASSUME NEW u \in Users,
             \/ Start(u) \/ Stop(u) \/ StopReturns(u) \/ RefPosts(u)
             \/ Kill(u) \/ Destroy(u) \/ Delete(u)
             \/ \E t \in Tasks : Post(u, t) \/ RefPost(u, t)
      PROVE  Works'
  BY <1>b, <1>1 DEF Start, Stop, StopReturns, RefPosts, Kill, Destroy, Delete, Post, RefPost, workVars
<1>2. ASSUME NEW w \in Workers, Take(w) PROVE Works'
  <2> DEFINE t == Head(queue)
  <2>1. /\ wpc[w] = "ready" /\ queue # <<>> /\ ended' = ended
        /\ begun' = Append(begun, t) /\ wtask' = [wtask EXCEPT ![w] = t]
    BY <1>2 DEF Take
  <2>2. t \in Tasks /\ t \notin Members(begun)
    BY <1>0, <1>a, <2>1, TailMembers DEF Posts
  <2>3. Members(begun') = Members(begun) \cup {t}
    BY <1>a, <2>1, <2>2, AppendMembers
  <2>4. w \notin Busy
    BY <1>0, <2>1 DEF TypeOK, Busy
  <2> HIDE DEF t
  <2>5. Busy' = Busy \cup {w} /\ wtask'[w] = t /\ \A x \in Busy : wtask'[x] = wtask[x]
    BY <1>a, <2>1, <2>2, <2>4 DEF Busy
  <2>6. ended' \subseteq Members(begun') /\ t \notin ended'
    BY <1>0, <2>1, <2>2, <2>3 DEF Works
  <2>7. \A x \in Busy' : wtask'[x] \in Members(begun') \ ended'
    BY <1>0, <2>1, <2>3, <2>5, <2>6 DEF Works
  <2>8. \A x, v \in Busy' : wtask'[x] = wtask'[v] => x = v
    BY <1>0, <2>2, <2>5 DEF Works
  <2>9. \A s \in Members(begun') \ ended' : \E x \in Busy' : wtask'[x] = s
    BY <1>0, <2>1, <2>3, <2>5 DEF Works
  <2>10. QED BY <2>6, <2>7, <2>8, <2>9 DEF Works
<1>3. ASSUME NEW w \in Workers, Skip(w) \/ Return(w) PROVE Works'
  BY <1>0, <1>3, EndedWorks DEF Skip, Return
<1>4. ASSUME NEW w \in Workers,
             \/ Check(w) \/ Call(w) \/ Leave(w) \/ TaskKills(w)
             \/ \E t \in Tasks : TaskPosts(w, t)
      PROVE  Works'
  BY <1>b, <1>4 DEF Check, Call, Leave, TaskKills, TaskPosts, workVars
<1>5. CASE UNCHANGED vars
  BY <1>b, <1>5 DEF vars
<1>6. QED BY <1>1, <1>2, <1>3, <1>4, <1>5 DEF Next, Work

\* On a loop with one thread two workers with a task are the same worker.
LEMMA OneWorker ==
  ASSUME TypeOK, Cardinality(threads) = 1,
         NEW w \in Workers, NEW v \in Workers, wpc[w] # "none", wpc[v] # "none"
  PROVE  w = v
<1>1. IsFiniteSet(threads) /\ w \in threads /\ v \in threads
  BY EventLoopAssumption, FS_Subset DEF TypeOK
<1>2. PICK x : threads = {x}
  BY <1>1, FS_Singleton
<1>3. QED BY <1>1, <1>2

\* A worker that has looked at the token is not at the same time in a task.
LEMMA CheckedInv == IInv /\ [Next]_vars => Checked'
<1> SUFFICES ASSUME IInv, [Next]_vars, Cardinality(threads') = 1, NEW w \in Workers,
                    wpc'[w] = "checked", wtask'[w] \in Guarded
             PROVE  owner' # "task"
  BY DEF Checked
<1> USE EventLoopAssumption
<1>0. TypeOK /\ Checked /\ threads' = threads
  BY DEF IInv, Next, Work, Start, Stop, StopReturns, RefPosts, Kill, Destroy, Delete, Post,
         RefPost, Take, Skip, Check, Call, Return, Leave, TaskKills, TaskPosts, loopVars, vars
<1>a. wpc \in [Workers -> {"none", "ready", "got", "checked", "body"}]
  BY <1>0 DEF TypeOK
<1>b. ASSUME wpc[w] = "checked", wtask'[w] = wtask[w], owner' = owner PROVE owner' # "task"
  BY <1>0, <1>b DEF Checked
<1>1. ASSUME NEW u \in Users, Start(u) PROVE FALSE
  BY <1>1 DEF Start
<1>2. ASSUME NEW u \in Users,
             \/ Stop(u) \/ StopReturns(u) \/ RefPosts(u) \/ Destroy(u) \/ Delete(u)
             \/ \E t \in Tasks : Post(u, t) \/ RefPost(u, t)
      PROVE  owner' # "task"
  BY <1>b, <1>2 DEF Stop, StopReturns, RefPosts, Destroy, Delete, Post, RefPost, workVars
<1>3. ASSUME NEW u \in Users, Kill(u) PROVE owner' # "task"
  BY <1>3 DEF Kill
<1>4. ASSUME NEW x \in Workers, Check(x) PROVE owner' # "task"
  <2>1. CASE x = w
    BY <1>a, <1>4, <2>1 DEF Check, Skipped
  <2>2. CASE x # w
    BY <1>a, <1>b, <1>4, <2>2 DEF Check
  <2>3. QED BY <2>1, <2>2
<1>5. ASSUME NEW x \in Workers, Take(x) \/ Skip(x) \/ Call(x) \/ Return(x) \/ Leave(x)
      PROVE  owner' # "task"
  <2>1. x # w /\ wpc[w] = "checked" /\ wtask'[w] = wtask[w] /\ owner' = owner
    BY <1>a, <1>0, <1>5 DEF TypeOK, Take, Skip, Call, Return, Leave
  <2>2. QED BY <1>b, <2>1
<1>6. ASSUME NEW x \in Workers, TaskKills(x) PROVE owner' # "task"
  <2>1. wpc[x] = "body" /\ wpc[w] = "checked"
    BY <1>6 DEF TaskKills, workVars
  <2>2. x = w
    BY <1>0, <2>1, OneWorker
  <2>3. QED BY <2>1, <2>2
<1>7. ASSUME NEW x \in Workers, NEW t \in Tasks, TaskPosts(x, t) PROVE owner' # "task"
  BY <1>b, <1>7 DEF TaskPosts, workVars
<1>8. CASE UNCHANGED vars
  BY <1>b, <1>8 DEF vars
<1>9. QED BY <1>1, <1>2, <1>3, <1>4, <1>5, <1>6, <1>7, <1>8 DEF Next, Work

-----------------------------------------------------------------------------
(* The theorems.                                                           *)

\* The invariant holds at first and is kept by every step.
LEMMA InitInv == Init => IInv
<1> SUFFICES ASSUME Init PROVE IInv
  OBVIOUS
<1>1. Members(<<>>) = {} /\ DOMAIN <<>> = {}
  BY DEF Members
<1>2. TypeOK
  <2>1. queue \in Seq(Tasks) /\ begun \in Seq(Tasks) /\ ended \subseteq Tasks
    BY DEF Init
  <2>2. /\ wpc \in [Workers -> {"none", "ready", "got", "checked", "body"}]
        /\ wtask \in [Workers -> Tasks \cup {NULL}]
        /\ \A w \in Workers : wpc[w] = "none" /\ wtask[w] = NULL
    BY DEF Init
  <2>3. /\ upc \in [Users -> {"idle", "join", "ref", "destroy", "destroyJoin"}]
        /\ uarg \in [Users -> Tasks \cup {NULL}] /\ mtx \in Users \cup {NULL}
    BY DEF Init
  <2>4. /\ threads \subseteq Workers /\ isRunning \in BOOLEAN /\ stopped \in BOOLEAN
        /\ dangling \in BOOLEAN
    BY DEF Init
  <2>5. life \in {"up", "dying", "gone"} /\ owner \in {"alive", "task", "user"}
    BY DEF Init
  <2>6. QED BY <2>1, <2>2, <2>3, <2>4, <2>5 DEF TypeOK
<1>3. Lives
  BY EventLoopAssumption DEF Init, Lives, Joining, Destroying
<1>4. Posts
  BY EventLoopAssumption, <1>1 DEF Init, Posts
<1>5. Works
  BY <1>1 DEF Init, Works, Busy
<1>6. QED BY <1>2, <1>3, <1>4, <1>5 DEF Init, IInv, QuietWhenStopped, Checked

LEMMA Invariant == Spec => []IInv
<1>1. IInv /\ [Next]_vars => IInv'
  BY TypeInv, QuietInv, LivesInv, PostsInv, WorksInv, CheckedInv DEF IInv
<1>2. QED BY InitInv, <1>1, PTL DEF Spec

\* Every reachable state of a loop with any number of users, workers and
\* tasks is well typed: no worker runs that the loop was not made with, and
\* exactly those with a handler have a task (Context, loop.cpp).
THEOREM TypeCorrect == Spec => []TypeOK
<1>1. IInv => TypeOK
  BY DEF IInv
<1>2. QED BY Invariant, <1>1, PTL

\* stop() and the destructor leave no worker behind (LoopTraits::stop,
\* loop.cpp): what a task uses may be freed once they have returned.
THEOREM StopLeavesQuiet == Spec => []QuietWhenStopped
<1>1. IInv => QuietWhenStopped
  BY DEF IInv
<1>2. QED BY Invariant, <1>1, PTL

\* On a loop with one thread a guarded task does not begin after its owner
\* has died there (Loop::post with a token, loop.h).
THEOREM DeadAreNotCalled == Spec => DeadOnLoopStaysDead
<1> DEFINE Called == \A w \in Workers :
             wpc[w] # "body" /\ wpc'[w] = "body" /\ wtask'[w] \in Guarded /\ Cardinality(threads) = 1
             => owner # "task"
<1>1. ASSUME IInv, [Next]_vars PROVE Called
  <2> SUFFICES ASSUME NEW w \in Workers, wpc[w] # "body", wpc'[w] = "body",
                      wtask'[w] \in Guarded, Cardinality(threads) = 1
               PROVE  owner # "task"
    OBVIOUS
  <2>1. wpc \in [Workers -> {"none", "ready", "got", "checked", "body"}]
    BY <1>1 DEF IInv, TypeOK
  <2>2. ~ UNCHANGED wpc
    OBVIOUS
  <2>3. \/ \E u \in Users : Start(u)
        \/ \E x \in Workers : Work(x)
    BY <1>1, <2>2 DEF Next, Stop, StopReturns, RefPosts, Kill, Destroy, Delete, Post, RefPost,
         TaskKills, TaskPosts, workVars, vars
  <2>4. Call(w)
    BY <2>1, <2>3 DEF Start, Work, Take, Skip, Check, Call, Return, Leave
  <2>5. wpc[w] = "checked" /\ wtask[w] \in Guarded
    BY <2>4 DEF Call
  <2>6. QED BY <1>1, <2>5 DEF IInv, Checked
<1>2. QED BY Invariant, <1>1, PTL DEF Spec, DeadOnLoopStaysDead

-----------------------------------------------------------------------------
(* The loop implements the queue.                                          *)

\* The operators of the abstract queue are those of the loop.
LEMMA QueueMembers == \A s : Queue!Members(s) = Members(s)
BY DEF Queue!Members, Members

LEMMA QueueCardinality == \A S : Queue!Cardinality(S) = Cardinality(S)
BY DEF Queue!Cardinality, Cardinality

\* While a worker is about to take a task, fewer are under way than the loop
\* has threads.
LEMMA WorkerToSpare ==
  ASSUME TypeOK, Works, NEW w \in Workers, wpc[w] = "ready"
  PROVE  Cardinality(Members(begun) \ ended) < Cardinality(threads)
<1> DEFINE T == Members(begun) \ ended
           f == [x \in Busy |-> wtask[x]]
<1>1. IsFiniteSet(threads) /\ w \in threads /\ Busy \subseteq threads \ {w}
  BY EventLoopAssumption, FS_Subset DEF TypeOK, Busy
<1>2. /\ IsFiniteSet(threads \ {w})
      /\ Cardinality(threads \ {w}) = Cardinality(threads) - 1
  BY <1>1, FS_RemoveElement
<1>3. IsFiniteSet(Busy) /\ Cardinality(Busy) <= Cardinality(threads \ {w})
  BY <1>1, <1>2, FS_Subset
<1>4. f \in Surjection(Busy, T)
  BY DEF Works, Surjection
<1>5. IsFiniteSet(T) /\ Cardinality(T) <= Cardinality(Busy)
  BY <1>3, <1>4, FS_Surjection
<1>6. /\ Cardinality(T) \in Nat /\ Cardinality(Busy) \in Nat
      /\ Cardinality(threads) \in Nat /\ Cardinality(threads \ {w}) \in Nat
  BY <1>1, <1>2, <1>3, <1>5, FS_CardinalityType
<1>7. QED BY <1>2, <1>3, <1>5, <1>6

\* A new loop is an empty, open queue.
LEMMA QueueInit == Init => Queue!QInit
<1> SUFFICES ASSUME Init PROVE Queue!QInit
  OBVIOUS
<1>1. IsFiniteSet(threads)
  BY EventLoopAssumption, FS_Subset DEF Init
<1>2. Cardinality(threads) \in Nat
  BY <1>1, FS_CardinalityType
<1>3. QED BY <1>2 DEF Init, Queue!QInit

\* Every step of the loop is one of the queue or leaves it as it is.
LEMMA QueueNext == IInv /\ [Next]_vars => [Queue!QNext]_(Queue!qvars)
<1> SUFFICES ASSUME IInv, [Next]_vars PROVE Queue!QNext \/ UNCHANGED Queue!qvars
  OBVIOUS
<1> USE EventLoopAssumption
<1>0. TypeOK /\ QuietWhenStopped /\ Lives /\ Posts /\ Works
  BY DEF IInv
\* A worker that works keeps the loop from being gone.
<1>a. ASSUME NEW w \in Workers, wpc[w] # "none" PROVE life # "gone"
  <2>1. ASSUME life = "gone" PROVE ~ isRunning /\ mtx = NULL
    BY <1>0, <2>1 DEF Lives, TypeOK, Joining
  <2>2. QED BY <1>0, <1>a, <2>1 DEF QuietWhenStopped
<1>b. ASSUME UNCHANGED <<threads, queue, begun, ended>>, life' # "gone" <=> life # "gone"
      PROVE  UNCHANGED Queue!qvars
  BY <1>b DEF Queue!qvars
<1>c. ASSUME NEW t \in Tasks, t \notin Members(queue) \cup Members(begun), life # "gone",
             queue' = Append(queue, t), UNCHANGED <<threads, begun, ended, life>>
      PROVE  Queue!QNext
  BY <1>c, QueueMembers DEF Queue!QNext, Queue!Accept
<1>1. ASSUME NEW u \in Users, Start(u) \/ Stop(u) \/ StopReturns(u) \/ Kill(u)
      PROVE  UNCHANGED Queue!qvars
  BY <1>b, <1>1 DEF Start, Leftover, Stop, StopReturns, Kill, loopVars, workVars
<1>2. ASSUME NEW u \in Users, NEW t \in Tasks, Post(u, t) PROVE Queue!QNext
  BY <1>c, <1>2 DEF Post, Owns, Unposted, Enqueue, loopVars, workVars
<1>3. ASSUME NEW u \in Users, NEW t \in Tasks, RefPost(u, t) PROVE UNCHANGED Queue!qvars
  BY <1>b, <1>3 DEF RefPost, loopVars, workVars
<1>4. ASSUME NEW u \in Users, RefPosts(u) PROVE Queue!QNext \/ UNCHANGED Queue!qvars
  <2>1. uarg[u] \in Tasks /\ uarg[u] \notin Members(queue) \cup Members(begun)
    BY <1>0, <1>4 DEF RefPosts, Posts, TypeOK
  <2>2. CASE life # "gone" /\ queue' = Enqueue(queue, uarg[u])
    BY <1>c, <1>4, <2>1, <2>2 DEF RefPosts, Enqueue, loopVars, workVars
  <2>3. CASE queue' = queue
    BY <1>b, <1>4, <2>3 DEF RefPosts, loopVars, workVars
  <2>4. QED BY <1>4, <2>2, <2>3 DEF RefPosts
<1>5. ASSUME NEW u \in Users, Destroy(u) PROVE UNCHANGED Queue!qvars
  BY <1>b, <1>5 DEF Destroy, Owns, workVars
<1>6. ASSUME NEW u \in Users, Delete(u) PROVE Queue!Close
  <2>1. life = "dying" /\ ~ isRunning /\ \A v \in Users : upc[v] \notin Joining
    BY <1>0, <1>6 DEF Delete, Lives, Destroying, Joining
  <2>2. mtx = NULL
    BY <1>0, <2>1 DEF Lives, TypeOK
  <2>3. Members(begun) \ ended = {}
    BY <1>0, <2>1, <2>2, QuietIdle DEF Works
  <2>4. QED BY <1>6, <2>1, <2>3, QueueMembers DEF Delete, workVars, Queue!Close, Queue!UnderWay
<1>7. ASSUME NEW w \in Workers, Take(w) PROVE Queue!Begin
  <2>1. Cardinality(Members(begun) \ ended) < Cardinality(threads)
    BY <1>0, <1>7, WorkerToSpare DEF Take
  <2>2. life # "gone"
    BY <1>a, <1>7 DEF Take
  <2>3. Queue!UnderWay = Members(begun) \ ended
    BY QueueMembers DEF Queue!UnderWay
  <2>4. /\ queue # <<>> /\ queue' = Tail(queue) /\ begun' = Append(begun, Head(queue))
        /\ Cardinality(threads') = Cardinality(threads) /\ ended' = ended /\ life' = life
    BY <1>7 DEF Take, loopVars
  <2>5. QED BY <2>1, <2>2, <2>3, <2>4, QueueCardinality DEF Queue!Begin
<1>8. ASSUME NEW w \in Workers, Skip(w) \/ Return(w) PROVE Queue!QNext
  <2>1. wtask[w] \in Tasks /\ wtask[w] \in Members(begun) \ ended
    BY <1>0, <1>8 DEF Skip, Return, Works, TypeOK, Busy
  <2>2. Queue!End(wtask[w])
    BY <1>8, <2>1, QueueMembers DEF Skip, Return, loopVars, Queue!End, Queue!UnderWay
  <2>3. QED BY <2>1, <2>2 DEF Queue!QNext
<1>9. ASSUME NEW w \in Workers, Check(w) \/ Call(w) \/ Leave(w) \/ TaskKills(w)
      PROVE  UNCHANGED Queue!qvars
  BY <1>b, <1>9 DEF Check, Call, Leave, TaskKills, loopVars, workVars
<1>10. ASSUME NEW w \in Workers, NEW t \in Tasks, TaskPosts(w, t) PROVE Queue!QNext
  <2>1. life # "gone"
    BY <1>a, <1>10 DEF TaskPosts
  <2>2. QED BY <1>c, <1>10, <2>1 DEF TaskPosts, Unposted, Enqueue, loopVars, workVars
<1>11. CASE UNCHANGED vars
  BY <1>b, <1>11 DEF vars
<1>12. QED
  BY <1>1, <1>2, <1>3, <1>4, <1>5, <1>6, <1>7, <1>8, <1>9, <1>10, <1>11
     DEF Next, Work, Queue!QNext

\* For any number of workers and tasks, and over any sequence of starts,
\* stops and posts, the loop is a queue that loses and repeats nothing and
\* begins tasks in the order of the posts (LoopTraits, loop.cpp).
THEOREM LoopIsQueue == Spec => ImplementsQueue
<1>1. QED BY QueueInit, QueueNext, Invariant, PTL DEF Spec, ImplementsQueue, Queue!QSpec


-----------------------------------------------------------------------------
(***************************************************************************)
(* Proofs about ModuleLifecycle, for any keys and configurations: modules  *)
(* come up after what they need and go down before it, and priorities give *)
(* way to needs only.                                                      *)
(*                                                                         *)
(* The inductive invariant Lined adds to the types                         *)
(*   - Led:     each slot's needs have slots before it;                    *)
(*   - Chosen:  the last slot given was the first of those to be had;      *)
(*   - Walked:  what the walk in progress has left behind it.              *)
(***************************************************************************)

-----------------------------------------------------------------------------
(* The order of the modules.                                               *)

\* The slots before the i-th.
Earlier(i) == {order[j] : j \in 1 .. i - 1}

\* What a module firmly needs has a slot before it, and no module has two.
Led ==
  /\ \A i, j \in DOMAIN order : order[i] = order[j] => i = j
  /\ \A i \in DOMAIN order : Life!Firm(order[i]) \subseteq Earlier(i)

\* The last slot was given to the first of those that could have it, which
\* all that do not need it could already.
Chosen ==
  /\ Life!InversionsForced
  /\ phase = "resolve" =>
       /\ ~ cyclic
       /\ \A i \in 1 .. Len(order) - 1 :
            Life!Before(order[i + 1], order[i]) => order[i] \in Life!Needs(order[i + 1])
       /\ order # <<>> => \A k \in config.enabled \ Life!Placed :
            Life!Needs(k) \subseteq Life!Placed \ {order[Len(order)]} => ~ Life!Before(k, order[Len(order)])

\* What the walks have left behind them.
Passed(i) == IF phase \in {"create", "init"} THEN i < at ELSE i > at
Has(s) == \A i \in DOMAIN order : Passed(i) /\ order[i] \in made => mstate[order[i]] = s
Walked ==
  /\ made \subseteq Life!Placed
  /\ phase \in {"create", "init"} => at >= 1
  /\ phase \in {"none", "ready", "running", "deinit", "delete"} => at <= Len(order)
  /\ phase \in {"none", "resolve"} => made = {}
  /\ phase = "init" => Has("INIT")
  /\ phase = "ready" => Has("READY")
  /\ phase = "deinit" => Has("DEINIT")
  /\ phase = "delete" => \A i \in DOMAIN order : i > at => order[i] \notin made

Lined == Life!TypeOK /\ config \in Configs /\ Led /\ Chosen /\ Walked

-----------------------------------------------------------------------------
(* A parent is before its children in the order of priority and depth.     *)

LEMMA LeastOf ==
  ASSUME NEW T \in SUBSET Nat, T # {}
  PROVE  \E m \in T : \A k \in T : m <= k
<1> DEFINE R == {ss \in Nat \X Nat : ss[1] < ss[2]}
<1>1. IsWellFoundedOn(R, Nat)
  <2>1. OpToRel(<, Nat) = R
    BY Zenon DEF OpToRel
  <2>2. QED BY <2>1, NatLessThanWellFounded, Zenon
<1>2. PICK m \in T : \A k \in T : ~ (<<k, m>> \in R)
  BY <1>1, WFMin, Zenon
<1>3. m \in Nat /\ \A k \in T : k \in Nat /\ ~ (k < m)
  BY <1>2
<1>4. QED BY <1>3

LEMMA LargestOf ==
  ASSUME NEW S, IsFiniteSet(S), S # {}, NEW f \in [S -> Int]
  PROVE  \E x \in S : \A y \in S : f[y] <= f[x]
<1> DEFINE Good(A) == \E x \in A : \A y \in A : f[y] <= f[x]
<1> DEFINE C == {n \in Nat : \E A \in SUBSET S : A # {} /\ Cardinality(A) = n /\ ~ Good(A)}
<1> SUFFICES ASSUME ~ Good(S) PROVE FALSE
  OBVIOUS
<1>1. Cardinality(S) \in C
  BY FS_CardinalityType
<1>2. PICK n \in C : \A k \in C : n <= k
  <2>1. C \subseteq Nat /\ C # {}
    BY <1>1
  <2> HIDE DEF C
  <2>2. QED BY <2>1, LeastOf
<1>3. PICK A \in SUBSET S : A # {} /\ Cardinality(A) = n /\ ~ Good(A)
  BY <1>2
<1>4. PICK x \in A : TRUE
  BY <1>3
<1>5. IsFiniteSet(A) /\ IsFiniteSet(A \ {x}) /\ Cardinality(A \ {x}) = n - 1 /\ n \in Nat
  BY <1>2, <1>3, <1>4, FS_Subset, FS_RemoveElement
<1>6. Cardinality(A \ {x}) \in Nat
  BY <1>5, FS_CardinalityType
<1>7. A \ {x} = {} => Good(A)
  BY <1>4
<1>8. A \ {x} # {} => Good(A \ {x})
  <2>1. n - 1 \notin C
    BY <1>2, <1>5
  <2>2. n - 1 \in Nat
    BY <1>5, <1>6
  <2>3. QED BY <2>1, <2>2, <1>3, <1>5
<1>9. Good(A \ {x}) => Good(A)
  <2>1. SUFFICES ASSUME NEW m \in A \ {x}, \A y \in A \ {x} : f[y] <= f[m] PROVE Good(A)
    OBVIOUS
  <2>2. CASE f[x] <= f[m]
    BY <2>1, <2>2
  <2>3. CASE ~ (f[x] <= f[m])
    <3>1. \A y \in A : f[y] \in Int /\ f[x] \in Int /\ f[m] \in Int
      BY <1>3, <1>4
    <3>2. \A y \in A : f[y] <= f[x]
      BY <2>1, <2>3, <3>1
    <3>3. QED BY <3>2
  <2>4. QED BY <2>2, <2>3
<1>10. QED BY <1>3, <1>7, <1>8, <1>9

\* Each enabled key has an effective priority.
LEMMA EffectiveOf ==
  ASSUME config \in Configs, NEW k \in config.enabled
  PROVE  \E a \in {k} \cup (Ancestors[k] \cap config.enabled) : Life!Effective(k, config.priority[a])
<1> DEFINE line == {k} \cup (Ancestors[k] \cap config.enabled)
<1>1. IsFiniteSet(Keys) /\ config.enabled \subseteq Keys /\ config.priority \in [Keys -> Int]
  BY LifecycleAssumption
<1>2. line \subseteq Keys /\ IsFiniteSet(line) /\ line # {}
  BY <1>1, FS_Subset
<1> DEFINE f == [a \in line |-> config.priority[a]]
<1>3. f \in [line -> Int]
  BY <1>1, <1>2
<1>4. PICK a \in line : \A b \in line : f[b] <= f[a]
  <2> HIDE DEF line, f
  <2>1. QED BY <1>2, <1>3, LargestOf
<1>5. \A b \in line : config.priority[b] <= config.priority[a]
  BY <1>4
<1>6. QED BY <1>4, <1>5 DEF Life!Effective, Life!Enabled

LEMMA SameCount == \A S : Life!Cardinality(S) = Cardinality(S)
BY Zenon DEF Life!Cardinality, Cardinality

LEMMA ParentBefore ==
  ASSUME config \in Configs, NEW k \in config.enabled, NEW a \in Life!Parent(k)
  PROVE  Life!Before(a, k)
<1>1. a \in Ancestors[k] /\ a \in config.enabled
  BY DEF Life!Parent, Life!Enabled
<1>2. /\ IsFiniteSet(Keys) /\ config.enabled \subseteq Keys /\ config.priority \in [Keys -> Int]
      /\ Ancestors[k] \subseteq Keys /\ a \notin Ancestors[a] /\ Ancestors[a] \subseteq Ancestors[k]
  BY <1>1, LifecycleAssumption
<1> DEFINE line(x) == {x} \cup (Ancestors[x] \cap config.enabled)
<1>3. line(a) \subseteq line(k)
  BY <1>1, <1>2
<1>4. PICK x \in line(a) : Life!Effective(a, config.priority[x])
  BY <1>1, EffectiveOf
<1>5. PICK y \in line(k) : Life!Effective(k, config.priority[y])
  BY EffectiveOf
<1>6. x \in config.enabled /\ y \in config.enabled
  BY <1>1
<1>7. config.priority[x] <= config.priority[y]
  BY <1>3, <1>5 DEF Life!Effective, Life!Enabled
<1>8. Life!Depth(a) < Life!Depth(k)
  <2>1. IsFiniteSet(Ancestors[k])
    BY <1>2, FS_Subset
  <2>2. IsFiniteSet(Ancestors[a]) /\ Cardinality(Ancestors[a]) <= Cardinality(Ancestors[k])
        /\ (Cardinality(Ancestors[k]) = Cardinality(Ancestors[a]) => Ancestors[k] = Ancestors[a])
    BY <1>2, <2>1, FS_Subset
  <2>3. Cardinality(Ancestors[a]) \in Nat /\ Cardinality(Ancestors[k]) \in Nat
    BY <2>1, <2>2, FS_CardinalityType
  <2>4. Ancestors[k] # Ancestors[a]
    BY <1>1, <1>2
  <2>5. Cardinality(Ancestors[a]) < Cardinality(Ancestors[k])
    BY <2>2, <2>3, <2>4
  <2>6. \A b \in Keys : Life!Depth(b) = Cardinality(Ancestors[b])
    BY SameCount DEF Life!Depth
  <2>7. a \in Keys /\ k \in Keys
    BY <1>1, <1>2
  <2>8. QED BY <2>5, <2>6, <2>7
<1>9. config.priority[x] \in Int /\ config.priority[y] \in Int
  BY <1>2, <1>6
<1> DEFINE P == {config.priority[b] : b \in config.enabled}
<1>10. config.priority[x] \in P /\ config.priority[y] \in P
  BY <1>6
<1>11. config.priority[x] < config.priority[y]
       \/ (config.priority[x] = config.priority[y] /\ Life!Depth(a) < Life!Depth(k))
  BY <1>7, <1>8, <1>9
<1>12. QED BY <1>4, <1>5, <1>10, <1>11 DEF Life!Before, Life!Enabled

-----------------------------------------------------------------------------
(* The invariant is kept.                                                  *)

LEMMA LinedAtFirst == Life!Init => Lined
<1> SUFFICES ASSUME Life!Init PROVE Lined
  OBVIOUS
<1>1. order = <<>> /\ Len(order) = 0 /\ DOMAIN order = {} /\ \A S : <<>> \in Seq(S)
  BY DEF Life!Init
<1>2. config \in Configs /\ config.enabled \subseteq Keys /\ MaxRounds \in Nat
  BY LifecycleAssumption DEF Life!Init
<1>3. Life!TypeOK
  <2>1. order \in Seq(config.enabled) /\ at \in 0 .. Len(order) + 1
    BY <1>1 DEF Life!Init
  <2>2. phase \in Life!Phases /\ cyclic \in BOOLEAN /\ quit \in BOOLEAN
    BY Zenon DEF Life!Init, Life!Phases
  <2>3. mstate \in [Keys -> Life!States]
    BY DEF Life!Init, Life!States
  <2>4. made \subseteq config.enabled /\ rounds \in 0 .. MaxRounds
    BY <1>2 DEF Life!Init
  <2>5. QED BY <1>2, <2>1, <2>2, <2>3, <2>4 DEF Life!TypeOK
<1>4. Led /\ Walked
  BY <1>1 DEF Life!Init, Led, Walked, Has
<1>5. Chosen
  BY <1>1 DEF Life!Init, Chosen, Life!InversionsForced
<1>6. QED BY <1>2, <1>3, <1>4, <1>5 DEF Lined

\* While order and configuration stay, so does what is said of them.
LEMMA OrderStands ==
  ASSUME Led, Chosen, config' = config, order' = order, cyclic' = cyclic, phase' = "resolve" => phase = "resolve",
         phase = "resolve" => phase' = "resolve"
  PROVE  Led' /\ Chosen'
<1>1. Led'
  BY DEF Led, Earlier, Life!Firm, Life!Needs, Life!Parent, Life!Enabled
<1>2. /\ \A k : Life!Needs(k)' = Life!Needs(k)
      /\ \A j, k : Life!Before(j, k)' <=> Life!Before(j, k)
      /\ Life!Placed' = Life!Placed
  BY DEF Life!Before, Life!Effective, Life!Depth, Life!Needs, Life!Parent, Life!Enabled, Life!Placed
<1>3. Life!InversionsForced'
  BY <1>2 DEF Chosen, Life!InversionsForced
<1>4. Chosen'
  BY <1>2, <1>3 DEF Chosen
<1>5. QED BY <1>1, <1>4

LEMMA PlaceKeeps ==
  ASSUME Lined, NEW k \in Keys, Life!Place(k)
  PROVE  Lined'
<1>1. /\ phase = "resolve" /\ ~ cyclic /\ order' = Append(order, k)
      /\ UNCHANGED <<phase, config, cyclic, at, made, mstate, quit, rounds>>
  BY DEF Life!Place, Lined, Chosen
<1>2. /\ k \in config.enabled \ Life!Placed /\ Life!Needs(k) \subseteq Life!Placed
      /\ \A j \in config.enabled : Life!Placeable(j) => ~ Life!Before(j, k)
  BY DEF Life!Place, Life!Placeable, Life!First, Life!Enabled
<1>3. /\ order \in Seq(config.enabled) /\ order' \in Seq(config.enabled)
      /\ Len(order') = Len(order) + 1 /\ Len(order) \in Nat
      /\ DOMAIN order = 1 .. Len(order) /\ DOMAIN order' = 1 .. Len(order) + 1
      /\ order'[Len(order) + 1] = k /\ \A i \in 1 .. Len(order) : order'[i] = order[i]
  BY <1>1, <1>2 DEF Lined, Life!TypeOK
<1>4. Life!TypeOK'
  BY <1>1, <1>3 DEF Lined, Life!TypeOK, Life!Phases, Life!States
<1>5. Life!Placed' = Life!Placed \cup {k}
  BY <1>3 DEF Life!Placed
<1>6. /\ \A j : Life!Needs(j)' = Life!Needs(j) /\ Life!Firm(j)' = Life!Needs(j) /\ Life!Firm(j) = Life!Needs(j)
      /\ \A j, l : Life!Before(j, l)' <=> Life!Before(j, l)
  BY <1>1 DEF Life!Firm, Life!Needs, Life!Parent, Life!Before, Life!Effective, Life!Depth, Life!Enabled
<1>7. Led'
  <2>1. ASSUME NEW i \in DOMAIN order', NEW j \in DOMAIN order', order'[i] = order'[j] PROVE i = j
    <3>1. \A l \in 1 .. Len(order) : order[l] # k
      BY <1>2, <1>3 DEF Life!Placed
    <3>2. CASE i = Len(order) + 1 \/ j = Len(order) + 1
      BY <1>3, <2>1, <3>1, <3>2
    <3>3. CASE i \in 1 .. Len(order) /\ j \in 1 .. Len(order)
      BY <1>3, <2>1, <3>3 DEF Lined, Led
    <3>4. QED BY <1>3, <3>2, <3>3
  <2>2. ASSUME NEW i \in DOMAIN order' PROVE Life!Firm(order[i])' \subseteq Earlier(i)'
    <3>1. CASE i = Len(order) + 1
      <4>1. Earlier(i)' = Life!Placed
        BY <1>3, <3>1 DEF Earlier, Life!Placed
      <4>2. QED BY <1>2, <1>3, <1>6, <3>1, <4>1
    <3>2. CASE i \in 1 .. Len(order)
      <4>1. Earlier(i)' = Earlier(i)
        BY <1>3, <3>2 DEF Earlier
      <4>2. Life!Firm(order[i]) \subseteq Earlier(i)
        BY <1>3, <3>2 DEF Lined, Led
      <4>3. QED BY <1>3, <1>6, <3>2, <4>1, <4>2
    <3>3. QED BY <1>3, <3>1, <3>2
  <2>3. QED BY <2>1, <2>2 DEF Led
<1>8. ASSUME NEW i \in 1 .. Len(order') - 1, Life!Before(order'[i + 1], order'[i])
      PROVE  order'[i] \in Life!Needs(order'[i + 1])
  <2>1. CASE i = Len(order)
    <3>1. order # <<>> /\ order'[i] = order[Len(order)] /\ order'[i + 1] = k
      BY <1>3, <2>1
    <3>2. order[Len(order)] \notin Life!Needs(k) => Life!Needs(k) \subseteq Life!Placed \ {order[Len(order)]}
      BY <1>2
    <3>3. \A l \in config.enabled \ Life!Placed :
            Life!Needs(l) \subseteq Life!Placed \ {order[Len(order)]} => ~ Life!Before(l, order[Len(order)])
      BY <1>1, <3>1 DEF Lined, Chosen
    <3>4. QED BY <1>2, <1>8, <3>1, <3>2, <3>3
  <2>2. CASE i \in 1 .. Len(order) - 1
    <3>1. order'[i] = order[i] /\ order'[i + 1] = order[i + 1]
      BY <1>3, <2>2
    <3>2. QED BY <1>1, <1>8, <2>2, <3>1 DEF Lined, Chosen
  <2>3. QED BY <1>3, <2>1, <2>2
<1>9. ASSUME NEW j \in config.enabled \ Life!Placed', Life!Needs(j) \subseteq Life!Placed' \ {k}
      PROVE  ~ Life!Before(j, k)
  <2>1. Life!Placeable(j)
    BY <1>5, <1>9 DEF Life!Placeable, Life!Enabled
  <2>2. QED BY <1>2, <2>1
<1>10. Chosen'
  <2>1. phase' = "resolve" /\ ~ cyclic' /\ config' = config /\ order'[Len(order')] = k
    BY <1>1, <1>3
  <2>2. QED BY <1>6, <1>8, <1>9, <2>1 DEF Chosen, Life!InversionsForced
<1>11. Walked'
  BY <1>1, <1>5 DEF Lined, Walked
<1>12. QED BY <1>1, <1>4, <1>7, <1>10, <1>11 DEF Lined

LEMMA ResolvedKeeps ==
  ASSUME Lined, Life!Resolved
  PROVE  Lined'
<1>1. /\ phase = "resolve" /\ ~ cyclic /\ made = {} /\ phase' = "create" /\ at' = 1
      /\ UNCHANGED <<config, made, mstate, quit, rounds>>
  BY DEF Life!Resolved, Lined, Chosen, Walked
<1>2. Walked'
  BY <1>1 DEF Walked
<1>3. CASE UNCHANGED <<order, cyclic>>
  <2>1. Life!TypeOK'
    BY <1>1, <1>3 DEF Lined, Life!TypeOK, Life!Phases
  <2>2. Led'
    BY <1>1, <1>3 DEF Lined, Led, Earlier, Life!Firm, Life!Needs, Life!Parent, Life!Enabled
  <2>3. Chosen'
    BY <1>1, <1>3 DEF Lined, Chosen, Life!InversionsForced, Life!Before, Life!Effective, Life!Depth,
         Life!Needs, Life!Parent, Life!Enabled
  <2>4. QED BY <1>1, <1>2, <2>1, <2>2, <2>3 DEF Lined
<1>4. CASE /\ cyclic' = TRUE /\ order' \in [1 .. Cardinality(config.enabled) -> config.enabled]
           /\ Life!Listing(order') /\ Life!Sorted(order')
  <2>1. config.enabled \subseteq Keys /\ IsFiniteSet(Keys)
    BY LifecycleAssumption DEF Lined
  <2>2. Cardinality(config.enabled) \in Nat
    BY <2>1, FS_Subset, FS_CardinalityType
  <2>3. order' \in Seq(config.enabled) /\ DOMAIN order' = 1 .. Len(order') /\ Len(order') \in Nat
    BY <1>4, <2>2
  <2>4. Life!TypeOK'
    BY <1>1, <1>4, <2>3 DEF Lined, Life!TypeOK, Life!Phases
  <2>5. ASSUME NEW i \in DOMAIN order', NEW a \in Life!Parent(order'[i])
        PROVE  a \in Earlier(i)'
    <3>1. order'[i] \in config.enabled
      BY <2>3
    <3>2. Life!Before(a, order'[i])
      BY <2>5, <3>1, ParentBefore DEF Lined
    <3>3. a \in config.enabled /\ a # order'[i]
      BY <2>1, <2>5, <3>1, LifecycleAssumption DEF Life!Parent, Life!Enabled
    <3>4. PICK j \in DOMAIN order' : order'[j] = a
      BY <1>4, <3>3 DEF Life!Listing, Life!Enabled
    <3>5. ~ (i < j)
      BY <1>4, <2>5, <3>2, <3>4 DEF Life!Sorted
    <3>6. j \in 1 .. i - 1
      BY <2>3, <3>3, <3>4, <3>5
    <3>7. QED BY <3>4, <3>6 DEF Earlier
  <2>6. \A k : Life!Firm(k)' = Life!Parent(k)
    BY <1>1, <1>4 DEF Life!Firm, Life!Parent, Life!Enabled
  <2>7. Led'
    BY <1>4, <2>5, <2>6 DEF Led, Life!Listing
  <2>8. Chosen'
    BY <1>1, <1>4 DEF Chosen, Life!InversionsForced
  <2>9. QED BY <1>1, <1>2, <2>4, <2>7, <2>8 DEF Lined
<1>5. QED BY <1>3, <1>4, SameCount DEF Life!Resolved, Life!Enabled
\* Setting up and shutting down leave no order and no modules.
LEMMA EmptyKeeps ==
  ASSUME Lined, Life!Setup \/ Life!Shutdown
  PROVE  Lined'
<1>1. /\ order' = <<>> /\ at' = 0 /\ phase' \in {"none", "resolve"} /\ UNCHANGED <<config, made, mstate>>
      /\ phase' = "resolve" => cyclic' = FALSE
      /\ cyclic' \in BOOLEAN /\ quit' \in BOOLEAN
  BY Zenon DEF Life!Setup, Life!Shutdown, Lined, Life!TypeOK
<1>2. Len(order') = 0 /\ DOMAIN order' = {} /\ order' \in Seq(config.enabled)
  BY <1>1
<1>3. rounds' \in 0 .. MaxRounds
  BY LifecycleAssumption DEF Life!Setup, Life!Shutdown, Lined, Life!TypeOK
<1>4. made = {}
  <2>1. CASE Life!Setup
    BY <2>1 DEF Life!Setup, Lined, Walked
  <2>2. CASE Life!Shutdown
    <3>1. phase = "delete" /\ at \notin DOMAIN order /\ at <= Len(order) /\ at \in 0 .. Len(order) + 1
          /\ made \subseteq Life!Placed /\ order \in Seq(config.enabled)
          /\ \A i \in DOMAIN order : i > at => order[i] \notin made
      BY <2>2 DEF Life!Shutdown, Life!There, Lined, Walked, Life!TypeOK
    <3>2. \A i \in DOMAIN order : i > at
      BY <3>1
    <3>3. QED BY <3>1, <3>2 DEF Life!Placed
  <2>3. QED BY <2>1, <2>2
<1>5. phase' \in Life!Phases
  BY <1>1 DEF Life!Phases
<1>6. at' \in 0 .. Len(order') + 1
  BY <1>1, <1>2
<1>7. Life!TypeOK'
  BY <1>1, <1>2, <1>3, <1>5, <1>6 DEF Lined, Life!TypeOK, Life!Phases, Life!States
<1>8. Led' /\ Walked'
  BY <1>1, <1>2, <1>4 DEF Led, Walked
<1>9. Chosen'
  BY <1>1, <1>2 DEF Chosen, Life!InversionsForced
<1>10. QED BY <1>1, <1>7, <1>8, <1>9 DEF Lined

\* What a module's turn is: the slot the walk has come to, and no other.
LEMMA AtTurn ==
  ASSUME Lined, NEW p, NEW k, Life!Turn(p, k)
  PROVE  /\ phase = p /\ at \in 1 .. Len(order) /\ order[at] = k /\ k \in config.enabled
         /\ \A i \in DOMAIN order : order[i] = k <=> i = at
<1>1. order \in Seq(config.enabled) /\ at \in DOMAIN order
  BY DEF Life!Turn, Life!There, Lined, Life!TypeOK
<1>2. QED BY <1>1 DEF Life!Turn, Lined, Led

LEMMA TurnKeeps ==
  ASSUME Lined, NEW k \in Keys,
         Life!Create(k) \/ Life!InitModule(k) \/ Life!ReadyModule(k) \/ Life!DeinitModule(k) \/ Life!Delete(k)
  PROVE  Lined'
<1>1. UNCHANGED <<phase, config, cyclic, order, quit, rounds>>
  BY DEF Life!Create, Life!InitModule, Life!ReadyModule, Life!DeinitModule, Life!Delete, Life!Execute
<1>2. phase \in {"create", "init", "ready", "deinit", "delete"}
  BY DEF Life!Create, Life!InitModule, Life!ReadyModule, Life!DeinitModule, Life!Delete, Life!Turn
<1>3. /\ order \in Seq(config.enabled) /\ DOMAIN order = 1 .. Len(order) /\ Len(order) \in Nat
      /\ mstate \in [Keys -> Life!States] /\ made \subseteq config.enabled
      /\ made \subseteq Life!Placed
  BY DEF Lined, Life!TypeOK, Walked
<1>4. Led' /\ Chosen'
  BY <1>1, <1>2, OrderStands DEF Lined
<1>5. SUFFICES Life!TypeOK' /\ Walked'
  BY <1>1, <1>4 DEF Lined
<1>6. ASSUME at' \in 0 .. Len(order) + 1, made' \subseteq config.enabled, mstate' \in [Keys -> Life!States]
      PROVE  Life!TypeOK'
  BY <1>1, <1>6 DEF Lined, Life!TypeOK, Life!Phases, Life!States
<1>7. Life!Placed' = Life!Placed
  BY <1>1 DEF Life!Placed
<1>8. {"none", "INIT", "READY", "DEINIT"} = Life!States
  BY DEF Life!States
<1>9. ASSUME NEW s \in {"INIT", "READY", "DEINIT"}, Life!Execute(k, s)
      PROVE  /\ made' = made /\ mstate' \in [Keys -> Life!States]
             /\ k \in made => mstate'[k] = s
             /\ \A j \in Keys \ {k} : mstate'[j] = mstate[j]
  <2>1. s \in Life!States
    BY <1>8
  <2>2. CASE k \in made
    <3>1. made' = made /\ mstate' = [mstate EXCEPT ![k] = s]
      BY <1>9, <2>2 DEF Life!Execute
    <3>2. QED BY <1>3, <2>1, <3>1
  <2>3. CASE k \notin made
    BY <1>3, <1>9, <2>3 DEF Life!Execute
  <2>4. QED BY <2>2, <2>3
<1>10. config.enabled \subseteq Keys
  BY LifecycleAssumption DEF Lined
<1>11. ASSUME NEW s, NEW p, Life!Turn(p, k), Has(s), made' = made,
              k \in made => mstate'[k] = s, \A j \in Keys \ {k} : mstate'[j] = mstate[j],
              at' = IF phase \in {"create", "init"} THEN at + 1 ELSE at - 1
       PROVE  Has(s)'
  <2>1. ASSUME NEW i \in DOMAIN order', Passed(i)', order'[i] \in made' PROVE mstate'[order'[i]] = s
    <3>1. order'[i] = order[i] /\ i \in DOMAIN order /\ order[i] \in Keys /\ order[i] \in made
      BY <1>1, <1>3, <1>10, <1>11, <2>1
    <3>2. at \in 1 .. Len(order) /\ order[at] = k
      BY <1>11, AtTurn
    <3>3. i = at \/ Passed(i)
      BY <1>1, <1>3, <1>11, <2>1, <3>1, <3>2 DEF Passed
    <3>4. CASE order[i] = k
      BY <1>11, <3>1, <3>4
    <3>5. CASE order[i] # k
      BY <1>11, <3>1, <3>2, <3>3, <3>5 DEF Has
    <3>6. QED BY <3>4, <3>5
  <2>2. QED BY <2>1 DEF Has
<1>12. CASE Life!Create(k)
  <2>1. phase = "create" /\ at \in 1 .. Len(order) /\ order[at] = k /\ k \in config.enabled
    BY <1>12, AtTurn DEF Life!Create
  <2>2. /\ at' = at + 1 /\ made' \subseteq made \cup {k}
        /\ mstate' = [mstate EXCEPT ![k] = "none"] \/ mstate' = mstate
    BY <1>12 DEF Life!Create
  <2>3. mstate' \in [Keys -> Life!States]
    BY <1>3, <1>8, <2>2
  <2>4. Life!TypeOK'
    BY <1>3, <1>6, <2>1, <2>2, <2>3
  <2>5. k \in Life!Placed
    BY <1>3, <2>1 DEF Life!Placed
  <2>6. Walked'
    BY <1>1, <1>3, <1>7, <2>1, <2>2, <2>5 DEF Walked
  <2>7. QED BY <2>4, <2>6
<1>13. CASE Life!InitModule(k)
  <2>1. Life!Turn("init", k) /\ at' = at + 1 /\ Life!Execute(k, "INIT")
    BY <1>13 DEF Life!InitModule
  <2>2. phase = "init" /\ at \in 1 .. Len(order) /\ Has("INIT")
    BY <2>1, AtTurn DEF Lined, Walked
  <2>3. /\ made' = made /\ mstate' \in [Keys -> Life!States]
        /\ k \in made => mstate'[k] = "INIT"
        /\ \A j \in Keys \ {k} : mstate'[j] = mstate[j]
    BY <1>9, <2>1
  <2>4. Has("INIT")'
    BY <1>11, <2>1, <2>2, <2>3
  <2>5. Life!TypeOK'
    BY <1>3, <1>6, <2>1, <2>2, <2>3
  <2>6. Walked'
    BY <1>1, <1>3, <1>7, <2>1, <2>2, <2>3, <2>4 DEF Walked
  <2>7. QED BY <2>5, <2>6
<1>14. CASE Life!ReadyModule(k)
  <2>1. Life!Turn("ready", k) /\ at' = at - 1 /\ Life!Execute(k, "READY")
    BY <1>14 DEF Life!ReadyModule
  <2>2. phase = "ready" /\ at \in 1 .. Len(order) /\ Has("READY")
    BY <2>1, AtTurn DEF Lined, Walked
  <2>3. /\ made' = made /\ mstate' \in [Keys -> Life!States]
        /\ k \in made => mstate'[k] = "READY"
        /\ \A j \in Keys \ {k} : mstate'[j] = mstate[j]
    BY <1>9, <2>1
  <2>4. Has("READY")'
    BY <1>11, <2>1, <2>2, <2>3
  <2>5. Life!TypeOK'
    BY <1>3, <1>6, <2>1, <2>2, <2>3
  <2>6. Walked'
    BY <1>1, <1>3, <1>7, <2>1, <2>2, <2>3, <2>4 DEF Walked
  <2>7. QED BY <2>5, <2>6
<1>15. CASE Life!DeinitModule(k)
  <2>1. Life!Turn("deinit", k) /\ at' = at - 1 /\ Life!Execute(k, "DEINIT")
    BY <1>15 DEF Life!DeinitModule
  <2>2. phase = "deinit" /\ at \in 1 .. Len(order) /\ Has("DEINIT")
    BY <2>1, AtTurn DEF Lined, Walked
  <2>3. /\ made' = made /\ mstate' \in [Keys -> Life!States]
        /\ k \in made => mstate'[k] = "DEINIT"
        /\ \A j \in Keys \ {k} : mstate'[j] = mstate[j]
    BY <1>9, <2>1
  <2>4. Has("DEINIT")'
    BY <1>11, <2>1, <2>2, <2>3
  <2>5. Life!TypeOK'
    BY <1>3, <1>6, <2>1, <2>2, <2>3
  <2>6. Walked'
    BY <1>1, <1>3, <1>7, <2>1, <2>2, <2>3, <2>4 DEF Walked
  <2>7. QED BY <2>5, <2>6
<1>16. CASE Life!Delete(k)
  <2>1. phase = "delete" /\ at \in 1 .. Len(order) /\ \A i \in DOMAIN order : order[i] = k <=> i = at
    BY <1>16, AtTurn DEF Life!Delete
  <2>2. at' = at - 1 /\ made' = made \ {k} /\ mstate' = mstate
    BY <1>16 DEF Life!Delete
  <2>3. \A i \in DOMAIN order : i > at => order[i] \notin made
    BY <2>1 DEF Lined, Walked
  <2>4. \A i \in DOMAIN order : i > at - 1 => order[i] \notin made \ {k}
    BY <1>3, <2>1, <2>3
  <2>5. Life!TypeOK'
    BY <1>3, <1>6, <2>1, <2>2
  <2>6. Walked'
    BY <1>1, <1>3, <1>7, <2>1, <2>2, <2>4 DEF Walked
  <2>7. QED BY <2>5, <2>6
<1>17. QED BY <1>12, <1>13, <1>14, <1>15, <1>16

LEMMA SwitchKeeps ==
  ASSUME Lined, Life!Created \/ Life!Initialized \/ Life!Run \/ Life!RunReturns \/ Life!Deinitialized
  PROVE  Lined'
<1>1. UNCHANGED <<config, cyclic, order, made, mstate, quit, rounds>>
  BY DEF Life!Created, Life!Initialized, Life!Run, Life!RunReturns, Life!Deinitialized, Life!Switch
<1>2. \/ phase = "create" /\ phase' = "init" /\ at' = 1
      \/ /\ \/ phase = "init" /\ phase' = "ready"
            \/ phase = "running" /\ phase' = "deinit"
            \/ phase = "deinit" /\ phase' = "delete"
         /\ at' = Len(order)
      \/ phase = "ready" /\ phase' = "running" /\ at' = 0
  BY DEF Life!Created, Life!Initialized, Life!Run, Life!RunReturns, Life!Deinitialized, Life!Switch, Life!FromTheLast
<1>3. order \in Seq(config.enabled) /\ DOMAIN order = 1 .. Len(order) /\ Len(order) \in Nat
  BY DEF Lined, Life!TypeOK
<1>4. Led' /\ Chosen'
  BY <1>1, <1>2, OrderStands DEF Lined
<1>5. Life!TypeOK'
  <2>1. phase' \in Life!Phases /\ at' \in 0 .. Len(order') + 1
    BY <1>1, <1>2, <1>3 DEF Life!Phases
  <2>2. QED BY <1>1, <2>1 DEF Lined, Life!TypeOK, Life!Phases, Life!States
<1>6. Walked'
  <2>1. Life!Placed' = Life!Placed
    BY <1>1 DEF Life!Placed
  <2>2. \A i \in DOMAIN order' : ~ Passed(i)' \/ phase' = "running"
    BY <1>1, <1>2, <1>3 DEF Passed
  <2>3. phase' # "running" => \A s : Has(s)'
    BY <2>2 DEF Has
  <2>4. phase' = "delete" => \A i \in DOMAIN order' : ~ (i > at')
    BY <1>1, <1>2, <1>3
  <2>5. QED BY <1>1, <1>2, <1>3, <2>1, <2>3, <2>4 DEF Lined, Walked
<1>7. QED BY <1>1, <1>4, <1>5, <1>6 DEF Lined

LEMMA LinedKept == Lined /\ [Life!Next]_(Life!vars) => Lined'
<1> SUFFICES ASSUME Lined, [Life!Next]_(Life!vars) PROVE Lined'
  OBVIOUS
<1>1. CASE UNCHANGED <<phase, config, cyclic, order, at, made, mstate, rounds>> /\ quit' \in BOOLEAN
  <2>1. Led' /\ Chosen'
    BY <1>1, OrderStands DEF Lined
  <2>2. Life!TypeOK'
    BY <1>1 DEF Lined, Life!TypeOK, Life!Phases, Life!States
  <2>3. Walked'
    BY <1>1 DEF Lined, Walked, Has, Passed, Life!Placed
  <2>4. QED BY <1>1, <2>1, <2>2, <2>3 DEF Lined
<1>2. CASE UNCHANGED Life!vars
  BY <1>1, <1>2 DEF Life!vars, Lined, Life!TypeOK
<1>3. CASE Life!RequestQuit
  <2>1. quit' \in BOOLEAN
    BY <1>3, Zenon DEF Life!RequestQuit
  <2>2. QED BY <1>1, <1>3, <2>1 DEF Life!RequestQuit
<1>4. QED
  BY <1>2, <1>3, PlaceKeeps, ResolvedKeeps, EmptyKeeps, TurnKeeps, SwitchKeeps DEF Life!Next, Life!Step
LEMMA LinedAlways == Life!Spec => []Lined
BY LinedAtFirst, LinedKept, PTL DEF Life!Spec

\* The graph, the order of the modules and the walks keep their shape
\* (EntryState, entry.cpp).
THEOREM LifeTypeCorrect == Life!Spec => []Life!TypeOK
<1>1. Lined => Life!TypeOK
  BY DEF Lined
<1>2. QED BY <1>1, LinedAlways, PTL

\* What is needed has its slot before, and the walk has left that behind.
LEMMA NeedsBefore ==
  ASSUME Lined, Lined', [Life!Next]_(Life!vars), NEW k \in Keys, mstate[k] # "INIT", mstate'[k] = "INIT",
         NEW n \in Life!Firm(k) \cap made
  PROVE  mstate[n] = "INIT"
<1>1. mstate \in [Keys -> Life!States]
  BY DEF Lined, Life!TypeOK
<1>2. PICK j \in Keys : Life!InitModule(j) /\ j = k
  <2>1. PICK j \in Keys : Life!Create(j) \/ Life!InitModule(j) \/ Life!ReadyModule(j) \/ Life!DeinitModule(j)
    BY DEF Life!Next, Life!Step, Life!vars, Life!Place, Life!Resolved, Life!Created, Life!Initialized, Life!Run,
         Life!RunReturns, Life!Deinitialized, Life!Shutdown, Life!Switch, Life!Setup, Life!RequestQuit, Life!Delete
  <2>2. mstate' = [mstate EXCEPT ![j] = "none"] \/ mstate' = mstate \/ mstate' = [mstate EXCEPT ![j] = "READY"]
        \/ mstate' = [mstate EXCEPT ![j] = "DEINIT"] \/ (Life!InitModule(j) /\ mstate' = [mstate EXCEPT ![j] = "INIT"])
    BY <2>1 DEF Life!Create, Life!InitModule, Life!ReadyModule, Life!DeinitModule, Life!Execute
  <2>3. QED BY <1>1, <2>1, <2>2
<1>3. phase = "init" /\ at \in 1 .. Len(order) /\ order[at] = k
  BY <1>2, AtTurn DEF Life!InitModule
<1>4. order \in Seq(config.enabled) /\ DOMAIN order = 1 .. Len(order) /\ Len(order) \in Nat
  BY DEF Lined, Life!TypeOK
<1>5. PICK i \in 1 .. at - 1 : order[i] = n
  BY <1>3, <1>4 DEF Lined, Led, Earlier
<1>6. Has("INIT")
  BY <1>3 DEF Lined, Walked
<1>7. QED BY <1>3, <1>4, <1>5, <1>6 DEF Has, Passed

\* Who needs a module has its slot behind it, and the walk comes from there.
LEMMA UsersBehind ==
  ASSUME Lined, NEW p \in {"ready", "deinit", "delete"}, NEW k \in Keys, Life!Turn(p, k),
         NEW u \in made, k \in Life!Firm(u)
  PROVE  \E i \in DOMAIN order : order[i] = u /\ i > at
<1>1. /\ at \in 1 .. Len(order) /\ \A i \in DOMAIN order : order[i] = k <=> i = at
  BY AtTurn
<1>2. order \in Seq(config.enabled) /\ DOMAIN order = 1 .. Len(order) /\ Len(order) \in Nat
  BY DEF Lined, Life!TypeOK
<1>3. PICK i \in DOMAIN order : order[i] = u
  BY DEF Lined, Walked, Life!Placed
<1>4. PICK j \in 1 .. i - 1 : order[j] = k
  BY <1>3 DEF Lined, Led, Earlier
<1>5. j = at
  BY <1>1, <1>2, <1>3, <1>4
<1>6. QED BY <1>2, <1>3, <1>4, <1>5

LEMMA UsersAfter ==
  ASSUME Lined, [Life!Next]_(Life!vars), NEW k \in Keys, NEW u \in made, k \in Life!Firm(u)
  PROVE  /\ mstate[k] # mstate'[k] /\ mstate'[k] \in {"READY", "DEINIT"} => mstate[u] = mstate'[k]
         /\ k \notin made \ made'
<1>1. mstate \in [Keys -> Life!States]
  BY DEF Lined, Life!TypeOK
<1>2. ASSUME mstate[k] # mstate'[k], mstate'[k] \in {"READY", "DEINIT"}
      PROVE  mstate[u] = mstate'[k]
  <2>1. PICK j \in Keys : Life!Create(j) \/ Life!InitModule(j) \/ Life!ReadyModule(j) \/ Life!DeinitModule(j)
    BY <1>2 DEF Life!Next, Life!Step, Life!vars, Life!Place, Life!Resolved, Life!Created, Life!Initialized, Life!Run,
         Life!RunReturns, Life!Deinitialized, Life!Shutdown, Life!Switch, Life!Setup, Life!RequestQuit, Life!Delete
  <2>2. \/ mstate' = [mstate EXCEPT ![j] = "none"] \/ mstate' = mstate \/ mstate' = [mstate EXCEPT ![j] = "INIT"]
        \/ (Life!ReadyModule(j) /\ mstate' = [mstate EXCEPT ![j] = "READY"])
        \/ (Life!DeinitModule(j) /\ mstate' = [mstate EXCEPT ![j] = "DEINIT"])
    BY <2>1 DEF Life!Create, Life!InitModule, Life!ReadyModule, Life!DeinitModule, Life!Execute
  <2>3. /\ j = k
        /\ \/ Life!ReadyModule(k) /\ mstate'[k] = "READY"
           \/ Life!DeinitModule(k) /\ mstate'[k] = "DEINIT"
    BY <1>1, <1>2, <2>2
  <2>4. CASE Life!ReadyModule(k) /\ mstate'[k] = "READY"
    <3>1. Life!Turn("ready", k) /\ phase = "ready"
      BY <2>4 DEF Life!ReadyModule, Life!Turn
    <3>2. PICK i \in DOMAIN order : order[i] = u /\ i > at
      BY <3>1, UsersBehind
    <3>3. Has("READY")
      BY <3>1 DEF Lined, Walked
    <3>4. QED BY <2>4, <3>1, <3>2, <3>3 DEF Has, Passed
  <2>5. CASE Life!DeinitModule(k) /\ mstate'[k] = "DEINIT"
    <3>1. Life!Turn("deinit", k) /\ phase = "deinit"
      BY <2>5 DEF Life!DeinitModule, Life!Turn
    <3>2. PICK i \in DOMAIN order : order[i] = u /\ i > at
      BY <3>1, UsersBehind
    <3>3. Has("DEINIT")
      BY <3>1 DEF Lined, Walked
    <3>4. QED BY <2>5, <3>1, <3>2, <3>3 DEF Has, Passed
  <2>6. QED BY <2>3, <2>4, <2>5
<1>3. ASSUME k \in made \ made' PROVE FALSE
  <2>1. PICK j \in Keys : Life!Create(j) \/ Life!Delete(j)
    BY <1>3 DEF Life!Next, Life!Step, Life!vars, Life!Place, Life!Resolved, Life!Created, Life!Initialized, Life!Run,
         Life!RunReturns, Life!Deinitialized, Life!Shutdown, Life!Switch, Life!Setup, Life!RequestQuit,
         Life!InitModule, Life!ReadyModule, Life!DeinitModule, Life!Execute
  <2>2. Life!Delete(k)
    BY <1>3, <2>1 DEF Life!Create, Life!Delete
  <2>3. Life!Turn("delete", k) /\ phase = "delete"
    BY <2>2 DEF Life!Delete, Life!Turn
  <2>4. PICK i \in DOMAIN order : order[i] = u /\ i > at
    BY <2>3, UsersBehind
  <2>5. QED BY <2>3, <2>4 DEF Lined, Walked
<1>4. QED BY <1>2, <1>3

\* For any modules, priorities and declared dependencies, cycles included, a
\* module is initialized after what it needs, gets ready, ends and is deleted
\* after all that need it, and the order of priorities is left only for that
\* (resolveDepends, init and deinit of entry.cpp).
THEOREM NeedsComeFirst == Life!Spec => NeedsOutliveUsers
<1>1. Lined /\ Lined' /\ [Life!Next]_(Life!vars) =>
        [\A k \in Keys : mstate[k] # "INIT" /\ mstate'[k] = "INIT" =>
           \A n \in Life!Firm(k) \cap made : mstate[n] = "INIT"]_(Life!vars)
  BY NeedsBefore
<1>2. Lined /\ [Life!Next]_(Life!vars) =>
        [\A k \in Keys : \A u \in made : k \in Life!Firm(u) =>
           /\ mstate[k] # mstate'[k] /\ mstate'[k] \in {"READY", "DEINIT"} => mstate[u] = mstate'[k]
           /\ k \notin made \ made']_(Life!vars)
  BY UsersAfter
<1>3. Lined => Life!InversionsForced
  BY DEF Lined, Chosen
<1>4. Life!Spec => [][Life!Next]_(Life!vars)
  BY DEF Life!Spec
<1>5. QED
  BY <1>1, <1>2, <1>3, <1>4, LinedAlways, PTL DEF NeedsOutliveUsers, Life!NeedsFirst, Life!UsersFirst
=============================================================================
