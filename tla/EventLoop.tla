----------------------------- MODULE EventLoop ------------------------------
(***************************************************************************)
(* ve::Loop over AsioContext (ve/include/ve/core/loop.h, ve/src/core/      *)
(* loop.cpp): start spawns the worker threads, stop interrupts the         *)
(* io_context and joins them under the same mutex, post queues whether or  *)
(* not the loop runs, a task with an alive token is skipped when the token *)
(* is dead by the time a worker gets to it, and a LoopRef looks at the     *)
(* loop's own token before it posts.                                       *)
(*                                                                         *)
(* The io_context is external: a FIFO queue that all workers take from,    *)
(* until it is told to stop.  A task is posted once; it may post others    *)
(* and kill the token it was posted with.                                  *)
(***************************************************************************)
EXTENDS Naturals, Sequences, FiniteSets

CONSTANTS
  Users,     \* threads outside the loop
  Workers,   \* the threads a loop may have
  Tasks,
  Guarded,   \* tasks posted with the token of one owner
  NULL

ASSUME EventLoopAssumption ==
  /\ Guarded \subseteq Tasks
  /\ NULL \notin Users \cup Tasks
  /\ IsFiniteSet(Workers)

VARIABLES
  threads,    \* which workers the loop was constructed with (thread_count)
  isRunning,  \* Context::is_running
  stopped,    \* the io_context has been told to stop
  queue,      \* the io_context's handlers
  mtx,        \* who holds Context::mtx
  upc,        \* per user: idle, or where it is in a call
  uarg,       \* the task of a LoopRef::post in progress
  wpc,        \* per worker: none, ready, got a handler, checked its token,
              \* in the task's body
  wtask,      \* the handler a worker has taken
  life,       \* "up", "dying" (loop token killed), "gone"
  owner,      \* the token of Guarded: "alive", or who killed it
  begun,      \* handlers taken so far, in order
  ended,      \* handlers that returned
  dangling    \* a LoopRef called a loop that is gone

vars == <<threads, isRunning, stopped, queue, mtx, upc, uarg, wpc, wtask, life,
          owner, begun, ended, dangling>>
loopVars == <<threads, isRunning, stopped, mtx, life>>
workVars == <<wpc, wtask, begun, ended>>

Members(s) == {s[i] : i \in DOMAIN s}

TypeOK ==
  /\ threads \subseteq Workers
  /\ isRunning \in BOOLEAN /\ stopped \in BOOLEAN
  /\ queue \in Seq(Tasks) /\ begun \in Seq(Tasks) /\ ended \subseteq Tasks
  /\ mtx \in Users \cup {NULL}
  /\ upc \in [Users -> {"idle", "join", "ref", "destroy", "destroyJoin"}]
  /\ uarg \in [Users -> Tasks \cup {NULL}]
  /\ wpc \in [Workers -> {"none", "ready", "got", "checked", "body"}]
  /\ wtask \in [Workers -> Tasks \cup {NULL}]
  /\ \A w \in Workers : wpc[w] # "none" => w \in threads
  /\ \A w \in Workers : wpc[w] \in {"got", "checked", "body"} <=> wtask[w] # NULL
  /\ life \in {"up", "dying", "gone"}
  /\ owner \in {"alive", "task", "user"}
  /\ dangling \in BOOLEAN

Init ==
  /\ threads \in SUBSET Workers \ {{}}
  /\ isRunning = FALSE /\ stopped = FALSE
  /\ queue = <<>> /\ begun = <<>> /\ ended = {}
  /\ mtx = NULL
  /\ upc = [u \in Users |-> "idle"]
  /\ uarg = [u \in Users |-> NULL]
  /\ wpc = [w \in Workers |-> "none"]
  /\ wtask = [w \in Workers |-> NULL]
  /\ life = "up"
  /\ owner = "alive"
  /\ dangling = FALSE

-----------------------------------------------------------------------------

Unposted(t) ==
  /\ t \notin Members(queue) \cup Members(begun)
  /\ \A u \in Users : uarg[u] # t

\* A thread that may still call the loop itself, not only a LoopRef.
Owns(u) == upc[u] = "idle" /\ life = "up" /\ ~ dangling

\* asio::post
Enqueue(q, t) == Append(q, t)

\* Mutants: start does not restart the io_context; it begins with a new one.
RestartedNot == stopped
Fresh == <<>>

\* io.restart()
Restarted == FALSE

\* What a start finds in the io_context: all that was left by the last stop.
Leftover == queue

\* The threads that start spawns: thread_count.
Spawned == threads

\* start()
Start(u) ==
  /\ Owns(u) /\ mtx = NULL
  /\ ~ isRunning
  /\ isRunning' = TRUE
  /\ stopped' = Restarted
  /\ queue' = Leftover
  /\ wpc' = [w \in Workers |-> IF w \in Spawned THEN "ready" ELSE "none"]
  /\ UNCHANGED <<threads, mtx, upc, uarg, wtask, life, owner, begun, ended, dangling>>

\* io.stop()
Interrupted == TRUE

\* stop() up to the joins, from a call or from the destructor.
Stop(u) ==
  /\ mtx = NULL /\ isRunning
  /\ \/ Owns(u) /\ upc' = [upc EXCEPT ![u] = "join"]
     \/ upc[u] = "destroy" /\ upc' = [upc EXCEPT ![u] = "destroyJoin"]
  /\ mtx' = u
  /\ isRunning' = FALSE
  /\ stopped' = Interrupted
  /\ UNCHANGED <<threads, queue, uarg, wpc, wtask, life, owner, begun, ended, dangling>>

\* Mutant: the workers are not waited for.
JoinedAnyway == TRUE

\* Every worker has left run().
Joined == \A w \in threads : wpc[w] = "none"

\* The joins are done, the mutex is released.
StopReturns(u) ==
  /\ upc[u] \in {"join", "destroyJoin"}
  /\ Joined
  /\ mtx' = NULL
  /\ upc' = [upc EXCEPT ![u] = IF @ = "join" THEN "idle" ELSE "destroy"]
  /\ UNCHANGED <<threads, isRunning, stopped, queue, uarg, life, owner, dangling, workVars>>

\* post(task) and post(token, task)
Post(u, t) ==
  /\ Owns(u) /\ Unposted(t)
  /\ queue' = Enqueue(queue, t)
  /\ UNCHANGED <<loopVars, upc, uarg, owner, dangling, workVars>>

\* LoopRef::post looks at the loop's token ...
RefPost(u, t) ==
  /\ upc[u] = "idle" /\ ~ dangling /\ Unposted(t)
  /\ life = "up"
  /\ upc' = [upc EXCEPT ![u] = "ref"]
  /\ uarg' = [uarg EXCEPT ![u] = t]
  /\ UNCHANGED <<loopVars, queue, owner, dangling, workVars>>

\* ... and then calls the loop.
RefPosts(u) ==
  /\ upc[u] = "ref"
  /\ \/ /\ life # "gone"
        /\ queue' = Enqueue(queue, uarg[u])
        /\ UNCHANGED dangling
     \/ /\ life = "gone"
        /\ dangling' = TRUE
        /\ UNCHANGED queue
  /\ upc' = [upc EXCEPT ![u] = "idle"]
  /\ uarg' = [uarg EXCEPT ![u] = NULL]
  /\ UNCHANGED <<loopVars, owner, workVars>>

\* The owner of the guarded tasks dies on another thread.
Kill(u) ==
  /\ upc[u] = "idle" /\ owner = "alive"
  /\ owner' = "user"
  /\ UNCHANGED <<loopVars, queue, upc, uarg, dangling, workVars>>

\* ~Loop: the loop's token is killed first; no one is in a call of its own.
Destroy(u) ==
  /\ Owns(u)
  /\ \A v \in Users : upc[v] \in {"idle", "ref"}
  /\ life' = "dying"
  /\ upc' = [upc EXCEPT ![u] = "destroy"]
  /\ UNCHANGED <<threads, isRunning, stopped, queue, mtx, uarg, owner, dangling, workVars>>

\* stop() has nothing to do any more: the context is deleted.
Delete(u) ==
  /\ upc[u] = "destroy" /\ ~ isRunning
  /\ life' = "gone"
  /\ queue' = <<>>
  /\ upc' = [upc EXCEPT ![u] = "idle"]
  /\ UNCHANGED <<threads, isRunning, stopped, mtx, uarg, owner, dangling, workVars>>

-----------------------------------------------------------------------------
(* The worker threads: io.run().                                           *)

\* The next handler is taken.
Take(w) ==
  /\ wpc[w] = "ready" /\ ~ stopped
  /\ queue # <<>>
  /\ queue' = Tail(queue)
  /\ begun' = Append(begun, Head(queue))
  /\ wtask' = [wtask EXCEPT ![w] = Head(queue)]
  /\ wpc' = [wpc EXCEPT ![w] = "got"]
  /\ UNCHANGED <<loopVars, upc, uarg, owner, ended, dangling>>

\* Mutant: the token was looked at when the task was posted.
SkippedNever(t) == FALSE

\* The token of the task is dead.
Skipped(t) == t \in Guarded /\ owner # "alive"

\* The token is looked at: the task is skipped ...
Skip(w) ==
  /\ wpc[w] = "got"
  /\ Skipped(wtask[w])
  /\ ended' = ended \cup {wtask[w]}
  /\ wtask' = [wtask EXCEPT ![w] = NULL]
  /\ wpc' = [wpc EXCEPT ![w] = "ready"]
  /\ UNCHANGED <<loopVars, queue, upc, uarg, owner, begun, dangling>>

\* ... or it will be called, ...
Check(w) ==
  /\ wpc[w] = "got"
  /\ ~ Skipped(wtask[w])
  /\ wpc' = [wpc EXCEPT ![w] = "checked"]
  /\ UNCHANGED <<loopVars, queue, upc, uarg, owner, wtask, begun, ended, dangling>>

\* ... and is called, with nothing held in between.
Call(w) ==
  /\ wpc[w] = "checked"
  /\ wpc' = [wpc EXCEPT ![w] = "body"]
  /\ UNCHANGED <<loopVars, queue, upc, uarg, owner, wtask, begun, ended, dangling>>

\* A task posts another one, or kills the token.
TaskPosts(w, t) ==
  /\ wpc[w] = "body" /\ Unposted(t)
  /\ queue' = Enqueue(queue, t)
  /\ UNCHANGED <<loopVars, upc, uarg, owner, dangling, workVars>>

TaskKills(w) ==
  /\ wpc[w] = "body" /\ owner = "alive"
  /\ owner' = "task"
  /\ UNCHANGED <<loopVars, queue, upc, uarg, dangling, workVars>>

Return(w) ==
  /\ wpc[w] = "body"
  /\ ended' = ended \cup {wtask[w]}
  /\ wtask' = [wtask EXCEPT ![w] = NULL]
  /\ wpc' = [wpc EXCEPT ![w] = "ready"]
  /\ UNCHANGED <<loopVars, queue, upc, uarg, owner, begun, dangling>>

\* run() returns once the io_context is stopped.
Leave(w) ==
  /\ wpc[w] = "ready" /\ stopped
  /\ wpc' = [wpc EXCEPT ![w] = "none"]
  /\ UNCHANGED <<loopVars, queue, upc, uarg, owner, wtask, begun, ended, dangling>>

Work(w) == Take(w) \/ Skip(w) \/ Check(w) \/ Call(w) \/ Return(w) \/ Leave(w)

Next ==
  \/ \E u \in Users :
       \/ Start(u) \/ Stop(u) \/ StopReturns(u) \/ RefPosts(u)
       \/ Kill(u) \/ Destroy(u) \/ Delete(u)
       \/ \E t \in Tasks : Post(u, t) \/ RefPost(u, t)
  \/ \E w \in Workers :
       \/ Work(w) \/ TaskKills(w)
       \/ \E t \in Tasks : TaskPosts(w, t)

Spec == Init /\ [][Next]_vars

\* Workers keep working, tasks return, and a call that has begun goes on.
FairSpec ==
  /\ Spec
  /\ \A w \in Workers : WF_vars(Work(w))
  /\ \A u \in Users : WF_vars(StopReturns(u))

-----------------------------------------------------------------------------
(* Properties.                                                             *)

\* When stop() has returned, and whenever the loop is stopped and nobody is
\* still stopping it, no worker exists that could be inside a task: what a
\* task uses may be freed then.
QuietWhenStopped ==
  ~ isRunning /\ mtx = NULL => \A w \in Workers : wpc[w] = "none"

\* A guarded task does not begin once its owner has died on the loop's only
\* thread, although the token is not held between the look at it and the
\* call: an object destroyed on its own loop is not called back.
DeadOnLoopStaysDead ==
  [][\A w \in Workers :
       wpc[w] # "body" /\ wpc'[w] = "body" /\ wtask'[w] \in Guarded /\ Cardinality(threads) = 1
       => owner # "task"]_vars

\* Seen from outside the loop is a queue that loses nothing, starts tasks in
\* order and never twice, over any sequence of starts and stops.
Queue == INSTANCE TaskQueue WITH
  width <- Cardinality(threads), waiting <- queue, begun <- begun, ended <- ended,
  open <- life # "gone"
ImplementsQueue == Queue!QSpec

\* A posted task gets its turn as long as the loop is not stopped.
TaskRuns ==
  \A t \in Tasks : t \in Members(queue) /\ isRunning ~> t \notin Members(queue) \/ ~ isRunning

\* stop() returns.
StopEnds == \A u \in Users : upc[u] \in {"join", "destroyJoin"} ~> mtx # u
=============================================================================
