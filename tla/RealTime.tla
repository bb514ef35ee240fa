------------------------------ MODULE RealTime ------------------------------
(***************************************************************************)
(* The real-time toolkit (rtt): its pool of threads, its commands, its     *)
(* objects and the way its servers take lines apart, each on variables of  *)
(* its own.                                                                *)
(***************************************************************************)
EXTENDS Naturals, Sequences, FiniteSets, SequencesExt

(***************************************************************************)
(* PoolLoopObject (rtt/veRttCore/src/loop_object.cpp): a queue of tasks    *)
(* and workers that wait on one condition.  m_running is an atomic that is *)
(* cleared, and the workers notified, without the mutex.  One owner starts *)
(* and stops the pool; anybody adds tasks, before, between and after.      *)
(***************************************************************************)

CONSTANTS Workers, Tasks,
  Nobody,
  MaxStarts   \* times the pool is started

VARIABLES
  running, owner, starts, \* m_running, where start and stop are
  queue, mutex,           \* m_tasks and who holds m_mutex
  adding,                 \* the tasks that are in m_tasks and not yet notified of
  at, hand,               \* where each worker is, the task it has taken
  done                    \* how often each task was run

poolVars == <<running, owner, starts, queue, mutex, adding, at, hand, done>>

PoolInit ==
  /\ running = FALSE /\ owner = "out" /\ starts = 0
  /\ queue = <<>> /\ mutex = Nobody /\ adding = {}
  /\ at = [w \in Workers |-> "none"] /\ hand = [w \in Workers |-> Nobody]
  /\ done = [t \in Tasks |-> 0]

Queued == {queue[i] : i \in DOMAIN queue}
Held == {hand[w] : w \in Workers} \ {Nobody}
Added == {t \in Tasks : done[t] > 0} \cup Queued \cup Held

\* addTask: in under the mutex, then one of those who wait is woken, if any does.
AddTask(t) ==
  /\ t \notin Added /\ mutex = Nobody
  /\ queue' = Append(queue, t) /\ adding' = adding \cup {t}
  /\ UNCHANGED <<running, owner, starts, mutex, at, hand, done>>
NotifyOne(t) ==
  /\ t \in adding /\ adding' = adding \ {t}
  /\ \/ \E w \in Workers : at[w] = "asleep" /\ at' = [at EXCEPT ![w] = "woken"]
     \/ (\A w \in Workers : at[w] # "asleep") /\ UNCHANGED at
  /\ UNCHANGED <<running, owner, starts, queue, mutex, hand, done>>

Start ==
  /\ owner = "out" /\ ~ running /\ starts < MaxStarts
  /\ running' = TRUE /\ starts' = starts + 1
  /\ at' = [w \in Workers |-> "head"]
  /\ UNCHANGED <<owner, queue, mutex, adding, hand, done>>

\* stop: the flag, the notification and the join are three steps.
Stop ==
  /\ owner = "out" /\ running
  /\ running' = FALSE /\ owner' = "stopping"
  /\ UNCHANGED <<starts, queue, mutex, adding, at, hand, done>>
NotifyAll ==
  /\ owner = "stopping" /\ owner' = "joining"
  /\ at' = [w \in Workers |-> IF at[w] = "asleep" THEN "woken" ELSE at[w]]
  /\ UNCHANGED <<running, starts, queue, mutex, adding, hand, done>>
Join ==
  /\ owner = "joining" /\ \A w \in Workers : at[w] = "gone"
  /\ owner' = "out" /\ at' = [w \in Workers |-> "none"]
  /\ UNCHANGED <<running, starts, queue, mutex, adding, hand, done>>

\* workerLoop: while (m_running), the lock, the predicate, and what it decides.
Round(w) ==
  /\ at[w] = "head" /\ at' = [at EXCEPT ![w] = IF running THEN "locking" ELSE "gone"]
  /\ UNCHANGED <<running, owner, starts, queue, mutex, adding, hand, done>>
Lock(w) ==
  /\ at[w] \in {"locking", "woken"} /\ mutex = Nobody
  /\ mutex' = w /\ at' = [at EXCEPT ![w] = "testing"]
  /\ UNCHANGED <<running, owner, starts, queue, adding, hand, done>>
TestStale(w) ==
  /\ at[w] = "testing" /\ at' = [at EXCEPT ![w] = "drowsy"]
  /\ UNCHANGED <<running, owner, starts, queue, mutex, adding, hand, done>>

Test(w) ==
  /\ at[w] = "testing"
  /\ \/ queue # <<>> /\ hand' = [hand EXCEPT ![w] = queue[1]] /\ queue' = Tail(queue)
        /\ mutex' = Nobody /\ at' = [at EXCEPT ![w] = "busy"]
     \/ queue = <<>> /\ ~ running /\ mutex' = Nobody /\ at' = [at EXCEPT ![w] = "gone"] /\ UNCHANGED <<hand, queue>>
     \/ queue = <<>> /\ running /\ at' = [at EXCEPT ![w] = "drowsy"] /\ UNCHANGED <<hand, queue, mutex>>
  /\ UNCHANGED <<running, owner, starts, adding, done>>

\* The mutex is released and the wait begins in one step; a wait may also end
\* by itself.
Sleep(w) ==
  /\ at[w] = "drowsy" /\ mutex' = Nobody /\ at' = [at EXCEPT ![w] = "asleep"]
  /\ UNCHANGED <<running, owner, starts, queue, adding, hand, done>>
Wake(w) ==
  /\ at[w] = "asleep" /\ at' = [at EXCEPT ![w] = "woken"]
  /\ UNCHANGED <<running, owner, starts, queue, mutex, adding, hand, done>>
PoolRunTask(w) ==
  /\ at[w] = "busy"
  /\ done' = [done EXCEPT ![hand[w]] = @ + 1]
  /\ hand' = [hand EXCEPT ![w] = Nobody] /\ at' = [at EXCEPT ![w] = "head"]
  /\ UNCHANGED <<running, owner, starts, queue, mutex, adding>>

Works(w) == Round(w) \/ Lock(w) \/ Test(w) \/ Sleep(w) \/ PoolRunTask(w)
PoolNext ==
  \/ Start \/ Stop \/ NotifyAll \/ Join
  \/ \E t \in Tasks : AddTask(t) \/ NotifyOne(t)
  \/ \E w \in Workers : Works(w) \/ Wake(w)

Spec ==
  /\ PoolInit /\ [][PoolNext]_poolVars
  /\ \A w \in Workers : WF_poolVars(Works(w))
  /\ \A t \in Tasks : WF_poolVars(NotifyOne(t))
  /\ WF_poolVars(NotifyAll) /\ WF_poolVars(Join)

-----------------------------------------------------------------------------

\* A task that was added is in one place, and run once at most, however the
\* pool is stopped and started (loop_object.cpp, addTask and workerLoop).
TasksKept ==
  \A t \in Added :
    Cardinality({i \in DOMAIN queue : queue[i] = t}) + Cardinality({w \in Workers : hand[w] = t}) + done[t] = 1

\* Nobody sleeps over a task in a running pool: where all workers sleep, the
\* one who added it is still to wake one (loop_object.cpp, addTask).
NoneForgotten ==
  running /\ owner = "out" /\ queue # <<>> /\ (\A w \in Workers : at[w] = "asleep") => adding # {}

\* stop comes to its end.  It does not always: a worker that has tested the
\* flag and not begun to wait is missed by the notification (loop_object.cpp,
\* stop and workerLoop).
StopReturns == owner = "stopping" ~> owner = "out"

-----------------------------------------------------------------------------
(***************************************************************************)
(* The commands of the real-time toolkit and the two services that run     *)
(* them for clients (rtt/veRttCore/src/command_object.cpp, result.cpp,     *)
(* cip.cpp, rtt/XService/src/sdk_service.cpp, sys_socket_service.cpp).  A  *)
(* command is copied from its template for every call; its steps run where *)
(* start is called or as tasks of a loop, and a step may leave the end to  *)
(* somebody who calls finish.                                              *)
(***************************************************************************)

CONSTANTS
  Clients,
  Templates,     \* of some keys, the steps: [loop, result]
  Cips,          \* of some of them, the result of the step for their input
  Requests,      \* [g, s, c, id]: keys to read, to write and of commands
  Values,        \* values of the data keys at first
  Accepts(_, _), \* whether a key takes a value
  Lines,         \* of the text service: of some, the command; of the others, none
  Queries,       \* of some, the answer
  MaxObjects, MaxMessages

VARIABLES
  conns,     \* clients connected
  data,      \* the data objects that have a JSON form
  objects,   \* the copies: [by, addr, id, key, steps, ran, state,
             \* told, kept], kept where its result is in an answer
  posted,    \* tasks on loops: the numbers of copies, whose next step each is
  serving,   \* the request at work: [addr, request, left, answer]
  sent       \* what each client was sent

orderVars == <<conns, data, objects, posted, serving, sent>>

Success == "success"
Accepted == "accept"
IsError(r) == r = "fail"
Unknown(what) == <<"error", what>>

OrderInit ==
  /\ conns = Clients /\ data = Values /\ objects = <<>> /\ posted = {} /\ serving = {}
  /\ sent = [a \in Clients |-> <<>>]

\* A server sends to who is connected, and drops the rest.
Sent(addr, m) == IF addr \in conns THEN [sent EXCEPT ![addr] = Append(@, m)] ELSE sent

\* Text of a result: one that is neither is told as an error.
ToJson(r) == IF r \in {Success, Accepted} THEN <<r>> ELSE Unknown(r)

\* What a handler sends: by SdkService::notify, and by the text service.
Note(o, r) ==
  IF o.by = "sdk" THEN [kind |-> "note", id |-> o.id, c |-> <<[key |-> o.key, result |-> ToJson(r)]>>]
  ELSE [kind |-> "text", text |-> IF r = Success THEN "true" ELSE "false"]

-----------------------------------------------------------------------------
(* CommandObject.                                                          *)

\* The steps before the first that a loop runs, that is accepted or that fails
\* run one after the other; after the last the command is at its end.
Pauses(steps, i) == steps[i].loop \/ steps[i].result = Accepted \/ IsError(steps[i].result) \/ i = Len(steps)
FirstPause(steps) == CHOOSE i \in DOMAIN steps : Pauses(steps, i) /\ \A j \in 1 .. i - 1 : ~ Pauses(steps, j)

\* finish: whoever calls it, the handler is called, and what is left does not run.
Finished(o, r) == [o EXCEPT !.state = "finished", !.told = Append(@, r)]

\* start: what becomes of the copy, and what the caller is told.
Started(o) ==
  IF o.steps = <<>> THEN [object |-> Finished(o, Success), result |-> Success]
  ELSE LET i == FirstPause(o.steps)
           step == o.steps[i]
           rest == [o EXCEPT !.steps = SubSeq(@, i + (IF step.loop THEN 0 ELSE 1), Len(@)), !.ran = @ + i - (IF step.loop THEN 1 ELSE 0)]
       IN CASE step.loop -> [object |-> [rest EXCEPT !.state = "posted"], result |-> Accepted]
            [] step.result = Accepted /\ ~ step.loop -> [object |-> [rest EXCEPT !.state = "awaiting"], result |-> Accepted]
            [] OTHER -> [object |-> Finished(rest, step.result), result |-> step.result]

\* handleResult: one that is not success, with steps left, ends nothing.
Handled(o) ==
  LET step == o.steps[1]
      rest == [o EXCEPT !.steps = Tail(@), !.ran = @ + 1]
  IN CASE step.result = Accepted -> [rest EXCEPT !.state = "awaiting"]
       [] step.result # Accepted /\ (IsError(step.result) \/ rest.steps = <<>>) -> Finished(rest, step.result)
       [] OTHER -> IF step.result = Success THEN Started(rest).object ELSE [rest EXCEPT !.state = "stuck"]

\* The copy after a change is filed; what its handler sends goes out, and what
\* it posts is on a loop.
Tells(o, was) == Len(o.told) > Len(was)
Filed(n, o, was) ==
  /\ objects' = [i \in DOMAIN objects \cup {n} |-> IF i = n THEN o ELSE objects[i]]
  /\ posted' = (posted \ {n}) \cup (IF o.state = "posted" THEN {n} ELSE {})

\* A loop runs the task: the step, and handleResult with all that it starts.
OrderRunTask(n) ==
  /\ n \in posted
  /\ LET o == objects[n] next == Handled(o) IN
       /\ Filed(n, next, o.told)
       /\ sent' = IF Tells(next, o.told) THEN Sent(o.addr, Note(o, next.told[1])) ELSE sent
  /\ UNCHANGED <<conns, data, serving>>

\* Somebody outside ends an accepted command.
Finish(n) ==
  /\ n \in DOMAIN objects /\ objects[n].state = "awaiting"
  /\ \E r \in {Success, "fail"} :
       /\ Filed(n, Finished(objects[n], r), objects[n].told)
       /\ sent' = Sent(objects[n].addr, Note(objects[n], r))
  /\ UNCHANGED <<conns, data, serving>>

-----------------------------------------------------------------------------
(* SdkService: one request is served at a time.                            *)

Copy(by, addr, id, key, first) ==
  [by |-> by, addr |-> addr, id |-> id, key |-> key, steps |-> first \o Templates[key], ran |-> 0, state |-> "new", told |-> <<>>, kept |-> FALSE]

GCmd(key) == IF key \in DOMAIN data THEN data[key] ELSE Unknown("no key")
SCmd(key, v) == IF key \notin DOMAIN data THEN Unknown("no key") ELSE ToJson(IF Accepts(key, v) THEN Success ELSE "fail")

\* What cannot be parsed is not answered; what is read is read before anything
\* is written.
HandleMessage(addr, r) ==
  /\ serving = {} /\ addr \in conns /\ Len(sent[addr]) < MaxMessages /\ Len(objects) < MaxObjects
  /\ LET written == {k \in DOMAIN r.s : k \in DOMAIN data /\ Accepts(k, r.s[k])} IN
       /\ data' = [k \in DOMAIN data |-> IF k \in written THEN r.s[k] ELSE data[k]]
       /\ serving' = {[addr |-> addr, request |-> r, left |-> r.c,
                       answer |-> [kind |-> "response", g |-> [k \in r.g |-> GCmd(k)],
                                   s |-> [k \in DOMAIN r.s |-> SCmd(k, r.s[k])], c |-> <<>>]]}
  /\ UNCHANGED <<conns, objects, posted, sent>>

\* cCmd: a copy with a handler that notifies, the input's step before the others,
\* and its start; only an end that is known by then is in the answer.
CCmd(addr, id, key) ==
  LET first == IF key \in DOMAIN Cips THEN <<[loop |-> FALSE, result |-> Cips[key]]>> ELSE <<>>
  IN Started(Copy("sdk", addr, id, key, first))
Serve(w) ==
  /\ w \in serving /\ w.left # <<>>
  /\ LET key == w.left[1]
         made == CCmd(w.addr, w.request.id, key)
         Answered(r) == [w EXCEPT !.left = Tail(@), !.answer.c = Append(@, [key |-> key, result |-> r])]
     IN \/ /\ key \notin DOMAIN Templates
           /\ serving' = {Answered(Unknown("no command"))} /\ UNCHANGED <<objects, posted, sent>>
        \/ /\ key \in DOMAIN Templates
           /\ Filed(Len(objects) + 1, [made.object EXCEPT !.kept = made.result # Accepted], <<>>)
           /\ sent' = IF Tells(made.object, <<>>) THEN Sent(w.addr, Note(made.object, made.object.told[1])) ELSE sent
           /\ serving' = {IF made.result = Accepted THEN [w EXCEPT !.left = Tail(@)] ELSE Answered(ToJson(made.result))}
  /\ UNCHANGED <<conns, data>>
Respond(w) ==
  /\ w \in serving /\ w.left = <<>>
  /\ sent' = Sent(w.addr, w.answer) /\ serving' = {}
  /\ UNCHANGED <<conns, data, objects, posted>>

\* SysSocketService: a line is a command, a query, or an error.
HandleLine(addr, line) ==
  /\ serving = {} /\ addr \in conns /\ Len(sent[addr]) < MaxMessages /\ Len(objects) < MaxObjects
  /\ LET key == Lines[line]
         made == Started(Copy("sys", addr, <<>>, key, <<>>)).object
         Reply(m) == sent' = Sent(addr, m) /\ UNCHANGED <<objects, posted>>
     IN CASE line \in DOMAIN Lines /\ key \in DOMAIN Templates ->
               /\ Filed(Len(objects) + 1, made, <<>>)
               /\ sent' = IF Tells(made, <<>>) THEN Sent(addr, Note(made, made.told[1])) ELSE sent
          [] line \in DOMAIN Lines /\ key \notin DOMAIN Templates -> Reply([kind |-> "text", text |-> "false"])
          [] line \notin DOMAIN Lines /\ line \in DOMAIN Queries -> Reply([kind |-> "text", text |-> Queries[line]])
          [] line \notin DOMAIN Lines \cup DOMAIN Queries -> Reply([kind |-> "text", text |-> "error"])
  /\ UNCHANGED <<conns, data, serving>>

\* What is sent to a client that is gone is dropped; its commands go on.
OrderDisconnect(addr) ==
  /\ addr \in conns /\ conns' = conns \ {addr}
  /\ UNCHANGED <<data, objects, posted, serving, sent>>

OrderNext ==
  \/ \E n \in DOMAIN objects : OrderRunTask(n) \/ Finish(n)
  \/ \E a \in Clients : OrderDisconnect(a) \/ \E r \in Requests : HandleMessage(a, r)
  \/ \E a \in Clients, line \in DOMAIN Lines \cup DOMAIN Queries \cup {"?"} : HandleLine(a, line)
  \/ \E w \in serving : Serve(w) \/ Respond(w)

-----------------------------------------------------------------------------

\* A command ends with its first step that fails or is accepted, or with its
\* last, none is left out, and its handler is told once, of that step or of what
\* was said to finish; until then it is on a loop (command_object.cpp, start,
\* handleResult and finish).
StepsOf(o) == (IF o.by = "sdk" /\ o.key \in DOMAIN Cips THEN <<[loop |-> FALSE, result |-> Cips[o.key]]>> ELSE <<>>) \o Templates[o.key]
OrderEnds(steps, i) == steps[i].result = Accepted \/ IsError(steps[i].result) \/ i = Len(steps)
EndsOnce ==
  \A n \in DOMAIN objects :
    LET o == objects[n] steps == StepsOf(o) IN
      /\ (o.state = "posted") = (n \in posted)
      /\ o.state \in {"posted", "awaiting", "finished"}
      /\ \A i \in 1 .. o.ran - 1 : ~ OrderEnds(steps, i)
      /\ CASE o.state = "posted" -> steps[o.ran + 1].loop /\ (o.ran > 0 => ~ OrderEnds(steps, o.ran))
           [] o.state = "awaiting" -> steps[o.ran].result = Accepted
           [] o.state = "finished" ->
                /\ steps # <<>> => OrderEnds(steps, o.ran) /\ (steps[o.ran].result = Accepted \/ o.told = <<steps[o.ran].result>>)
                /\ Len(o.told) = 1
           [] OTHER -> TRUE

\* A client that is connected has been told of each of its commands that ended,
\* by name and number (sdk_service.cpp, cCmd and notify).
NotesOf(a) == {m \in {sent[a][i] : i \in DOMAIN sent[a]} : m.kind = "note"}
ToldOf ==
  \A n \in DOMAIN objects :
    LET o == objects[n] IN
      o.addr \in conns /\ o.by = "sdk" /\ o.state = "finished" =>
        \E m \in NotesOf(o.addr) : m.id = o.id /\ m.c = <<[key |-> o.key, result |-> ToJson(o.told[1])]>>

\* A command is told of once, in the answer or in a note: it is told of twice
\* where it is at its end at once (sdk_service.cpp, cCmd).
AnsweredOnce == \A n \in DOMAIN objects : objects[n].kept => objects[n].told = <<>>

-----------------------------------------------------------------------------
(***************************************************************************)
(* Objects of the real-time toolkit, their observers and the table of a    *)
(* manager (rtt/veRttCore/src/object.cpp).  Who connects an observer also  *)
(* hooks the two to each other's deletion, so that an object that goes is  *)
(* forgotten by its observers and its senders.                             *)
(***************************************************************************)

CONSTANTS
  Objects, Names,
  FamilyCareful   \* observers are not disconnected by hand nor of the deletion of
            \* others, nothing is deleted by an action, names are not given twice

Deleted == "OBJECT_DELETED"
Changed == "changed"

VARIABLES
  alive, name, owned,  \* owned: those whose parent is the manager
  table,               \* the manager: a name to an object
  connections,         \* [on, signal, by, act]: act is a call of the user's, or
                       \* who is to disconnect whom
  calling,             \* what is left of the copy a trigger works on
  misused              \* whether something dead was called or touched

familyVars == <<alive, name, owned, table, connections, calling, misused>>

User == [kind |-> "user"]
FamilyDisconnects(o, from) == [kind |-> "cut", at |-> o, by |-> from]
Connection(o, signal, by, act) == [on |-> o, signal |-> signal, by |-> by, act |-> act]

FamilyInit ==
  /\ alive = {} /\ name = [o \in Objects |-> ""] /\ owned = {}
  /\ table = <<>> /\ connections = {} /\ calling = {} /\ misused = FALSE

Without(f, keys) == [k \in DOMAIN f \ keys |-> f[k]]
NamesTaken == {name[o] : o \in alive} \cup DOMAIN table

\* Memory is not used twice: an object that is gone stays gone.
New(o, n) ==
  /\ o \notin alive /\ name[o] = "" /\ (FamilyCareful => n \notin NamesTaken)
  /\ alive' = alive \cup {o} /\ name' = [name EXCEPT ![o] = n]
  /\ UNCHANGED <<owned, table, connections, calling, misused>>
Rename(o, n) ==
  /\ o \in alive /\ (FamilyCareful => n \notin NamesTaken)
  /\ name' = [name EXCEPT ![o] = n]
  /\ UNCHANGED <<alive, owned, table, connections, calling, misused>>

\* connect, with the two hooks unless it is the hook itself.
Hooks(o, by) == {Connection(by, Deleted, o, FamilyDisconnects(o, by)), Connection(o, Deleted, by, FamilyDisconnects(by, o))}
Connect(o, signal, by) ==
  /\ {o, by} \subseteq alive /\ (FamilyCareful /\ signal = Deleted => by = o)
  /\ connections' = connections \cup {Connection(o, signal, by, User)}
                      \cup (IF by # o /\ signal # Deleted THEN Hooks(o, by) ELSE {})
  /\ UNCHANGED <<alive, name, owned, table, calling, misused>>

\* disconnect, of one signal and of all: what the observer holds stays.
DisconnectSignal(o, signal, by) ==
  /\ {o, by} \subseteq alive /\ (FamilyCareful => signal # Deleted)
  /\ connections' = {c \in connections : ~ (c.on = o /\ c.signal = signal /\ c.by = by)}
  /\ UNCHANGED <<alive, name, owned, table, calling, misused>>
Cut(these, o, by) == {c \in these : ~ (c.on = o /\ c.by = by)}
FamilyDisconnect(o, by) ==
  /\ ~ FamilyCareful /\ {o, by} \subseteq alive
  /\ connections' = Cut(connections, o, by)
  /\ UNCHANGED <<alive, name, owned, table, calling, misused>>

\* trigger: a copy of the connections of the signal; then one action after the
\* other, in no order, whatever happened to the observers since.
Trigger(o) ==
  /\ o \in alive /\ calling = {}
  /\ calling' = {c \in connections : c.on = o /\ c.signal = Changed}
  /\ UNCHANGED <<alive, name, owned, table, connections, misused>>
Call(c) ==
  /\ c \in calling /\ calling' = calling \ {c}
  /\ misused' = (misused \/ c.by \notin alive)
  /\ UNCHANGED <<alive, name, owned, table, connections>>

\* ~Object: the hooks of its observers, the manager's table, and it is gone.  The
\* table loses what stands under the object's name, or else the object.
KeysOf(o) == {k \in DOMAIN table : table[k] = o}
Forgotten(o) ==
  IF name[o] \in DOMAIN table THEN Without(table, {name[o]})
  ELSE Without(table, {k \in KeysOf(o) : k = CHOOSE m \in KeysOf(o) : TRUE})
Found(o) == name[o] \in DOMAIN table \/ KeysOf(o) # {}
CutsOf(o) == {c.act : c \in {d \in connections : d.on = o /\ d.signal = Deleted /\ d.act # User}}
Gone(o) ==
  /\ alive' = alive \ {o}
  /\ connections' = {c \in connections : c.on # o /\ \A x \in CutsOf(o) : ~ (c.on = x.at /\ c.by = x.by)}
  /\ misused' = (misused \/ \E x \in CutsOf(o) : x.at \notin alive
                         \/ \E c \in connections : c.on = o /\ c.signal = Deleted /\ c.by \notin alive)
Delete(o) ==
  /\ o \in alive /\ (FamilyCareful => calling = {})
  /\ Gone(o)
  /\ table' = IF o \in owned THEN Forgotten(o) ELSE table
  /\ owned' = owned \ {o}
  /\ UNCHANGED <<name, calling>>

\* Manager: add refuses a name that is taken; remove takes out what stands under
\* the object's name, and deletes the object.
Add(o) ==
  /\ o \in alive /\ o \notin owned /\ name[o] \notin DOMAIN table
  /\ table' = [k \in DOMAIN table \cup {name[o]} |-> IF k = name[o] THEN o ELSE table[k]]
  /\ owned' = owned \cup {o}
  /\ UNCHANGED <<alive, name, connections, calling, misused>>
AddFails(o) ==
  /\ o \in alive \ owned /\ name[o] \in DOMAIN table /\ calling = {}
  /\ Gone(o) /\ UNCHANGED <<name, owned, table, calling>>
RemoveObject(o, deletes) ==
  /\ o \in alive /\ Found(o) /\ (deletes /\ FamilyCareful => calling = {})
  /\ table' = Forgotten(o) /\ owned' = owned \ {o}
  /\ IF deletes THEN Gone(o) ELSE UNCHANGED <<alive, connections, misused>>
  /\ UNCHANGED <<name, calling>>
RemoveName(k, deletes) ==
  /\ k \in DOMAIN table /\ (deletes /\ FamilyCareful => calling = {})
  /\ table' = Without(table, {k}) /\ owned' = owned \ {table[k]}
  /\ IF deletes /\ table[k] \in alive THEN Gone(table[k])
     ELSE misused' = (misused \/ table[k] \notin alive) /\ UNCHANGED <<alive, connections>>
  /\ UNCHANGED <<name, calling>>

FamilyNext ==
  \/ \E o \in Objects, n \in Names : New(o, n) \/ Rename(o, n)
  \/ \E o, by \in Objects, signal \in {Changed, Deleted} : Connect(o, signal, by) \/ DisconnectSignal(o, signal, by)
  \/ \E o, by \in Objects : FamilyDisconnect(o, by)
  \/ \E o \in Objects : Trigger(o) \/ Delete(o) \/ Add(o) \/ AddFails(o)
  \/ \E c \in calling : Call(c)
  \/ \E o \in Objects, deletes \in BOOLEAN : RemoveObject(o, deletes)
  \/ \E k \in DOMAIN table, deletes \in BOOLEAN : RemoveName(k, deletes)

-----------------------------------------------------------------------------

\* Nobody who is gone is called, touched, observed or in the table, and whom the
\* manager owns it has under one name (object.cpp, connect, ~Object, remove).
\* Without care it is not so: a disconnect by hand takes one hook of two, a copy
\* outlives an observer, and remove takes a namesake out.
NobodyGone ==
  /\ ~ misused
  /\ \A c \in connections : {c.on, c.by} \subseteq alive
  /\ \A k \in DOMAIN table : table[k] \in alive
  /\ \A o \in owned : Cardinality(KeysOf(o)) = 1

-----------------------------------------------------------------------------
(***************************************************************************)
(* How the real-time toolkit's servers take what comes in apart            *)
(* (rtt/veRttCore/src/net_object.cpp, server_net_object.cpp): as it comes, *)
(* as a cache the handler takes from, or as lines ended by "\r".  A server *)
(* has one handler, and one buffer, for all its connections.               *)
(***************************************************************************)

CONSTANTS
  Connections,
  Messages,   \* how many each sends
  MaxCache    \* what the cache holds, in pieces

VARIABLES
  type,      \* the kind of handler: "raw", "cache" or "line"
  connected, \* m_conns
  sending,   \* what each has still to send: pieces [from, n, end]
  bytes,     \* m_bytes
  stream,    \* all that came, of whichever connection
  handled    \* what the handler was given: [addr, content]

lineVars == <<type, connected, sending, bytes, stream, handled>>

\* A message is two pieces and its end.
Return == "\r"
Piece(c, n) == [from |-> c, n |-> n, text |-> "piece"]
End(c, n) == [from |-> c, n |-> n, text |-> Return]
Message(c, n) == <<Piece(c, n), Piece(c, n), End(c, n)>>
IsEnd(p) == p.text = Return

LineInit ==
  /\ type \in {"raw", "cache", "line"} /\ connected = {}
  /\ sending = [c \in Connections |-> FlattenSeq([n \in 1 .. Messages[c] |-> Message(c, n)])]
  /\ bytes = <<>> /\ stream = <<>> /\ handled = <<>>

\* onConnection: those who come are known by their name; one that goes leaves
\* what it sent in the buffer, and is not heard again.
Connects(c) ==
  /\ c \notin connected /\ sending[c] # <<>> /\ connected' = connected \cup {c}
  /\ UNCHANGED <<type, sending, bytes, stream, handled>>
LineDisconnects(c) ==
  /\ c \in connected /\ connected' = connected \ {c}
  /\ sending' = [sending EXCEPT ![c] = <<>>]
  /\ UNCHANGED <<type, bytes, stream, handled>>

\* BackslashRMsgHandler: all that ends in the buffer now, without empty lines.
LineEnds(b) == {i \in DOMAIN b : IsEnd(b[i])}
LineOf(b, i) == SubSeq(b, 1 + (IF \E j \in LineEnds(b) : j < i THEN CHOOSE j \in LineEnds(b) : j < i /\ \A k \in LineEnds(b) : k < i => k <= j ELSE 0), i - 1)
LinesIn(b) == SelectSeq([n \in DOMAIN SetToSortSeq(LineEnds(b), <) |-> LineOf(b, SetToSortSeq(LineEnds(b), <)[n])], LAMBDA l : l # <<>>)
Rest(b) == IF LineEnds(b) = {} THEN b ELSE SubSeq(b, 1 + CHOOSE i \in LineEnds(b) : \A j \in LineEnds(b) : j <= i, Len(b))

Given(c, contents) == handled' = handled \o [i \in DOMAIN contents |-> [addr |-> c, content |-> contents[i]]]

\* The three handlers.  A cache is emptied when it is too long, and loses what
\* the handler says it took, here nothing or the messages that are whole.
HandleRaw(c, piece) == type = "raw" /\ Given(c, <<piece>>) /\ UNCHANGED bytes
HandleCache(c, piece) ==
  /\ type = "cache"
  /\ LET all == bytes \o piece IN
       \/ Len(all) > MaxCache /\ bytes' = <<>> /\ UNCHANGED handled
       \/ Len(all) <= MaxCache
            /\ \E taken \in {0, Len(all) - Len(Rest(all))} :
                 Given(c, <<SubSeq(all, 1, taken)>>) /\ bytes' = SubSeq(all, taken + 1, Len(all))
HandleLines(c, piece) ==
  type = "line" /\ Given(c, LinesIn(bytes \o piece)) /\ bytes' = Rest(bytes \o piece)

\* onMessage with dispatchMessage: a piece of the stream, however long.
OnMessage(c, n) ==
  /\ c \in connected /\ n \in 1 .. Len(sending[c])
  /\ sending' = [sending EXCEPT ![c] = SubSeq(@, n + 1, Len(@))]
  /\ stream' = stream \o SubSeq(sending[c], 1, n)
  /\ LET piece == SubSeq(sending[c], 1, n) IN HandleRaw(c, piece) \/ HandleCache(c, piece) \/ HandleLines(c, piece)
  /\ UNCHANGED <<type, connected>>

LineNext == \E c \in Connections : Connects(c) \/ LineDisconnects(c) \/ \E n \in 1 .. Len(sending[c]) : OnMessage(c, n)

-----------------------------------------------------------------------------

\* The message of c that has come in whole by i, nothing of others within it and
\* nothing unended before it.
Unmixed(c, n, i) ==
  /\ i + 2 \in DOMAIN stream /\ SubSeq(stream, i, i + 2) = Message(c, n)
  /\ i > 1 => IsEnd(stream[i - 1])

\* However the stream was cut into pieces, the handler was given each line of what
\* came, in order and with the address of who sent its end: so a message that
\* nothing of others was mixed with is a line of its sender (net_object.cpp,
\* BackslashRMsgHandler::handle).  Two clients' halves do make a line.
LinesOwn ==
  type = "line" =>
    /\ [h \in DOMAIN handled |-> handled[h].content] = LinesIn(stream)
    /\ \A c \in Connections : \A n \in 1 .. Messages[c], i \in DOMAIN stream :
         Unmixed(c, n, i) => \E h \in DOMAIN handled : handled[h] = [addr |-> c, content |-> <<Piece(c, n), Piece(c, n)>>]
=============================================================================
