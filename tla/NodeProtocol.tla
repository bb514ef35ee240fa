---------------------------- MODULE NodeProtocol ----------------------------
(***************************************************************************)
(* The operations every server gives its clients on the node tree, their   *)
(* form in HTTP, and the clients that ask one request at a time.           *)
(***************************************************************************)
EXTENDS NodeTrees

(***************************************************************************)
(* dispatchNodeProtocol (node_protocol.cpp): the operations every server   *)
(* gives its clients on the node tree, one request at a time.              *)
(*                                                                         *)
(* Commands are opaque: one succeeds or fails at once or runs on as a task *)
(* (CommandRun has what becomes of it).  Shadows are left out.             *)
(***************************************************************************)

CONSTANTS
  Commands,      \* name |-> "succeeds", "fails" or "runs on"
  BatchLimit

\* What a request works on; and told, the node it sets or triggers.
State(tree, subscriptions, tasks) == [tree |-> tree, subscriptions |-> subscriptions, tasks |-> tasks]

\* A request has the fields of its operation; those that need not be given are
\* sets of one or none.
Request == [op |-> "", id |-> {}, path |-> <<>>, value |-> {}, tree |-> {}, items |-> {},
            name |-> "", wait |-> TRUE, depth |-> {}, bubble |-> FALSE]

\* okReply, acceptedReply and errorReply.
Ok(id, data) == [ok |-> TRUE, id |-> id, accepted |-> FALSE, code |-> "", data |-> data]
Accepted(id, task) == [ok |-> TRUE, id |-> id, accepted |-> TRUE, code |-> "", data |-> task]
Error(id, code) == [ok |-> FALSE, id |-> id, accepted |-> FALSE, code |-> code, data |-> Null]

Did(s, reply, told) == [state |-> s, reply |-> reply, told |-> told]
Refused(s, r, code) == Did(s, Error(r.id, code), {})

The(set) == CHOOSE x \in set : TRUE

\* normalizePath, and getSubscriberCount.
Subscribers(s, path) == Cardinality({i \in DOMAIN s.subscriptions : s.subscriptions[i].path = path})

-----------------------------------------------------------------------------
(* Reading.                                                                *)

Meta(s, at) ==
  [child_count |-> Len(NodeAt(s.tree, at).kids), subscribers |-> Subscribers(s, PathOf(s.tree, at)),
   parent |-> IF at = <<>> THEN {} ELSE {PathOf(s.tree, Front(at))}]

NodeGet(s, r) ==
  IF FindPath(s.tree, r.path) = {} THEN Refused(s, r, "not_found")
  ELSE LET at == The(FindPath(s.tree, r.path))
           node == NodeAt(s.tree, at)
       IN  Did(s, Ok(r.id, [path |-> PathOf(s.tree, at), value |-> node.value, meta |-> Meta(s, at),
                            tree |-> {JsonUpTo(node, FALSE, d) : d \in r.depth}]), {})

NodeList(s, r) ==
  IF FindPath(s.tree, r.path) = {} THEN Refused(s, r, "not_found")
  ELSE LET at == The(FindPath(s.tree, r.path))
           kids == NodeAt(s.tree, at).kids
           Info(i) == [name |-> kids[i].name, path |-> PathOf(s.tree, Append(at, i)),
                       has_value |-> kids[i].value # Null, child_count |-> Len(kids[i].kids)]
       IN  Did(s, Ok(r.id, [i \in DOMAIN kids |-> Info(i)]), {})

-----------------------------------------------------------------------------
(* Changing the tree.  Paths of set and put are of keys that are keys: for *)
(* any other the code goes on with a node that is none.                    *)

Target(t, path) == The(FindPath(Made(t, path), path))
WithNode(s, tree) == [s EXCEPT !.tree = tree]
Changed(s, r, tree, at, told) == Did(WithNode(s, tree), Ok(r.id, PathOf(tree, at)), told)
Valued(tree, at, value) == With(tree, at, [NodeAt(tree, at) EXCEPT !.value = value])

NodeSet(s, r) ==
  LET at == Target(s.tree, r.path)
  IN  IF r.value = {} THEN Refused(s, r, "invalid_params")
      ELSE Changed(s, r, Valued(Made(s.tree, r.path), at, The(r.value)), at, {at})

\* The tree comes as a document and is copied onto the target.
Put(tree, at, doc, insert, remove) ==
  With(tree, at, Copied(NodeAt(tree, at), NodeOf(doc, Fresh("import")), insert, remove))

\* Which of the nodes that were there a copy sets: each it is copied onto, or,
\* to update, those whose value is another.  Nobody observes a new one.
RECURSIVE CopyTells(_, _, _)
CopyTells(onto, from, update) ==
  (IF update /\ onto.value = from.value THEN {} ELSE {<<>>})
  \cup UNION {UNION {{<<j>> \o at : at \in CopyTells(onto.kids[j], from.kids[i], update)} :
                       j \in Match(from.kids, i, onto.kids)} : i \in DOMAIN from.kids}

PutTells(tree, at, doc, update) ==
  {at \o below : below \in CopyTells(NodeAt(tree, at), NodeOf(doc, Fresh("import")), update)}

NodePut(s, r) ==
  LET tree == Made(s.tree, r.path)
      at == Target(s.tree, r.path)
      doc == JsonOf(The(r.tree), FALSE)
  IN  IF r.tree = {} THEN Refused(s, r, "invalid_params")
      ELSE Changed(s, r, Put(tree, at, doc, TRUE, TRUE), at, PutTells(tree, at, doc, TRUE))

NodeRemove(s, r) ==
  IF r.path = <<>> THEN Refused(s, r, "invalid_params")
  ELSE IF Erasable(s.tree, r.path) = {} THEN Refused(s, r, "not_found")
  ELSE Did(WithNode(s, Removed(s.tree, The(Erasable(s.tree, r.path)))), Ok(r.id, r.path), {})

NodeTrigger(s, r) ==
  IF FindPath(s.tree, r.path) = {} THEN Refused(s, r, "not_found")
  ELSE Did(s, Ok(r.id, PathOf(s.tree, The(FindPath(s.tree, r.path)))), FindPath(s.tree, r.path))

-----------------------------------------------------------------------------
(* Commands, subscriptions and batches.                                    *)

CommandRun(s, r) ==
  IF r.name = "" THEN Refused(s, r, "invalid_params")
  ELSE IF r.name \notin DOMAIN Commands THEN Refused(s, r, "not_found")
  ELSE CASE Commands[r.name] = "fails" -> Refused(s, r, "command_failed")
         [] Commands[r.name] = "runs on" /\ ~ r.wait ->
              Did([s EXCEPT !.tasks = @ + 1], Accepted(r.id, s.tasks + 1), {})
         [] OTHER -> Did(s, Ok(r.id, <<"done">>), {})

\* The target is made if it is not there; without one there is nothing to
\* subscribe to, and the reply is the same.
Subscribe(s, r, session) ==
  LET tree == Made(s.tree, r.path)
      entry == [session |-> session, path |-> r.path, bubble |-> r.bubble]
  IN  IF session = 0 THEN Refused(s, r, "unsupported")
      ELSE Did([s EXCEPT !.tree = tree,
                         !.subscriptions = IF FindPath(tree, r.path) = {} THEN @ ELSE Append(@, entry)],
               Ok(r.id, r.path), {})

Unsubscribe(s, r, session) ==
  IF session = 0 THEN Refused(s, r, "unsupported")
  ELSE Did([s EXCEPT !.subscriptions = SelectSeq(@, LAMBDA e : ~ (e.session = session /\ e.path = r.path))],
           Ok(r.id, r.path), {})

RECURSIVE Dispatched(_, _, _)

\* dispatchBatch: each item as a request, whatever becomes of the others.
Batch(s, r, session) ==
  LET Then(done, item) ==
        LET d == Dispatched(done.state, item, session)
        IN  Did(d.state, Append(done.reply, d.reply), done.told \cup d.told)
      end == FoldLeft(Then, Did(s, <<>>, {}), The(r.items))
  IN  IF r.items = {} \/ Len(The(r.items)) > BatchLimit THEN Refused(s, r, "invalid_params")
      ELSE Did(end.state, Ok(r.id, end.reply), end.told)

\* A session of 0 is of a transport without subscriptions.
Dispatched(s, r, session) ==
  CASE r.op = "" -> Refused(s, r, "invalid_request")
    [] r.op = "batch" -> Batch(s, r, session)
    [] r.op = "node.get" -> NodeGet(s, r)
    [] r.op = "node.list" -> NodeList(s, r)
    [] r.op = "node.set" -> NodeSet(s, r)
    [] r.op = "node.put" -> NodePut(s, r)
    [] r.op = "node.remove" -> NodeRemove(s, r)
    [] r.op = "node.trigger" -> NodeTrigger(s, r)
    [] r.op = "command.list" -> Did(s, Ok(r.id, DOMAIN Commands), {})
    [] r.op = "command.run" -> CommandRun(s, r)
    [] r.op = "subscribe" -> Subscribe(s, r, session)
    [] r.op = "unsubscribe" -> Unsubscribe(s, r, session)
    [] OTHER -> Refused(s, r, "unknown_op")

-----------------------------------------------------------------------------
(***************************************************************************)
(* The servers' ways to the node protocol: its own envelope (/ve, and the  *)
(* sessions of the WebSocket, TCP and UDP servers), JSON-RPC, and the /at  *)
(* and /cmd resources (node_http_server.cpp).                              *)
(***************************************************************************)

CONSTANTS
  Tree0,                                   \* the tree at the start
  Sessions,                                \* of the stateful transports
  Requests, Calls, Resources, Runs,        \* what clients send, by the way it comes
  MaxNodes, MaxSubscriptions, MaxTasks     \* bounds

VARIABLES
  state, before,      \* the servers' root, subscriptions and tasks; as they were
  sent, answer, told  \* the last request, what was answered, and who was told

servers == <<state, before, sent, answer, told>>

\* A body as it is parsed.
Nothing == {}
Unparsable == [kind |-> "unparsable", value |-> Null, items |-> <<>>]
Parses(body) == \A d \in body : d.kind # "unparsable"

\* statusFromReply.
Status(reply) ==
  CASE reply.ok -> IF reply.accepted THEN 202 ELSE 200
    [] reply.code = "not_found" -> 404
    [] reply.code \in {"invalid_request", "invalid_params"} -> 400
    [] reply.code = "unsupported" -> 405
    [] OTHER -> 500

\* jsonRpcErrorCode.
RpcCode(reply) ==
  CASE reply.code = "unknown_op" -> -32601
    [] reply.code = "invalid_request" -> -32600
    [] reply.code \in {"invalid_params", "unsupported"} -> -32602
    [] OTHER -> -32000

Answer(status, body) == [status |-> status, body |-> body]
Failed(s, status) == [state |-> s, answer |-> Answer(status, "error"), told |-> {}]
Served(s, status, body, who) == [state |-> s, answer |-> Answer(status, body), told |-> who]

-----------------------------------------------------------------------------
(* /at: h is [path, body, and the parameters of the query].                *)

\* stripValues.
RECURSIVE Structure(_)
Structure(d) ==
  CASE d.kind = "object" -> Object(Each(LAMBDA f : Field(f.key, Structure(f.of)),
                                        SelectSeq(d.items, LAMBDA f : f.key # "_value")))
    [] d.kind = "array" -> Array(Each(Structure, d.items))
    [] OTHER -> Scalar(Null)

Got(s, h, at) ==
  LET node == NodeAt(s.tree, at)
      doc == JsonUpTo(node, h.ignore, h.depth)
      keys == [i \in DOMAIN node.kids |-> KeyOf(node.kids, i)]
  IN  CASE h.children -> [keys |-> keys, meta |-> IF h.meta THEN {Meta(s, at)} ELSE {}]
        [] ~ h.children /\ h.meta -> [meta |-> Meta(s, at)]
        [] ~ h.children /\ ~ h.meta /\ h.structure -> Structure(doc)
        [] OTHER -> doc

\* What is not there is answered with null or [].
Get(s, h) ==
  IF FindPath(s.tree, h.path) = {} THEN Served(s, 200, "nothing", {})
  ELSE Served(s, 200, Got(s, h, The(FindPath(s.tree, h.path))), {})

\* The target is made before the body is parsed.
PutAt(s, h) ==
  LET tree == Made(s.tree, h.path)
  IN  CASE h.body = Nothing -> Failed(s, 400)
        [] h.body # Nothing /\ (~ Parses(h.body) \/ FindPath(tree, h.path) = {}) -> Failed(WithNode(s, tree), 400)
        [] OTHER -> LET at == Target(s.tree, h.path)
                    IN  Served(WithNode(s, Put(tree, at, The(h.body), h.insert, h.remove)),
                               200, "ok", PutTells(tree, at, The(h.body), h.update))

\* Mutant: the node to trigger is made.
PostMakes(s, h) ==
  LET tree == Made(s.tree, h.path)
      found == FindPath(tree, h.path)
  IN  IF h.trigger \/ h.body = Nothing THEN Served(WithNode(s, tree), 200, "ok", found)
      ELSE Served(WithNode(s, Valued(tree, The(found), The(h.body).value)), 200, "ok", found)

\* Without a body the node is only triggered; a body that does not parse is
\* the null value.
PostAt(s, h) ==
  LET triggers == h.trigger \/ h.body = Nothing
      tree == IF triggers THEN s.tree ELSE Made(s.tree, h.path)
      found == FindPath(tree, h.path)
      value == IF Parses(h.body) THEN The(h.body).value ELSE Null
  IN  CASE found = {} -> Failed(WithNode(s, tree), 404)
        [] found # {} /\ triggers -> Served(s, 200, "ok", found)
        [] OTHER -> Served(WithNode(s, Valued(tree, The(found), value)), 200, "ok", found)

DeleteAt(s, h) ==
  CASE h.path = <<>> -> Failed(s, 400)
    [] h.path # <<>> /\ Erasable(s.tree, h.path) = {} -> Failed(s, 404)
    [] OTHER -> Served(WithNode(s, Removed(s.tree, The(Erasable(s.tree, h.path)))), 200, "ok", {})

At(s, h) ==
  CASE h.verb = "GET" -> Get(s, h)
    [] h.verb = "PUT" -> PutAt(s, h)
    [] h.verb = "POST" -> PostAt(s, h)
    [] h.verb = "DELETE" -> DeleteAt(s, h)

-----------------------------------------------------------------------------
(* /cmd, /jsonrpc and the envelope.                                        *)

Cmd(s, c) ==
  LET kind == Commands[c.name]
  IN  CASE c.name = "" -> Failed(s, 400)
        [] c.name # "" /\ c.name \notin DOMAIN Commands -> Failed(s, 404)
        [] c.name \in DOMAIN Commands /\ c.context # <<>> /\ FindPath(s.tree, c.context) = {} -> Failed(s, 404)
        [] c.name \in DOMAIN Commands /\ (c.context = <<>> \/ FindPath(s.tree, c.context) # {}) ->
             IF ~ Parses(c.body) THEN Failed(s, 400)
             ELSE IF kind = "runs on" /\ c.async THEN Served([s EXCEPT !.tasks = @ + 1], 202, s.tasks + 1, {})
             ELSE IF kind = "fails" THEN Failed(s, 500) ELSE Served(s, 200, <<"done">>, {})

\* handleJsonRpc: the parameters are the request, but for its operation; its
\* identifier is lost on the way in and put back on the way out.
JsonRpcReply(d, id) ==
  IF d.reply.ok THEN Served(d.state, 200, [d.reply EXCEPT !.id = id], d.told)
  ELSE Failed(d.state, RpcCode(d.reply))
JsonRpc(s, c) ==
  CASE ~ c.parses -> Failed(s, -32700)
    [] c.parses /\ (~ c.version2 \/ c.method = "") -> Failed(s, -32600)
    [] OTHER -> JsonRpcReply(Dispatched(s, [c.params EXCEPT !.op = c.method, !.id = {}], 0), c.id)

\* What is no document is refused without a look at the tree; m is a request
\* or none.
Written(d) == Served(d.state, Status(d.reply), d.reply, d.told)
Handled(s, m, session) == IF m = {} THEN Failed(s, 400) ELSE Written(Dispatched(s, The(m), session))

\* /ve and datagrams have no session, a WebSocket message is of its own.
Envelope(s, m) == Handled(s, m, 0)
Datagram(s, m) == Handled(s, m, 0)
Message(s, m, session) == Handled(s, m, session)

-----------------------------------------------------------------------------

Init ==
  /\ state = State(Tree0, <<>>, 0) /\ before = state
  /\ sent = [way |-> "none"] /\ answer = Answer(0, "none") /\ told = {}

Serve(how, what, served) ==
  /\ sent.way = "none"
  /\ Cardinality(NodesOf(served.state.tree)) <= MaxNodes
  /\ Len(served.state.subscriptions) <= MaxSubscriptions /\ served.state.tasks <= MaxTasks
  /\ before' = state /\ state' = served.state
  /\ sent' = [way |-> how, what |-> what]
  /\ answer' = served.answer /\ told' = served.told

\* removeSession, when its connection ends.
Disconnected(session) ==
  /\ sent.way = "none" /\ before' = state
  /\ state' = [state EXCEPT !.subscriptions = SelectSeq(@, LAMBDA e : e.session # session)]
  /\ sent' = [way |-> "end"] /\ answer' = Answer(0, "none") /\ told' = {}

\* The answer is on its way, and the next request may come.
Reply ==
  /\ sent.way # "none"
  /\ before' = state /\ sent' = [way |-> "none"] /\ answer' = Answer(0, "none") /\ told' = {}
  /\ UNCHANGED state

Next ==
  \/ \E m \in {{}} \cup {{r} : r \in Requests} :
       \/ Serve("ve", m, Envelope(state, m))
       \/ Serve("udp", m, Datagram(state, m))
       \/ \E session \in Sessions : Serve("ws", m, Message(state, m, session))
  \/ \E c \in Calls : Serve("jsonrpc", c, JsonRpc(state, c))
  \/ \E h \in Resources : Serve("at", h, At(state, h))
  \/ \E c \in Runs : Serve("cmd", c, Cmd(state, c))
  \/ \E session \in Sessions : Disconnected(session)
  \/ Reply

Spec == Init /\ [][Next]_servers

-----------------------------------------------------------------------------

\* The request that says in the envelope what a resource says.
Meant(h) ==
  CASE h.verb = "GET" -> [Request EXCEPT !.op = "node.get", !.path = h.path]
    [] h.verb = "DELETE" -> [Request EXCEPT !.op = "node.remove", !.path = h.path]
    [] h.verb = "PUT" -> [Request EXCEPT !.op = "node.put", !.path = h.path,
                            !.tree = {NodeOf(d, Fresh("tree")) : d \in h.body}]
    [] h.verb = "POST" ->
         IF h.trigger \/ h.body = Nothing THEN [Request EXCEPT !.op = "node.trigger", !.path = h.path]
         ELSE [Request EXCEPT !.op = "node.set", !.path = h.path, !.value = {d.value : d \in h.body}]

\* Whichever way a request comes, what becomes of the tree, the subscriptions
\* and the tasks, who is told, and whether it is granted are the same (docs,
\* "Internally it maps onto the same dispatcher"); but for what the README
\* names: a missing node is got as null, a body that does not parse, and PUT,
\* which removes only if told to and tells also those whose value stays, unless
\* told to update.
WaysAgree ==
  /\ sent.way = "at" /\ Parses(sent.what.body) =>
       \A d \in {Dispatched(before, Meant(sent.what), 0)}, put \in {sent.what.verb = "PUT"} :
         /\ (put => sent.what.insert /\ sent.what.remove) => state = d.state
         /\ d.told \subseteq told /\ ((put => sent.what.update) => told = d.told)
         /\ sent.what.verb # "GET" => answer.status = Status(d.reply)
  /\ sent.way = "cmd" /\ Parses(sent.what.body) /\ sent.what.context = <<>> =>
       \A d \in {Dispatched(before, [Request EXCEPT !.op = "command.run", !.name = sent.what.name,
                                                    !.wait = ~ sent.what.async], 0)} :
         state = d.state /\ answer.status = Status(d.reply)
  /\ sent.way = "jsonrpc" /\ sent.what.parses /\ sent.what.version2 /\ sent.what.method # "" =>
       \A d \in {Dispatched(before, [sent.what.params EXCEPT !.op = sent.what.method], 0)} :
         state = d.state /\ told = d.told /\ (answer.status = 200 <=> d.reply.ok)

\* What is refused changes nothing and tells nobody; what is granted is so
\* afterwards, and the path in the reply is the node's (node_protocol.cpp).
RefusedUnchanged ==
  /\ sent.way \in {"ve", "udp", "ws"} /\ sent.what = {} => state = before /\ told = {}
  /\ sent.way \in {"ve", "udp", "ws"} /\ sent.what # {} =>
    LET r == The(sent.what)
        reply == answer.body
    IN  /\ reply.id = r.id
        /\ ~ reply.ok => state = before /\ told = {}
        /\ reply.ok =>
             CASE r.op = "node.set" -> /\ FindPath(state.tree, r.path) = FindPath(state.tree, reply.data)
                                       /\ \A at \in FindPath(state.tree, r.path) : NodeAt(state.tree, at).value \in r.value
               [] r.op = "node.remove" -> Cardinality(NodesOf(state.tree)) < Cardinality(NodesOf(before.tree))
               [] r.op = "batch" -> Len(reply.data) = Len(The(r.items))
                                    /\ \A i \in DOMAIN reply.data : reply.data[i].id = The(r.items)[i].id
               [] OTHER -> TRUE

-----------------------------------------------------------------------------
(***************************************************************************)
(* The servers that keep connections, each with its subscriptions: lines   *)
(* (node_tcp_server.cpp), frames (tcp_bin_server.cpp, tcp_bin_frame.cpp)   *)
(* and messages (node_ws_server.cpp).  What a client writes comes cut      *)
(* anywhere, but for messages.  All of them count the subscriptions to a   *)
(* path together (subscribe_service.cpp).                                  *)
(***************************************************************************)

CONSTANTS
  Server,      \* of each session
  Meaning,     \* the requests, by what a line, a frame or a message has in it
  Chunks,      \* how many bytes come at once
  Letters      \* what clients may write, by server: sequences of sequences of
               \* [wire, text], the text <<>> if it is to be passed over

VARIABLES
  wires,       \* of the sessions there are: [letter, coming, kept, replies]
  counts,      \* SharedRegistry: path |-> how many
  up,          \* the servers that run
  connCount

streams == <<wires, counts, up, connCount>>

\* Of what the client writes, what is still on its way, what is kept until the
\* rest of it comes (recvBuf), and what was answered.
NewWire(written, letter) ==
  [letter |-> letter, coming |-> FlattenSeq([i \in DOMAIN written |-> written[i].wire]), kept |-> <<>>, replies |-> <<>>]

\* What is at the head of a buffer, if it is whole: whether it is passed over,
\* what is in it and what is behind it.
Unit(passed, text, rest) == {[passed |-> passed, text |-> text, rest |-> rest]}

Bare(line) == IF line # <<>> /\ Last(line) = "\r" THEN Front(line) ELSE line
PopLine(kept) ==
  LET ends == {i \in DOMAIN kept : kept[i] = "\n"}
  IN  UNION {Unit(Bare(SubSeq(kept, 1, i - 1)) = <<>>, Bare(SubSeq(kept, 1, i - 1)), SubSeq(kept, i + 1, Len(kept))) :
               i \in {j \in ends : \A k \in ends : j <= k}}

\* tryPopFrame: a flag, a length and as much of a payload.
Whole(kept) == Len(kept) >= 2 /\ Len(kept) >= 2 + kept[2]
PopFrame(kept) ==
  IF ~ Whole(kept) THEN {}
  ELSE Unit(kept[1] # "request", SubSeq(kept, 3, 2 + kept[2]), SubSeq(kept, 3 + kept[2], Len(kept)))

PopMessage(kept) == IF kept = <<>> THEN {} ELSE Unit(FALSE, Head(kept), Tail(kept))

Pop(server, kept) ==
  CASE server = "tcp" -> PopLine(kept) [] server = "bin" -> PopFrame(kept) [] server = "ws" -> PopMessage(kept)

\* What is no document is answered as a request without an operation.
Parsed(text) == IF text \in DOMAIN Meaning THEN Meaning[text] ELSE Request

\* addCount and removeCount.
AddCount(c, path) == [c EXCEPT ![path] = @ + 1]
RemoveCount(c, path) == [c EXCEPT ![path] = IF @ > 1 THEN @ - 1 ELSE 0]
Discounted(c, entries) == FoldLeft(LAMBDA x, e : RemoveCount(x, e.path), c, entries)

Recounted(c, s, r, session) ==
  CASE r.op = "subscribe" /\ FindPath(Made(s.tree, r.path), r.path) # {} -> AddCount(c, r.path)
    [] r.op = "unsubscribe" ->
         Discounted(c, SelectSeq(s.subscriptions, LAMBDA e : e.session = session /\ e.path = r.path))
    [] OTHER -> c

\* A buffer, and what becomes of the replies, the tree and the counts.
Work(kept, replies, s, c) == [kept |-> kept, replies |-> replies, state |-> s, counts |-> c]

\* One request of a session.
Worked(session, work, text, rest) ==
  LET r == Parsed(text)
      d == Dispatched(work.state, r, session)
  IN  Work(rest, Append(work.replies, d.reply), d.state, Recounted(work.counts, work.state, r, session))

\* processLines, processFrames: as long as there is a whole one.
RECURSIVE Processed(_, _)
Processed(session, work) ==
  LET popped == Pop(Server[session], work.kept)
      unit == The(popped)
  IN  IF popped = {} THEN work
      ELSE Processed(session, IF unit.passed THEN [work EXCEPT !.kept = unit.rest]
                              ELSE Worked(session, work, unit.text, unit.rest))

Live == DOMAIN wires

StreamInit ==
  /\ wires = [session \in {} |-> NewWire(<<>>, 0)] /\ counts = [p \in {r.path : r \in Range(Meaning)} |-> 0]
  /\ up = Range(Server) /\ connCount = [server \in up |-> 0]

\* bind_connect.
StreamConnect(session, letter) ==
  /\ Server[session] \in up /\ session \notin Live
  /\ wires' = [l \in Live \cup {session} |->
                 IF l = session THEN NewWire(Letters[Server[session]][letter], letter) ELSE wires[l]]
  /\ connCount' = [connCount EXCEPT ![Server[session]] = @ + 1]
  /\ UNCHANGED <<state, counts, up>>

\* bind_recv: the next n bytes, or a message.
StreamReceive(session, n) ==
  /\ session \in Live /\ n <= Len(wires[session].coming)
  /\ Server[session] = "ws" => n = 1
  /\ LET w == wires[session]
         done == Processed(session, Work(w.kept \o SubSeq(w.coming, 1, n), w.replies, state, counts))
     IN  /\ wires' = [wires EXCEPT ![session].coming = SubSeq(@, n + 1, Len(@)), ![session].kept = done.kept,
                                   ![session].replies = done.replies]
         /\ state' = done.state /\ counts' = done.counts
  /\ UNCHANGED <<up, connCount>>

\* removeSession for each, in bind_disconnect.
Ended(sessions) ==
  LET Of(e) == e.session \in sessions
  IN  /\ state' = [state EXCEPT !.subscriptions = SelectSeq(@, LAMBDA e : ~ Of(e))]
      /\ counts' = Discounted(counts, SelectSeq(state.subscriptions, Of))
      /\ wires' = [l \in Live \ sessions |-> wires[l]]
      /\ connCount' = [server \in DOMAIN connCount |->
                         connCount[server] - Cardinality({l \in sessions : Server[l] = server})]

StreamBreak(session) == session \in Live /\ Ended({session}) /\ UNCHANGED up

\* stop: the sessions end, each as above, and then the service that has their
\* subscriptions; start makes one anew.
StreamStop(server) ==
  /\ server \in up /\ up' = up \ {server}
  /\ Ended({l \in Live : Server[l] = server})
StreamStart(server) == server \notin up /\ up' = up \cup {server} /\ UNCHANGED <<wires, counts, connCount, state>>

StreamNext ==
  /\ \/ \E session \in DOMAIN Server :
          \/ \E letter \in DOMAIN Letters[Server[session]] : StreamConnect(session, letter)
          \/ \E n \in Chunks : StreamReceive(session, n)
          \/ StreamBreak(session)
     \/ \E server \in Range(Server) : StreamStop(server) \/ StreamStart(server)
  /\ UNCHANGED <<before, sent, answer, told>>

-----------------------------------------------------------------------------

\* The requests of what a client has written that has come as a whole.
Come(session) ==
  LET written == Letters[Server[session]][wires[session].letter]
      upTo == [i \in DOMAIN written |-> Len(FlattenSeq([k \in 1 .. i |-> written[k].wire]))]
      came == Last(upTo) - Len(wires[session].coming)
      whole == SelectSeq([i \in DOMAIN written |-> i], LAMBDA i : upTo[i] <= came /\ written[i].text # <<>>)
  IN  [i \in DOMAIN whole |-> Parsed(written[whole[i]].text)]

\* However it is cut, each request that has come as a whole is answered, once
\* and in the order they were written, and nothing else is (processLines,
\* processFrames).
AnsweredInOrder ==
  \A l \in Live : \A come \in {Come(l)} :
    /\ Len(wires[l].replies) = Len(come)
    /\ \A i \in DOMAIN come : wires[l].replies[i].id = come[i].id

\* A session is subscribed to a path as often as it has asked since it asked
\* not to be, nobody else is, and what all servers count is what they all have
\* (subscribe_service.cpp; getSubscriberCount).
CountsAgree ==
  LET Entries(Has(_)) == Len(SelectSeq(state.subscriptions, Has))
      Asks(r, op, path) == r.op = op /\ r.path = path
  IN  /\ \A path \in DOMAIN counts : counts[path] = Entries(LAMBDA e : e.path = path)
      /\ \A i \in DOMAIN state.subscriptions : state.subscriptions[i].session \in Live
      /\ \A l \in Live : \A come \in {Come(l)}, path \in DOMAIN counts :
           FindPath(state.tree, path) # {} =>
             Entries(LAMBDA e : e.session = l /\ e.path = path)
               = Cardinality({i \in DOMAIN come : Asks(come[i], "subscribe", path)
                                                  /\ \A k \in i + 1 .. Len(come) : ~ Asks(come[k], "unsubscribe", path)})
      /\ \A server \in DOMAIN connCount : connCount[server] = Cardinality({l \in Live : Server[l] = server})

-----------------------------------------------------------------------------
(***************************************************************************)
(* Clients that send one request and take one answer, on the servers       *)
(* above: the Python transports over /ve and over JSON-RPC                 *)
(* (transports.py, and async_transports.py without waiting threads) and    *)
(* the SDK's (http.ts).  What is sent is made here, and what the caller is *)
(* told of the answer.                                                     *)
(***************************************************************************)

CONSTANT Asked  \* what callers ask: [do, path, value, tree, name, args, items]

\* What a caller is told: something, none, that it was done or not, or an error.
Outcome(is, what) == [is |-> is, what |-> what]
Told(what) == Outcome("told", {what})
None     == Outcome("none", {})
Granted  == Outcome("granted", {})
Denied   == Outcome("denied", {})
Raises   == Outcome("raises", {})
Promised(task) == Outcome("promised", {task})

\* What the server has answered, and what is made of it.
Taken(served, outcome) == [state |-> served.state, answer |-> outcome, told |-> served.told]

-----------------------------------------------------------------------------
(* What is sent.                                                           *)

\* _command_payload: of named arguments "wait" and "id" are the request's own,
\* "args" or "argv" are all there is, and the others go together.
CommandPayload(args) ==
  LET given == DOMAIN args
      own == IF "args" \in given THEN {"args"} ELSE IF "argv" \in given THEN {"argv"} ELSE given \ {"wait", "id"}
  IN  [wait |-> "wait" \in given => args["wait"], args |-> own]

Op == [get |-> "node.get", set |-> "node.put", val |-> "node.get", write |-> "node.set", trigger |-> "node.trigger",
       rm |-> "node.remove", list |-> "node.list", tree |-> "node.get", command |-> "command.run",
       cmds |-> "command.list", batch |-> "batch", ping |-> "node.get"]
Sent(c) ==
  [Request EXCEPT !.op = Op[c.do], !.path = c.path, !.value = c.value, !.tree = c.tree, !.items = c.items,
                  !.name = c.name, !.wait = CommandPayload(c.args).wait,
                  !.depth = IF c.do \in {"get", "tree"} THEN {Unlimited} ELSE {}]

\* data.get("tree") or data.get("value"): an empty tree is passed over.
Truthy(doc) == doc.kind # "scalar" \/ doc.value \notin {Null, <<"0">>}
TreeOrValue(data) ==
  IF \E t \in data.tree : Truthy(t) THEN Told(The(data.tree)) ELSE Told(Scalar(data.value))

-----------------------------------------------------------------------------
(* HttpRestTransport: raise_for_status turns every refusal into an error,  *)
(* so that what the answer says of it is not looked at.                    *)

Call(s, c) == Envelope(s, {Sent(c)})
RestRead(a, reply) ==
  Taken(a, IF a.answer.status = 404 THEN None ELSE IF a.answer.status >= 400 THEN Raises ELSE reply)
RestGet(a) == RestRead(a, TreeOrValue(a.answer.body.data))
RestVal(a) == RestRead(a, Told(a.answer.body.data.value))
RestDone(a) == Taken(a, IF a.answer.status >= 400 THEN Raises ELSE Granted)
\* trigger: an error is a refusal here.
RestTrigger(a) == Taken(a, IF a.answer.status >= 400 THEN Denied ELSE Granted)
RestList(a) == Taken(a, IF a.answer.status >= 400 THEN Raises ELSE Told(a.answer.body.data))

\* tree: from /at, where hidden names are left out.
AtGet(path) == [verb |-> "GET", path |-> path, body |-> {}, children |-> FALSE, meta |-> FALSE, structure |-> FALSE,
                ignore |-> TRUE, depth |-> Unlimited, trigger |-> FALSE, insert |-> TRUE, remove |-> FALSE, update |-> FALSE]
AtTold(found, a) == Taken(a, IF found = {} THEN None ELSE Told(a.answer.body))
RestTree(s, c) == AtTold(FindPath(s.tree, c.path), At(s, AtGet(c.path)))

RestCommand(a) ==
  Taken(a, IF a.answer.status >= 400 THEN Raises
           ELSE IF a.answer.body.accepted THEN Promised(a.answer.body.data) ELSE Told(a.answer.body.data))

\* cmds wants the answer's data to be a list, where it is an object with one;
\* batch wants an object, where it is a list: of either nothing is left.
RestNothing(a) == Taken(a, IF a.answer.status >= 400 THEN Raises ELSE Told({}))

RestTold(c, a) ==
  CASE c.do = "get" -> RestGet(a)
    [] c.do = "val" -> RestVal(a)
    [] c.do \in {"set", "write", "rm"} -> RestDone(a)
    [] c.do = "trigger" -> RestTrigger(a)
    [] c.do = "list" -> RestList(a)
    [] c.do = "command" -> RestCommand(a)
    [] c.do \in {"cmds", "batch"} -> RestNothing(a)

Rest(s, c) ==
  CASE c.do = "tree" -> RestTree(s, c)
    [] c.do = "ping" -> Taken(Served(s, 200, "ok", {}), Granted)
    [] OTHER -> RestTold(c, Call(s, c))

-----------------------------------------------------------------------------
(* JsonRpcTransport.  An error has a number and the server's words, "node  *)
(* not found": "not_found" is not among them.                              *)

RpcCall(s, c) ==
  JsonRpc(s, [parses |-> TRUE, version2 |-> TRUE, method |-> Op[c.do], params |-> Sent(c), id |-> {1}])
RpcRead(a, reply) == Taken(a, IF a.answer.status # 200 THEN Raises ELSE reply)
RpcGet(a) == RpcRead(a, TreeOrValue(a.answer.body.data))
RpcVal(a) == RpcRead(a, Told(a.answer.body.data.value))
RpcTree(a) == RpcRead(a, Told(The(a.answer.body.data.tree)))
RpcList(a) == RpcRead(a, Told(a.answer.body.data))
RpcDone(a) == RpcRead(a, Granted)
RpcCommand(a) ==
  RpcRead(a, IF a.answer.body.accepted THEN Promised(a.answer.body.data) ELSE Told(a.answer.body.data))
RpcNothing(a) == RpcRead(a, Told({}))
RpcPing(a) == Taken(a, IF a.answer.status # 200 THEN Denied ELSE Granted)

RpcTold(c, a) ==
  CASE c.do = "get" -> RpcGet(a)
    [] c.do = "val" -> RpcVal(a)
    [] c.do = "tree" -> RpcTree(a)
    [] c.do = "list" -> RpcList(a)
    [] c.do \in {"set", "write", "rm", "trigger"} -> RpcDone(a)
    [] c.do = "command" -> RpcCommand(a)
    [] c.do \in {"cmds", "batch"} -> RpcNothing(a)
    [] c.do = "ping" -> RpcPing(a)

Rpc(s, c) == RpcTold(c, RpcCall(s, c))

-----------------------------------------------------------------------------
(* VeHttpClient: what is refused is thrown; unwrap also throws what is not *)
(* done yet, but run gives the whole reply.                                *)

Unwrap(a, reply) ==
  Taken(a, IF a.answer.status >= 400 \/ a.answer.body.accepted THEN Raises ELSE reply)
\* data.tree ?? data.value: only null is passed over.
PageGet(a) ==
  LET data == a.answer.body.data
  IN  Unwrap(a, IF \E t \in data.tree : t # Scalar(Null) THEN Told(The(data.tree)) ELSE Told(Scalar(data.value)))
PageVal(a) == Unwrap(a, Told(a.answer.body.data.value))
PageList(a) == Unwrap(a, Told(a.answer.body.data))
PageDone(a) == Unwrap(a, Granted)
PageRun(a) ==
  Taken(a, IF a.answer.status >= 400 THEN Raises
           ELSE IF a.answer.body.accepted THEN Promised(a.answer.body.data) ELSE Told(a.answer.body.data))
\* exportTree: all of it from /at as it is; PUT /at for importTree.
PageExport(s, c) == AtTold(FindPath(s.tree, c.path), At(s, AtGet(c.path)))
PageNothing(a) == Unwrap(a, None)

PageTold(c, a) ==
  CASE c.do = "get" -> PageGet(a)
    [] c.do = "val" -> PageVal(a)
    [] c.do \in {"list", "cmds"} -> PageList(a)
    [] c.do \in {"set", "write", "rm", "trigger"} -> PageDone(a)
    [] c.do = "command" -> PageRun(a)
    [] c.do = "batch" -> PageNothing(a)

Page(s, c) ==
  CASE c.do = "tree" -> PageExport(s, c)
    [] c.do = "ping" -> Taken(Served(s, 200, "ok", {}), Granted)
    [] OTHER -> PageTold(c, Call(s, c))

-----------------------------------------------------------------------------

Clients == {"rest", "rpc", "page"}
Called(client, s, c) == CASE client = "rest" -> Rest(s, c) [] client = "rpc" -> Rpc(s, c) [] client = "page" -> Page(s, c)

ClientNext ==
  \/ Next
  \/ \E client \in Clients, c \in Asked : Serve(client, c, Called(client, state, c))

-----------------------------------------------------------------------------

\* What the server does not grant, no client takes for granted, and what it
\* grants is told so; get is all the node has, whatever is passed over on the
\* way (transports.py, async_transports.py, http.ts).  A node that is not there
\* is none to one of them and an error to the others.
ClientsTold ==
  sent.way \in Clients =>
    \A d \in {Dispatched(before, Sent(sent.what), 0)} :
      /\ state = d.state /\ told = d.told
      /\ sent.what.do # "tree" => (d.reply.ok <=> answer.is \in {"told", "granted", "promised"} \/ (sent.what.do = "batch" /\ answer = None))
      /\ sent.what.do = "get" /\ d.reply.ok =>
           answer.what = {JsonOf(NodeAt(state.tree, The(FindPath(state.tree, sent.what.path))), FALSE)}

\* Whichever client asks, what is granted is told alike.
ClientsAgree ==
  sent.way \in Clients /\ sent.what.do \notin {"tree", "cmds", "batch"} =>
    \A other \in {Called(client, before, sent.what) : client \in Clients} :
      /\ other.state = state
      /\ answer.is \in {"told", "granted", "promised"} => other.answer = answer

\* A node that is not there is none, as get's "not_found" says.  Not by
\* JSON-RPC, whose errors do not have the word.
NoneForMissing ==
  sent.way \in {"rest", "rpc"} /\ sent.what.do \in {"get", "val"} /\ FindPath(before.tree, sent.what.path) = {} =>
    answer = None

\* The commands there are and the answers of a batch are told.
AllTold ==
  sent.way \in Clients /\ sent.what.do = "cmds" => answer = Told(DOMAIN Commands)
=============================================================================
