------------------------------- MODULE MCData -------------------------------
(***************************************************************************)
(* What a node is made of and what is done with whole trees, one part at a *)
(* time: the containers, the copy of a tree onto another, the formats, the *)
(* protocol and the ways to it, the commands on trees, and nodes on a Qt   *)
(* page.                                                                   *)
(***************************************************************************)
EXTENDS NodeTrees, TLC

CONSTANTS Aliases, Careful

VARIABLES
  which,
  source, target, before, copyOptions,
  tree, format, doc, hides, onto, result, formatOptions,
  slots, index, allocated, list, entries,
  elements, size, heap, meant,
  state, held, sent, answer, told,
  wires, counts, up, connCount,
  root, current, files, did, glob, line, entered, turn,
  branches, contents, on, route, steps, queue, shown, changed, mixed, sets, made

copying  == <<source, target, before, copyOptions>>
formats  == <<tree, format, doc, hides, onto, result, formatOptions>>
table    == <<slots, index, allocated, list, entries>>
vectors  == <<elements, size, heap, meant>>
requests == <<state, held, sent, answer, told>>
streams  == <<wires, counts, up, connCount>>
commands == <<root, current, files, did, glob, line, entered, turn>>
pages    == <<branches, contents, on, route, steps, queue, shown, changed, mixed, sets, made>>

\* All the trees with at most n nodes below the root: their names from a set,
\* their values given by their place or by their name.
RECURSIVE Placed(_, _, _, _)
Placed(names, n, at, k) ==
  IF n = 0 THEN {<<>>}
  ELSE UNION {{<<[name |-> name, value |-> Append(at, k), kids |-> below]>> \o rest :
                 name \in names, below \in Placed(names, m, Append(at, k), 1),
                 rest \in Placed(names, n - 1 - m, at, k + 1)} : m \in 0 .. n - 1}

ValueOf(name) == CASE name = "_title" -> <<"*a*">> [] name = "_level" -> <<"2">> [] OTHER -> <<"v">>

RECURSIVE Valued(_, _)
Valued(names, n) ==
  IF n = 0 THEN {<<>>}
  ELSE UNION {UNION {{<<[name |-> name, value |-> v, kids |-> below]>> \o rest :
                        v \in {<<>>, ValueOf(name)}, below \in Valued(names, m),
                        rest \in Valued(names, n - 1 - m)} : name \in names} : m \in 0 .. n - 1}

Top(value, below) == [name |-> "r", value |-> value, kids |-> below]
Grown(mark, names, n) == {Top(<<mark>>, f) : f \in Placed(names, n, <<mark>>, 1)}
Marked(mark, n) == UNION {Grown(mark, {"", "a", "b"}, k) : k \in 0 .. n}
MarkedNamed(mark, n) == Marked(mark, n - 1) \cup Grown(mark, {"a", "b"}, n)
OfNames(choices, n) == {Top(v, f) : v \in {<<>>, <<"v">>}, f \in UNION {Valued(names, n) : names \in choices}}
Mixed(n) == UNION {OfNames({{"", "a", "@a"}, {"", "a", "_title", "_level"}}, k) : k \in 0 .. n - 1}
            \cup OfNames({{"a", "@a"}, {"a", "_title", "_level"}}, n)

Wt == INSTANCE TreeFormats WITH
  Sources <- Marked("s", 3), Targets <- MarkedNamed("t", 3),
  Exported <- Mixed(3), Existing <- {Top(<<>>, <<>>)}, MaxLevel <- 2

\* The capacities are the first primes instead of those of the code, and most
\* keys contend for a place.
Ct == INSTANCE Containers WITH
  Keys <- 1 .. 5, MapValues <- {0, 1}, Hash <- <<0, 1, 6, 4, 9>>, Capacities <- <<2, 3, 5, 7>>,
  MinIndex <- 3, MaxElements <- 5, mapSlots <- slots, mapMeant <- entries,
  Vectors <- {1, 2}, VectorValues <- {"a", "b"}, Inline <- 2, MaxSize <- 4, vectorSlots <- elements, vectorMeant <- meant

\* One object on a page, and a thread besides the page's.
Qn == INSTANCE QuickNodes WITH
  Viewers <- {"q"}, Threads <- {"w"}, Paths <- {<<>>, <<"a">>, <<"a", "b">>}, Values <- {"x"}, MaxNodes <- 4, MaxSets <- 2,
  tree <- branches, value <- contents, path <- route, pc <- steps, seen <- shown

K(name) == Key(name, Plain)
Zero == Scalar(<<"0">>)

-----------------------------------------------------------------------------
(* Requests: on the root, on a node that is there, on a second one of its  *)
(* name, and on the one below it.                                          *)

A1 == <<Key("a", 1)>>
Places == {<<>>, <<K("a")>>, A1, <<K("a"), K("b")>>}
Request == [op |-> "", id |-> {}, path |-> <<>>, value |-> {}, tree |-> {}, items |-> {},
            name |-> "", wait |-> TRUE, depth |-> {}, bubble |-> FALSE]
Asks(op, path) == [Request EXCEPT !.op = op, !.path = path, !.id = {1}]
Items == <<Asks("node.remove", <<K("a"), K("b")>>), [Asks("node.set", A1) EXCEPT !.value = {<<"0">>}, !.id = {2}]>>
Runs == {"", "other", "quick", "wrong", "slow"}

ForNodes ==
  {Asks(op, p) : op \in {"node.get", "node.remove", "node.trigger"}, p \in Places \ {<<K("a")>>}}
  \cup {[Asks("node.set", p) EXCEPT !.value = v] : p \in {A1, <<K("a"), K("b")>>}, v \in {{}, {<<"0">>}}}
  \cup {[Asks("node.put", p) EXCEPT !.tree = t] :
          p \in {<<K("a")>>, A1}, t \in {{}, {Tree("", Null, <<Tree("b", <<"0">>, <<>>)>>)}}}
MCRequests ==
  ForNodes \cup {Asks(op, <<K("a")>>) : op \in {"", "none", "node.list", "command.list", "subscribe", "unsubscribe", "batch"}}
  \cup {[Asks("command.run", <<>>) EXCEPT !.name = n, !.wait = w] : n \in Runs, w \in BOOLEAN}
  \cup {Asks("subscribe", A1), Asks("node.list", A1)}
  \cup {[Request EXCEPT !.op = "batch", !.items = {i}] : i \in {<<>>, Items, Items \o Items}}
MCCalls ==
  {[parses |-> p, version2 |-> v, method |-> m.op, params |-> m, id |-> {7}] :
     p, v \in BOOLEAN, m \in {m \in ForNodes : m.op \in {"node.remove", "node.put"}}}
Verb == [verb |-> "GET", path |-> A1, body |-> {}, children |-> FALSE, meta |-> FALSE, structure |-> FALSE,
         ignore |-> TRUE, depth |-> 1, trigger |-> FALSE, insert |-> TRUE, remove |-> FALSE, update |-> FALSE]
Unparsable == [kind |-> "unparsable", value |-> Null, items |-> <<>>]
MCResources ==
  {[Verb EXCEPT !.path = p, !.children = c, !.meta = m, !.structure = s] :
     p \in {<<K("a")>>, A1}, c, m \in BOOLEAN, s \in {FALSE}}
  \cup {[Verb EXCEPT !.path = <<>>, !.structure = TRUE]}
  \cup {[Verb EXCEPT !.verb = v, !.path = p, !.body = b] :
          v \in {"PUT", "POST"}, p \in {A1, <<K("a"), K("b")>>}, b \in {{}, {Unparsable}, {Zero}, {Object(<<[key |-> "b", of |-> Zero]>>)}}}
  \cup {[Verb EXCEPT !.verb = "PUT", !.path = p, !.body = b, !.insert = i, !.remove = TRUE, !.update = u] :
          p \in {<<>>, A1}, b \in {{Zero}, {Object(<<[key |-> "a", of |-> Zero]>>)}}, i, u \in BOOLEAN}
  \cup {[Verb EXCEPT !.verb = v, !.trigger = TRUE] : v \in {"POST"}}
  \cup {[Verb EXCEPT !.verb = "DELETE", !.path = p] : p \in Places}
MCRuns ==
  {[name |-> n, context |-> c, body |-> b, async |-> a] : n \in Runs, c \in {<<>>, A1}, b \in {{}}, a \in BOOLEAN}
  \cup {[name |-> "quick", context |-> <<>>, body |-> {Unparsable}, async |-> FALSE]}

\* Callers of the clients: also of a node that is not there, for a value that
\* counts as none, and with arguments that have names of the request's own.
Call(do, path) == [do |-> do, path |-> path, value |-> {}, tree |-> {}, name |-> "", args |-> [k \in {} |-> TRUE], items |-> {}]
MCAsked ==
  {Call(do, p) : do \in {"get", "val", "rm"}, p \in {A1, <<K("a"), K("b")>>}}
  \cup {Call(do, A1) : do \in {"tree", "list", "trigger"}}
  \cup {[Call("write", <<K("a"), K("b")>>) EXCEPT !.value = {<<"0">>}]}
  \cup {[Call("set", <<K("a")>>) EXCEPT !.tree = {t}] : t \in {Fresh(""), Tree("", <<"0">>, <<>>)}}
  \cup {[Call("command", <<>>) EXCEPT !.name = n, !.args = [k \in g |-> w]] :
           n \in {"quick", "wrong", "slow"}, g \in {{}, {"wait"}, {"wait", "args"}}, w \in BOOLEAN}
  \cup {Call("cmds", <<>>), Call("ping", <<>>), [Call("batch", <<>>) EXCEPT !.items = {Items}]}

\* What clients write to the servers that keep connections: with empty lines
\* and a frame that is no request in between, and with what is no document.
Line(wire, text) == [wire |-> wire, text |-> text]
Frame(flag, text) == [wire |-> <<flag, Len(text)>> \o text, text |-> IF flag = "request" THEN text ELSE <<>>]
MCLetters ==
  [tcp |-> << <<Line(<<"s", "\n">>, <<"s">>), Line(<<"\n">>, <<>>), Line(<<"x", "\r", "\n">>, <<"x">>), Line(<<"u", "\n">>, <<"u">>)>>,
              <<Line(<<"\r", "\n">>, <<>>), Line(<<"s", "\n">>, <<"s">>)>> >>,
   bin |-> << <<Frame("request", <<"s">>), Frame("notify", <<"s">>), Frame("request", <<"x", "u">>)>> >>,
   ws |-> << <<Line(<< <<"s">> >>, <<"s">>), Line(<< <<"n">> >>, <<"n">>), Line(<< <<"s">> >>, <<"s">>), Line(<< <<"u">> >>, <<"u">>)>> >>]
MCMeaning ==
  <<"s">> :> Asks("subscribe", A1) @@ <<"u">> :> [Asks("unsubscribe", A1) EXCEPT !.id = {2}]
  @@ <<"n">> :> [Asks("subscribe", <<Key("a", 3)>>) EXCEPT !.id = {3}]

Http == INSTANCE NodeProtocol WITH
  Server <- <<"tcp", "bin", "ws">>,
  Meaning <- MCMeaning, Chunks <- {1, 5}, Letters <- MCLetters,
  Commands <- [quick |-> "succeeds", wrong |-> "fails", slow |-> "runs on"], BatchLimit <- 3,
  Tree0 <- Tree("", Null, <<Tree("a", Null, <<Fresh("b")>>)>>), Sessions <- {1},
  Requests <- MCRequests, Calls <- MCCalls, Resources <- MCResources, Runs <- MCRuns, Asked <- MCAsked,
  MaxNodes <- 4, MaxSubscriptions <- 1, MaxTasks <- 1, before <- held

-----------------------------------------------------------------------------
(* Commands on whole trees.                                                *)

To(absolute, names) == [absolute |-> absolute, keys |-> [i \in DOMAIN names |-> K(names[i])]]
Query == [root |-> <<>>, names |-> {}, values |-> {}, paths |-> {}, leaves |-> FALSE, top |-> 2, empty |-> FALSE]
MCQueries ==
  {[Query EXCEPT !.names = {"a", "b"}, !.leaves = l, !.top = t] : l \in BOOLEAN, t \in {1, 3}}
  \cup {[Query EXCEPT !.values = {<<"v">>}, !.root = r] : r \in {<<>>, <<K("a")>>, <<K("d")>>}}
  \cup {[Query EXCEPT !.paths = {<<"a", "b">>}], [Query EXCEPT !.empty = TRUE]}

Words(letters, n) == UNION {[1 .. k -> letters] : k \in 0 .. n}

MCTree == Tree("", Null, <<Tree("a", <<"v">>, <<Fresh("b")>>), Tree("c", <<"callable">>, <<Tree("b", <<"v">>, <<>>)>>)>>)

\* Lines of a terminal: words with quotes, blanks and backslashes in them, and
\* three ways to write these.
Guarded(word, marks) == FlattenSeq([i \in DOMAIN word |-> IF word[i] \in marks THEN <<"\\", word[i]>> ELSE <<word[i]>>])
Quoted(word, how) ==
  CASE how = "double"  -> <<"\"">> \o Guarded(word, {"\"", "\\"}) \o <<"\"">>
    [] how = "single"  -> <<"'">> \o Guarded(word, {"'", "\\"}) \o <<"'">>
    [] how = "escaped" -> Guarded(word, {"\"", "'", "\\", " "})
MCLines ==
  {[words |-> w, chars |-> FlattenSeq([i \in DOMAIN w |-> Quoted(w[i], how) \o <<" ">>])] :
     w \in Words(Words({"a", " ", "\"", "'", "\\"}, 2), 2), how \in {"double", "single", "escaped"}}

Flag(names) == [names |-> names, value |-> {}]
MCTyped ==
  {<<"ls">>, <<"ls", "a">>, <<"ls", "-n">>, <<"ls", "-l", "a">>, <<"ls", "a", "-t">>, <<"ls", "a", "b">>, <<"get", "/a/b">>, <<"g">>,
   <<"set", "v">>, <<"set", "a", "v">>, <<"s", "a#1", "null">>, <<"set", "/a/b", "--null">>, <<"set", "-t", "a">>, <<"set", "a", "v", "b">>,
   <<"mk", "a/b">>, <<"mk", "/b#1">>, <<"mk", "-n", "a">>, <<"mk", "a", "-n", "b", "--at", "0">>, <<"mk", "-n", "b", "--at=-1">>,
   <<"mk", "-n", "b", "--at", "9">>, <<"mk", "-a", "-o", "1">>, <<"mk", "-n", "a", "-o", "-1">>, <<"mk">>,
   <<"rm", "a">>, <<"rm", "/a/b">>, <<"rm", "-c">>, <<"rm", "a", "-c">>, <<"rm", "-c", "a">>, <<"rm", "-i", "1">>, <<"rm", "/", "-i", "0">>,
   <<"rm", "-n", "a", "-o", "1">>, <<"rm", "--all", "a">>, <<"rm", "/">>, <<"rm", "a", "-n">>,
   <<"mv", "a">>, <<"mv", "a", "/">>, <<"mv", "a", "b">>, <<"mv", "/a/b", "/", "--at", "0">>, <<"mv", "b", "/", "--at", "0">>,
   <<"mv", "a", "..", "--at", "1">>, <<"mv", "a", "a">>, <<"mv", "b", "/", "--at", "9">>,
   <<"cp", "a", "b">>, <<"cp", "/a", "/b", "-r">>, <<"cp", "-I", "--", "/b", "/a">>, <<"cp", "a", "/">>, <<"cp">>,
   <<"schema">>, <<"schema", "json">>, <<"schema", "json", "a", "-f", "g">>, <<"schema", "json", "/b", "-i", "-f", "f">>,
   <<"schema", "json", "/b", "-i", "v">>, <<"schema", "yaml", "a">>, <<"schema", "json", ".", "-f", "f">>,
   <<"ros", "topic", "a">>, <<"async", "ros.topic">>, <<"ros">>, <<"async">>}

Cmds == INSTANCE TreeCommands WITH
  Tree0 <- MCTree, tree <- root,
  Paths <- {To(TRUE, <<>>), To(FALSE, <<>>), To(FALSE, <<"a">>), To(TRUE, <<"b", "a">>)}, Files <- {"f", "g"},
  Broken <- {"g"}, Homes <- {<<>>, <<1>>}, Queries <- MCQueries, MaxNodes <- 6,
  Patterns <- Words({"a", "b", "?", "*"}, 4), Texts <- Words({"a", "b"}, 4),
  Lines <- MCLines, Typed <- MCTyped, MaxTurns <- 2,
  Denotes <- ("/" :> To(TRUE, <<>>) @@ "/a" :> To(TRUE, <<"a">>) @@ "/b" :> To(TRUE, <<"b">>) @@ "a/b" :> To(FALSE, <<"a", "b">>)
              @@ "/a/b" :> To(TRUE, <<"a", "b">>) @@ "a#1" :> [absolute |-> FALSE, keys |-> A1]
              @@ "/b#1" :> [absolute |-> TRUE, keys |-> <<Key("b", 1)>>]),
  Numbers <- ("0" :> 0 @@ "1" :> 1 @@ "9" :> 9 @@ "-1" :> -1),
  Flagged <- ("--at" :> Flag(<<"at">>) @@ "--at=-1" :> [names |-> <<"at">>, value |-> {"-1"}] @@ "--null" :> Flag(<<"null">>)
              @@ "--all" :> Flag(<<"all">>) @@ "-n" :> Flag(<<"n">>) @@ "-l" :> Flag(<<"l">>) @@ "-t" :> Flag(<<"t">>)
              @@ "-a" :> Flag(<<"a">>) @@ "-o" :> Flag(<<"o">>) @@ "-c" :> Flag(<<"c">>) @@ "-i" :> Flag(<<"i">>)
              @@ "-r" :> Flag(<<"r">>) @@ "-I" :> Flag(<<"I">>) @@ "-f" :> Flag(<<"f">>)),
  Registered <- {<<"ros">>, <<"ros", "topic">>}, Parts <- ("ros.topic" :> <<"ros", "topic">>),
  Begun <- ("" :> [absolute |-> FALSE, keys |-> <<>>, leaf |-> ""] @@ "a/" :> [absolute |-> FALSE, keys |-> <<K("a")>>, leaf |-> ""]
            @@ "/a/b" :> [absolute |-> TRUE, keys |-> <<K("a")>>, leaf |-> "b"] @@ "/" :> [absolute |-> TRUE, keys |-> <<>>, leaf |-> ""]),
  Begins <- ("r" :> {"rm", "root", "ros", "ros.topic"} @@ "a" :> {"adopt"} @@ "ros" :> {"ros.topic"})

-----------------------------------------------------------------------------

all == <<which, copying, formats, table, vectors, requests, streams, commands, pages>>

Parts == {"copy", "formats", "table", "vectors", "requests", "streams", "commands", "matching", "terminal", "pages"}

\* A part that is not the one keeps one initial state.
MCInit ==
  /\ which \in Parts
  /\ Ct!MapInit /\ (which # "table" => index = 1)
  /\ Ct!VectorInit /\ Http!Init /\ Http!StreamInit /\ Qn!Init
  /\ IF which = "copy" THEN Wt!CopyInit
     ELSE source = Top(<<>>, <<>>) /\ target = source /\ before = target /\ copyOptions = <<>>
  /\ IF which = "formats" THEN Wt!FormatInit
     ELSE /\ tree = Top(<<>>, <<>>) /\ onto = tree /\ result = onto
          /\ format = "none" /\ doc = <<>> /\ hides = FALSE /\ formatOptions = <<>>
  /\ IF which = "matching" THEN Cmds!Init
     ELSE IF which = "terminal" THEN Cmds!TerminalInit(MarkedNamed("s", 3))
     ELSE /\ root = MCTree /\ current = <<>> /\ files = [f \in {"f", "g"} |-> {}]
          /\ did = Cmds!Idle(Cmds!Fail) /\ glob = << <<>>, <<>> >>
          /\ line = Cmds!NoLine /\ entered = Cmds!NothingEntered /\ turn = 0

Of(part) == which = part /\ UNCHANGED which

MCNext ==
  \/ Of("copy") /\ Wt!CopyNext /\ UNCHANGED <<formats, table, vectors, requests, streams, commands, pages>>
  \/ Of("formats") /\ Wt!FormatNext /\ UNCHANGED <<copying, table, vectors, requests, streams, commands, pages>>
  \/ Of("table") /\ Ct!MapNext /\ UNCHANGED <<copying, formats, vectors, requests, streams, commands, pages>>
  \/ Of("vectors") /\ Ct!VectorNext /\ UNCHANGED <<copying, formats, table, requests, streams, commands, pages>>
  \/ Of("requests") /\ Http!ClientNext /\ UNCHANGED <<copying, formats, table, vectors, streams, commands, pages>>
  \/ Of("streams") /\ Http!StreamNext /\ UNCHANGED <<copying, formats, table, vectors, commands, pages>>
  \/ Of("commands") /\ Cmds!Next /\ UNCHANGED <<copying, formats, table, vectors, requests, streams, pages>>
  \/ Of("terminal") /\ Cmds!TerminalNext /\ UNCHANGED <<copying, formats, table, vectors, requests, streams, pages>>
  \/ Of("pages") /\ Qn!Next /\ UNCHANGED <<copying, formats, table, vectors, requests, streams, commands>>

MCSpec == MCInit /\ [][MCNext]_all

-----------------------------------------------------------------------------

\* A copy with insertion and removal gives the source, and where both sides
\* have their common children in the same order every key means afterwards what
\* it means in the source (Node::copy); a format gives back what it can express,
\* and what it has made of a tree comes back unchanged the second time
\* (schema.cpp); what save has written load brings back and nothing else, a
\* search finds what matches, a pattern fits what it says (server_module.cpp); the words of a line come back,
\* and a terminal does what it says and no more (terminal_session.cpp).
TreesReturn ==
  /\ which = "copy" => Wt!CopySyncs
  /\ which = "formats" => Wt!RoundTrip
  /\ which = "commands" => Cmds!LoadedIsSaved /\ Cmds!SearchFinds
  /\ which = "matching" => Cmds!GlobAgrees /\ Cmds!WordsReturn
  /\ which = "terminal" => Cmds!TellsWhatIsDone /\ Cmds!ShownLeads /\ Cmds!OfferedIsThere

\* "same-name overlap order ... matched when reusing children" (node.h).
CopyKeepsOverlap == which = "copy" => Wt!CopyKeepsOverlap

\* Whatever calls came before, a search of the table ends and finds what is in
\* its list, and a vector holds the values it was given, each element made
\* and destroyed once (ordered_hashmap.h, small_vector.h).
ContainersKeep == (which = "table" => Ct!FindsEach) /\ (which = "vectors" => Ct!KeepsElements)

\* Whichever way a request comes in, the same becomes of the tree, and what is
\* refused changes nothing (node_protocol.cpp, node_http_server.cpp); clients
\* tell their callers what was answered, and all the same (transports.py,
\* async_transports.py, http.ts); on a connection each is answered, in order,
\* however the bytes are cut (node_tcp_server.cpp, tcp_bin_server.cpp), and the
\* subscriptions are as asked and counted so (subscribe_service.cpp).
RequestsAgree ==
  /\ which = "requests" => Http!WaysAgree /\ Http!RefusedUnchanged /\ Http!ClientsTold /\ Http!ClientsAgree
  /\ which = "streams" => Http!AnsweredInOrder /\ Http!CountsAgree

\* An object on a page shows in the end what its node is and has
\* (node_signal_bridge.cpp).
PagesShow == which = "pages" => Qn!ShownAtLast /\ Qn!NamesAgree
=============================================================================
