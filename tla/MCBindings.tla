----------------------------- MODULE MCBindings -----------------------------
(***************************************************************************)
(* What binds the tree to other systems, one part at a time: the object    *)
(* tree of the Qt side, its formats, states, requests to its service and   *)
(* frames to its peers, and values as Qt has them; the ROS runtime,        *)
(* messages and parsers; and the arguments of commands, whose values all   *)
(* of them carry.                                                          *)
(***************************************************************************)
EXTENDS NodeTrees, VarValues, TLC

CONSTANTS Careful, Callers, Commanders, Situations

VARIABLES
  which,
  heap,
  values, path, root, keys, waiting, future, past, place, edit, tab, typed, ran, others,
  tree, hides, format, doc, onto, flags, result,
  states, object, current, watched,
  pc, id, serial, woken, answered, filled, pending, sends, posted, asked, answers, up, known, links, rivals,
  sent, stream, frames, packages, obtained, cuts, broken,
  active, node, starts, runtimeLock, backendLock, subscriptions, clients, publishers, mirror, module, spin, command,
  messages, commands,
  message, wire, value, published, reply,
  order, canonical, alias, target, did,
  network, shown, told, asks,
  way, given, there, back,
  declared, words, at, context, awaiting, position, state

objects   == <<heap>>
terminal  == <<values, path, root, keys, waiting, future, past, place, edit, tab, typed, ran, others>>
formats   == <<tree, hides, format, doc, onto, flags, result>>
machine   == <<states, object, current, watched>>
service   == <<pc, id, serial, woken, answered, filled, pending, sends, posted, asked, answers, up, known, links, rivals>>
frameLink == <<sent, stream, frames, packages, obtained, cuts, broken>>
ros       == <<active, node, starts, runtimeLock, backendLock, subscriptions, clients, publishers, mirror, module,
               spin, command, messages, commands>>
bridge    == <<message, wire, value, published, reply>>
parsing   == <<order, canonical, alias, target, did>>
graph     == <<network, shown, told, asks>>
arguments == <<declared, words, at, context, awaiting, position, state>>
exchange  == <<way, given, there, back>>
qt  == <<objects, terminal, formats, machine, service, frameLink>>
rest == <<ros, bridge, parsing, graph, exchange, arguments>>
all == <<which, qt, rest>>

L(name, v) == Tree(name, v, <<>>)

-----------------------------------------------------------------------------
(* The Qt side.                                                            *)

\* Entries of the terminal: commands, and two files of such.
Entry(cmd, arg, n) == [cmd |-> cmd, arg |-> arg, n |-> n]
A  == <<"a">>
AB == <<"a", "b">>
Widget == INSTANCE ModuleObjects WITH
  value <- values, index <- place, Names <- {A, AB}, MaxObjects <- 4, Limit <- 3, MaxTyped <- 3, MaxOthers <- 1,
  Externals <- [ext |-> FALSE, rootext |-> TRUE],
  Scripts <- [f |-> <<Entry("wait", <<>>, 1), Entry("set", <<"v">>, 0), Entry("su", <<>>, 0)>>,
              g |-> <<Entry("insert", <<AB, A>>, 0), Entry("reorder", <<>>, 1), Entry("remove", <<AB>>, 0), Entry("clear", <<>>, 0)>>],
  Texts <- {Entry("d", <<AB>>, 0), Entry("c", <<>>, -1), Entry("c", <<A>>, -1), Entry("r", <<A, A>>, 0), Entry("p", <<>>, 0),
            Entry("insert", <<A, AB>>, 0), Entry("wait", <<>>, 1), Entry("su", <<"u">>, 0), Entry("sh", <<"f">>, 0),
            Entry("sh", <<"g">>, 1), Entry("rootext", <<>>, 0)}

\* Objects without names stand in lists; "_title" is hidden; onto none, the
\* empty one, and some whose children are and are not those read.
MCExported == {
  L("", <<"v">>), L("", <<"v", "w">>), L("", Null),
  Tree("", Null, <<L("b", <<"v">>), L("a", <<"w">>)>>),
  Tree("", <<"r">>, <<L("a", <<"v">>), L("_title", <<"w">>)>>),
  Tree("", Null, <<L("", <<"v">>), L("", <<"w">>)>>),
  Tree("", Null, <<L("", <<"v">>), Tree("", Null, <<L("a", <<"w">>)>>)>>),
  Tree("", Null, <<Tree("b", <<"u">>, <<L("", <<"v">>), L("", <<"w", "x">>)>>), L("a", Null)>>),
  Tree("", Null, <<Tree("a", Null, <<L("", <<"v">>), L("", <<"w">>)>>)>>)}
MCExisting == {
  Tree("nullData", Null, <<>>), Tree("", Null, <<>>), L("o", <<"z">>),
  Tree("o", Null, <<L("a", <<"z">>), L("c", <<"z">>)>>),
  Tree("o", <<"z">>, <<L("", <<"z">>), L("", <<"y">>), Tree("", Null, <<L("b", <<"y">>)>>)>>),
  Tree("o", Null, <<Tree("a", <<"z">>, <<L("", <<"y">>)>>), Tree("b", Null, <<L("", <<"y">>), L("", <<"x">>), L("", <<"x">>)>>)>>),
  Tree("o", Null, <<Tree("a", Null, <<L("x", <<"y">>)>>)>>)}
Files == INSTANCE ModuleFormats WITH
  Exported <- MCExported, Existing <- MCExisting, Sorted <- <<"_title", "a", "b", "c", "x">>

\* Digits of base three, frames of four and packages of six at most: one that
\* is empty, one whose content looks like a head, one that takes two frames.
Package(type, content) == [type |-> type, content |-> content]
Qt == INSTANCE QtServices WITH
  StateCareful <- Careful, Contexts <- Situations, Names <- {"a", "b"}, MaxStates <- 3,
  ServiceCareful <- Careful, Keys <- {<<"k">>}, result <- answered, MaxSends <- 3, MaxLinks <- 2,
  Base <- 3, MaxFrame <- 4, MaxPackage <- 6, Types <- 3, MaxSent <- 2, MaxCuts <- 1,
  Packages <- {Package(0, <<>>), Package(2, <<1>>), Package(0, <<2, 1, 0, 2, 1, 0>>), Package(2, <<0, 2, 1>>)}

-----------------------------------------------------------------------------
(* ROS: the runtime; messages of every type at the ends of its range.      *)

Member(name, type, array, size, members) ==
  [name |-> <<name>>, type |-> type, array |-> array, size |-> size, members |-> members]
One(name, type) == Member(name, type, "one", 0, <<>>)
N(n) == [n |-> n, s |-> <<>>, items |-> <<>>]
S(s) == [n |-> 0, s |-> s, items |-> <<>>]
M(items) == [n |-> 0, s |-> <<>>, items |-> items]
Msg(members, items) == [members |-> members, raw |-> M(items)]
Nested(items) == Msg(<<Member("m", "message", "sequence", 0, <<One("n", "uint8"), One("s", "string")>>)>>, <<M(items)>>)
Strings == {<<>>, <<"a">>, <<"1">>, <<"0", "1">>, <<"+", "1">>, True, <<"1", ".", "5">>, <<"a", "NUL", "b">>, <<"9", "9">>, <<".">>}
MCTyped ==
  {Msg(<<One("n", p[1])>>, <<N(p[2])>>) :
     p \in {<<"uint8", 7>>, <<"int8", -4>>, <<"uint64", 15>>, <<"uint64", 31>>, <<"int64", -16>>}}
  \cup {Msg(<<One("x", "float"), One("b", "bool")>>, <<N(n), N(b)>>) : n \in {-3, 2}, b \in {0, 1}}
  \cup {Msg(<<One("s", "string")>>, <<S(s)>>) : s \in Strings}
  \cup {Msg(<<One("c", "char")>>, <<S(<<c>>)>>) : c \in {"a", "1", "+", "NUL"}}
  \cup {Msg(<<One("w", "wstring")>>, <<S(<<"1", "2">>)>>)}
  \cup {Msg(<<Member("m", "message", "one", 0, <<One("s", "string")>>), Member("v", "uint8", "fixed", 2, <<>>)>>,
            <<M(<<S(<<"a">>)>>), M(<<N(1), N(2)>>)>>)}
  \cup {Msg(<<One("_", "int8")>>, <<N(1)>>), Nested(<<>>), Nested(<<M(<<N(3), S(<<"0", "7">>)>>), M(<<N(0), S(<<>>)>>)>>)}
MCPayloads ==
  {None, Dict(<<>>, <<>>),
   Dict(<< <<"n">>, <<"v">> >>, <<Text(<<"9">>), List(<<Num(-1), Double(3), None>>)>>),
   Dict(<< <<"m">>, <<"v">> >>, <<Dict(<< <<"n">> >>, <<Num(9)>>), List(<<Num(1)>>)>>),
   Dict(<< <<"m">> >>, <<List(<<Dict(<<>>, <<>>), Num(1)>>)>>), Dict(<< <<"m">> >>, <<List(<<Dict(<<>>, <<>>)>>)>>),
   Dict(<< <<"b">>, <<"c">>, <<"w">> >>, <<Text(<<"0">>), Text(<<>>), Num(12)>>)}
P(type, array, items) == [type |-> type, array |-> array, items |-> items]
MCParameters ==
  {P("bool", FALSE, <<Bool(FALSE)>>), P("int", FALSE, <<Num(3)>>), P("double", FALSE, <<Double(2)>>), P("string", FALSE, <<Text(<<"1">>)>>),
   P("byte", TRUE, <<Num(1)>>), P("bool", TRUE, <<Bool(TRUE), Bool(FALSE)>>), P("int", TRUE, <<Num(1), Num(-1)>>),
   P("int", TRUE, <<>>), P("double", TRUE, <<Double(2)>>), P("string", TRUE, <<>>), P("string", TRUE, <<Text(<<"a">>)>>)}
Words(letters, n) == UNION {[1 .. k -> letters] : k \in 0 .. n}
Slashed(middle, name) == <<"a", "/">> \o middle \o <<"/">> \o name


Obj == Object(<<Field("a", Scalar(<<"v">>)), Field("b", Object(<<Field("c", Scalar(<<"w">>))>>))>>)
Arr == Array(<<Scalar(<<"v">>), Object(<<Field("a", Scalar(<<"w">>))>>)>>)
Odd == Object(<<Field("_value", Scalar(<<"v">>)), Field("", Array(<<Scalar(<<"w">>)>>))>>)
Within(like, json) == [like |-> like, json |-> json]
Payload(yaml, json, within) == [text |-> <<"text">>, yaml |-> yaml, json |-> json, within |-> within]
MCTexts ==
  {Payload({Obj}, {Obj}, Within(TRUE, {Obj})), Payload({Arr}, {Arr}, Within(FALSE, {})), Payload({Odd}, {Odd}, Within(FALSE, {})),
   Payload({}, {}, Within(FALSE, {})), Payload({Scalar(<<"v">>)}, {Scalar(<<"v">>)}, Within(TRUE, {})),
   Payload({Scalar(<<"v">>)}, {}, Within(TRUE, {Arr}))}
Parser(key, aliases, parse) == [key |-> key, aliases |-> aliases, parse |-> parse]
Keys == {"string", "raw_string", "yaml", "json", "json_string", "Own", "own", "own2", "YAML", "none"}
Ready(key, priority, available, enabled) == [key |-> key, priority |-> priority, available |-> available, enabled |-> enabled]

\* A network of two or three nodes, those of one name included; topics below
\* others, and none that is called like what is told of one.
OfTypes(name, types) == [name |-> name, types |-> types]
MCNetwork(more) ==
  [nodes |-> <<<<"a">>, <<"v", "a">>, <<"ve", "ve_ros_runtime">>>> \o SetToSeq({<<"w", "b">> : m \in more}),
   topics |-> <<OfTypes(<<"t">>, <<"u">>), OfTypes(<<"t", "s">>, <<"u", "v">>)>> \o SetToSeq({OfTypes(<<"w", "t">>, <<>>) : m \in more}),
   services |-> SetToSeq({OfTypes(<<"a", "s">>, <<"u">>) : m \in more}),
   params |-> [n \in {<<"v", "a">>} \cup {<<"a">> : m \in more} |->
                 [p \in {"p", "qos_overrides"} \cup {"q" : m \in more} |-> IF p = "p" THEN <<"v">> ELSE <<"w">>]]]
Ros == INSTANCE RosModule WITH
  Networks <- {MCNetwork({}), MCNetwork({0})}, Sought <- {"", "t"}, Settings <- {<<"x">>}, MaxAsked <- 3,
  OnceArgs <- {[topic |-> <<"t", "s">>, type |-> ty, format |-> more[1], timeout |-> more[2]] :
                 ty \in {"", "u", "var", "10"}, more \in {<<"", "">>}}
              \cup {[topic |-> <<"w", "t">>, type |-> "", format |-> "yaml", timeout |-> "soon"]},
  Names <- {"n"}, Remotes <- {"r"}, Topics <- {"t"}, Types <- {"u", "v"}, MaxStarts <- 2, MaxMessages <- 1, MaxCommands <- 4,
  Small <- 3, Typed <- MCTyped, MessagePayloads <- MCPayloads, Parameters <- MCParameters, format <- wire, sent <- published,
  NodeNames <- {[name |-> n, ns |-> m] : n, m \in Words({"a", "/"}, 3)},
  Services <- Words({"a", "/"}, 4) \cup {Slashed(<<"s", "r", "v">>, <<"b">>), Slashed(<<"m", "s", "g">>, <<"b">>),
                                         Slashed(<<"s", "r", "v">>, <<>>), Slashed(<<"s", "r", "v">>, <<"b", "/", "c">>)},
  ParserPayloads <- MCTexts, Schemas <- {Tree("s", Null, <<L("a", <<"d">>), L("x", Null)>>), Tree("s", Null, <<Tree("b", Null, <<L("c", Null)>>)>>)},
  Targets <- {Fresh("t"), Tree("t", <<"o">>, <<L("a", <<"o">>), L("z", <<"o">>)>>)},
  Extra <- {Parser("Own", <<"YAML", "own2">>, "own"), Parser("raw_string", <<>>, "yaml"), Parser("own2", <<"string">>, "string")},
  Asked <- {"", "string", "raw_string", "json", "json_string", "Own", "YAML", "none"},
  LowerCase <- [k \in Keys |-> CASE k = "Own" -> "own" [] k = "YAML" -> "yaml" [] OTHER -> k], MaxParsers <- 6,
  Backends <- {<<Ready("fastdds", 80, a, e), Ready("rclcpp", 10, b, f)>> : a, b, e, f \in BOOLEAN}

-----------------------------------------------------------------------------
(* Commands: two parameters, one with a short name, a hidden one; lines of *)
(* up to three words.                                                      *)

X == <<"x">>
Y == <<"y">>
Hide == <<"_", "v">>
Param(name, short, v) == [name |-> name, short |-> short, value |-> v]
MCDeclarations ==
  {<<>>, <<Param(X, <<>>, Num(1)), Param(Y, <<>>, Text(<<"d">>))>>,
   <<Param(X, <<>>, None), Param(<<"f">>, <<"f">>, Bool(FALSE))>>, <<Param(Hide, <<>>, None), Param(Y, <<>>, None)>>}
Line == {<<"-", "-", "x">>, <<"-", "-", "y">>, <<"-", "f">>, <<"-", "-", "x", "=", "3">>, <<"-", "3">>, <<"s">>, <<".">>,
         <<"1", "7">>, <<"\"", "s", "\"">>, <<"-", "-", "y", "=">>}
MCInputs ==
  {List([i \in DOMAIN l |-> Text(l[i])]) : l \in (Words(Line, 2) \cup Words(Line \ {<<".">>, <<"-", "-", "y", "=">>, <<"1", "7">>, <<"\"", "s", "\"">>}, 3)) \ {<<>>}}
  \cup {None, Num(7), Dict(<<X, Hide, Y>>, <<Num(2), Num(3), None>>), List(<<Num(2), List(<<Text(X)>>)>>),
        List(<<Num(-3), Double(3), Bool(TRUE)>>)}
MCValues ==
  {None, Bool(TRUE), Bool(FALSE), Num(0), Num(-13), Num(7), Double(3), Double(-1), Double(4), Text(<<"s">>), Text(False),
   Bin(<<1, 2>>), Dict(<<X, Y>>, <<Num(2), None>>), Dict(<<Y, X>>, <<None, Num(2)>>), List(<<Num(2), Text(X)>>)}
Args == INSTANCE CommandArgs WITH Declarations <- MCDeclarations, Inputs <- MCInputs, Samples <- MCValues, target <- awaiting

\* Values by way of Qt's; doubles have three bits that count.
MCVariants ==
  {[Num(31) EXCEPT !.is = "ulonglong"], [Num(-8) EXCEPT !.is = "int"], [Num(15) EXCEPT !.is = "uint"],
   [List(<<Text(X)>>) EXCEPT !.is = "strings"], [Text(X) EXCEPT !.is = "float"],
   [Dict(<<Y, X>>, <<Double(1), [None EXCEPT !.is = "invalid"]>>) EXCEPT !.is = "hash"]}
ByQt == INSTANCE QtValues WITH
  Mantissa <- 3, Samples <- MCValues \cup {Num(n) : n \in {8, 9, 11, 15, -16}}, Variants <- MCVariants,
  Trees <- MCExported, Keys <- <<X, Y>>, Sorted <- <<"", "_title", "_value", "a", "b">>

-----------------------------------------------------------------------------

Parts == {"objects", "widget", "files", "states", "service", "network", "ros", "messages", "parsers", "graph", "values", "arguments"}

\* A part that is not the one keeps one initial state.
MCInit ==
  /\ which \in Parts
  /\ Widget!WidgetInit /\ Qt!StateInit /\ Qt!ServiceInit /\ Qt!FrameInit /\ Ros!RuntimeInit /\ Ros!ParserInit /\ ByQt!Init
  /\ Ros!GraphInit /\ (which # "graph" => network = MCNetwork({}))
  /\ Files!Init /\ (which # "files" => tree = L("", Null) /\ onto = L("o", <<"z">>) /\ ~ hides /\ flags = [flag \in DOMAIN flags |-> TRUE])
  /\ Ros!MessageInit /\ (which # "messages" => message = Nested(<<>>))
  /\ Args!Init /\ (which # "arguments" => declared = <<>>)

Of(part) == which = part /\ UNCHANGED which

MCNext ==
  \/ Of("objects") /\ Widget!Next /\ UNCHANGED <<terminal, formats, machine, service, frameLink, rest>>
  \/ Of("widget") /\ Widget!WidgetNext /\ UNCHANGED <<formats, machine, service, frameLink, rest>>
  \/ Of("files") /\ Files!Next /\ UNCHANGED <<objects, terminal, machine, service, frameLink, rest>>
  \/ Of("states") /\ Qt!StateNext /\ UNCHANGED <<objects, terminal, formats, service, frameLink, rest>>
  \/ Of("service") /\ Qt!ServiceNext /\ UNCHANGED <<objects, terminal, formats, machine, frameLink, rest>>
  \/ Of("network") /\ Qt!FrameNext /\ UNCHANGED <<objects, terminal, formats, machine, service, rest>>
  \/ Of("ros") /\ Ros!RuntimeNext /\ UNCHANGED <<qt, bridge, parsing, graph, exchange, arguments>>
  \/ Of("messages") /\ Ros!MessageNext /\ UNCHANGED <<qt, ros, parsing, graph, exchange, arguments>>
  \/ Of("parsers") /\ Ros!ParserNext /\ UNCHANGED <<qt, ros, bridge, graph, exchange, arguments>>
  \/ Of("graph") /\ Ros!GraphNext /\ UNCHANGED <<qt, ros, bridge, parsing, exchange, arguments>>
  \/ Of("values") /\ ByQt!Next /\ UNCHANGED <<qt, ros, bridge, parsing, graph, arguments>>
  \/ Of("arguments") /\ Args!Next /\ UNCHANGED <<qt, ros, bridge, parsing, graph, exchange>>

MCSpec == MCInit /\ [][MCNext]_all

Symmetry == Permutations(Situations) \cup Permutations(Callers)

-----------------------------------------------------------------------------

\* The list of children and the hash of their names say the same
\* (modulemanager.cpp); what is read is what was written, as far as the flags
\* let it; states and their neighbours stand (statemanager.cpp); what is entered
\* at the terminal is run in turn (terminal_widget.cpp).
ObjectsStand ==
  /\ which = "objects" => Widget!ListIsHash
  /\ which = "widget" => Widget!RunInTurn /\ Widget!HistoryKept /\ Widget!ListIsHash
  /\ which = "files" => Files!FlagsHonoured /\ Files!ReadAsWritten /\ Files!ConvertKeeps
  /\ which = "states" => Qt!StatesStand

\* Who asked the service is told the answer to its own question, or to an earlier
\* one of the key that was given up (xservice_client.cpp), and packages arrive as
\* they were sent, in whatever pieces, also after a connection that broke inside
\* one (networkmanager.cpp).
LinksCarry ==
  /\ which = "service" => Qt!AnswerIsOwn
  /\ which = "network" => Qt!PackagesArrive

\* Messages, parameters and names are what they were after they have been in
\* the tree (dynamic_typesupport_bridge.cpp, rclcpp_backend.cpp), a parser does
\* to its target what it says (parser.cpp), and values and trees are what they
\* were after Qt has had them (var_qt.cpp, schema_qt.cpp).
MessagesKept ==
  /\ which = "messages" => Ros!MessagesReturn /\ Ros!SentIsShaped /\ Ros!NamesAgree /\ Ros!ParametersReturn
  /\ which = "parsers" => Ros!KeysResolve /\ Ros!SchemaHolds /\ Ros!RefusedUnchanged
                          /\ Ros!ParsersAgree /\ Ros!BackendTaken
  /\ which = "values" => ByQt!VariantReturns /\ ByQt!JsonSettles /\ ByQt!TreeReturns

\* The tree shows what is subscribed and what of the network was asked for, and
\* clients are of the node that runs (runtime.cpp, rclcpp_backend.cpp, ros_module.cpp).
RosAgrees ==
  /\ which = "ros" => Ros!MirrorAgrees /\ Ros!ClientsCurrent
  /\ which = "graph" => Ros!ListsShow /\ Ros!ParamsShow /\ Ros!LastIsShown

\* The words of a command are its arguments, each in its place, and values are
\* read as they are written (command.cpp, var.cpp, parse_util.h).
ArgumentsKept == which = "arguments" => Args!WordsInOrder /\ Args!NamesBind /\ Args!TextsReadBack
=============================================================================
