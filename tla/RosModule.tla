----------------------------- MODULE RosModule ------------------------------
(***************************************************************************)
(* The ROS module: its runtime, messages between ROS and the tree, and the *)
(* parsers of payloads, each on variables of its own.                      *)
(***************************************************************************)
EXTENDS NodeTrees, VarValues
LOCAL INSTANCE SequencesExt

(***************************************************************************)
(* ROS topics and parameters from the node tree (ros/src): the runtime     *)
(* (base/runtime.cpp) keeps which backend is active, the backend           *)
(* (rclcpp_backend.cpp) a ROS node, a thread that spins it, subscriptions, *)
(* and clients for the parameters of other nodes; the module               *)
(* (module/ros_module.cpp) has the commands, and writes what they did      *)
(* below ve/ros.  The runtime and the backend have a lock each.            *)
(*                                                                         *)
(* ROS is external: of it, messages arrive, others answer or do not.  What *)
(* messages hold is below.  A ROS node is the number of times one was      *)
(* made.                                                                   *)
(***************************************************************************)

CONSTANTS
  Commanders,    \* threads that run commands
  Names,         \* of subscriptions
  Remotes,       \* nodes whose parameters are asked for
  Topics, Types, \* what is published
  MaxStarts, MaxMessages, MaxCommands,
  Careful        \* one command at a time, none while the module starts or
                 \* ends, and nobody refreshes

VARIABLES
  active,        \* runtimeState().active
  node, starts,  \* node_, 0 if there is none
  runtimeLock, backendLock,
  subscriptions, \* the node each is of, 0 if there is none
  clients,       \* param_clients_, by the node they are of
  publishers,    \* the type the one of a topic is of
  mirror,        \* ve/ros/subscriptions
  module,        \* what the module's thread is at
  spin,          \* what the spinning thread is at
  command,       \* what each commander is at
  messages, commands

backend == <<active, node, starts, runtimeLock, backendLock, subscriptions, clients, publishers>>
threads == <<module, spin, command>>
ros == <<backend, threads, mirror, messages, commands>>

Free == "free"
RuntimeIdle == [op |-> "", at |-> "", name |-> "", node |-> 0]
NoneOf(keys, no) == [k \in keys |-> no]
Quiet == \A c \in Commanders : command[c] = RuntimeIdle
Settled == module \in {"stopped", "ready"}
Known(c) == command[c].node = node /\ node # 0

RuntimeInit ==
  /\ active = FALSE /\ node = 0 /\ starts = 0
  /\ runtimeLock = Free /\ backendLock = Free
  /\ subscriptions = NoneOf(Names, 0) /\ clients = NoneOf(Remotes, 0) /\ publishers = NoneOf(Topics, "")
  /\ mirror = {} /\ module = "stopped" /\ spin = "ended"
  /\ command = [c \in Commanders |-> RuntimeIdle] /\ messages = 0 /\ commands = 0

-----------------------------------------------------------------------------
(* The module: ready() activates the backend, deinit() deactivates it.     *)

\* A node is made and its thread started; the backend becomes active; what was
\* below ve/ros of subscriptions is cleared.
Start ==
  /\ module = "stopped" /\ starts < MaxStarts /\ (Careful => Quiet)
  /\ backendLock = Free /\ node = 0
  /\ starts' = starts + 1 /\ node' = starts + 1
  /\ spin' = "spinning" /\ module' = "started"
  /\ UNCHANGED <<active, runtimeLock, backendLock, subscriptions, clients, publishers, command, mirror, messages, commands>>

Activate ==
  /\ module = "started" /\ runtimeLock = Free
  /\ active' = TRUE /\ module' = "refreshing"
  /\ UNCHANGED <<node, starts, runtimeLock, backendLock, subscriptions, clients, publishers, spin, command, mirror, messages, commands>>

Refreshed ==
  /\ module = "refreshing" /\ mirror' = {} /\ module' = "ready"
  /\ UNCHANGED <<backend, spin, command, messages, commands>>

\* stop(), under the runtime's lock: the clients go first,
Deactivate ==
  /\ module = "ready" /\ runtimeLock = Free /\ (Careful => Quiet)
  /\ runtimeLock' = "module" /\ clients' = NoneOf(Remotes, 0) /\ module' = "stopping"
  /\ UNCHANGED <<active, node, starts, backendLock, subscriptions, publishers, spin, command, mirror, messages, commands>>

\* then, under its own, the rest,
Stop ==
  /\ module = "stopping" /\ backendLock = Free
  /\ backendLock' = "module" /\ module' = "joining"
  /\ subscriptions' = NoneOf(Names, 0) /\ publishers' = NoneOf(Topics, "")
  /\ UNCHANGED <<active, node, starts, runtimeLock, clients, spin, command, mirror, messages, commands>>

\* and when the thread has ended the node.
Join ==
  /\ module = "joining" /\ spin = "ended"
  /\ node' = 0 /\ active' = FALSE
  /\ backendLock' = Free /\ runtimeLock' = Free /\ module' = "stopped"
  /\ UNCHANGED <<starts, subscriptions, clients, publishers, spin, command, mirror, messages, commands>>

-----------------------------------------------------------------------------
(* The spinning thread: it hands messages to the callbacks of              *)
(* subscriptions, which write them to the node tree; whoever hears of that *)
(* there may call the runtime in turn.                                     *)

Spun(at) == spin' = at /\ UNCHANGED <<backend, module, command, mirror, commands>>

Message(name) ==
  /\ spin = "spinning" /\ module # "joining" /\ subscriptions[name] = node /\ messages < MaxMessages
  /\ messages' = messages + 1
  /\ \E at \in {"writing", "asking"} : Spun(at)

Heard ==
  /\ \/ spin = "asking" /\ runtimeLock = Free /\ backendLock = Free
     \/ spin = "writing"
  /\ Spun("spinning") /\ UNCHANGED messages

SpinEnds == spin = "spinning" /\ module = "joining" /\ Spun("ended") /\ UNCHANGED messages

-----------------------------------------------------------------------------
(* Commands.  Each takes the active backend first, and calls it without    *)
(* the runtime's lock.                                                     *)

To(c, at) == command' = [command EXCEPT ![c] = [@ EXCEPT !.at = at]]
End(c) == command' = [command EXCEPT ![c] = RuntimeIdle]
Others == <<module, spin, messages, commands>>

Begin(c, op, name) ==
  /\ command[c] = RuntimeIdle /\ commands < MaxCommands /\ runtimeLock = Free
  /\ Careful => Quiet /\ Settled /\ op # "refresh"
  /\ commands' = commands + 1
  /\ command' = [command EXCEPT ![c] = IF active THEN [op |-> op, at |-> "call", name |-> name, node |-> 0] ELSE RuntimeIdle]
  /\ UNCHANGED <<backend, module, spin, mirror, messages>>

Calls(c, op) == command[c].op = op /\ command[c].at = "call" /\ backendLock = Free

\* Mutant: the tree is not told.
SubscribeQuietly(c) ==
  LET name == command[c].name
  IN  /\ Calls(c, "subscribe") /\ End(c)
      /\ subscriptions' = [subscriptions EXCEPT ![name] = node]
      /\ UNCHANGED <<active, node, starts, runtimeLock, backendLock, clients, publishers, mirror, Others>>

\* subscribeTopic: an earlier one of the name is replaced.
Subscribe(c) ==
  LET name == command[c].name
  IN  /\ Calls(c, "subscribe")
      /\ IF node = 0 THEN End(c) /\ UNCHANGED subscriptions
         ELSE subscriptions' = [subscriptions EXCEPT ![name] = node] /\ To(c, "subscribed")
      /\ UNCHANGED <<active, node, starts, runtimeLock, backendLock, clients, publishers, mirror, Others>>

Unsubscribe(c) ==
  LET name == command[c].name
  IN  /\ Calls(c, "unsubscribe")
      /\ IF subscriptions[name] = 0 THEN End(c) /\ UNCHANGED subscriptions
         ELSE subscriptions' = [subscriptions EXCEPT ![name] = 0] /\ To(c, "unsubscribed")
      /\ UNCHANGED <<active, node, starts, runtimeLock, backendLock, clients, publishers, mirror, Others>>

\* The command writes what became of it.
Mirrored(c) ==
  /\ \/ command[c].at = "subscribed" /\ mirror' = mirror \cup {command[c].name}
     \/ command[c].at = "unsubscribed" /\ mirror' = mirror \ {command[c].name}
     \/ command[c].at = "refreshed" /\ mirror' = {}
  /\ End(c) /\ UNCHANGED <<backend, Others>>

\* refreshRuntime asks for nodes, topics and services, and clears the rest.
Refresh(c) == Calls(c, "refresh") /\ To(c, "refreshed") /\ UNCHANGED <<backend, mirror, Others>>

\* The lists and descriptions are read from the node.
ListAll(c) == Calls(c, "list") /\ End(c) /\ UNCHANGED <<backend, mirror, Others>>

\* publishTopic: one publisher is made for a topic, and kept whatever type the
\* next message is of.
Publish(c) ==
  /\ Calls(c, "publish") /\ End(c)
  /\ \E topic \in Topics, type \in Types :
       /\ publishers' = IF node = 0 \/ publishers[topic] # "" THEN publishers
                        ELSE [publishers EXCEPT ![topic] = type]
       /\ command[c].name = topic
  /\ UNCHANGED <<active, node, starts, runtimeLock, backendLock, subscriptions, clients, mirror, Others>>

\* onceTopic, callService and the parameters take the node and wait for an
\* answer without the lock; an answer comes if the node still spins.
TakeNode(c) ==
  /\ command[c].op \in {"wait", "param"} /\ command[c].at = "call" /\ backendLock = Free
  /\ command' = [command EXCEPT ![c] = IF node = 0 THEN RuntimeIdle ELSE [@ EXCEPT !.at = command[c].op, !.node = node]]
  /\ UNCHANGED <<backend, mirror, Others>>

Waited(c) ==
  /\ command[c].at = "wait" /\ End(c) /\ UNCHANGED <<backend, mirror, Others>>

\* paramClient: the one there is, or a new one, kept when its service answers.
Client(c) ==
  /\ command[c].at = "param"
  /\ \/ clients[command[c].name] # 0 /\ To(c, "wait")
     \/ clients[command[c].name] = 0 /\ (To(c, "ready") \/ End(c))
  /\ UNCHANGED <<backend, mirror, Others>>
KeepClient(c) ==
  /\ command[c].at = "ready"
  /\ clients' = [clients EXCEPT ![command[c].name] = command[c].node]
  /\ To(c, "wait")
  /\ UNCHANGED <<active, node, starts, runtimeLock, backendLock, subscriptions, publishers, mirror, Others>>

RuntimeNext ==
  \/ Start \/ Activate \/ Refreshed \/ Deactivate \/ Stop \/ Join
  \/ Heard \/ SpinEnds \/ \E name \in Names : Message(name)
  \/ \E c \in Commanders :
       \/ \E name \in Names, op \in {"subscribe", "unsubscribe"} : Begin(c, op, name)
       \/ \E remote \in Remotes : Begin(c, "param", remote)
       \/ \E topic \in Topics : Begin(c, "publish", topic)
       \/ \E op \in {"refresh", "list", "wait"} : Begin(c, op, "")
       \/ Subscribe(c) \/ Unsubscribe(c) \/ Mirrored(c) \/ Refresh(c) \/ ListAll(c) \/ Publish(c)
       \/ TakeNode(c) \/ Waited(c) \/ Client(c) \/ KeepClient(c)

-----------------------------------------------------------------------------

\* Between commands the tree below ve/ros shows the subscriptions there are,
\* and they are of the node there is.
MirrorAgrees ==
  Quiet /\ module = "ready" =>
    /\ mirror = {n \in Names : subscriptions[n] # 0}
    /\ \A n \in Names : subscriptions[n] \in {0, node}

\* A kept client is of the node there is; one of an earlier node is never
\* answered, and is kept until the module ends.
ClientsCurrent == Quiet /\ Settled => \A r \in Remotes : clients[r] \in {0, node}

\* Does not hold, with Careful neither: ending the module waits for the spinning
\* thread with both locks held, and what hears a message there may want them.
NoCircularWait == ~ (module = "joining" /\ spin = "asking")

-----------------------------------------------------------------------------
(***************************************************************************)
(* Messages, parameters and names of ROS as values of the node tree and    *)
(* back (dynamic_typesupport_bridge.cpp, rclcpp_backend.cpp), also by way  *)
(* of YAML (yaml_schema.cpp).  A message is known by the members of its    *)
(* type; a field is a number, a text or items.  Small stands for 8 bits.   *)
(* rmw, yaml-cpp and the libraries of the types are external.              *)
(***************************************************************************)

CONSTANTS
  Small,
  Typed,       \* messages, each with its members
  MessagePayloads,    \* values somebody wants to publish, each with members
  Parameters,  \* values of parameters
  NodeNames,   \* names and namespaces
  Services     \* texts of service types


VARIABLES message, format, value, sent, reply
bridge == <<message, format, value, sent, reply>>

Raw(n, s, items) == [n |-> n, s |-> s, items |-> items]
Zero == Raw(0, <<>>, <<>>)
Member(name, type, array, size, members) ==
  [name |-> name, type |-> type, array |-> array, size |-> size, members |-> members]

Unsign(n, bits) == n % (2 ^ bits)
Bits(type) == IF type \in {"uint8", "int8"} THEN Small ELSE Wide

HiddenMember(m) == Head(m.name) = "_"

\* primitiveToVar: an unsigned number of 64 bits is taken for a signed one.
PrimitiveToVar(type, raw) ==
  CASE type \in {"float"} -> Double(raw.n)
    [] type = "char" -> Text(raw.s)
    [] type = "bool" -> Bool(raw.n = 1)
    [] OTHER -> Num(Cut(raw.n, Wide))

StringToVar(type, raw) == IF type = "string" THEN Text(raw.s) ELSE List([i \in DOMAIN raw.s |-> Num(Worth(raw.s[i]))])

RECURSIVE MessageToVar(_, _)
ItemToVar(m, raw) ==
  CASE m.type = "message" -> MessageToVar(raw, m.members)
    [] m.type \in {"string", "wstring"} -> StringToVar(m.type, raw)
    [] OTHER -> PrimitiveToVar(m.type, raw)
FieldToVar(m, raw) ==
  IF m.array = "one" THEN ItemToVar(m, raw) ELSE List([i \in DOMAIN raw.items |-> ItemToVar(m, raw.items[i])])
MessageToVar(raw, members) ==
  Dict([i \in DOMAIN members |-> members[i].name], [i \in DOMAIN members |-> FieldToVar(members[i], raw.items[i])])

\* Mutant: the number is read as an int first.
AsInt(type, v) == Raw(IF type = "int8" THEN Cut(ToInt64(v, 0), Small) ELSE Unsign(ToInt(v, 0), Bits(type)), <<>>, <<>>)

AssignInt(type, v) ==
  LET n == ToInt64(v, 0)
  IN  Raw(IF type \in {"int8", "int64"} THEN Cut(n, Bits(type)) ELSE Unsign(n, Bits(type)), <<>>, <<>>)

Nul == "NUL"
CString(s) == LET k == CHOOSE k \in 0 .. Len(s) : (\A i \in 1 .. k : s[i] # Nul) /\ (k < Len(s) => s[k + 1] = Nul)
              IN  SubSeq(s, 1, k)

AssignPrimitive(type, v) ==
  CASE type = "float" -> Raw(ToDouble(v, 0), <<>>, <<>>)
    [] type = "char" -> Raw(0, IF TextOf(v) = <<>> THEN <<Nul>> ELSE <<Head(TextOf(v))>>, <<>>)
    [] type = "bool" -> Raw(IF ToBool(v, FALSE) THEN 1 ELSE 0, <<>>, <<>>)
    [] OTHER -> AssignInt(type, v)

\* A wide string gets the characters of the text; another ends at a NUL.
AssignString(type, v) == Raw(0, IF type = "string" THEN CString(TextOf(v)) ELSE TextOf(v), <<>>)

RECURSIVE Blank(_)
Blank(m) ==
  IF m.array = "fixed" THEN Raw(0, <<>>, [i \in 1 .. m.size |-> Blank([m EXCEPT !.array = "one"])])
  ELSE IF m.array = "sequence" THEN Zero
  ELSE IF m.type = "message" THEN Raw(0, <<>>, [i \in DOMAIN m.members |-> Blank(m.members[i])])
  ELSE IF m.type = "char" THEN Raw(0, <<Nul>>, <<>>) ELSE Zero

\* What becomes of a field, or nothing when it cannot be: a sequence of at
\* most one.
RECURSIVE VarToMessage(_, _)
Together(parts, rest) ==
  IF \E i \in DOMAIN parts : parts[i] = <<>> THEN <<>>
  ELSE <<Raw(0, <<>>, [i \in DOMAIN parts |-> Head(parts[i])] \o rest)>>
AssignItem(m, v) ==
  CASE m.type = "message" -> VarToMessage(v, m.members)
    [] m.type \in {"string", "wstring"} -> <<AssignString(m.type, v)>>
    [] OTHER -> <<AssignPrimitive(m.type, v)>>
AssignField(m, v) ==
  IF m.array = "one" THEN AssignItem(m, v)
  ELSE IF v.is # "list" \/ (m.array = "fixed" /\ Len(v.items) > m.size) THEN <<>>
  ELSE Together([i \in DOMAIN v.items |-> AssignItem(m, v.items[i])],
                IF m.array = "fixed" THEN [i \in 1 .. m.size - Len(v.items) |-> Blank([m EXCEPT !.array = "one"])] ELSE <<>>)
VarToMessage(v, members) ==
  IF v.is # "dict" THEN <<>>
  ELSE LET Given(m) == {i \in DOMAIN v.keys : v.keys[i] = m.name /\ ~ HiddenMember(m)}
       IN  Together([i \in DOMAIN members |->
                       IF Given(members[i]) = {} THEN <<Blank(members[i])>>
                       ELSE AssignField(members[i], v.items[CHOOSE k \in Given(members[i]) : TRUE])], <<>>)

-----------------------------------------------------------------------------
(* YAML: a scalar has no type once it is written.                          *)

ReadScalar(s) ==
  IF s \in {True, False} THEN Bool(s = True)
  ELSE IF IsInt(s) /\ Stoi(s, Wide) # <<>> THEN Num(Head(Stoi(s, Wide)))
  ELSE IF (IsInt(s) \/ IsDouble(s)) /\ Stod(s) # <<>> THEN Double(Head(Stod(s)))
  ELSE Text(s)

\* encode, then decode.
RECURSIVE ThroughYaml(_)
ThroughYaml(v) ==
  CASE v.is = "none" -> None
    [] v.is = "list" -> List([i \in DOMAIN v.items |-> ThroughYaml(v.items[i])])
    [] v.is = "dict" -> Dict(v.keys, [i \in DOMAIN v.items |-> ThroughYaml(v.items[i])])
    [] OTHER -> ReadScalar(TextOf(v))

-----------------------------------------------------------------------------
(* Parameters.                                                             *)

Parameter(type, array, items) == [type |-> type, array |-> array, items |-> items]

\* Bytes are numbers like any others.
ParameterValueToVar(p) ==
  LET items == [i \in DOMAIN p.items |-> IF p.type = "byte" THEN Num(p.items[i].n) ELSE p.items[i]]
  IN  IF p.array THEN List(items) ELSE items[1]

Kinds(v) == {v.items[i].is : i \in DOMAIN v.items}
Simple == {"bool", "int", "double", "string"}

\* homogenousListType; an empty list is one of texts.
ListKind(v) == IF v.items = <<>> THEN {"string"} ELSE IF \E k \in Simple : Kinds(v) = {k} THEN Kinds(v) ELSE {}

\* A sequence of at most one: other values are refused.
VarToParameterValue(v) ==
  IF v.is \in Simple THEN <<Parameter(v.is, FALSE, <<v>>)>>
  ELSE IF v.is = "list" /\ ListKind(v) # {} THEN <<Parameter(CHOOSE k \in ListKind(v) : TRUE, TRUE, v.items)>>
  ELSE <<>>

Slash == "/"
FqNodeName(name, ns) ==
  IF name = <<>> THEN <<>>
  ELSE IF ns = <<>> \/ ns = <<Slash>> THEN <<Slash>> \o name
  ELSE IF Last(ns) = Slash THEN ns \o name ELSE ns \o <<Slash>> \o name

NormalizeRemoteNodeName(name) ==
  IF name = <<>> THEN <<>>
  ELSE LET k == CHOOSE k \in 1 .. Len(name) : (\A i \in k + 1 .. Len(name) : name[i] = Slash) /\ (k = 1 \/ name[k] # Slash)
           bare == SubSeq(name, 1, k)
       IN  IF Head(bare) = Slash THEN bare ELSE <<Slash>> \o bare

\* splitServiceType: package and name, of either form.
FirstSlash(s) == {i \in DOMAIN s : s[i] = Slash /\ \A j \in 1 .. i - 1 : s[j] # Slash}
SplitServiceType(s) ==
  IF ~ \E i \in FirstSlash(s) : i > 1 /\ i < Len(s) THEN <<>>
  ELSE LET i == CHOOSE i \in FirstSlash(s) : TRUE
           rest == After(s, i)
           name == IF FirstSlash(rest) = {} THEN <<rest>>
                   ELSE LET j == CHOOSE j \in FirstSlash(rest) : TRUE
                        IN  IF Before(rest, j) = <<"s", "r", "v">> THEN <<After(rest, j)>> ELSE <<>>
       IN  IF name \in {<<>>, << <<>> >>} THEN <<>> ELSE <<[package |-> Before(s, i), name |-> Head(name)]>>

-----------------------------------------------------------------------------

MessageInit == message \in Typed /\ format = "" /\ value = None /\ sent = <<>> /\ reply = "idle"

\* decodedMessageResult: bytes alone, or the value, with its text too.
Decode(f) ==
  /\ reply = "idle"
  /\ format' = f
  /\ value' = CASE f = "cdr_hex" -> None
                [] f = "yaml" -> ThroughYaml(MessageToVar(message.raw, message.members))
                [] OTHER -> MessageToVar(message.raw, message.members)
  /\ reply' = "decoded"
  /\ UNCHANGED <<message, sent>>

\* doSerialize: what was given back, or anything else of that type.
Serialize(v) ==
  /\ reply = "decoded"
  /\ sent' = VarToMessage(v, message.members)
  /\ reply' = IF sent' = <<>> THEN "refused" ELSE "sent"
  /\ value' = v /\ UNCHANGED <<message, format>>

MessageNext == (\E f \in {"cdr_hex", "yaml", "value"} : Decode(f))
        \/ (format # "cdr_hex" /\ Serialize(value)) \/ (\E v \in MessagePayloads : Serialize(v))

-----------------------------------------------------------------------------

\* Fields that come back: no wide strings, nothing hidden, and in texts no NUL;
\* by way of YAML no text either that reads as a number written otherwise.
RECURSIVE PlainText(_, _)
PlainItem(m, raw) ==
  CASE m.type = "message" -> PlainText(raw, m.members)
    [] m.type = "string" -> Nul \notin {raw.s[i] : i \in DOMAIN raw.s} /\ (format = "yaml" => TextOf(ReadScalar(raw.s)) = raw.s)
    [] OTHER -> m.type # "wstring"
PlainText(raw, members) ==
  \A i \in DOMAIN members :
    /\ ~ HiddenMember(members[i])
    /\ IF members[i].array = "one" THEN PlainItem(members[i], raw.items[i])
       ELSE \A k \in DOMAIN raw.items[i].items : PlainItem(members[i], raw.items[i].items[k])

Returned == value \in {MessageToVar(message.raw, message.members), ThroughYaml(MessageToVar(message.raw, message.members))}

\* What a message was decoded to is that message when it is published again.
MessagesReturn == reply \in {"sent", "refused"} /\ Returned /\ PlainText(message.raw, message.members) => sent = <<message.raw>>

\* Also one that has wide strings.
WideReturn == reply \in {"sent", "refused"} /\ Returned /\ format = "value" => sent = <<message.raw>>

\* What is sent has a place for each member, and arrays of their sizes.
RECURSIVE Shaped(_, _)
Shaped(raw, members) ==
  /\ Len(raw.items) = Len(members)
  /\ \A i \in DOMAIN members :
       /\ members[i].array = "fixed" => Len(raw.items[i].items) = members[i].size
       /\ members[i].type = "message" /\ members[i].array = "one" => Shaped(raw.items[i], members[i].members)
SentIsShaped == \A i \in DOMAIN sent : Shaped(sent[i], message.members)

\* Names that are put together are names that are asked for, however they are
\* written; both forms of a service's type are the same service.
NamesAgree ==
  /\ \A p \in NodeNames : LET fq == FqNodeName(p.name, p.ns)
                              full == NormalizeRemoteNodeName(fq)
                          IN  /\ NormalizeRemoteNodeName(full) = full
                              /\ fq # <<>> /\ Last(fq) # Slash /\ Head(fq) = Slash => full = fq
  /\ \A s \in Services : \A i \in DOMAIN SplitServiceType(s) :
       LET t == SplitServiceType(s)[i]
       IN  SplitServiceType(t.package \o <<Slash, "s", "r", "v", Slash>> \o t.name) = <<t>>

\* What a parameter was read as sets it again, but for bytes and for an empty
\* list of anything but texts; one list of different kinds is none.
ParametersReturn ==
  /\ \A p \in Parameters : p.type # "byte" /\ (p.items # <<>> \/ p.type = "string")
                             => VarToParameterValue(ParameterValueToVar(p)) = <<p>>
  /\ \A q, p \in Parameters : p.array /\ q.array /\ p.type # q.type /\ p.items # <<>> /\ q.items # <<>> /\ {p.type, q.type} # {"byte", "int"}
                             => VarToParameterValue(List(ParameterValueToVar(p).items \o ParameterValueToVar(q).items)) = <<>>

-----------------------------------------------------------------------------
(***************************************************************************)
(* How what a topic carries is put into the node tree: parsers by their    *)
(* keys and aliases (ros/src/base/parser.cpp), and the backend taken when  *)
(* none is asked for (backend.cpp).  A payload is what yaml-cpp and the    *)
(* JSON parser make of it, if they can.                                    *)
(***************************************************************************)

CONSTANTS
  ParserPayloads,     \* texts: what they are as YAML and as JSON, and inside a string
  Schemas,      \* trees, at most one for each call
  Targets,      \* trees there may be where a payload is put
  Extra,        \* parsers others register
  Asked,        \* keys a parser is asked for by, "" for none
  LowerCase,        \* of every key
  Backends,     \* key, priority, available, enabled: in the order registered
  MaxParsers

VARIABLES order, canonical, alias, target, did
parsing == <<order, canonical, alias, target, did>>

Builtins == << [key |-> "string", aliases |-> <<"raw_string">>, parse |-> "string"],
               [key |-> "yaml", aliases |-> <<>>, parse |-> "yaml"],
               [key |-> "json", aliases |-> <<>>, parse |-> "json"],
               [key |-> "json_string", aliases |-> <<>>, parse |-> "json_string"] >>

WithEntry(f, k, v) == [x \in DOMAIN f \cup {k} |-> IF x = k THEN v ELSE f[x]]

\* insertParserLocked: keys and aliases are taken from who had them.
Inserted(r, p) ==
  [order |-> IF p.key \in DOMAIN r.canonical THEN r.order ELSE Append(r.order, p.key),
   canonical |-> WithEntry(r.canonical, p.key, p.parse),
   alias |-> FoldLeft(LAMBDA f, a : WithEntry(f, a, p.key), WithEntry(r.alias, p.key, p.key), p.aliases)]

NoFunction == [x \in {} |-> ""]
Registry == [order |-> order, canonical |-> canonical, alias |-> alias]
Registered(r) == order' = r.order /\ canonical' = r.canonical /\ alias' = r.alias

RegisterParser(p) ==
  /\ Len(order) < MaxParsers
  /\ Registered(Inserted(Registry, [p EXCEPT !.key = LowerCase[@], !.aliases = [i \in DOMAIN @ |-> LowerCase[@[i]]]]))
  /\ did' = [did EXCEPT !.call = "register"] /\ UNCHANGED target

\* resolveKeyLocked: at most one.
ResolveKey(key) ==
  IF LowerCase[key] \in DOMAIN canonical THEN {LowerCase[key]}
  ELSE IF LowerCase[key] \in DOMAIN alias THEN {alias[LowerCase[key]]} ELSE {}

\* yamlToTree: what was there goes.
RECURSIVE YamlToTree(_, _)
YamlToTree(doc, name) ==
  CASE doc.kind = "scalar" -> Tree(name, doc.value, <<>>)
    [] doc.kind = "array" -> Tree(name, Null, [i \in DOMAIN doc.items |-> YamlToTree(doc.items[i], "")])
    [] OTHER -> LET keyed == SelectSeq(doc.items, LAMBDA f : f.key # "")
                IN  Tree(name, Null, [i \in DOMAIN keyed |-> YamlToTree(keyed[i].of, keyed[i].key)])

\* The target is made like the schema before the text is looked at.
ApplySchemaJson(json, into, schema) ==
  LET start == IF schema = {} THEN into ELSE Copied(into, CHOOSE s \in schema : TRUE, TRUE, TRUE)
  IN  IF json = {} THEN [ok |-> FALSE, tree |-> start]
      ELSE [ok |-> TRUE, tree |-> Copied(start, NodeOf(CHOOSE d \in json : TRUE, Fresh("import")), schema = {}, FALSE)]

Failed(into) == [ok |-> FALSE, tree |-> into]

\* What each parser makes of a payload; any other is some function of its own.
Parse(parse, p, into, schema) ==
  CASE parse = "string" -> [ok |-> TRUE, tree |-> Tree(into.name, p.text, <<>>)]
    [] parse = "yaml" -> IF p.yaml = {} THEN Failed(into)
                         ELSE [ok |-> TRUE, tree |-> YamlToTree(CHOOSE d \in p.yaml : TRUE, into.name)]
    [] parse = "json" -> ApplySchemaJson(p.json, into, schema)
    [] parse = "json_string" -> IF ~ p.within.like THEN Failed(into) ELSE ApplySchemaJson(p.within.json, into, schema)
    [] OTHER -> Failed(into)

ParsePayload(key, p, into, schema) ==
  LET known == ResolveKey(IF key = "" THEN "yaml" ELSE key)
      parse == IF known = {} THEN "" ELSE canonical[CHOOSE k \in known : TRUE]
  IN  /\ \E made \in {Parse(parse, p, into, schema)} :
           /\ target' = made.tree
           /\ did' = [call |-> "parse", payload |-> {p}, was |-> {into}, schema |-> schema, parse |-> parse, ok |-> made.ok]
      /\ UNCHANGED <<order, canonical, alias>>

ParserIdle == [call |-> "", payload |-> {}, was |-> {}, schema |-> {}, parse |-> "", ok |-> FALSE]

ParserInit ==
  /\ LET r == FoldLeft(Inserted, [order |-> <<>>, canonical |-> NoFunction, alias |-> NoFunction], Builtins)
     IN  order = r.order /\ canonical = r.canonical /\ alias = r.alias
  /\ target = Fresh("t") /\ did = ParserIdle

ParserNext ==
  /\ did.call # "parse"
  /\ \/ \E p \in Extra : RegisterParser(p)
     \/ \E k \in Asked, p \in ParserPayloads, into \in Targets : \E s \in {{}} \cup {{x} : x \in Schemas} : ParsePayload(k, p, into, s)

-----------------------------------------------------------------------------
(* The backend that is taken.                                              *)

Available(list) == {i \in DOMAIN list : list[i].available}

\* defaultBackend: the first that is enabled, or the one that comes first.
DefaultBackend(list, requested) ==
  LET named == {i \in DOMAIN list : list[i].key = requested}
      enabled == {i \in Available(list) : list[i].enabled}
      best == {i \in Available(list) : \A j \in Available(list) :
                 list[i].priority < list[j].priority \/ (list[i].priority = list[j].priority /\ i <= j)}
  IN  IF named # {} THEN named
      ELSE IF enabled # {} THEN {i \in enabled : \A j \in enabled : i <= j}
      ELSE best

-----------------------------------------------------------------------------

\* Every parser that is registered is found by its key, whatever aliases the
\* others have, and every alias leads to one.
KeysResolve ==
  /\ \A i \in DOMAIN order : ResolveKey(order[i]) = {order[i]}
  /\ \A a \in DOMAIN alias : ResolveKey(a) # {} /\ ResolveKey(a) \subseteq DOMAIN canonical

Parsed == did.call = "parse"
Payload == CHOOSE p \in did.payload : TRUE
Was == CHOOSE t \in did.was : TRUE

RECURSIVE SameNames(_, _)
SameNames(t, u) ==
  Len(t.kids) = Len(u.kids) /\ \A i \in DOMAIN t.kids : t.kids[i].name = u.kids[i].name /\ SameNames(t.kids[i], u.kids[i])

\* With a schema the target has its nodes and no others afterwards.
SchemaHolds ==
  Parsed /\ did.ok /\ did.parse \in {"json", "json_string"} => \A s \in did.schema : SameNames(target, s)

\* What is no payload of that kind leaves the target alone; with a schema the
\* target is made like it all the same.
RefusedUnchanged == Parsed /\ ~ did.ok /\ did.schema = {} => target = Was
RefusedAtAll == Parsed /\ ~ did.ok => target = Was

\* A document is the same tree whether it is read as YAML or as JSON.
RECURSIVE Usual(_)
Usual(d) == \A i \in DOMAIN d.items :
              IF d.kind = "object" THEN d.items[i].key \notin {"", "_value"} /\ Usual(d.items[i].of) ELSE Usual(d.items[i])
ParsersAgree ==
  Parsed /\ did.ok /\ did.parse = "yaml" =>
    \A d \in Payload.json : Usual(d) /\ d \in Payload.yaml => target = ApplySchemaJson({d}, Fresh(target.name), {}).tree

\* A backend that is there and enabled is not passed over.
BackendTaken ==
  \A list \in Backends, requested \in {"", "fastdds"} :
    LET i == DefaultBackend(list, requested)
    IN  /\ requested = "" /\ Available(list) # {} => Cardinality(i) = 1 /\ i \subseteq Available(list)
        /\ requested = "" /\ (\E j \in Available(list) : list[j].enabled) => \A k \in i : list[k].enabled
-----------------------------------------------------------------------------
(***************************************************************************)
(* What the tree below ve/ros shows of the network (ros_module.cpp): the   *)
(* nodes, topics and services that were listed, and parameters that were   *)
(* read and written.  Names are sequences of the parts between slashes.    *)
(* What ROS knows, and whether a remote node answers, is external.         *)
(***************************************************************************)

CONSTANTS
  Networks,      \* nodes, topics, services, and each node's parameters
  Sought,        \* what is searched for in names; "" for everything
  Settings,      \* values parameters are set to
  OnceArgs,      \* a topic, and words where its type, format and timeout are expected
  MaxAsked

VARIABLES network, shown, told, asks
graph == <<network, shown, told, asks>>

Absolute(name) == <<Slash>> \o name
PathKeys(name) == Each(LAMBDA part : Key(part, Plain), name)
At(t, keys) == CHOOSE at \in FindPath(t, keys) : TRUE
Mentions(name, sought) == sought = "" \/ \E i \in DOMAIN name : name[i] = sought

\* The backend's own node is not shown (isRuntimeHelperNode).
Helper(name) == IsPrefix(<<"ve", "ve_ros_runtime">>, name)
RemoteNodes == SelectSeq(network.nodes, LAMBDA name : ~ Helper(name))

NodeItem(name) ==
  Object(<<Field("name", Scalar(<<Last(name)>>)), Field("namespace", Scalar(Absolute(Front(name)))),
           Field("full_name", Scalar(Absolute(name)))>>)
TypedItem(t) == Object(<<Field("name", Scalar(Absolute(t.name))), Field("types", Array(Each(LAMBDA u : Scalar(<<u>>), t.types)))>>)

ListNodes(sought) == SelectSeq(RemoteNodes, LAMBDA name : Mentions(name, sought))
ListTyped(all, sought) == SelectSeq(all, LAMBDA t : Mentions(t.name, sought))

\* writeNamedNodeList: one child for each, nodes of one name beside each other.
NamedNodeList(names) ==
  Tree("nodes", Null, Each(LAMBDA n : Copied(Fresh(Last(n)), NodeOf(NodeItem(n), Fresh(Last(n))), TRUE, TRUE), names))

\* writeNamedPathList: each at the path that is its name; what has been there
\* is made like it.
PutAtPath(t, item) ==
  LET keys == PathKeys(item.name)
      made == Made(t, keys)
      at == At(made, keys)
  IN  With(made, at, Copied(NodeAt(made, at), NodeOf(TypedItem(item), Fresh("temp")), TRUE, TRUE))
NamedPathList(kind, items) == FoldLeft(PutAtPath, Fresh(kind), items)

\* refreshRuntime: lists without names, and no parameters.
Refreshing(kind, docs) == NodeOf(Array(docs), Fresh(kind))

NothingTold == [op |-> "", ok |-> TRUE, sought |-> "", at |-> <<>>, names |-> <<>>, values |-> {}]
Tells(what) == told' = what /\ asks' = asks + 1

ReadOnce ==
  [kind \in {"nodes", "topics", "services", "params", "once", "service_calls"} |->
     CASE kind = "nodes" -> Refreshing(kind, Each(NodeItem, RemoteNodes))
       [] kind \in {"topics", "services"} -> Refreshing(kind, Each(TypedItem, network[kind]))
       [] OTHER -> Fresh(kind)]

\* The module is ready, and what there was has been read once.
GraphInit == network \in Networks /\ told = NothingTold /\ asks = 0 /\ shown = ReadOnce

\* A program joins or leaves.
Changes == network' \in Networks \ {network} /\ told' = NothingTold /\ asks' = asks + 1 /\ UNCHANGED shown

ListCommand ==
  \E kind \in {"nodes", "topics", "services"}, sought \in Sought :
    LET names == IF kind = "nodes" THEN ListNodes(sought) ELSE Each(LAMBDA t : t.name, ListTyped(network[kind], sought))
    IN  /\ shown' = [shown EXCEPT ![kind] = IF kind = "nodes" THEN NamedNodeList(names)
                                            ELSE NamedPathList(kind, ListTyped(network[kind], sought))]
        /\ Tells([NothingTold EXCEPT !.op = kind, !.sought = sought, !.names = names])
        /\ UNCHANGED network

RefreshCommand ==
  /\ shown' = [ReadOnce EXCEPT !["once"] = shown["once"], !["service_calls"] = shown["service_calls"]]
  /\ Tells([NothingTold EXCEPT !.op = "refresh"]) /\ UNCHANGED network

\* A value below ve/ros/params, and several.
SetIn(t, keys, v) == LET made == Made(t, keys)
                     IN  With(made, At(made, keys), [NodeAt(made, At(made, keys)) EXCEPT !.value = v])
ParamKeys(name, param) == Append(PathKeys(name), Key(param, Plain))
Internal(param) == param = "qos_overrides"
ParamsOf(name) == network.params[name]
VisibleParams(name) == {p \in DOMAIN ParamsOf(name) : ~ Internal(p)}
Answering == DOMAIN network.params

\* ros.param.list for no node: their names; for one: its parameters, with the
\* values if it answers that too.
ParamNodes ==
  /\ shown' = [shown EXCEPT !["params"] = FoldLeft(LAMBDA t, name : Made(t, PathKeys(name)), @, RemoteNodes)]
  /\ Tells([NothingTold EXCEPT !.op = "params", !.names = RemoteNodes]) /\ UNCHANGED network

ParamList(name) ==
  /\ \E ok, answered \in BOOLEAN :
       LET values == IF answered THEN VisibleParams(name) ELSE {}
           all == Made(shown["params"], PathKeys(name))
       IN  /\ ok => name \in Answering
           /\ shown' = IF ~ ok THEN shown
                       ELSE [shown EXCEPT !["params"] = FoldLeft(LAMBDA t, p : SetIn(t, ParamKeys(name, p), ParamsOf(name)[p]),
                                                                 all, SetToSeq(values))]
           /\ Tells([NothingTold EXCEPT !.op = "params", !.ok = ok, !.at = name, !.values = IF ok THEN values ELSE {}])
  /\ UNCHANGED network

ParamGet(name, param) ==
  /\ \E ok \in BOOLEAN :
       /\ ok => name \in Answering /\ param \in DOMAIN ParamsOf(name)
       /\ shown' = IF ok THEN [shown EXCEPT !["params"] = SetIn(@, ParamKeys(name, param), ParamsOf(name)[param])] ELSE shown
       /\ Tells([NothingTold EXCEPT !.op = "get", !.ok = ok, !.at = name, !.values = IF ok THEN {param} ELSE {}])
  /\ UNCHANGED network

\* The remote node may set it and not be heard of in time.
ParamSet(name, param, v) ==
  \E ok, done \in BOOLEAN :
    /\ done => name \in Answering
    /\ ok => done
    /\ network' = IF done THEN [network EXCEPT !.params[name] = WithEntry(@, param, v)] ELSE network
    /\ shown' = IF ok THEN [shown EXCEPT !["params"] = SetIn(@, ParamKeys(name, param), v)] ELSE shown
    /\ Tells([NothingTold EXCEPT !.op = "set", !.ok = ok, !.at = name, !.values = IF ok THEN {param} ELSE {}])

\* ros.topic.once: a format or a number where the type belongs is taken for
\* what it is, and the type is then that of the topic, if that is known.
PayloadFormats == {"yaml", "var", "cdr_hex"}
Numerals == {"10", "+5"}
TypesOf(topic) == UNION {{t.types[i] : i \in DOMAIN t.types} : t \in {network.topics[j] : j \in {j \in DOMAIN network.topics : network.topics[j].name = topic}}}
InferTopicType(topic) ==
  UNION {IF network.topics[j].name = topic /\ network.topics[j].types # <<>> THEN {Head(network.topics[j].types)} ELSE {} : j \in DOMAIN network.topics}
OnceRequest(a) ==
  LET given == a.type \notin PayloadFormats \cup Numerals \cup {""}
  IN  [type |-> IF given THEN {a.type} ELSE InferTopicType(a.topic),
       format |-> IF a.type \in PayloadFormats THEN a.type ELSE IF a.format = "" THEN "yaml" ELSE a.format,
       timeout |-> IF a.type \in Numerals THEN a.type ELSE a.timeout]
\* writeRosMirror: what became of the last one.
LastOf(kind, ok) == NodeOf(Object(<<Field("last", Object(<<Field("ok", Scalar(<<ok>>))>>))>>), Fresh(kind))

Once(a) ==
  LET request == OnceRequest(a)
      known == request.timeout \in Numerals \cup {""} /\ request.type # {}
  IN  /\ \E ok \in BOOLEAN :
           /\ ok => known
           /\ shown' = IF ~ known THEN shown
                       ELSE [shown EXCEPT !["once"] = LastOf("once", ok)]
           /\ Tells([NothingTold EXCEPT !.op = "once", !.ok = ok, !.at = a.topic, !.names = <<request.format, request.timeout>>,
                                        !.values = request.type])
      /\ UNCHANGED network

\* ros.service.call: not with bytes, and not of what is not there.
MayAnswer(name, payloadFormat) ==
  payloadFormat \in {"yaml", "var"} /\ \E i \in DOMAIN network.services : network.services[i].name = name
CallService(name, payloadFormat) ==
  /\ \E ok \in BOOLEAN :
       /\ ok => MayAnswer(name, payloadFormat)
       /\ shown' = [shown EXCEPT !["service_calls"] = LastOf("service_calls", ok)]
       /\ Tells([NothingTold EXCEPT !.op = "call", !.ok = ok, !.at = name])
  /\ UNCHANGED network

GraphNext ==
  /\ asks < MaxAsked
  /\ \/ Changes \/ ListCommand \/ RefreshCommand \/ ParamNodes
     \/ \E i \in DOMAIN network.nodes :
          LET name == network.nodes[i]
          IN  \/ ParamList(name)
              \/ \E param \in {"p", "q"} : ParamGet(name, param) \/ \E v \in Settings : ParamSet(name, param, v)
     \/ \E a \in OnceArgs : Once(a)
     \/ \E name \in {<<"a", "s">>}, f \in {"yaml", "cdr_hex"} : CallService(name, f)

-----------------------------------------------------------------------------

ValueIn(t, keys) == {NodeAt(t, at).value : at \in FindPath(t, keys)}
FullNames(t) == {NodeAt(t, at).value : at \in {at \in NodesOf(t) : at # <<>> /\ Last(PathOf(t, at)) = Key("name", Plain)}}

\* After a list the tree shows all that was found, each with what is its own,
\* and nothing that was not (writeNamedNodeList, writeNamedPathList).
ListsShow ==
  /\ told.op \in {"topics", "services"} =>
       /\ \A t \in ToSet(ListTyped(network[told.op], told.sought)) :
            \E at \in FindPath(shown[told.op], PathKeys(t.name)) :
              /\ ValueIn(NodeAt(shown[told.op], at), <<Key("name", Plain)>>) = {Absolute(t.name)}
              /\ \A i \in DOMAIN t.types :
                   ValueIn(NodeAt(shown[told.op], at), <<Key("types", Plain), Key("", i - 1)>>) = {<<t.types[i]>>}
       /\ FullNames(shown[told.op]) = {Absolute(n) : n \in ToSet(told.names)}
  /\ told.op = "nodes" =>
       {ValueIn(kid, <<Key("full_name", Plain)>>) : kid \in ToSet(shown["nodes"].kids)} = {{Absolute(n)} : n \in ToSet(told.names)}

\* A parameter that was read or written is shown as the node has it now
\* (ros.param.list, ros.param.get, ros.param.set).
ParamsShow ==
  told.op \in {"params", "get", "set"} /\ told.at # <<>> =>
    \A p \in told.values : ValueIn(shown["params"], ParamKeys(told.at, p)) = {ParamsOf(told.at)[p]}

\* What is waited for once is of the type that was given, or of one the topic
\* has; a format or a number never passes for a type; and the tree shows what
\* became of the last call that was let through (ros.topic.once, ros.service.call).
LastIsShown ==
  /\ told.op = "call" => shown["service_calls"] = LastOf("service_calls", told.ok)
  /\ told.op = "once" =>
       /\ told.values \cap (PayloadFormats \cup Numerals) = {}
       /\ told.values \subseteq TypesOf(told.at) \cup {a.type : a \in OnceArgs}
       /\ told.ok => told.values # {} /\ shown["once"] = LastOf("once", TRUE)
=============================================================================
