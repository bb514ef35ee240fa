------------------------------ MODULE TreeCommands ------------------------------
(***************************************************************************)
(* Commands on trees: those the server module registers (save and load,    *)
(* which write a node to a file and read it back, and search, which walks  *)
(* the tree for what matches; server_module.cpp), and those every terminal *)
(* has (terminal_session.cpp).  The text of a document is JSON; the var    *)
(* format writes the same text.                                            *)
(***************************************************************************)
EXTENDS NodeTrees

CONSTANTS
  Tree0,
  Paths,          \* given to the commands
  Files, Broken,  \* names of files, and those that can be neither read nor written
  Homes,          \* nodes a terminal may stand at
  Queries,        \* what is searched for
  Patterns, Texts,
  MaxNodes

VARIABLES
  tree,
  current,   \* the node commands start from
  files,     \* name |-> document, or none
  did,       \* the command, the tree before it, and its result
  glob       \* a pattern and a text to match it with

commands == <<tree, current, files, did, glob>>

The(set) == CHOOSE x \in set : TRUE
Formats == {"", "json", "var", "other"}
Fail == [ok |-> FALSE, content |-> {}]
Fine(content) == [ok |-> TRUE, content |-> content]

\* What a path means from the current node; an absolute one starts at the root.
Find(t, path) ==
  IF path.absolute THEN FindPath(t, path.keys)
  ELSE {current \o at : at \in FindPath(NodeAt(t, current), path.keys)}
MakeAt(t, path) ==
  IF path.absolute THEN Made(t, path.keys)
  ELSE With(t, current, Made(NodeAt(t, current), path.keys))

\* save: without a file the document is the result.
Saved(format, path, file) ==
  LET doc == JsonOf(NodeAt(tree, The(Find(tree, path))), FALSE)
      fails == format \in {"", "other"} \/ Find(tree, path) = {} \/ file \cap Broken # {}
  IN  [tree |-> tree,
       files |-> IF fails THEN files ELSE [f \in Files |-> IF f \in file THEN {doc} ELSE files[f]],
       result |-> IF fails THEN Fail ELSE Fine(IF file = {} THEN {doc} ELSE {})]

\* importTree.
Import(node, doc) == Copied(node, NodeOf(doc, Fresh("import")), TRUE, FALSE)

\* load: the target is made before there is anything to load; a file has
\* precedence over what is given with the command.
Loaded(format, path, file, inline) ==
  LET made == MakeAt(tree, path)
      content == IF file # {} THEN UNION {files[f] : f \in file \ Broken} ELSE inline
      at == The(Find(made, path))
  IN  CASE format = "" -> [tree |-> tree, files |-> files, result |-> Fail]
        [] format # "" /\ (content = {} \/ format # "json" \/ Find(made, path) = {}) ->
             [tree |-> made, files |-> files, result |-> Fail]
        [] OTHER -> [tree |-> With(made, at, Import(NodeAt(made, at), The(content))),
                     files |-> files, result |-> Fine({})]

-----------------------------------------------------------------------------
(* search.  A pattern is the set of the names, values and paths it fits;   *)
(* what is not to be matched fits none.                                    *)

Callable(node) == node.value = <<"callable">>
Hit(node, path, q) ==
  /\ \/ node.name \in q.names
     \/ node.value # Null /\ node.value \in q.values
     \/ path \in q.paths
  /\ ~ (q.leaves /\ node.kids # <<>>)

\* walk: the children in order, each before what is below it, until there are
\* as many hits as were asked for.
RECURSIVE Walk(_, _, _, _)
Walk(node, path, q, found) ==
  FoldLeft(LAMBDA out, kid :
             IF Len(out) >= q.top \/ Callable(kid) THEN out
             ELSE LET at == Append(path, kid.name)
                  IN  Walk(kid, at, q, IF Hit(kid, at, q) THEN Append(out, at) ELSE out),
           found, node.kids)

\* The paths found, by name; the root's own is empty.
Searched(q) ==
  LET roots == FindPath(tree, q.root)
      NamesTo(at) == [i \in DOMAIN at |-> NodeAt(tree, SubSeq(at, 1, i)).name]
  IN  [tree |-> tree, files |-> files,
       result |-> IF q.empty \/ roots = {} THEN Fail
                  ELSE Fine({Walk(NodeAt(tree, The(roots)), NamesTo(The(roots)), q, <<>>)})]

-----------------------------------------------------------------------------
(* globMatch, as its loop goes: i and j are where it is in the pattern and *)
(* the text, star where the last star and its text began.                  *)

RECURSIVE Matching(_, _, _, _, _)
Matching(p, s, i, j, star) ==
  IF j > Len(s) THEN \A k \in i .. Len(p) : p[k] = "*"
  ELSE IF i <= Len(p) /\ p[i] \in {s[j], "?"} THEN Matching(p, s, i + 1, j + 1, star)
  ELSE IF i <= Len(p) /\ p[i] = "*" THEN Matching(p, s, i + 1, j, <<i, j>>)
  ELSE IF star # <<>> THEN Matching(p, s, star[1] + 1, star[2] + 1, <<star[1], star[2] + 1>>)
  ELSE FALSE

GlobMatch(p, s) == Matching(p, s, 1, 1, <<>>)

-----------------------------------------------------------------------------
(***************************************************************************)
(* A terminal: a line is split into words, the words are taken for flags   *)
(* and positions (parse_util.h), and what the first one names is done from *)
(* where the terminal stands.  A word is a string; tables say what it is   *)
(* as a path, as a number, as flags, as a command's name and as the        *)
(* beginning of something.                                                 *)
(***************************************************************************)

CONSTANTS
  Lines,         \* words to be split, and how they are written in a line
  Typed,         \* lines entered, as words
  Denotes,       \* word |-> the path it is
  Numbers,       \* word |-> the number it is
  Flagged,       \* word |-> names of flags, and the value if it has one
  Registered,    \* keys of commands, as sequences of names
  Parts,         \* word |-> the names in it, between dots
  Begun,         \* word |-> the path before its last slash, and what follows
  Begins,        \* what follows |-> the names that begin so
  MaxTurns,
  Careful        \* nobody moves a node to a place that is beyond the last

VARIABLES line, entered, turn

terminal == <<line, entered, turn>>

\* split, a character at a time.
Ended(s) == IF s.word = <<>> THEN s ELSE [s EXCEPT !.words = Append(@, s.word), !.word = <<>>]
Taken(s, ch) == [s EXCEPT !.word = Append(@, ch), !.escaped = FALSE]
SplitStep(s, ch) ==
  IF s.escaped THEN Taken(s, ch)
  ELSE IF ch = "\\" THEN [s EXCEPT !.escaped = TRUE]
  ELSE IF s.quote = {} /\ ch \in {"\"", "'"} THEN [s EXCEPT !.quote = {ch}]
  ELSE IF ch \in s.quote THEN [s EXCEPT !.quote = {}]
  ELSE IF s.quote = {} /\ ch = " " THEN Ended(s)
  ELSE Taken(s, ch)
Split(chars) == Ended(FoldLeft(SplitStep, [words |-> <<>>, word |-> <<>>, quote |-> {}, escaped |-> FALSE], chars)).words

-----------------------------------------------------------------------------
(* Flags.                                                                  *)

Dashed(word) == word \in DOMAIN Flagged \/ word = "--" \/ (word \in DOMAIN Numbers /\ Numbers[word] < 0)

\* parseFlags: a flag takes the next word for its value unless that has a dash.
RECURSIVE ParseFrom(_, _, _)
ParseFrom(words, i, f) ==
  IF i > Len(words) THEN f
  ELSE IF words[i] = "--" THEN [f EXCEPT !.pos = @ \o SubSeq(words, i + 1, Len(words))]
  ELSE IF words[i] \notin DOMAIN Flagged THEN ParseFrom(words, i + 1, [f EXCEPT !.pos = Append(@, words[i])])
  ELSE LET flag == Flagged[words[i]]
           next == IF i < Len(words) /\ flag.value = {} /\ ~ Dashed(words[i + 1]) THEN {words[i + 1]} ELSE {}
           value(k) == IF k = Len(flag.names) THEN flag.value \cup next ELSE {}
       IN  ParseFrom(words, i + 1 + Cardinality(next),
                     [f EXCEPT !.named = @ \o [k \in DOMAIN flag.names |-> <<flag.names[k], value(k)>>]])
ParseFlags(words) == ParseFrom(words, 2, [named |-> <<>>, pos |-> <<>>])

Given(f, names) == SelectSeq(f.named, LAMBDA n : n[1] \in names)
Has(f, names) == Given(f, names) # <<>>
Value(f, names) == IF Has(f, names) THEN Given(f, names)[1][2] ELSE {}
Number(words, default) == IF words \cap DOMAIN Numbers = {} THEN default ELSE Numbers[The(words)]
Pos(f, i) == IF i \in DOMAIN f.pos THEN {f.pos[i]} ELSE {}

-----------------------------------------------------------------------------
(* Paths.                                                                  *)

Denoted(word) ==
  IF word \in DOMAIN Denotes THEN Denotes[word] ELSE [absolute |-> FALSE, keys |-> <<Key(word, Plain)>>]

\* resolve: the node, if any, as a set.
Resolve(word) ==
  IF word = "." THEN {current}
  ELSE IF word = ".." THEN {IF current = <<>> THEN current ELSE Front(current)}
  ELSE Find(tree, Denoted(word))
OrHere(words) == IF words = {} THEN {current} ELSE Resolve(The(words))
First(f) == IF f.pos = <<>> THEN {} ELSE Resolve(f.pos[1])

\* target: the first word after the command, unless it has a dash or leads nowhere.
Target(words) ==
  IF Len(words) > 1 /\ ~ Dashed(words[2]) /\ Resolve(words[2]) # {} THEN The(Resolve(words[2])) ELSE current

Kids(t, at) == NodeAt(t, at).kids
WithKids(t, at, kids) == With(t, at, [NodeAt(t, at) EXCEPT !.kids = kids])

\* Where a node is after one has been put or taken away elsewhere.
Shifted(at, place, by) ==
  IF Len(at) >= Len(place) /\ Front(place) = SubSeq(at, 1, Len(place) - 1) /\ at[Len(place)] >= Last(place)
  THEN [at EXCEPT ![Len(place)] = @ + by] ELSE at

\* insert at an index, if there is one; a negative one counts from the end.
Place(count, index) == {p \in {IF index < 0 THEN index + count + 1 ELSE index} : p \in 0 .. count}
PutAt(t, at, i, node) == WithKids(t, at, SubSeq(Kids(t, at), 1, i) \o <<node>> \o SubSeq(Kids(t, at), i + 1, Len(Kids(t, at))))

-----------------------------------------------------------------------------
(* What the commands do, and show.                                         *)

Says(ok, shown) == [tree |-> tree, current |-> current, files |-> files, ok |-> ok, shown |-> shown]
Refused == Says(FALSE, <<>>)
Becomes(t) == [Says(TRUE, <<>>) EXCEPT !.tree = t]

\* ls: the tree, the names, or each child by its key.
Ls(f) ==
  LET at == OrHere(Pos(f, 1))
      kids == Kids(tree, The(at))
  IN  IF Len(f.pos) > 1 \/ at = {} THEN Refused
      ELSE Says(TRUE, IF Has(f, {"tree", "t"}) THEN <<NodeAt(tree, The(at))>>
                      ELSE IF Has(f, {"names", "n"}) THEN Each(LAMBDA k : k.name, Groups(kids))
                      ELSE IF Has(f, {"long", "l"}) THEN <<PathOf(tree, The(at)), Len(kids)>>
                      ELSE [i \in DOMAIN kids |-> KeyOf(kids, i)])

Get(f) ==
  LET at == OrHere(Pos(f, 1))
  IN  IF Len(f.pos) > 1 \/ at = {} THEN Refused ELSE Says(TRUE, <<NodeAt(tree, The(at)).value>>)

\* set: with one word that is the value, with none the value is an empty text.
\* A trigger changes nothing.
ParseVar(word) == IF word = "null" THEN Null ELSE <<word>>
SetAt(at, value) == Becomes(With(tree, at, [NodeAt(tree, at) EXCEPT !.value = value]))
Set(f) ==
  LET one == OrHere(Pos(f, 1))
      fails == Len(f.pos) > 1 \/ one = {}
  IN  IF Has(f, {"null"}) THEN IF fails THEN Refused ELSE SetAt(The(one), Null)
      ELSE IF Has(f, {"trigger", "t"}) THEN IF fails THEN Refused ELSE Says(TRUE, <<>>)
      ELSE IF Len(f.pos) < 2 THEN SetAt(current, ParseVar(IF f.pos = <<>> THEN "" ELSE f.pos[1]))
      ELSE IF Len(f.pos) > 2 \/ one = {} THEN Refused
      ELSE SetAt(The(one), ParseVar(f.pos[2]))

\* mk: by name, one or several at the end or one at an index; or by path.
Mk(words, f) ==
  LET t == Target(words)
      name == IF Has(f, {"anon", "a"}) THEN {""} ELSE Value(f, {"name", "n"})
      more == Number(Value(f, {"overlap", "o"}), 0)
      index == Value(f, {"at"})
      place == Place(Len(Kids(tree, t)), Number(index, 0))
      made == MakeAt(tree, Denoted(f.pos[1]))
  IN  IF name # {} /\ (index \cap DOMAIN Numbers = {} \/ name = {""})
        THEN IF more < 0 THEN Refused
             ELSE Becomes(WithKids(tree, t, Kids(tree, t) \o [i \in 1 .. 1 + more |-> Fresh(The(name))]))
      ELSE IF name # {}
        THEN IF place = {} THEN Refused
             ELSE [Becomes(PutAt(tree, t, The(place), Fresh(The(name)))) EXCEPT
                     !.current = Shifted(@, Append(t, The(place) + 1), 1)]
      ELSE IF f.pos = <<>> THEN Refused
      ELSE [Becomes(made) EXCEPT !.ok = Find(made, Denoted(f.pos[1])) # {}]

\* rm: all children of a node, one by index or by name, all of a name, or the
\* node at a path; where they are, and which.
Gone(at, which) == [ok |-> which # {}, at |-> at, which |-> which]
RmGone(words, f) ==
  LET t == Target(words)
      kids == Kids(tree, t)
      index == Value(f, {"index", "i"})
      name == IF Has(f, {"name", "n"}) THEN Value(f, {"name", "n"}) ELSE Value(f, {"all"})
      found == IF f.pos = <<>> THEN {} ELSE Find(tree, Denoted(f.pos[1])) \ {<<>>}
  IN  CASE Has(f, {"clear", "c"}) -> [Gone(t, DOMAIN kids) EXCEPT !.ok = TRUE]
        [] ~ Has(f, {"clear", "c"}) /\ Has(f, {"index", "i"}) ->
             Gone(t, IF index \cap DOMAIN Numbers = {} THEN {} ELSE ChildAt(kids, Number(index, 0)))
        [] ~ Has(f, {"clear", "c", "index", "i"}) /\ Has(f, {"name", "n"}) ->
             Gone(t, IF name = {} THEN {} ELSE ChildNamed(kids, The(name), Number(Value(f, {"overlap", "o"}), 0)))
        [] ~ Has(f, {"clear", "c", "index", "i", "name", "n"}) /\ Has(f, {"all"}) ->
             [Gone(t, IF name = {} THEN {} ELSE Indices(kids, The(name))) EXCEPT !.ok = name # {}]
        [] OTHER -> IF found = {} THEN Gone(<<>>, {}) ELSE Gone(Front(The(found)), {Last(The(found))})
Rm(words, f) ==
  LET gone == RmGone(words, f)
      kids == Kids(tree, gone.at)
      left == SelectSeq([i \in DOMAIN kids |-> i], LAMBDA i : i \notin gone.which)
      deep == Len(gone.at) + 1
      before == {i \in gone.which : Len(current) >= deep /\ i < current[deep]}
  IN  [Becomes(WithKids(tree, gone.at, [i \in DOMAIN left |-> kids[left[i]]])) EXCEPT
         !.ok = gone.ok,
         !.current = IF IsPrefix(gone.at, @) /\ before # {} THEN [@ EXCEPT ![deep] = @ - Cardinality(before)] ELSE @]

\* mv: the node is taken from where it is before the index is looked at.
MovedTo(src, without, at, place) ==
  IF place = {} THEN [Refused EXCEPT !.tree = without, !.current = Shifted(@, src, -1)]
  ELSE [Becomes(PutAt(without, at, The(place), NodeAt(tree, src))) EXCEPT
          !.current = IF IsPrefix(src, @) THEN Append(at, The(place) + 1) \o SubSeq(@, Len(src) + 1, Len(@))
                      ELSE Shifted(Shifted(@, src, -1), Append(at, The(place) + 1), 1)]
Moved(src, without, at, index) == MovedTo(src, without, at, Place(Len(Kids(without, at)), index))
MvOf(srcs, dests, index) ==
  IF srcs = {} \/ dests = {} \/ srcs = dests THEN Refused
  ELSE Moved(The(srcs), Removed(tree, The(srcs)), Shifted(The(dests), The(srcs), -1), index)
Mv(f) == MvOf(First(f), OrHere(Pos(f, 2)), Number(Value(f, {"at"}), -1))

\* cp: nothing is copied onto what is above or below it.
CpOf(srcs, dests, insert, remove) ==
  IF \E src \in srcs, dest \in dests : ~ IsPrefix(src, dest) /\ ~ IsPrefix(dest, src)
  THEN Becomes(With(tree, The(dests), Copied(NodeAt(tree, The(dests)), NodeAt(tree, The(srcs)), insert, remove)))
  ELSE Refused
Cp(f) == CpOf(First(f), OrHere(Pos(f, 2)), ~ Has(f, {"no-insert", "I"}), Has(f, {"remove", "r"}))

\* schema: from a file or from the line, to a file or to be shown.
Schema(f) ==
  LET at == OrHere(Pos(f, 2))
      format == Pos(f, 1)
      file == Value(f, {"file", "f"})
      inline == Each(LAMBDA w : Scalar(<<w>>), SetToSeq(Value(f, {"import", "i"})))
      content == IF file # {} THEN UNION {files[w] : w \in file \ Broken} ELSE Range(inline)
      doc == JsonOf(NodeAt(tree, The(at)), FALSE)
  IN  IF format = {} THEN Says(TRUE, <<>>)
      ELSE IF at = {} \/ format # {"json"} THEN Refused
      ELSE IF Has(f, {"import", "i"})
        THEN IF content = {} THEN Refused
             ELSE Becomes(With(tree, The(at), Import(NodeAt(tree, The(at)), The(content))))
      ELSE IF file = {} THEN Says(TRUE, <<doc>>)
      ELSE IF file \cap Broken # {} THEN Refused
      ELSE [Says(TRUE, <<>>) EXCEPT !.files = [w \in Files |-> IF w \in file THEN {doc} ELSE @[w]]]

-----------------------------------------------------------------------------
(* Which command a line is, and how a line may go on.                      *)

Builtin == {"ls", "get", "g", "set", "s", "mk", "rm", "mv", "cp", "schema", "cd", "pwd", "root", "up", "first", "last",
            "prev", "next", "sibling", "take", "orphans", "adopt", "shadow", "help"}

\* resolveCommand: how many words are the longest name of a command.
NamesIn_(word) == IF word \in DOMAIN Parts THEN Parts[word] ELSE <<word>>
Dotted(words) == FlattenSeq([i \in DOMAIN words |-> NamesIn_(words[i])])
CommandAt(words) == {n \in DOMAIN words : Dotted(SubSeq(words, 1, n)) \in Registered}
ResolveCommand(words) == IF CommandAt(words) = {} THEN 0 ELSE Max(CommandAt(words))

\* execute: commands of the terminal's own, then those registered.
Called(words) ==
  LET async == words[1] = "async" /\ Len(words) > 1
      args == IF async THEN Tail(words) ELSE words
      n == ResolveCommand(args)
  IN  IF n = 0 THEN Refused ELSE Says(TRUE, <<Dotted(SubSeq(args, 1, n)), SubSeq(args, n + 1, Len(args)), ~ async>>)

Executed(words, f) ==
  CASE words[1] = "ls" -> Ls(f)
    [] words[1] \in {"get", "g"} -> Get(f)
    [] words[1] \in {"set", "s"} -> Set(f)
    [] words[1] = "mk" -> Mk(words, f)
    [] words[1] = "rm" -> Rm(words, f)
    [] words[1] = "mv" -> Mv(f)
    [] words[1] = "cp" -> Cp(f)
    [] words[1] = "schema" -> Schema(f)
    [] words[1] \notin Builtin -> Called(words)

Starts(prefix, word) == prefix = "" \/ prefix = word \/ (prefix \in DOMAIN Begins /\ word \in Begins[prefix])

\* completeNodePath: names of children, behind the path that is there.
CompleteNodePath(word) ==
  LET b == IF word \in DOMAIN Begun THEN Begun[word] ELSE [absolute |-> FALSE, keys |-> <<>>, leaf |-> word]
      names == {k.name : k \in UNION {Range(Kids(tree, base)) : base \in Find(tree, [absolute |-> b.absolute, keys |-> b.keys])}}
  IN  {[absolute |-> b.absolute, keys |-> Append(b.keys, Key(n, Plain))] : n \in {n \in names \ {""} : Starts(b.leaf, n)}}

\* complete: a path, once there is a command before it.
PastCommand(words, spaced) ==
  \/ ResolveCommand(words) > 0 /\ (spaced \/ Len(words) > ResolveCommand(words))
  \/ words # <<>> /\ words[1] \in Builtin \cup {"quit", "exit"} /\ (spaced \/ Len(words) > 1)
CommandWords == {w \in DOMAIN Parts : Parts[w] \in Registered} \cup {k[1] : k \in {k \in Registered : Len(k) = 1}}
CompleteCommand(words, spaced) ==
  LET prefix == IF words = <<>> THEN "" ELSE words[1]
  IN  IF Len(words) > 1 \/ (spaced /\ words # <<>>) THEN {}
      ELSE {w \in Builtin \cup {"quit", "exit"} \cup CommandWords : Starts(prefix, w)}
CompletePath(words, spaced) ==
  LET count == IF ResolveCommand(words) > 0 THEN ResolveCommand(words) ELSE 1
  IN  CompleteNodePath(IF ~ spaced /\ Len(words) > count THEN Last(words) ELSE "")

-----------------------------------------------------------------------------

NoLine == [words |-> <<>>, chars |-> <<>>]
NothingEntered == [words |-> <<>>, before |-> Tree0, at |-> <<>>, ok |-> TRUE, shown |-> <<>>]

Idle(result) == [verb |-> "none", path |-> [absolute |-> TRUE, keys |-> <<>>], query |-> {}, before |-> Tree0,
                 at |-> <<>>, file |-> {}, inline |-> {}, result |-> result]

Init ==
  /\ tree = Tree0 /\ current = <<>> /\ files = [f \in Files |-> {}]
  /\ did = Idle(Fail)
  /\ \/ glob \in Patterns \X Texts /\ line = NoLine
     \/ glob = << <<>>, <<>> >> /\ line \in Lines
  /\ entered = NothingEntered /\ turn = 0

Does(done, what) ==
  /\ did.verb = "none"
  /\ Cardinality(NodesOf(done.tree)) <= MaxNodes
  /\ tree' = done.tree /\ files' = done.files
  /\ did' = [what EXCEPT !.result = done.result, !.before = tree, !.at = current]
  /\ UNCHANGED <<current, glob, terminal>>

FileGiven == {{}} \cup {{f} : f \in Files}
Save == \E format \in Formats, path \in Paths, file \in FileGiven :
  Does(Saved(format, path, file), [Idle(Fail) EXCEPT !.verb = "save", !.path = path, !.file = file])
Load == \E format \in Formats, path \in Paths, file \in FileGiven :
  Does(Loaded(format, path, file, {}), [Idle(Fail) EXCEPT !.verb = "load", !.path = path, !.file = file])
LoadInline == \E path \in Paths, doc \in {Scalar(<<"x">>)} :
  Does(Loaded("json", path, {}, {doc}), [Idle(Fail) EXCEPT !.verb = "load", !.path = path, !.inline = {doc}])
Search == \E q \in Queries : Does(Searched(q), [Idle(Fail) EXCEPT !.verb = "search", !.query = {q}])

\* cd, which any terminal has.
Cd == did.verb = "none" /\ \E at \in NodesOf(tree) \cap Homes : current' = at /\ UNCHANGED <<tree, files, did, glob, terminal>>

\* The result is shown.
Show == did.verb # "none" /\ did' = Idle(Fail) /\ UNCHANGED <<tree, current, files, glob, terminal>>

Next == Show \/ Save \/ Load \/ LoadInline \/ Search \/ Cd

Spec == Init /\ [][Next]_<<commands, terminal>>

\* The terminal does not stand in what is removed, nor below what is copied
\* onto, and nothing is moved below itself: the code checks none of these.
Stays(words, f) ==
  /\ words[1] = "rm" => \A gone \in {RmGone(words, f)} : \A i \in gone.which : ~ IsPrefix(Append(gone.at, i), current)
  /\ words[1] = "mv" => \A src \in First(f), dest \in OrHere(Pos(f, 2)) : src # dest => ~ IsPrefix(src, dest)
  /\ words[1] \in {"cp", "schema"} => \A dest \in OrHere(Pos(f, 2)) : ~ IsStrictPrefix(dest, current)
Loses(words, done) == words[1] = "mv" /\ ~ done.ok /\ done.tree # tree

\* A terminal at any node of a tree; in those of some size it takes one line.
TerminalInit(trees) ==
  /\ tree \in trees /\ current \in NodesOf(tree) /\ files = [f \in Files |-> {}]
  /\ did = Idle(Fail) /\ glob = << <<>>, <<>> >> /\ line = NoLine
  /\ entered = NothingEntered
  /\ turn = IF Cardinality(NodesOf(tree)) > 2 THEN MaxTurns - 1 ELSE 0

Enter(words) ==
  /\ turn < MaxTurns
  /\ \E f \in {ParseFlags(words)} : Stays(words, f) /\ \E done \in {Executed(words, f)} :
       /\ Loses(words, done) => ~ Careful /\ \A src \in First(f) : ~ IsPrefix(src, current)
       /\ Cardinality(NodesOf(done.tree)) <= MaxNodes
       /\ tree' = done.tree /\ current' = done.current /\ files' = done.files
       /\ entered' = [words |-> words, before |-> tree, at |-> current, ok |-> done.ok, shown |-> done.shown]
  /\ turn' = turn + 1
  /\ UNCHANGED <<did, glob, line>>

TerminalNext == \E words \in Typed : Enter(words)

-----------------------------------------------------------------------------

\* What there is below a node, in the order of its children; callables and
\* what is below them are left out.
RECURSIVE Below(_, _)
Below(node, at) ==
  FoldLeft(LAMBDA out, i : IF Callable(node.kids[i]) THEN out
                           ELSE out \o <<Append(at, i)>> \o Below(node.kids[i], Append(at, i)),
           <<>>, [i \in DOMAIN node.kids |-> i])

\* A load gives the target what the file was saved with and keeps what else it
\* has; one that fails leaves every node as it was.  What is saved comes back
\* as the document it was (save, load).
LoadedIsSaved ==
  /\ did.verb = "load" /\ did.result.ok =>
       LET doc == The(IF did.file = {} THEN did.inline ELSE UNION {files[f] : f \in did.file})
           made == IF did.path.absolute THEN Made(did.before, did.path.keys)
                   ELSE With(did.before, did.at, Made(NodeAt(did.before, did.at), did.path.keys))
           at == The(Find(tree, did.path))
       IN  Merged(NodeAt(tree, at), NodeAt(made, at), NodeOf(doc, Fresh("")), TRUE, FALSE)
  /\ did.verb = "load" /\ ~ did.result.ok =>
       \A at \in NodesOf(did.before) : at \in NodesOf(tree) /\ NodeAt(tree, at).value = NodeAt(did.before, at).value
  /\ \A f \in Files : \A doc \in files[f] : JsonOf(NodeOf(doc, Fresh("")), FALSE) = doc

\* A search finds the first nodes of the tree, in its order, that match, and no
\* others (search).
SearchFinds ==
  did.verb = "search" /\ did.result.ok =>
    LET q == The(did.query)
        root == The(FindPath(tree, q.root))
        NamesTo(at) == [i \in DOMAIN at |-> NodeAt(tree, SubSeq(at, 1, i)).name]
        all == SelectSeq(Below(NodeAt(tree, root), root), LAMBDA at : Hit(NodeAt(tree, at), NamesTo(at), q))
    IN  did.result.content = {[i \in 1 .. Lower(Len(all), q.top) |-> NamesTo(all[i])]}

\* A pattern fits what it says: a star any text, a question mark one letter.
RECURSIVE Fits(_, _)
Fits(p, s) ==
  IF p = <<>> THEN s = <<>>
  ELSE IF Head(p) = "*" THEN Fits(Tail(p), s) \/ (s # <<>> /\ Fits(p, Tail(s)))
  ELSE s # <<>> /\ Head(p) \in {"?", Head(s)} /\ Fits(Tail(p), Tail(s))

GlobAgrees == GlobMatch(glob[1], glob[2]) <=> Fits(glob[1], glob[2])

\* Words that were written into a line come back, whatever is in them; those
\* without a letter do not (split).
WordsReturn == Split(line.chars) = SelectSeq(line.words, LAMBDA w : w # <<>>)

Holding(t, v) == Cardinality({at \in NodesOf(t) : NodeAt(t, at).value = v})
Held(t) == {NodeAt(t, at).value : at \in NodesOf(t)}

\* What the terminal refuses has changed nothing; what it moves or makes takes
\* nothing away, what it removes is that and what is below it; and the terminal
\* stands where it stood, wherever that is now (cmds of terminal_session.cpp).
TellsWhatIsDone ==
  LET words == entered.words
      before == entered.before
  IN  words # <<>> =>
        /\ ~ entered.ok => tree = before
        /\ words[1] \in {"mv", "mk"} =>
             /\ \A v \in Held(before) \ {Null} : Holding(tree, v) = Holding(before, v)
             /\ Held(tree) \ {Null} = Held(before) \ {Null}
        /\ words[1] = "rm" => \A v \in Held(tree) : v # Null => v \in Held(before)
        /\ words[1] \in {"mv", "mk", "rm"} => NodeAt(tree, current).value = NodeAt(before, entered.at).value
        /\ words[1] = "cp" /\ entered.ok => Held(tree) \subseteq Held(before)

\* A key that is shown leads to what it was shown for (ls, resolve).
ShownLeads ==
  entered.words = <<"ls">> =>
    \A i \in DOMAIN entered.shown :
      Find(tree, [absolute |-> FALSE, keys |-> <<entered.shown[i]>>]) = {Append(current, i)}

\* What is offered to complete a word is there, and what is there is offered
\* (complete, completeNodePath).
OfferedIsThere ==
  /\ \A word \in DOMAIN Begun :
       LET b == Begun[word]
           offered == UNION {Find(tree, p) : p \in CompleteNodePath(word)}
       IN  /\ \A p \in CompleteNodePath(word) : Find(tree, p) # {}
           /\ \A base \in Find(tree, [absolute |-> b.absolute, keys |-> b.keys]) : \A i \in DOMAIN Kids(tree, base) :
                LET name == Kids(tree, base)[i].name
                IN  name # "" /\ Starts(b.leaf, name) <=>
                      \E at \in offered : Front(at) = base /\ NodeAt(tree, at).name = name
  /\ \A prefix \in DOMAIN Begins : \A w \in CompleteCommand(<<prefix>>, FALSE) :
       w \in Builtin \cup {"quit", "exit"} \/ ResolveCommand(<<w>>) = 1
=============================================================================
