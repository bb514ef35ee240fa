----------------------------- MODULE CommandArgs -----------------------------
(***************************************************************************)
(* The arguments of a command (command.cpp): words, or a value, are put    *)
(* onto the node the command runs on, as its declaration says.  That node  *)
(* has the declaration as its shadow, so what is not given has the value   *)
(* declared; a function of several arguments gets the first children.      *)
(***************************************************************************)
EXTENDS VarValues

CONSTANTS
  Declarations,  \* sequences of parameters: name, short name (or none), value
  Inputs,        \* values a command is called with
  Samples        \* values of every kind

VARIABLES declared, words, at, context, target, position, state
args == <<declared, words, at, context, target, position, state>>

LOCAL INSTANCE SequencesExt

Param(name, short, value) == [name |-> name, short |-> short, value |-> value]
Hidden(name) == name = <<>> \/ Head(name) = "_"
Dash == "-"

Longs(decl) == {decl[i].name : i \in {i \in DOMAIN decl : ~ Hidden(decl[i].name)}}
Order(decl) == LET shown == SelectSeq(decl, LAMBDA p : ~ Hidden(p.name) /\ p.short = <<>>)
               IN  [i \in DOMAIN shown |-> shown[i].name]
Shorts(decl, c) == {decl[i].name : i \in {i \in DOMAIN decl : ~ Hidden(decl[i].name) /\ decl[i].short = <<c>>}}

\* Node::set of the child of that name, made if it is not there.
Put(kids, name, value) ==
  LET is == {i \in DOMAIN kids : kids[i].name = name}
  IN  IF is = {} THEN Append(kids, [name |-> name, value |-> value])
      ELSE [i \in DOMAIN kids |-> IF i \in is /\ \A j \in is : i <= j THEN [kids[i] EXCEPT !.value = value] ELSE kids[i]]

LongWord(w) == Len(w) > 2 /\ w[1] = Dash /\ w[2] = Dash
Equals(w) == {i \in DOMAIN w : w[i] = "=" /\ \A j \in 1 .. i - 1 : w[j] # "="}
Inline(w) == LongWord(w) /\ \E i \in Equals(w) : SubSeq(w, 3, i - 1) \in Longs(declared)

\* isKeyword: the parameter a word names, as a set of at most one.
Keyword(w) ==
  IF Len(w) < 2 \/ w[1] # Dash \/ IsInt(w) \/ IsDouble(w) THEN {}
  ELSE IF w[2] = Dash THEN Longs(declared) \cap {SubSeq(w, 3, Len(w))}
  ELSE IF Len(w) = 2 THEN {n \in Shorts(declared, w[2]) : TRUE} ELSE {}

Keyed(name, value) == context' = Put(context, name, value)

\* Mutant: a word past those declared goes to the first place that is free in
\* the declaration.
NextAtPosition == position

\* The place of a word that has no name.
NextPlace == Len(context) + 1

Read(w) == IF ParseValue(w) = <<>> THEN None ELSE ParseValue(w)[1]
Throws(w) == ParseValue(w) = <<>>

Word == words[at]
Taking == state = "parsing" /\ at <= Len(words)
Advance == at' = at + 1 /\ UNCHANGED <<declared, words, state>>

TakeInline ==
  /\ Taking /\ Inline(Word)
  /\ \E i \in Equals(Word) :
       /\ ~ Throws(After(Word, i))
       /\ Keyed(SubSeq(Word, 3, i - 1), Read(After(Word, i)))
  /\ target' = <<>> /\ UNCHANGED position /\ Advance

\* One that still waits for its value is forgotten.
TakeKeyword ==
  /\ Taking /\ ~ Inline(Word)
  /\ \E name \in Keyword(Word) : target' = name
  /\ UNCHANGED <<context, position>> /\ Advance

Plain(w) == ~ Inline(w) /\ Keyword(w) = {}

TakeValue ==
  /\ Taking /\ Plain(Word) /\ ~ Throws(Word)
  /\ \/ /\ target # <<>>
        /\ Keyed(target, Read(Word)) /\ target' = <<>> /\ UNCHANGED position
     \/ /\ target = <<>> /\ position <= Len(Order(declared))
        /\ Keyed(Order(declared)[position], Read(Word))
        /\ position' = position + 1 /\ UNCHANGED target
     \/ /\ target = <<>> /\ position > Len(Order(declared))
        /\ LET place == NextPlace
           IN  context' = [i \in 1 .. (IF place > Len(context) THEN place ELSE Len(context)) |->
                             IF i = place THEN [name |-> IF i \in DOMAIN context THEN context[i].name ELSE <<>>, value |-> Read(Word)]
                             ELSE context[i]]
        /\ UNCHANGED <<target, position>>
  /\ Advance

\* A number that is none leaves the exception to the caller, and what was
\* put so far where it is.
Throw ==
  /\ Taking
  /\ \/ Plain(Word) /\ Throws(Word)
     \/ Inline(Word) /\ \E i \in Equals(Word) : Throws(After(Word, i))
  /\ state' = "thrown"
  /\ UNCHANGED <<declared, words, at, context, target, position>>

Finish ==
  /\ state = "parsing" /\ at > Len(words)
  /\ IF target = <<>> THEN UNCHANGED context ELSE Keyed(target, Bool(TRUE))
  /\ state' = "parsed"
  /\ UNCHANGED <<declared, words, at, target, position>>

\* parseArgs of a value: what has names by its names, a list as words, any
\* other for the first parameter that has no short name.
OfValue(decl, v) ==
  CASE v.is = "none" -> <<>>
    [] v.is = "dict" -> FoldLeft(LAMBDA kids, i : IF Hidden(v.keys[i]) THEN kids ELSE Put(kids, v.keys[i], v.items[i]),
                                 <<>>, [i \in DOMAIN v.keys |-> i])
    [] OTHER -> <<[name |-> IF Order(decl) = <<>> THEN <<>> ELSE Order(decl)[1], value |-> v]>>

ParseVar(v) ==
  /\ state = "built"
  /\ IF v.is = "list"
     THEN /\ words' = [i \in DOMAIN v.items |-> TextOf(v.items[i])]
          /\ state' = "parsing" /\ UNCHANGED context
     ELSE /\ context' = OfValue(declared, v) /\ state' = "parsed" /\ UNCHANGED words
  /\ UNCHANGED <<declared, at, target, position>>

\* The terminal hands a line's words over as a list of texts.
Init ==
  /\ declared \in Declarations
  /\ words = <<>> /\ at = 1 /\ context = <<>> /\ target = <<>> /\ position = 1 /\ state = "built"

Next == (\E v \in Inputs : ParseVar(v)) \/ TakeInline \/ TakeKeyword \/ TakeValue \/ Throw \/ Finish

-----------------------------------------------------------------------------
(* What the command finds there (Args), the node's own before the shadow's.*)

Own(name) == {context[i].value : i \in {i \in DOMAIN context : context[i].name = name}}
Declared(name) == {declared[i].value : i \in {i \in DOMAIN declared : declared[i].name = name}}
Var(name, def) ==
  LET found == IF Own(name) # {} THEN Own(name) ELSE Declared(name)
  IN  IF found = {} \/ found = {None} THEN def ELSE CHOOSE v \in found : TRUE
Has(name) == Own(name) \notin {{}, {None}}

\* Step::wrap of a function of several arguments: at(I, true).
Argument(i) ==
  IF i <= Len(context) THEN context[i].value
  ELSE IF i <= Len(declared) THEN declared[i].value ELSE None

-----------------------------------------------------------------------------

Values(ws) == [i \in DOMAIN ws |-> Read(ws[i])]
Named(w) == Inline(w) \/ Keyword(w) # {}
Loose == state = "parsed" /\ words # <<>> /\ \A i \in DOMAIN words : ~ Named(words[i])

\* Words without names go to the parameters in their order, those that are
\* left come after them in theirs, and what has none keeps what is declared.
WordsInOrder ==
  Loose =>
    /\ \A i \in DOMAIN words : Argument(i) = Read(words[i])
    /\ \A i \in DOMAIN Order(declared) :
         Var(Order(declared)[i], None) =
           IF i <= Len(words) THEN Read(words[i]) ELSE (CHOOSE v \in Declared(Order(declared)[i]) : TRUE)

\* A later word may give a name another value.
Again(name, i) ==
  \E j \in i + 1 .. Len(words) :
    \/ name \in Keyword(words[j])
    \/ \E e \in Equals(words[j]) : SubSeq(words[j], 3, e - 1) = name
    \/ j > i + 1 /\ Plain(words[j]) /\ \E k \in DOMAIN Order(declared) : Order(declared)[k] = name

\* The value that stands behind a name is the value of that name, unless a
\* later word gives it another; one at the end is set.
NamesBind ==
  state = "parsed" =>
    \A i \in DOMAIN words : ~ Inline(words[i]) =>
      \A name \in Keyword(words[i]) : ~ Again(name, i) =>
        /\ i = Len(words) => Own(name) = {Bool(TRUE)}
        /\ i < Len(words) /\ Plain(words[i + 1]) => Own(name) = {Read(words[i + 1])}

\* Every name that is given is there when the command runs.
NamesHeard ==
  state = "parsed" => \A i \in DOMAIN words : \A name \in Keyword(words[i]) : Own(name) # {}

\* A function of several arguments gets each in its place however it is given.
ArgumentsInPlace ==
  state = "parsed" /\ words # <<>> => \A i \in DOMAIN declared : declared[i].short = <<>> => Argument(i) = Var(declared[i].name, None)

\* Whatever the words are, they are taken to their end.
AllTaken == state # "thrown"

\* A text that a value is written as is read as that value again, and equal
\* values are written alike; but for null, whole doubles, texts that look like
\* another value, bytes, lists and dictionaries.
Scalars == {"bool", "int"}
TextsReadBack ==
  \A v \in Samples :
    /\ v.is \in Scalars => ParseValue(TextOf(v)) = <<v>>
    /\ v.is = "double" => LET back == ParseValue(TextOf(v)) IN Len(back) = 1 /\ ToDouble(back[1], 0) = v.n
    /\ v.is \in {"bool", "int", "double"} => ToBool(v, FALSE) = (ToDouble(v, 0) # 0)
    /\ \A w \in Samples : Equal(v, w) => Equal(w, v) /\ (v.is # "dict" => TextOf(v) = TextOf(w))
    /\ \A def \in {0, 1} : Fits(ToInt64(v, def), Narrow) => ToInt(v, def) = ToInt64(v, def)
=============================================================================
