--------------------------- MODULE ModuleFormats ---------------------------
(***************************************************************************)
(* What a ModuleObject is written as and read from (modulemanager.cpp):    *)
(* QVariant and JSON, which are the same document, XML and the binary      *)
(* form, files of them, and the command convert.                           *)
(*                                                                         *)
(* A tree is a value; a child without a name is called "" (the code makes  *)
(* one up that begins with #) and is found by its place.  Of the trees     *)
(* written, the children of an object all have names or none has.  A value *)
(* of two is a list.  Qt's own parsers are external.                       *)
(***************************************************************************)
EXTENDS NodeTrees

CONSTANTS
  Exported,    \* the trees that are written
  Existing,    \* the trees they are read onto
  Sorted       \* the names, in the order QMap keeps them in

VARIABLES
  tree, hides, \* what is written, and whether without the names in _
  format, doc, \* what it was written as, if it was
  onto,        \* what it is read onto
  flags,       \* auto_insert, auto_replace, auto_remove
  result

formats == <<tree, hides, format, doc, onto, flags, result>>

Formats == {"variant", "json", "xml", "bin"}

\* The empty object of the manager; it overrides importing but from QVariant.
Nothing == Tree("nullData", Null, <<>>)
Nameless(kids) == kids # <<>> /\ kids[1].name = ""
IsList(v) == Len(v) > 1
IsThere(kids, name) == \E i \in DOMAIN kids : kids[i].name = name
Fresh_(n) == [i \in 1 .. n |-> Fresh("")]
First(s, n) == SubSeq(s, 1, Lower(n, Len(s)))

-----------------------------------------------------------------------------
(* QVariant and JSON.                                                      *)

OfValue(v) == IF IsList(v) THEN Array(Each(LAMBDA e : Scalar(<<e>>), v)) ELSE Scalar(v)

RECURSIVE ToJson(_, _)
ToJson(t, ignore) ==
  LET Named_(name) == SelectSeq(Visible(t.kids, ignore), LAMBDA k : k.name = name)
      keys == SelectSeq(Sorted, LAMBDA name : Named_(name) # <<>>)
  IN  IF t.kids = <<>> THEN OfValue(t.value)
      ELSE IF Nameless(t.kids) THEN Array(Each(LAMBDA k : ToJson(k, ignore), t.kids))
      ELSE Object(Each(LAMBDA name : Field(name, ToJson(Named_(name)[1], ignore)), keys))

Keys_(d) == {d.items[i].key : i \in DOMAIN d.items}
At_(d, key) == d.items[CHOOSE i \in DOMAIN d.items : d.items[i].key = key].of

Valued(t, v, remove) == Tree(t.name, v, IF remove THEN <<>> ELSE t.kids)

RECURSIVE OfJson(_, _, _)
OfJson(t, d, f) ==
  IF d.kind = "array" THEN
    LET kept == IF f.remove THEN First(t.kids, Len(d.items)) ELSE t.kids
        all == IF f.insert /\ Len(kept) < Len(d.items) THEN kept \o Fresh_(Len(d.items) - Len(kept)) ELSE kept
    IN  Tree(t.name, t.value,
             [i \in DOMAIN all |-> IF i \in DOMAIN d.items THEN OfJson(all[i], d.items[i], f) ELSE all[i]])
  ELSE IF d.kind = "object" THEN
    LET kept == IF f.remove THEN SelectSeq(t.kids, LAMBDA k : k.name \in Keys_(d)) ELSE t.kids
        missing == SelectSeq(d.items, LAMBDA field : ~ IsThere(kept, field.key))
        all == IF f.insert THEN kept \o Each(LAMBDA field : Fresh(field.key), missing) ELSE kept
    IN  Tree(t.name, t.value,
             Each(LAMBDA k : IF k.name \in Keys_(d) THEN OfJson(k, At_(d, k.name), f) ELSE k, all))
  ELSE IF f.replace THEN Valued(t, d.value, f.remove) ELSE t

-----------------------------------------------------------------------------
(* XML: elements m, c and l; a value that is no text is left out.          *)

TextOf(v) == IF IsList(v) THEN Null ELSE v

RECURSIVE ToXml(_, _, _)
ToXml(t, tag, ignore) ==
  [tag |-> tag, name |-> t.name, value |-> TextOf(t.value),
   elems |-> Each(LAMBDA k : ToXml(k, IF k.name = "" THEN "l" ELSE "c", ignore), Visible(t.kids, ignore))]

\* An element is a child by its name, or the one whose place is how many
\* elements came before it; the value is set at its end.
RECURSIVE Elements(_, _, _)
Elements(t, x, f) ==
  LET At(kids, n, e) == {i \in DOMAIN kids : IF e.tag = "l" THEN i = n + 1 ELSE kids[i].name = e.name}
      Into(k, e) == LET inside == Elements(k, e, f)
                    IN  IF f.replace THEN Tree(k.name, e.value, inside.kids) ELSE inside
      One(work, e) ==
        LET at == At(work.kids, work.seen, e)
        IN  IF at # {} THEN [kids |-> [i \in DOMAIN work.kids |-> IF i \in at THEN Into(work.kids[i], e) ELSE work.kids[i]],
                             seen |-> work.seen + 1]
            ELSE IF f.insert THEN [kids |-> Append(work.kids, Into(Fresh(e.name), e)), seen |-> work.seen + 1]
            ELSE work
  IN  Tree(t.name, t.value, FoldLeft(One, [kids |-> t.kids, seen |-> 0], x.elems).kids)

\* The value of m is set when it begins, and none is when it ends.
OfXml(t, x, f) == LET inside == Elements(t, x, f)
                  IN  IF f.replace THEN Tree(t.name, Null, inside.kids) ELSE inside

-----------------------------------------------------------------------------
(* The binary form: a value, the rnames, and what the children are.        *)

\* A place is a number, a name that is none is 0.
Rname(kids, i) == IF kids[i].name = "" THEN <<"", i>> ELSE <<kids[i].name, 0>>
HasName(kids, r) == IF r[1] = "" THEN r[2] <= Len(kids) ELSE IsThere(kids, r[1])

RECURSIVE ToBin(_, _)
ToBin(t, ignore) ==
  LET seen == SelectSeq([i \in DOMAIN t.kids |-> i], LAMBDA i : ~ (ignore /\ Hidden(t.kids[i].name)))
  IN  [value |-> t.value, names |-> Each(LAMBDA i : Rname(t.kids, i), seen),
       kids |-> Each(LAMBDA i : ToBin(t.kids[i], ignore), seen)]

\* What is not among the names, by its place when it is looked at.
Remaining(kids, names) ==
  FoldLeft(LAMBDA out, k :
             LET r == Rname(Append(out, k), Len(out) + 1)
             IN  IF \E i \in DOMAIN names : names[i] = r THEN Append(out, k) ELSE out,
           <<>>, kids)

RECURSIVE OfBin(_, _, _)
OfBin(t, b, f) ==
  LET start == IF f.remove THEN Remaining(t.kids, b.names) ELSE t.kids
      All(kids, r) == IF HasName(kids, r) \/ ~ f.insert THEN kids
                      ELSE IF r[1] = "" THEN kids \o Fresh_(r[2] - Len(kids)) ELSE Append(kids, Fresh(r[1]))
      One(kids, n) ==
        LET r == b.names[n]
            all == All(kids, r)
        IN  [i \in DOMAIN all |->
               IF (IF r[1] = "" THEN i = r[2] ELSE all[i].name = r[1]) THEN OfBin(all[i], b.kids[n], f) ELSE all[i]]
  IN  Tree(t.name, IF f.replace THEN b.value ELSE t.value,
           FoldLeft(One, start, [n \in DOMAIN b.names |-> n]))

\* copyFrom goes by the same names, and always replaces.
CopyFrom(t, other, insert, remove) ==
  IF t = Nothing THEN t
  ELSE OfBin(t, ToBin(other, FALSE), [insert |-> insert, replace |-> TRUE, remove |-> remove])

-----------------------------------------------------------------------------

Written(t, to, ignore) ==
  CASE to \in {"variant", "json"} -> ToJson(t, ignore)
    [] to = "xml" -> ToXml(t, "m", ignore)
    [] to = "bin" -> ToBin(t, ignore)

\* What is read onto the empty object is lost.
Read_(t, from, d, f) ==
  IF t = Nothing THEN t
  ELSE CASE from \in {"variant", "json"} -> OfJson(t, d, f)
         [] from = "xml" -> OfXml(t, d, f)
         [] from = "bin" -> OfBin(t, d, f)

\* The empty object appends to itself for ever when a list is read onto it.
RECURSIVE HasArray(_)
HasArray(d) == \/ d.kind = "array" /\ d.items # <<>>
               \/ d.kind = "object" /\ \E i \in DOMAIN d.items : HasArray(d.items[i].of)
Ends(t, from, d, f) == ~ (t = Nothing /\ from = "variant" /\ f.insert /\ HasArray(d))

\* writeToJson takes no plain value.
Writable(to, d) == to = "json" => d.kind # "scalar"

Default == [insert |-> TRUE, replace |-> TRUE, remove |-> FALSE]
Empty == Tree("", Null, <<>>)
EmptyArray == Array(<<>>)

\* A file that cannot be read is no value, one that cannot be parsed an empty
\* list; of XML and the binary form both are nothing at all.
Unreadable(from) == IF from = "json" THEN Scalar(Null) ELSE ToBin(Empty, FALSE)
Unparsable == EmptyArray

\* readFromBin has unpacked the file, and it is unpacked once more.
Convert(from, to, d, file) ==
  LET in == IF from = "bin" /\ file THEN Unreadable("bin")
            ELSE IF from = "json" /\ d.kind = "object" /\ d.items = <<>> THEN EmptyArray ELSE d
  IN  Written(Read_(Empty, from, in, Default), to, FALSE)

-----------------------------------------------------------------------------

None == Empty

Init ==
  /\ tree \in Exported /\ onto \in Existing /\ hides \in BOOLEAN
  /\ flags \in [insert : BOOLEAN, replace : BOOLEAN, remove : BOOLEAN]
  /\ format = "" /\ doc = <<>> /\ result = None

Write(to) ==
  /\ format = "" /\ Writable(to, Written(tree, to, hides))
  /\ format' = to /\ doc' = <<Written(tree, to, hides)>>
  /\ UNCHANGED <<tree, hides, onto, flags, result>>

\* What was written is read, or a file of it that has since been lost or cut.
Read ==
  /\ doc # <<>>
  /\ \E d \in {doc[1]} \cup (IF format = "json" THEN {Unreadable(format), Unparsable} ELSE {}) :
       /\ Ends(onto, format, d, flags)
       /\ result' = Read_(onto, format, d, flags)
       /\ format' = IF d = doc[1] THEN format ELSE "broken"
       /\ doc' = <<>>
  /\ UNCHANGED <<tree, hides, onto, flags>>

Copy ==
  /\ format = ""
  /\ format' = "copy" /\ result' = CopyFrom(onto, tree, flags.insert, flags.remove)
  /\ UNCHANGED <<tree, hides, doc, onto, flags>>

Next == (\E to \in Formats : Write(to)) \/ Read \/ Copy

-----------------------------------------------------------------------------

Done == doc = <<>> /\ format # ""

\* Objects by where they are.
RECURSIVE Spots(_)
Spots(t) ==
  {<< <<>>, t.value>>}
  \cup UNION {{<< <<Rname(t.kids, i)>> \o s[1], s[2]>> : s \in Spots(t.kids[i])} : i \in DOMAIN t.kids}
Where(t) == {s[1] : s \in Spots(t)}

\* What the options of an import promise: nothing is added, nothing is lost,
\* no value is changed.
FlagsHonoured ==
  Done =>
    /\ ~ flags.insert => Where(result) \subseteq Where(onto)
    /\ ~ flags.remove => Where(onto) \subseteq Where(result)
    /\ ~ flags.replace /\ format # "copy" =>
         \A s \in Spots(result) : s[1] \in Where(onto) => s \in Spots(onto)

\* Without the values of those that have children.
RECURSIVE Leaves(_)
Leaves(t) == Tree(t.name, IF t.kids = <<>> THEN t.value ELSE Null, Each(Leaves, t.kids))
RECURSIVE Texts(_)
Texts(t) == ~ IsList(t.value) /\ \A i \in DOMAIN t.kids : Texts(t.kids[i])

RECURSIVE Clashes(_, _)
\* Children without names are read onto ones with names.
Clashes(t, o) ==
  \/ Nameless(t.kids) /\ \E i \in DOMAIN o.kids : o.kids[i].name # ""
  \/ \E i \in DOMAIN t.kids, j \in DOMAIN o.kids :
       /\ IF t.kids[i].name = "" THEN i = j ELSE t.kids[i].name = o.kids[j].name
       /\ Clashes(t.kids[i], o.kids[j])
\* What was written whole and is read with every option is what it was: the
\* binary form keeps everything, a copy too, JSON what stands at the leaves,
\* and XML, which removes nothing, all but lists and the value of the first.
ReadAsWritten ==
  (/\ Done /\ format # "broken" /\ onto # Nothing
   /\ flags.insert /\ flags.remove /\ (flags.replace \/ format = "copy")
   /\ (hides => format = "copy")) =>
    LET was == Tree(onto.name, tree.value, tree.kids)
    IN  CASE format \in {"bin", "copy"} -> Same(result, was) /\ Spots(result) = Spots(was)
          [] format \in {"json", "variant"} ->
               Texts(tree) /\ ~ Clashes(tree, onto) => Same(Leaves(result), Leaves(was))
          [] format = "xml" -> Texts(tree) /\ onto.kids = <<>> => Same(result, Tree(onto.name, Null, tree.kids))
          [] OTHER -> TRUE

\* A converted document says what the first one says.
ConvertKeeps ==
  \A from, to \in {"json", "xml", "bin"} :
    Texts(tree) /\ tree.kids # <<>> /\ from # to
    => LET d == Written(tree, from, FALSE)
           there == Convert(from, to, d, FALSE)
       IN  Same(Leaves(Read_(Empty, to, there, Default)), Leaves(Read_(Empty, from, d, Default)))
=============================================================================
