----------------------------- MODULE NodeTrees ------------------------------
(***************************************************************************)
(* Node trees as values: what they are, how a path leads through one, and  *)
(* what of one JSON says.                                                  *)
(***************************************************************************)
EXTENDS Integers, Sequences, SequencesExt, FiniteSets

(***************************************************************************)
(* Node trees as values, and Node::copy (node.cpp): one tree is brought    *)
(* into step with another.  Children are matched by name and occurrence;   *)
(* those of the source that have no match are inserted before the next one *)
(* that has, those of the destination that have none may be removed.       *)
(***************************************************************************)

\* A value is a sequence of strings; the empty one is no value.
Null == <<>>
Tree(name, value, kids) == [name |-> name, value |-> value, kids |-> kids]
Fresh(name) == Tree(name, Null, <<>>)

Indices(kids, name) == {i \in DOMAIN kids : kids[i].name = name}

\* _take_copy_match: how many of its name are there up to it.
Occurrence(kids, i) == Cardinality({j \in Indices(kids, kids[i].name) : j <= i})

\* The child of to that from[i] is matched with, if any, as a set.
Match(from, i, to) ==
  {j \in Indices(to, from[i].name) : Occurrence(to, j) = Occurrence(from, i)}

\* Children of a tree that others match.
Matched(kids, others) ==
  LET m == {j \in DOMAIN kids : Match(kids, j, others) # {}}
  IN  [k \in 1 .. Cardinality(m) |-> kids[CHOOSE j \in m : Cardinality({x \in m : x <= j}) = k]]

RECURSIVE Copied(_, _, _, _)

\* One child of the source: it waits to be inserted, or those that wait go in
\* before the one it is matched with, and that one is copied onto.
Step(i, from, to, insert, remove, work) ==
  LET match == Match(from, i, to)
      at == CHOOSE p \in DOMAIN work.kids : work.kids[p].was \in match
      new == [p \in DOMAIN work.waiting |->
                [was |-> 0, node |-> Copied(Fresh(work.waiting[p].name), work.waiting[p], insert, remove)]]
  IN  IF match = {} THEN [work EXCEPT !.waiting = IF insert THEN Append(@, from[i]) ELSE @]
      ELSE [waiting |-> <<>>,
            kids |-> SubSeq(work.kids, 1, at - 1) \o new
                     \o <<[was |-> work.kids[at].was, node |-> Copied(work.kids[at].node, from[i], insert, remove)]>>
                     \o SubSeq(work.kids, at + 1, Len(work.kids))]

Copied(onto, from, insert, remove) ==
  LET to == IF remove THEN Matched(onto.kids, from.kids) ELSE onto.kids
      start == [kids |-> [j \in DOMAIN to |-> [was |-> j, node |-> to[j]]], waiting |-> <<>>]
      end == FoldLeft(LAMBDA work, i : Step(i, from.kids, to, insert, remove, work),
                      start, [i \in DOMAIN from.kids |-> i])
  IN  Tree(onto.name, from.value,
           [j \in DOMAIN end.kids |-> end.kids[j].node]
           \o [j \in DOMAIN end.waiting |-> Copied(Fresh(end.waiting[j].name), end.waiting[j], insert, remove)])

-----------------------------------------------------------------------------
(* What a copy is to be.                                                   *)

Named(kids, name) == SelectSeq(kids, LAMBDA k : k.name = name)
NamesIn(kids) == {kids[i].name : i \in DOMAIN kids}
Lower(m, n) == IF m < n THEN m ELSE n

\* The matched children stand in the same order on both sides, and so below.
RECURSIVE Aligned(_, _)
Aligned(from, onto) ==
  /\ \A i, j \in DOMAIN from : i < j => \A p \in Match(from, i, onto), q \in Match(from, j, onto) : p < q
  /\ \A i \in DOMAIN from : \A p \in Match(from, i, onto) : Aligned(from[i].kids, onto[p].kids)

\* What a copy is to be, key by key: of each name the first ones are those of
\* the source, then come those the target had beyond them.
RECURSIVE Merged(_, _, _, _, _)
Merged(new, onto, from, insert, remove) ==
  /\ new.value = from.value
  /\ \A name \in NamesIn(new.kids) \cup NamesIn(onto.kids) \cup NamesIn(from.kids) :
       LET n == Named(new.kids, name)
           o == Named(onto.kids, name)
           f == Named(from.kids, name)
           both == Lower(Len(o), Len(f))
       IN  /\ Len(n) = both + (IF insert THEN Len(f) - both ELSE 0) + (IF remove THEN 0 ELSE Len(o) - both)
           /\ \A i \in 1 .. both : Merged(n[i], o[i], f[i], insert, remove)
           /\ \A i \in both + 1 .. Len(n) :
                IF Len(f) > both THEN Merged(n[i], Fresh(name), f[i], insert, remove) ELSE n[i] = o[i]

\* The same children, in whatever order.
RECURSIVE Same(_, _)
Same(t, u) ==
  /\ t.value = u.value /\ Len(t.kids) = Len(u.kids)
  /\ \A i \in DOMAIN t.kids :
       Cardinality({j \in DOMAIN t.kids : t.kids[j].name = t.kids[i].name /\ Same(t.kids[j], t.kids[i])})
       = Cardinality({j \in DOMAIN u.kids : u.kids[j].name = t.kids[i].name /\ Same(u.kids[j], t.kids[i])})

\* Children that both trees had keep their order, and the new ones stand where
\* the source has them relative to those.
InOrder(new, from) == \A i, j \in DOMAIN from : i < j => \A p \in Match(from, i, new), q \in Match(from, j, new) : p < q

-----------------------------------------------------------------------------
(***************************************************************************)
(* Keys and paths in a node tree (node.cpp): what a key is taken for, the  *)
(* key of a child, the path of a node, and finding or making the node at a *)
(* path.                                                                   *)
(*                                                                         *)
(* A key as it is written is a name and what follows its last '#': a       *)
(* number, nothing, or something else; Plain when there is no '#' at all.  *)
(* A path is a sequence of keys, a node of a tree the sequence of its and  *)
(* its ancestors' positions, one among siblings each.                      *)
(***************************************************************************)

Plain == -1
Garbled == -3       \* '#' and what is no number

Key(name, number) == [name |-> name, number |-> number]

\* parseKey.
Valid(key) == key.number # Garbled /\ key # Key("", Plain)
IndexOf(key) == IF key.number < 0 THEN 0 ELSE key.number

\* child: by position, or by name and how many of it come before.
ChildAt(kids, index) == {index + 1} \cap DOMAIN kids
ChildNamed(kids, name, overlap) == {i \in Indices(kids, name) : Occurrence(kids, i) = overlap + 1}

\* atKey, without a shadow.
AtKey(kids, key) ==
  IF ~ Valid(key) THEN {}
  ELSE IF key.name = "" THEN ChildAt(kids, IndexOf(key)) ELSE ChildNamed(kids, key.name, IndexOf(key))

\* keyOf, and toKey for it.
KeyOf(kids, i) ==
  IF kids[i].name = "" THEN Key("", i - 1)
  ELSE IF Cardinality(Indices(kids, kids[i].name)) = 1 THEN Key(kids[i].name, Plain)
  ELSE Key(kids[i].name, Occurrence(kids, i) - 1)

\* The non-const atKey: as many are appended as are missing.
Extended(kids, key) ==
  LET have == IF key.name = "" THEN Len(kids) ELSE Cardinality(Indices(kids, key.name))
  IN  IF AtKey(kids, key) # {} \/ ~ Valid(key) THEN kids
      ELSE kids \o [n \in 1 .. IndexOf(key) + 1 - have |-> Fresh(key.name)]

-----------------------------------------------------------------------------

\* The node at a position, and a tree with another one there.
RECURSIVE NodeAt(_, _)
NodeAt(t, at) == IF at = <<>> THEN t ELSE NodeAt(t.kids[Head(at)], Tail(at))

RECURSIVE With(_, _, _)
With(t, at, node) ==
  IF at = <<>> THEN node
  ELSE [t EXCEPT !.kids = [i \in DOMAIN @ |-> IF i = Head(at) THEN With(@[i], Tail(at), node) ELSE @[i]]]

RECURSIVE NodesOf(_)
NodesOf(t) == {<<>>} \cup UNION {{<<i>> \o at : at \in NodesOf(t.kids[i])} : i \in DOMAIN t.kids}

\* path, from the root.
RECURSIVE PathOf(_, _)
PathOf(t, at) ==
  IF at = <<>> THEN <<>> ELSE <<KeyOf(t.kids, Head(at))>> \o PathOf(t.kids[Head(at)], Tail(at))

\* atPath that only looks; a node, if any, as a set.
RECURSIVE FindPath(_, _)
FindPath(t, path) ==
  IF path = <<>> THEN {<<>>}
  ELSE UNION {{<<i>> \o at : at \in FindPath(t.kids[i], Tail(path))} : i \in AtKey(t.kids, Head(path))}

\* atPath that makes what is missing: the tree afterwards.  A key that is no
\* key ends it, with what was made before.
RECURSIVE Made(_, _)
Made(t, path) ==
  IF path = <<>> THEN t
  ELSE LET kids == Extended(t.kids, Head(path))
       IN  [t EXCEPT !.kids =
              [i \in DOMAIN kids |-> IF i \in AtKey(kids, Head(path)) THEN Made(kids[i], Tail(path)) ELSE kids[i]]]

\* erase: the node at the path, unless it is the root.
Removed(t, at) == With(t, Front(at), [NodeAt(t, Front(at)) EXCEPT !.kids = RemoveAt(@, Last(at))])
Erasable(t, path) == {at \in FindPath(t, path) : at # <<>>}

-----------------------------------------------------------------------------
(***************************************************************************)
(* A node tree as a JSON document and back (impl/json.cpp), which is also  *)
(* its Var form (schema.cpp).  A document is what the parser gives back    *)
(* for the text: simdjson is external.                                     *)
(***************************************************************************)

\* Names by their beginning: "_title" and "_level" are hidden and mean
\* something to Markdown, "@a" is an attribute to XML.
Hidden(name) == name \in {"_title", "_level"}
Attribute(name) == name = "@a"
Visible(kids, ignore) == SelectSeq(kids, LAMBDA k : ~ (ignore /\ Hidden(k.name)))

NamedKids(kids) == SelectSeq(kids, LAMBDA k : k.name # "")
Anonymous(kids) == SelectSeq(kids, LAMBDA k : k.name = "")
Each(f(_), s) == [i \in DOMAIN s |-> f(s[i])]

Scalar(v) == [kind |-> "scalar", value |-> v, items |-> <<>>]
Array(items) == [kind |-> "array", value |-> Null, items |-> items]
Object(fields) == [kind |-> "object", value |-> Null, items |-> fields]
Field(key, of) == [key |-> key, of |-> of]

\* Mutant: repeated names are written again.
EveryNamed(kids) == NamedKids(kids)

\* The first of each name, in the order of their first appearance.
Groups(kids) ==
  FoldLeft(LAMBDA out, k : IF \E i \in DOMAIN out : out[i].name = k.name THEN out ELSE Append(out, k),
           <<>>, NamedKids(kids))

\* As deep as is asked for, if it is: what is below is "...".
RECURSIVE JsonUpTo(_, _, _)
JsonUpTo(t, ignore, depth) ==
  LET kids == Visible(t.kids, ignore)
      Sub(k) == JsonUpTo(k, ignore, depth - 1)
  IN  IF kids = <<>> THEN Scalar(t.value)
      ELSE IF depth = 0 THEN Scalar(<<"...">>)
      ELSE IF kids[1].name = "" THEN Array(Each(Sub, kids))
      ELSE Object((IF t.value = Null THEN <<>> ELSE <<Field("_value", Scalar(t.value))>>)
                  \o Each(LAMBDA k : Field(k.name, Sub(k)), Groups(kids))
                  \o (IF Anonymous(kids) = <<>> THEN <<>>
                      ELSE <<Field("", Array(Each(Sub, Anonymous(kids))))>>))

Unlimited == -1
JsonOf(t, ignore) == JsonUpTo(t, ignore, Unlimited)

\* ensureSchemaChild: one child of that name, emptied if it was there.
SlotFor(kids, key) ==
  LET one == SelectSeq(kids, LAMBDA k : k.name # key)
  IN  IF \E i \in DOMAIN kids : kids[i].name = key
      THEN FoldLeft(LAMBDA out, k : IF k.name # key THEN Append(out, k)
                                    ELSE IF \E i \in DOMAIN out : out[i].name = key THEN out
                                    ELSE Append(out, Fresh(key)), <<>>, kids)
      ELSE Append(one, Fresh(key))

RECURSIVE NodeOf(_, _)

\* importObjectField.
WithField(node, f) ==
  IF f.key = "_value" THEN [node EXCEPT !.value = f.of.value]
  ELSE IF f.key = ""
    THEN [node EXCEPT !.kids = NamedKids(@) \o
            (IF f.of.kind = "array" THEN Each(LAMBDA d : NodeOf(d, Fresh("")), f.of.items) ELSE <<>>)]
  ELSE [node EXCEPT !.kids =
          Each(LAMBDA k : IF k.name = f.key THEN NodeOf(f.of, k) ELSE k, SlotFor(@, f.key))]

\* domToNode.
NodeOf(d, node) ==
  CASE d.kind = "object" -> FoldLeft(WithField, node, d.items)
    [] d.kind = "array"  -> [node EXCEPT !.kids = @ \o Each(LAMBDA e : NodeOf(e, Fresh("")), d.items)]
    [] OTHER             -> [node EXCEPT !.value = d.value]
=============================================================================
