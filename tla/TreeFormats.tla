---------------------------- MODULE TreeFormats -----------------------------
(***************************************************************************)
(* Whole trees: one copied onto another, and each written and read in the  *)
(* formats of the library, each on variables of its own.                   *)
(***************************************************************************)
EXTENDS NodeTrees

(***************************************************************************)
(* A copy of one node tree onto another, with each choice of its options.  *)
(***************************************************************************)

CONSTANTS
  Sources, Targets   \* the trees to copy from and onto

VARIABLES
  source, target,    \* other and this
  before,            \* the target as it was, for the properties
  copyOptions            \* auto_insert and auto_remove of the last copy

trees == <<source, target, before, copyOptions>>

CopyInit ==
  /\ source \in Sources /\ target \in Targets
  /\ before = target /\ copyOptions = <<>>

Copy(insert, remove) ==
  /\ copyOptions = <<>>
  /\ target' = Copied(target, source, insert, remove)
  /\ copyOptions' = <<insert, remove>>
  /\ UNCHANGED <<source, before>>

CopyNext == \E insert, remove \in BOOLEAN : Copy(insert, remove)

CopySpec == CopyInit /\ [][CopyNext]_trees

-----------------------------------------------------------------------------

\* "Use auto_remove = true when the destination should mirror the source"
\* (docs/CORE.md): with insertion and removal the target has the source's
\* children and no others; and while the children both have stand in the same
\* order, every key addresses in the target what it does in the source, what
\* the target has beyond the source is left alone, the order is the source's
\* and a second copy changes nothing (Node::copy).
CopySyncs ==
  copyOptions # <<>> =>
    /\ copyOptions = <<TRUE, TRUE>> => Same(target, source)
    /\ Aligned(source.kids, before.kids) =>
         /\ Merged(target, before, source, copyOptions[1], copyOptions[2])
         /\ InOrder(target.kids, source.kids)
         /\ Copied(target, source, copyOptions[1], copyOptions[2]) = target

\* "same-name overlap order ... matched when reusing children" (node.h): key
\* by key, whatever the order of the names on the two sides.
CopyKeepsOverlap == copyOptions # <<>> => Merged(target, before, source, copyOptions[1], copyOptions[2])

-----------------------------------------------------------------------------
(***************************************************************************)
(* The formats a node tree is exported to and imported from: JSON          *)
(* (impl/json.cpp, and the Var form of schema.cpp, which is the same       *)
(* document), MessagePack (bin.cpp), XML (xml.cpp) and Markdown (md.cpp).  *)
(*                                                                         *)
(* A document is what the format's own parser gives back for it: simdjson, *)
(* msgpack and pugixml are external, and take text to documents and back   *)
(* without loss.  Values are opaque; what a format makes of their types is *)
(* left out.  auto_update, which changes only who is told, is off.         *)
(***************************************************************************)

CONSTANTS
  Exported,    \* the trees that are exported
  Existing,    \* the trees they are imported onto
  MaxLevel     \* levels of headings, 6 in the code

VARIABLES
  tree,        \* what is exported
  format, doc, \* what it was written as
  hides,       \* auto_ignore: without the names that begin with '_'
  onto,        \* what it is imported onto
  result,      \* that, afterwards
  formatOptions      \* auto_insert and auto_remove of the import

formats == <<tree, format, doc, hides, onto, result, formatOptions>>

-----------------------------------------------------------------------------
(* MessagePack: a value and children, each with its name.                  *)

RECURSIVE BinOf(_, _)
BinOf(t, ignore) ==
  [v |-> t.value, c |-> Each(LAMBDA k : <<k.name, BinOf(k, ignore)>>, Visible(t.kids, ignore))]

RECURSIVE Unpacked(_, _)
Unpacked(d, name) == Tree(name, d.v, Each(LAMBDA pair : Unpacked(pair[2], pair[1]), d.c))

-----------------------------------------------------------------------------
(* XML: a tag, text, attributes, elements.                                 *)

Tag(name) == IF name = "" THEN "item" ELSE name

RECURSIVE XmlOf(_, _)
XmlOf(t, tag) ==
  LET attributes == SelectSeq(t.kids, LAMBDA k : Attribute(k.name) /\ k.value # Null)
      elements == SelectSeq(t.kids, LAMBDA k : ~ Attribute(k.name))
  IN  [tag |-> tag, text |-> t.value,
       attrs |-> Each(LAMBDA k : Field(k.name, k.value), attributes),
       elems |-> Each(LAMBDA k : XmlOf(k, Tag(k.name)), elements)]

RECURSIVE OfXml(_, _)
OfXml(x, name) ==
  Tree(name, x.text,
       Each(LAMBDA a : Tree(a.key, a.of, <<>>), x.attrs) \o Each(LAMBDA e : OfXml(e, e.tag), x.elems))

-----------------------------------------------------------------------------
(* Markdown: headings, and text after them.                                *)

Heading(level, title) == [level |-> level, text |-> title]
Text(v) == Each(LAMBDA e : [level |-> 0, text |-> <<e>>], v)

FirstOf(kids, name) == IF Named(kids, name) = <<>> THEN Fresh(name) ELSE Named(kids, name)[1]
Has(t, name) == Named(t.kids, name) # <<>>

\* Numbers as they are written, and titles with and without their markup.
Numerals == <<"1", "2", "3", "4", "5", "6">>
ToInt(v, other) == IF \E n \in DOMAIN Numerals : v = <<Numerals[n]>>
                   THEN CHOOSE n \in DOMAIN Numerals : v = <<Numerals[n]>> ELSE other
Clean(title) == IF title = <<"*a*">> THEN "a" ELSE title[1]

Level(t, above) == Lower(MaxLevel, ToInt(FirstOf(t.kids, "_level").value, above + 1))
Title(t) == IF Has(t, "_title") THEN FirstOf(t.kids, "_title").value
            ELSE IF t.name = "" THEN <<>> ELSE <<t.name>>

RECURSIVE Section(_, _)
Section(t, above) ==
  (IF Title(t) = <<>> THEN <<>> ELSE <<Heading(Level(t, above), Title(t))>>)
  \o Text(t.value)
  \o FlattenSeq(Each(LAMBDA k : Section(k, Level(t, above)), Visible(t.kids, TRUE)))

MdOf(t) ==
  (IF Has(t, "_level") THEN <<>> ELSE Text(t.value))
  \o FlattenSeq(Each(LAMBDA k : Section(k, 0), Visible(t.kids, TRUE)))

\* Nodes are made as headings come; path holds the node under way and those
\* above it, the outermost first, each with its level.
Entry(level, node) == [level |-> level, node |-> node]

AddKid(node, kid) == [node EXCEPT !.kids = Append(@, kid)]

\* The last of the path is finished and goes to the one before it.
Popped(path) ==
  Append(SubSeq(path, 1, Len(path) - 2),
         Entry(path[Len(path) - 1].level, AddKid(path[Len(path) - 1].node, Last(path).node)))

RECURSIVE PopTo(_, _)
PopTo(path, level) == IF Len(path) > 1 /\ Last(path).level >= level THEN PopTo(Popped(path), level) ELSE path

AddText(path, text) == [path EXCEPT ![Len(path)].node.value = @ \o text]

MdLine(path, line) ==
  IF line.level = 0 THEN AddText(path, line.text)
  ELSE LET up == PopTo(path, line.level)
           title == IF <<Clean(line.text)>> = line.text THEN <<>> ELSE <<Tree("_title", line.text, <<>>)>>
           level == IF line.level = Last(up).level + 1 THEN <<>>
                    ELSE <<Tree("_level", <<Numerals[line.level]>>, <<>>)>>
       IN  Append(up, Entry(line.level, Tree(Clean(line.text), Null, title \o level)))

RECURSIVE Closed(_)
Closed(path) == IF Len(path) = 1 THEN path[1].node ELSE Closed(Popped(path))

\* importDirect.
OfMd(lines, node) == Closed(FoldLeft(MdLine, <<Entry(0, node)>>, lines))

-----------------------------------------------------------------------------

\* nodeToVarImpl and varToNodeImpl: the same document, as a Var.
VarOf(t, ignore) == JsonOf(t, ignore)
OfVar(d, node) == NodeOf(d, node)

Formats == {"json", "var", "bin", "xml", "md"}

\* schema::exportAs.
Written(f, t, ignore) ==
  CASE f = "json" -> JsonOf(t, ignore)
    [] f = "var"  -> VarOf(t, ignore)
    [] f = "bin"  -> BinOf(t, ignore)
    [] f = "xml"  -> XmlOf(t, IF t.name = "" THEN "root" ELSE t.name)
    [] f = "md"   -> MdOf(t)

Parsed(f, d) ==
  CASE f = "json" -> NodeOf(d, Fresh("import"))
    [] f = "var"  -> OfVar(d, Fresh("import"))
    [] f = "bin"  -> Unpacked(d, "import")
    [] f = "xml"  -> OfXml(d, "import")
    [] f = "md"   -> OfMd(d, Fresh("import"))

\* importAs with formatOptions.  An empty Markdown document is refused, and
\* without options one is read straight onto the node, whose value goes if
\* there is text before the first heading.
ReadOnto(lines, t) == OfMd(lines, IF lines[1].level = 0 THEN [t EXCEPT !.value = Null] ELSE t)
Imported(f, d, t, insert, remove) ==
  CASE f = "md" /\ d = <<>> -> t
    [] f = "md" /\ d # <<>> /\ ~ insert /\ ~ remove -> ReadOnto(d, t)
    [] OTHER -> Copied(t, Parsed(f, d), insert, remove)

FormatInit ==
  /\ tree \in Exported /\ onto \in Existing
  /\ result = onto /\ format = "none" /\ doc = <<>> /\ hides = FALSE /\ formatOptions = <<>>

Export(f, ignore) ==
  /\ format = "none"
  /\ format' = f /\ hides' = ignore /\ doc' = Written(f, tree, ignore)
  /\ UNCHANGED <<tree, onto, result, formatOptions>>

Import(insert, remove) ==
  /\ format \in Formats /\ formatOptions = <<>>
  /\ result' = Imported(format, doc, onto, insert, remove)
  /\ formatOptions' = <<insert, remove>>
  /\ UNCHANGED <<tree, format, doc, hides, onto>>

FormatNext ==
  \/ \E f \in Formats, ignore \in BOOLEAN : Export(f, ignore)
  \/ \E insert, remove \in BOOLEAN : Import(insert, remove)

FormatSpec == FormatInit /\ [][FormatNext]_formats

-----------------------------------------------------------------------------

RECURSIVE Everywhere(_, _, _)
Everywhere(P(_), t, depth) == P(t) /\ depth >= 0 /\ \A i \in DOMAIN t.kids : Everywhere(P, t.kids[i], depth - 1)

\* Without the hidden names, where the format can leave them out.
RECURSIVE Shown(_, _)
Shown(t, ignore) == Tree(t.name, t.value, Each(LAMBDA k : Shown(k, ignore), Visible(t.kids, ignore)))

Distinct(kids) == \A i, j \in DOMAIN kids : i # j => kids[i].name # kids[j].name
Deep == 10

\* JSON is "schema-oriented and ignores repeated named siblings" (schema.h):
\* an object with distinct keys, the nameless last, or an array.
JsonPlain(t) ==
  \/ Distinct(NamedKids(t.kids)) /\ t.kids = NamedKids(t.kids) \o Anonymous(t.kids)
     /\ (t.kids # <<>> => t.kids[1].name # "")
  \/ NamedKids(t.kids) = <<>> /\ t.value = Null

\* XML names every element and puts the attributes first.
XmlPlain(t) ==
  /\ \A i \in DOMAIN t.kids : t.kids[i].name # ""
  /\ \A i \in DOMAIN t.kids : Attribute(t.kids[i].name) =>
       t.kids[i].kids = <<>> /\ t.kids[i].value # Null /\ (i > 1 => Attribute(t.kids[i - 1].name))

MdPlain(t) == \A i \in DOMAIN t.kids : t.kids[i].name # "" /\ ~ Hidden(t.kids[i].name)

Keeps(f, t) ==
  CASE f = "json" -> Everywhere(JsonPlain, t, Deep)
    [] f = "var"  -> Everywhere(JsonPlain, t, Deep)
    [] f = "bin"  -> TRUE
    [] f = "xml"  -> Everywhere(XmlPlain, t, Deep)
    [] f = "md"   -> Everywhere(MdPlain, t, MaxLevel)

Ignores == {"json", "var", "bin"}

\* "BinS preserves the full tree, including repeated names and order"
\* (schema.h); the others keep what they can express; what any format has
\* made of any tree comes back as it is the second time; and an import that
\* inserts and removes leaves what the document holds (exportTree and
\* importTree of each format).
RoundTrip ==
  format \in Formats =>
    LET back == [Parsed(format, doc) EXCEPT !.name = tree.name]
        shown == Shown(tree, hides /\ format \in Ignores)
    IN  /\ Keeps(format, shown) => back.value = shown.value /\ back.kids = shown.kids
        /\ Written(format, back, FALSE) = doc
        /\ formatOptions = <<TRUE, TRUE>> => Same(result, back) \/ doc = <<>>
=============================================================================
