------------------------------ MODULE QtValues ------------------------------
(***************************************************************************)
(* Values and trees as Qt has them: QVariant and QJsonValue (var_qt.cpp),  *)
(* and the tree by way of either (schema_qt.cpp, schema_qt_register.cpp).  *)
(* Qt's values have the shape of VarValues and kinds of their own; JSON's  *)
(* numbers are doubles, exact up to 2^Mantissa.  QMap, QHash and           *)
(* QJsonObject have their keys in Qt's order.                              *)
(***************************************************************************)
EXTENDS VarValues, NodeTrees

CONSTANTS
  Mantissa,  \* the bits of a double that count
  Samples,   \* values
  Variants,  \* and QVariants the tree has not made
  Trees,
  Keys, Sorted  \* keys of values and names of nodes, in Qt's order

VARIABLES way, given, there, back

exchange == <<way, given, there, back>>

Kind(v, is) == [v EXCEPT !.is = is]
QtOrder(order, keys) == SelectSeq(order, LAMBDA k : \E i \in DOMAIN keys : keys[i] = k)
ItemAt(keys, items, k) == items[CHOOSE i \in DOMAIN keys : keys[i] = k]

\* A map or object, whatever the order things are put into it.
Mapped(v, is, items) ==
  LET keys == QtOrder(Keys, v.keys)
  IN  Value(is, 0, <<>>, [i \in DOMAIN keys |-> ItemAt(v.keys, items, keys[i])], keys)
Listed(is, items) == Value(is, 0, <<>>, items, <<>>)

-----------------------------------------------------------------------------
(* QVariant.                                                               *)

RECURSIVE VarToQVariant(_)
VarToQVariant(v) ==
  CASE v.is = "none" -> Kind(v, "invalid")
    [] v.is = "int" -> Kind(v, "longlong")
    [] v.is = "bin" -> Kind(v, "bytes")
    [] v.is = "list" -> Listed("list", Each(VarToQVariant, v.items))
    [] v.is = "dict" -> Mapped(v, "map", Each(VarToQVariant, v.items))
    [] OTHER -> v

\* What is of no kind that is known here, a float among them, is its text.
RECURSIVE QVariantToVar(_)
QVariantToVar(q) ==
  CASE q.is = "invalid" -> None
    [] q.is \in {"bool", "double", "string"} -> q
    [] q.is \in {"int", "uint", "longlong"} -> Num(q.n)
    [] q.is = "ulonglong" -> Num(Cut(q.n, Wide))
    [] q.is = "bytes" -> Bin(q.s)
    [] q.is \in {"list", "strings"} -> Listed("list", Each(QVariantToVar, q.items))
    [] q.is \in {"map", "hash"} -> Mapped(q, "dict", Each(QVariantToVar, q.items))
    [] OTHER -> Text(q.s)

-----------------------------------------------------------------------------
(* QJsonValue.                                                             *)

\* To the nearest double, of two the one that is even.
RECURSIVE Nearest(_)
Nearest(n) ==
  IF n < 0 THEN -Nearest(-n)
  ELSE IF n <= 2 ^ Mantissa THEN n
  ELSE IF n % 2 = 0 THEN 2 * Nearest(n \div 2)
  ELSE 2 * Nearest((n \div 2) + (IF (n \div 2) % 2 = 0 THEN 0 ELSE 1))

Base64(s) == <<"base64">> \o s

RECURSIVE VarToQJson(_)
VarToQJson(v) ==
  CASE v.is = "none" -> Kind(v, "null")
    [] v.is = "int" -> Double(2 * Nearest(v.n))
    [] v.is = "bin" -> Text(Base64(v.s))
    [] v.is = "list" -> Listed("list", Each(VarToQJson, v.items))
    [] v.is = "dict" -> Mapped(v, "object", Each(VarToQJson, v.items))
    [] OTHER -> v

\* A whole number that an int holds is one, whatever it was.
RECURSIVE QJsonToVar(_)
QJsonToVar(j) ==
  CASE j.is = "null" -> None
    [] j.is \in {"bool", "string"} -> j
    [] j.is = "double" -> IF j.n % 2 = 0 /\ Fits(j.n \div 2, Narrow) THEN Num(j.n \div 2) ELSE j
    [] j.is = "list" -> Listed("list", Each(QJsonToVar, j.items))
    [] j.is = "object" -> Mapped(j, "dict", Each(QJsonToVar, j.items))

-----------------------------------------------------------------------------
(* Trees: by their Var form, through either.                               *)

RECURSIVE DocSorted(_)
DocSorted(d) ==
  CASE d.kind = "object" ->
         LET keys == QtOrder(Sorted, Each(LAMBDA f : f.key, d.items))
             Of(k) == (CHOOSE i \in DOMAIN d.items : d.items[i].key = k)
         IN  Object([i \in DOMAIN keys |-> Field(keys[i], DocSorted(d.items[Of(keys[i])].of))])
    [] d.kind = "array" -> Array(Each(DocSorted, d.items))
    [] OTHER -> d

\* exportNode and importNode of QJsonS and QVariantS.
QtExport(tree) == DocSorted(JsonOf(tree, FALSE))
QtImport(doc, onto) == NodeOf(doc, onto)

\* The format "qjson": a text, which has an object or an array or nothing, and
\* what has nothing is read as null.
QJsonText(tree) == LET d == QtExport(tree) IN IF d.kind \in {"object", "array"} THEN <<d>> ELSE <<>>
QJsonRead(text, onto) == QtImport(IF text = <<>> THEN Scalar(Null) ELSE Head(text), onto)

-----------------------------------------------------------------------------

NoTree == Fresh("o")
Init == way = "none" /\ given = None /\ there = None /\ back = None

Went(how, v, q, w) == way = "none" /\ way' = how /\ given' = v /\ there' = q /\ back' = w

Next ==
  \/ \E v \in Samples : Went("variant", v, VarToQVariant(v), QVariantToVar(VarToQVariant(v)))
  \/ \E v \in Samples : Went("json", v, VarToQJson(v), QJsonToVar(VarToQJson(v)))
  \/ \E q \in Variants : Went("foreign", None, q, QVariantToVar(q))
  \/ \E t \in Trees : Went("tree", t, QtExport(t), QtImport(QtExport(t), NoTree))
  \/ \E t \in Trees : Went("text", t, QJsonText(t), QJsonRead(QJsonText(t), NoTree))

Spec == Init /\ [][Next]_exchange

-----------------------------------------------------------------------------

\* By way of QVariant a value is what it was; what was not made by the tree is
\* after its first trip (varToQVariant, qVariantToVar).
VariantReturns ==
  /\ way = "variant" => Equal(back, given)
  /\ way = "foreign" => Equal(QVariantToVar(VarToQVariant(back)), back)

\* By way of JSON numbers keep their worth as long as doubles have it, and the
\* second trip changes nothing any more (varToQJsonValue, qJsonValueToVar).
RECURSIVE Plain_(_)
Plain_(v) == v.is # "bin" /\ (v.is = "int" => Nearest(v.n) = v.n) /\ \A i \in DOMAIN v.items : Plain_(v.items[i])
RECURSIVE Worths(_)
Worths(v) ==
  CASE v.is \in {"int", "double"} -> Double(ToDouble(v, 0))
    [] v.is \in {"list", "dict"} -> [v EXCEPT !.items = Each(Worths, @)]
    [] OTHER -> v
JsonSettles ==
  way = "json" =>
    /\ Equal(QJsonToVar(VarToQJson(back)), back)
    /\ Plain_(given) => Equal(Worths(back), Worths(given))

\* A tree comes back with what it had below each name, in Qt's order of names.
TreeReturns ==
  /\ way = "tree" => DocSorted(JsonOf(back, FALSE)) = DocSorted(JsonOf(given, FALSE))
  /\ way = "text" /\ given.kids # <<>> => DocSorted(JsonOf(back, FALSE)) = DocSorted(JsonOf(given, FALSE))

\* Also a value alone, by the format "qjson".  Its text has none.
LeafReturns == way = "text" => JsonOf(back, FALSE) = JsonOf(given, FALSE)
=============================================================================
