------------------------------ MODULE VarValues ------------------------------
(***************************************************************************)
(* ve::Var: values of any kind, what they are as a value of another kind,  *)
(* and what a text is read as (var.cpp, parse_util.h).  Texts are          *)
(* sequences of characters, bytes the numbers they are.  The widths are    *)
(* parameters, and doubles count in halves, so that they too have texts.   *)
(***************************************************************************)
EXTENDS Integers, Sequences
LOCAL INSTANCE SequencesExt

CONSTANTS Wide, Narrow  \* the bits of int64 and of int

Value(is, n, s, items, keys) == [is |-> is, n |-> n, s |-> s, items |-> items, keys |-> keys]
None        == Value("none", 0, <<>>, <<>>, <<>>)
Bool(b)     == Value("bool", IF b THEN 1 ELSE 0, <<>>, <<>>, <<>>)
Num(n)      == Value("int", n, <<>>, <<>>, <<>>)
Double(n)   == Value("double", n, <<>>, <<>>, <<>>)
Text(s)     == Value("string", 0, s, <<>>, <<>>)
Bin(s)      == Value("bin", 0, s, <<>>, <<>>)
List(items) == Value("list", 0, <<>>, items, <<>>)
Dict(keys, items) == Value("dict", 0, <<>>, items, keys)

Least(bits) == -(2 ^ (bits - 1))
Fits(n, bits) == n \in Least(bits) .. 2 ^ (bits - 1) - 1
\* static_cast<int> of a wider number keeps the low bits.
Cut(n, bits) == ((n - Least(bits)) % (2 ^ bits)) + Least(bits)

Digit == <<"0", "1", "2", "3", "4", "5", "6", "7", "8", "9">>
Digits == {Digit[i] : i \in DOMAIN Digit}
Signs == {"-", "+"}
True  == <<"t", "r", "u", "e">>
False == <<"f", "a", "l", "s", "e">>
NullText == <<"n", "u", "l", "l">>

Before(s, i) == SubSeq(s, 1, i - 1)
After(s, i) == SubSeq(s, i + 1, Len(s))
Worth(d) == (CHOOSE i \in DOMAIN Digit : Digit[i] = d) - 1
Number(digits) == FoldLeft(LAMBDA n, d : 10 * n + Worth(d), 0, digits)
Signed(s, n) == IF s # <<>> /\ Head(s) = "-" THEN -n ELSE n
Unsigned(s) == IF s # <<>> /\ Head(s) \in Signs THEN Tail(s) ELSE s
AllDigits(s) == \A i \in DOMAIN s : s[i] \in Digits

IsInt(s) == Unsigned(s) # <<>> /\ AllDigits(Unsigned(s))
Points(s) == {i \in DOMAIN s : s[i] = "."}
IsDouble(s) ==
  \E i \in Points(Unsigned(s)) : \A j \in DOMAIN Unsigned(s) : j = i \/ Unsigned(s)[j] \in Digits

\* std::stoll and std::stod read as far as there is a number, and throw when
\* there is none or it does not fit: a sequence of at most one.
Leading(s) == LET k == CHOOSE k \in 0 .. Len(s) : AllDigits(SubSeq(s, 1, k)) /\ (k < Len(s) => s[k + 1] \notin Digits)
              IN  SubSeq(s, 1, k)
Stoi(s, bits) ==
  LET digits == Leading(Unsigned(s))
      n == Signed(s, Number(digits))
  IN  IF digits # <<>> /\ Fits(n, bits) THEN <<n>> ELSE <<>>
Stod(s) ==
  LET whole == Leading(Unsigned(s))
      rest == SubSeq(Unsigned(s), Len(whole) + 1, Len(Unsigned(s)))
      part == IF rest # <<>> /\ Head(rest) = "." THEN Leading(Tail(rest)) ELSE <<>>
      half == IF part # <<>> /\ Worth(Head(part)) >= 5 THEN 1 ELSE 0
  IN  IF whole \o part = <<>> THEN <<>> ELSE <<Signed(s, 2 * Number(whole) + half)>>

Or(read, def) == IF read = <<>> THEN def ELSE Head(read)
Toward0(n) == IF n < 0 THEN -((-n) \div 2) ELSE n \div 2

ToBool(v, def) ==
  CASE v.is \in {"bool", "int", "double"} -> v.n # 0
    [] v.is = "string" -> v.s # <<>>
    [] OTHER -> def

ToInt64(v, def) ==
  CASE v.is \in {"bool", "int"} -> v.n
    [] v.is = "double" -> Toward0(v.n)
    [] v.is = "string" -> Or(Stoi(v.s, Wide), def)
    [] OTHER -> def

\* A number too large for an int is cut, the text of one is not read.
ToInt(v, def) ==
  CASE v.is = "string" -> Or(Stoi(v.s, Narrow), def)
    [] OTHER -> Cut(ToInt64(v, def), Narrow)

ToDouble(v, def) ==
  CASE v.is = "double" -> v.n
    [] v.is \in {"bool", "int"} -> 2 * v.n
    [] v.is = "string" -> Or(Stod(v.s), def)
    [] OTHER -> def

\* std::to_string.
Decimal[n \in Nat] == (IF n < 10 THEN <<>> ELSE Decimal[n \div 10]) \o <<Digit[(n % 10) + 1]>>
IntText(n) == IF n < 0 THEN <<"-">> \o Decimal[-n] ELSE Decimal[n]

\* "%g" writes no more digits than it takes: a whole number has no point.
DoubleText(n) ==
  LET m == IF n < 0 THEN -n ELSE n
  IN  (IF n < 0 THEN <<"-">> ELSE <<>>) \o Decimal[m \div 2] \o (IF m % 2 = 1 THEN <<".", "5">> ELSE <<>>)

Comma == <<",", " ">>
Joined(texts, open, close) ==
  <<open>> \o FoldLeft(LAMBDA s, i : s \o (IF i = 1 THEN <<>> ELSE Comma) \o texts[i],
                       <<>>, [i \in DOMAIN texts |-> i]) \o <<close>>
Hex(b) == <<b>>  \* two digits for each byte

RECURSIVE TextOf(_)
Quoted(v) == IF v.is = "string" THEN <<"\"">> \o v.s \o <<"\"">> ELSE TextOf(v)
TextOf(v) ==
  CASE v.is = "none" -> <<>>
    [] v.is = "bool" -> IF v.n = 1 THEN True ELSE False
    [] v.is = "int" -> IntText(v.n)
    [] v.is = "double" -> DoubleText(v.n)
    [] v.is = "string" -> v.s
    [] v.is = "bin" -> FlattenSeq([i \in DOMAIN v.s |-> Hex(v.s[i])])
    [] v.is = "list" -> Joined([i \in DOMAIN v.items |-> Quoted(v.items[i])], "[", "]")
    [] v.is = "dict" -> Joined([i \in DOMAIN v.items |-> v.keys[i] \o <<":", " ">> \o Quoted(v.items[i])], "{", "}")

RECURSIVE Equal(_, _)
Equal(v, w) ==
  /\ v.is = w.is /\ v.n = w.n /\ v.s = w.s /\ Len(v.items) = Len(w.items)
  /\ v.is = "list" => \A i \in DOMAIN v.items : Equal(v.items[i], w.items[i])
  /\ v.is = "dict" => \A i \in DOMAIN v.items : \E j \in DOMAIN w.items :
                         v.keys[i] = w.keys[j] /\ Equal(v.items[i], w.items[j])

\* What a word of a command line is.  Its number may not be one that fits, or
\* none at all (a point alone): then there is no value, and an exception.
ParseValue(s) ==
  CASE s = NullText -> <<None>>
    [] s \in {True, False} -> <<Bool(s = True)>>
    [] Len(s) >= 2 /\ Head(s) = "\"" /\ Last(s) = "\"" -> <<Text(SubSeq(s, 2, Len(s) - 1))>>
    [] IsInt(s) -> [i \in DOMAIN Stoi(s, Wide) |-> Num(Stoi(s, Wide)[i])]
    [] IsDouble(s) /\ ~ IsInt(s) -> [i \in DOMAIN Stod(s) |-> Double(Stod(s)[i])]
    [] OTHER -> <<Text(s)>>
=============================================================================
