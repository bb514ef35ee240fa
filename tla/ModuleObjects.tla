--------------------------- MODULE ModuleObjects ----------------------------
(***************************************************************************)
(* The objects of the Qt side and the terminal that works on them.         *)
(***************************************************************************)
EXTENDS Integers, Sequences, FiniteSets
LOCAL INSTANCE SequencesExt

(***************************************************************************)
(* ModuleObject (imol/modulemanager.cpp): an object keeps its children     *)
(* twice, in a hash by name and as a list linked through the children, and *)
(* every operation has to change both.  Object 1 is the root, 0 is the     *)
(* empty object (nullData), which a null pointer is read as.  Names that   *)
(* begin with # are read as places: an object made without a name is given *)
(* one that is no place.  Signals, watching and quiet are left out.                            *)
(***************************************************************************)

CONSTANTS
  MaxObjects,  \* how many are ever there at a time
  Names,
  Careful      \* nobody removes an object from where it is not

\* heap[o] is the object o, deleted ones have live = FALSE.
VARIABLE heap

Objects == 1 .. MaxObjects
Root == 1
Id(o) == <<"#", o>>
Deleted == [live |-> FALSE, name |-> <<>>, parent |-> 0, prev |-> 0, next |-> 0,
            first |-> 0, last |-> 0, kids |-> <<>>]
New(name, parent) == [Deleted EXCEPT !.live = TRUE, !.name = name, !.parent = parent]

Size(h, p) == Cardinality(DOMAIN h[p].kids)
Child(h, p, name) == IF name \in DOMAIN h[p].kids THEN h[p].kids[name] ELSE 0
Prev(h, o) == IF o = 0 THEN 0 ELSE h[o].prev
Next_(h, o) == IF o = 0 THEN 0 ELSE h[o].next

\* bmobj: n steps along the list, backwards if n is negative.
Along(h, o, n) ==
  FoldLeft(LAMBDA at, i : IF n > 0 THEN Next_(h, at) ELSE Prev(h, at),
           o, [i \in 1 .. (IF n < 0 THEN -n ELSE n) |-> i])

\* cmobj(index): from the nearer end.
At(h, p, index) ==
  IF index >= Size(h, p) \/ index < 0 THEN 0
  ELSE IF index > Size(h, p) \div 2 THEN Along(h, h[p].last, index + 1 - Size(h, p))
  ELSE Along(h, h[p].first, index)

\* cmobjs: the list from the first.
List(h, p) ==
  FoldLeft(LAMBDA s, i : LET o == IF s = <<>> THEN h[p].first ELSE h[Last(s)].next
                         IN  IF o = 0 \/ Len(s) # i - 1 THEN s ELSE Append(s, o),
           <<>>, [i \in Objects |-> i])

\* indexInPmobj: how many come before.
Index(h, o) == Cardinality({n \in Objects : Along(h, o, -n) # 0})

\* A name in a path: a place, or a name.
Place(n) == <<"#", "at", n>>
IsPlace(name) == Len(name) = 3
Find(h, p, name) == IF IsPlace(name) THEN At(h, p, name[3]) ELSE Child(h, p, name)
Has(h, p, name) == IF IsPlace(name) THEN name[3] < Size(h, p) ELSE name \in DOMAIN h[p].kids

-----------------------------------------------------------------------------

Set(h, o, field, v) == IF o = 0 THEN h ELSE [h EXCEPT ![o] = [@ EXCEPT ![field] = v]]
Before(h, a, b) == Set(Set(h, a, "next", b), b, "prev", a)

RECURSIVE Below(_, _)
Below(h, o) == {o} \cup UNION {Below(h, h[o].kids[k]) : k \in DOMAIN h[o].kids}

\* ~ModuleObject deletes the children of the hash.
Delete(h, o) == [x \in Objects |-> IF x \in Below(h, o) THEN Deleted ELSE h[x]]

\* What becomes of the list: o goes in after prev, or first.
Linked(h, p, o, index) ==
  LET i == IF index < 0 \/ index > Size(h, p) THEN Size(h, p) ELSE index
      fresh == [h EXCEPT ![o] = [@ EXCEPT !.parent = p, !.prev = 0, !.next = 0]]
      prev == At(fresh, p, i - 1)
  IN  IF h[p].first = 0 THEN Set(Set(fresh, p, "first", o), p, "last", o)
      ELSE IF i = Size(h, p) THEN Set(Before(fresh, h[p].last, o), p, "last", o)
      ELSE IF i = 0 THEN Set(Before(fresh, o, h[p].first), p, "first", o)
      ELSE Before(Before(fresh, o, fresh[prev].next), prev, o)

\* Mutant: neither end of the list is moved.
UnlinkedInside(h, p, o) == Before(h, h[o].prev, h[o].next)

\* Its neighbours are joined, the ends moved.
Unlinked(h, p, o) ==
  LET ends == Set(Set(h, p, "first", IF h[p].first = o THEN h[o].next ELSE h[p].first),
                  p, "last", IF h[p].last = o THEN h[o].prev ELSE h[p].last)
      prev == Set(ends, h[o].prev, "next", h[o].next)
      next == Set(prev, h[o].next, "prev", h[o].prev)
  IN  Set(Set(next, o, "prev", 0), o, "next", 0)

Without(f, k) == [x \in DOMAIN f \ {k} |-> f[x]]
With(f, k, v) == [x \in DOMAIN f \cup {k} |-> IF x = k THEN v ELSE f[x]]

\* remove(mobj): one of its name is there; the parent pointer stays.
CanRemove(h, p, o) == p # 0 /\ o # 0 /\ h[o].name \in DOMAIN h[p].kids
Removed(h, p, o, delete) ==
  LET u == Unlinked(h, p, o)
      out == Set(u, p, "kids", Without(u[p].kids, h[o].name))
  IN  IF delete THEN Delete(out, o) ELSE out

\* insert(mobj): a nameless one is given a name, a namesake is in the way or
\* replaced.
CanInsert(h, p, o, replace) ==
  p # 0 /\ o # 0 /\ (h[o].name \in DOMAIN h[p].kids => replace)
Inserted(h, p, o, index) ==
  LET named == Set(h, o, "name", IF h[o].name = <<>> THEN Id(o) ELSE h[o].name)
      name == named[o].name
      free == IF name \in DOMAIN h[p].kids THEN Removed(named, p, h[p].kids[name], TRUE) ELSE named
      in == Linked(free, p, o, index)
  IN  Set(in, p, "kids", With(in[p].kids, name, o))

FreeObjects(h) == {o \in Objects : ~ h[o].live}
Lowest(s) == CHOOSE x \in s : \A y \in s : x <= y

\* A new object at the end, if there is room for one.
Appended(h, p, name) ==
  LET o == Lowest(FreeObjects(h))
  IN  Inserted([h EXCEPT ![o] = New(IF name = <<>> THEN Id(o) ELSE name, p)], p, o, -1)

\* How many objects insert(path) makes at one name of it.
Missing(h, p, name) ==
  IF Has(h, p, name) THEN 0 ELSE IF IsPlace(name) THEN name[3] + 1 - Size(h, p) ELSE 1

\* insert(path), one name: what is missing is made, up to that place.
Made(h, p, name) ==
  FoldLeft(LAMBDA g, i : Appended(g, p, IF IsPlace(name) THEN <<>> ELSE name),
           h, [i \in 1 .. Missing(h, p, name) |-> i])

-----------------------------------------------------------------------------

Live == {o \in Objects : heap[o].live}
\* Objects in the tree, and those that were taken out of it.
InTree == Below(heap, Root)
Loose == {o \in Live : o # Root /\ ~ \E p \in Live : \E k \in DOMAIN heap[p].kids : heap[p].kids[k] = o}
Known == Names \cup {Place(n) : n \in 0 .. MaxObjects - 2}

Init == heap = [o \in Objects |-> IF o = Root THEN New(<<"root">>, 0) ELSE Deleted]

\* insert(path) and append, below an object of the tree.
Insert(p, name) ==
  /\ Missing(heap, p, name) \in 1 .. Cardinality(FreeObjects(heap))
  /\ heap' = Made(heap, p, name)
Append_(p) == FreeObjects(heap) # {} /\ heap' = Appended(heap, p, <<>>)

\* insert(mobj): one that is in no list, not above p.
InsertLoose(p, o, replace, index) ==
  /\ p \notin Below(heap, o)
  /\ CanInsert(heap, p, o, replace)
  /\ heap' = Inserted(heap, p, o, index)

\* Whoever holds an object may ask any other to remove it.
RemoveObject(p, o, delete) ==
  /\ CanRemove(heap, p, o)
  /\ Careful => heap[p].kids[heap[o].name] = o
  /\ o # Root /\ p \notin Below(heap, o)
  /\ heap' = Removed(heap, p, o, delete)

\* remove(path): by the parent of what is found.
RemovePath(p, name) ==
  LET o == Find(heap, p, name)
  IN  /\ o # 0 /\ CanRemove(heap, heap[o].parent, o)
      /\ heap' = Removed(heap, heap[o].parent, o, TRUE)

Drop(o) == heap' = Delete(heap, o)

\* reorder(from, to): out and in again.
Move(p, from, to) ==
  LET o == At(heap, p, from)
  IN  /\ from # to /\ Size(heap, p) > 1 /\ o # 0
      /\ heap' = Inserted(Removed(heap, p, o, FALSE), p, o, to)

\* reorder(names): those named first, then the others as they were.
Reorder(p, names) ==
  LET found == SelectSeq([i \in DOMAIN names |-> Find(heap, p, names[i])], LAMBDA o : o # 0)
      first == FoldLeft(LAMBDA s, o : IF \E i \in DOMAIN s : s[i] = o THEN s ELSE Append(s, o), <<>>, found)
      order == first \o SelectSeq(List(heap, p), LAMBDA o : \A i \in DOMAIN first : first[i] # o)
      Place_(o) == CHOOSE i \in DOMAIN order : order[i] = o
      In(o) == \E i \in DOMAIN order : order[i] = o
  IN  /\ names # <<>> /\ Size(heap, p) > 1 /\ Len(names) <= Size(heap, p)
      /\ heap' = [o \in Objects |->
           IF o = p THEN [heap[o] EXCEPT !.first = Head(order), !.last = Last(order)]
           ELSE IF ~ In(o) THEN heap[o]
           ELSE [heap[o] EXCEPT !.prev = IF o = Head(order) THEN 0 ELSE order[Place_(o) - 1],
                                !.next = IF o = Last(order) THEN 0 ELSE order[Place_(o) + 1]]]

\* clear: every child of the list is removed, and deleted or not.
Clear(p, delete) ==
  /\ List(heap, p) # <<>>
  /\ heap' = FoldLeft(LAMBDA h, o : Removed(h, p, o, delete), heap, List(heap, p))

Next ==
  \/ \E p \in InTree :
       \/ \E name \in Known : Insert(p, name) \/ RemovePath(p, name)
       \/ Append_(p)
       \/ \E o \in Loose, replace \in BOOLEAN, index \in -1 .. MaxObjects - 2 : InsertLoose(p, o, replace, index)
       \/ \E o \in Live, delete \in BOOLEAN : RemoveObject(p, o, delete)
       \/ \E from, to \in 0 .. MaxObjects - 2 : Move(p, from, to)
       \/ \E a, b \in Known : a # b /\ Reorder(p, <<a, b>>)
       \/ \E delete \in BOOLEAN : Clear(p, delete)
  \/ \E o \in Loose : Drop(o)

-----------------------------------------------------------------------------

\* The list and the hash of every object hold the same children, each of them
\* alive, once, and linked to its neighbours; every child is found at the place
\* it takes itself to be at.
ListIsHash ==
  \A p \in Live :
    LET list == List(heap, p)
    IN  /\ ToSet(list) = {heap[p].kids[k] : k \in DOMAIN heap[p].kids}
        /\ Len(list) = Size(heap, p)
        /\ heap[p].last = IF list = <<>> THEN 0 ELSE Last(list)
        /\ \A i \in DOMAIN list :
             /\ heap[list[i]].live /\ heap[list[i]].parent = p
             /\ heap[list[i]].prev = IF i = 1 THEN 0 ELSE list[i - 1]
             /\ Index(heap, list[i]) = i - 1 /\ At(heap, p, i - 1) = list[i]

-----------------------------------------------------------------------------
(***************************************************************************)
(* The terminal of the Qt side (qt/src/terminal/terminal_widget.cpp): its  *)
(* input with history and completion, commands that wait for a timer, and  *)
(* what they do to the object tree of ModuleObjects, which others change   *)
(* too.  A command is its name, a path of names and a number; import,      *)
(* export and cp, which ModuleFormats has, and what is shown are left out. *)
(***************************************************************************)

CONSTANTS
  Texts,     \* what may be typed: [cmd, arg, n]
  Scripts,   \* files by name: sequences of such, none of them a script
  Externals, \* commands of others: whether they are for root
  Limit,     \* entries of the history, 128
  MaxTyped, MaxOthers

VARIABLES
  value,      \* of each object
  path, root, \* m_cur_path, a text; m_is_root
  keys,       \* m_external_exec_keys
  waiting,    \* m_wait_timer is active
  future,     \* m_future_cmd_cache: [text, id]
  past, index, \* m_past_cmd_cache and the place in it
  edit, tab,  \* the text edit; m_double_tab
  typed, ran, \* how many commands were entered; which were run: [id, text, root]
  others

tree    == <<heap, value>>
shell   == <<path, root, waiting, future, past, index, ran>>
input   == <<edit, tab, typed>>
widget  == <<tree, shell, input, keys, others>>

Null == <<>>
Empty == [cmd |-> "", arg |-> <<>>, n |-> 0]
Hello == [cmd |-> "hello", arg |-> <<>>, n |-> 0]

WidgetInit ==
  /\ Init /\ value = [o \in Objects |-> Null]
  /\ path = <<>> /\ root = FALSE /\ keys = {} /\ waiting = FALSE /\ future = <<>>
  /\ past = <<Hello>> /\ index = 0
  /\ edit = Empty /\ tab = FALSE /\ typed = 0 /\ ran = <<>> /\ others = 0

\* What a command works on and may change.
Now == [heap |-> heap, value |-> value, path |-> path, root |-> root, waiting |-> waiting, future |-> future,
        past |-> past, index |-> index, ran |-> ran]
Becomes(s) ==
  /\ heap' = s.heap /\ path' = s.path /\ root' = s.root /\ waiting' = s.waiting /\ future' = s.future
  /\ value' = [o \in Objects |-> IF s.heap[o].live THEN s.value[o] ELSE Null]
  /\ past' = s.past /\ index' = s.index /\ ran' = s.ran

-----------------------------------------------------------------------------
(* Where it is.                                                            *)

\* rmobj: name after name; 0 is the empty object.
Resolve(h, from, names) ==
  FoldLeft(LAMBDA o, name : IF o = 0 THEN 0 ELSE Find(h, o, name), from, names)
RName(h, o) == IF h[o].name # <<>> /\ h[o].name[1] = "#" THEN Place(Index(h, o)) ELSE h[o].name
Up(h, o) == IF o = 0 THEN 0 ELSE h[o].parent
Above(h, o, n) == FoldLeft(LAMBDA x, i : Up(h, x), o, [i \in 1 .. n |-> i])
NullData == << <<"nullData">> >>
FullName(h, o) ==
  IF o = 0 THEN NullData
  ELSE FoldLeft(LAMBDA names, n : LET x == Above(h, o, n) IN IF x \in {0, Root} THEN names ELSE <<RName(h, x)>> \o names,
                <<>>, [i \in 1 .. MaxObjects |-> i - 1])
Standing(s) == Resolve(s.heap, Root, s.path)
Stands(s, o) == [s EXCEPT !.path = FullName(s.heap, o)]

ExecD(s, names) == LET o == Resolve(s.heap, Root, names) IN IF o = 0 THEN s ELSE Stands(s, o)
\* c: a child by index; by name, where no name is there if there is any child.
ExecC(s, names, n) ==
  LET here == Standing(s)
      byIndex == IF here = 0 THEN 0 ELSE At(s.heap, here, n)
  IN CASE here = 0 -> s
       [] here # 0 /\ n >= 0 -> IF byIndex = 0 THEN s ELSE Stands(s, byIndex)
       [] here # 0 /\ n < 0 /\ names = <<>> -> IF Size(s.heap, here) = 0 THEN s ELSE Stands(s, 0)
       [] OTHER -> IF Has(s.heap, here, names[1]) THEN Stands(s, Find(s.heap, here, names[1])) ELSE s
ExecP(s, n) ==
  LET o == Above(s.heap, Standing(s), n + 1) IN IF o = 0 THEN s ELSE Stands(s, o)
ExecR(s, names) ==
  LET o == Resolve(s.heap, Standing(s), names) IN IF o = 0 THEN s ELSE Stands(s, o)

-----------------------------------------------------------------------------
(* What it does to the object it is at; the empty object takes nothing.    *)

ExecSet(s, v) == IF Standing(s) = 0 THEN s ELSE [s EXCEPT !.value = [@ EXCEPT ![Standing(s)] = v]]

ExecInsert(s, names) ==
  IF Standing(s) = 0 \/ Cardinality(FreeObjects(s.heap)) < Len(names) THEN s
  ELSE [s EXCEPT !.heap =
         FoldLeft(LAMBDA g, i : Made(g, Resolve(g, Standing(s), SubSeq(names, 1, i - 1)), names[i]), @, [i \in DOMAIN names |-> i])]
ExecRemove(s, names) ==
  LET o == Resolve(s.heap, Standing(s), names) IN
  IF o \in {0, Root} \/ ~ CanRemove(s.heap, s.heap[o].parent, o) THEN s
  ELSE [s EXCEPT !.heap = Removed(@, @[o].parent, o, TRUE)]

\* clear: the children, or only the values of all below.
ExecClear(s, values) ==
  IF Standing(s) = 0 THEN s
  ELSE IF values THEN [s EXCEPT !.value = [o \in Objects |-> IF o \in Below(s.heap, Standing(s)) THEN Null ELSE @[o]]]
  ELSE [s EXCEPT !.heap = FoldLeft(LAMBDA h, o : Removed(h, Standing(s), o, TRUE), @, List(@, Standing(s))),
                 !.value = [@ EXCEPT ![Standing(s)] = Null]]

\* reorder(from, to); an index that cannot be read is an error and goes on as 0.
ExecReorder(s, from, to) ==
  LET o == IF Standing(s) = 0 THEN 0 ELSE At(s.heap, Standing(s), from)
  IN IF o = 0 \/ from = to \/ Size(s.heap, Standing(s)) <= 1 THEN s
     ELSE [s EXCEPT !.heap = Inserted(Removed(@, Standing(s), o, FALSE), Standing(s), o, to)]

\* su: out again without a word; in with any user and password.
ExecSu(s, names) ==
  IF s.root /\ names = <<>> THEN [s EXCEPT !.root = FALSE]
  ELSE IF names = <<>> THEN s ELSE [s EXCEPT !.root = TRUE]

ExecWait(s, n) == IF n <= 0 THEN s ELSE [s EXCEPT !.waiting = TRUE]

-----------------------------------------------------------------------------
(* How commands come to run.                                               *)

\* finishCommand: the last of its kind, without what follows su.
Masked(c) == IF c.cmd = "su" THEN [Empty EXCEPT !.cmd = "su"] ELSE c
Finish(s, c) ==
  LET kept == Append(RemoveFirst(s.past, c), Masked(c))
  IN [s EXCEPT !.index = 0, !.past = IF Len(kept) > Limit THEN Tail(kept) ELSE kept]

Plain(s, c) ==
  CASE c.cmd = "d" -> ExecD(s, c.arg)
    [] c.cmd = "c" -> ExecC(s, c.arg, c.n)
    [] c.cmd = "r" -> ExecR(s, c.arg)
    [] c.cmd = "p" -> ExecP(s, c.n)
    [] c.cmd = "set" -> ExecSet(s, c.arg)
    [] c.cmd = "insert" -> ExecInsert(s, c.arg)
    [] c.cmd = "remove" -> ExecRemove(s, c.arg)
    [] c.cmd = "clear" -> ExecClear(s, c.n = 1)
    [] c.cmd = "reorder" -> ExecReorder(s, c.n, 0)
    [] c.cmd = "wait" -> ExecWait(s, c.n)
    [] c.cmd = "su" -> ExecSu(s, c.arg)
    [] OTHER -> s

\* analyseCommand: while the timer runs a command is kept; otherwise the oldest
\* kept is run, the timer started anew, and a new one kept; otherwise it is run.
\* One of others is refused to who is not root.  What there is to run comes second.
Keep(s, c, id) == IF c.cmd = "" THEN s ELSE [s EXCEPT !.future = Append(@, [text |-> c, id |-> id])]
Analyse(s, c, id) ==
  LET kept == Keep(s, c, id)
      taken == IF s.future = <<>> THEN [text |-> c, id |-> id] ELSE kept.future[1]
      from == IF s.future = <<>> THEN s ELSE [kept EXCEPT !.future = Tail(@), !.waiting = TRUE]
      Noted(t) == [t EXCEPT !.ran = Append(@, [id |-> taken.id, text |-> taken.text, root |-> s.root])]
  IN CASE s.waiting -> <<kept, Empty>>
       [] ~ s.waiting /\ taken.text.cmd = "" -> <<from, Empty>>
       [] ~ s.waiting /\ taken.text.cmd \in DOMAIN Externals ->
            <<IF taken.text.cmd \in keys /\ (Externals[taken.text.cmd] => s.root) THEN Noted(from) ELSE from, Empty>>
       [] OTHER -> <<Noted(from), taken.text>>

\* sh: its lines one after the other, each run or kept as if it were entered; the
\* verbose one also shows them and puts them into the history.
Finished(s, c, kept) == IF kept THEN Finish(s, c) ELSE s
Line(s, c, verbose) ==
  LET next == Analyse(s, c, 0) IN Finished(Plain(next[1], next[2]), c, verbose /\ ~ s.waiting)
ExecSh(s, file, verbose) ==
  IF file \notin DOMAIN Scripts THEN s
  ELSE FoldLeft(LAMBDA t, c : Line(t, c, verbose), s, Scripts[file])
Exec(s, c) == IF c.cmd = "sh" THEN ExecSh(s, c.arg[1], c.n = 1) ELSE Plain(s, c)
AnalyseAndRun(s, c, id) == LET next == Analyse(s, c, id) IN Exec(next[1], next[2])

\* Enter: the line is cleared and run, and is in the history if it was not kept.
Enter ==
  /\ typed < MaxTyped
  /\ Becomes(Finished(AnalyseAndRun(Now, edit, typed + 1), edit, ~ waiting))
  /\ edit' = Empty /\ typed' = typed + 1
  /\ UNCHANGED <<tab, keys, others>>

\* The timer: off, and the next of the kept.
Timeout ==
  /\ waiting
  /\ Becomes(AnalyseAndRun([Now EXCEPT !.waiting = FALSE], Empty, 0))
  /\ UNCHANGED <<input, keys, others>>

Type(c) ==
  /\ edit.cmd = "" /\ typed < MaxTyped
  /\ edit' = c /\ UNCHANGED <<tree, shell, tab, typed, keys, others>>

\* Up and down; 0 stands for no place in the history.
KeyUp ==
  LET i == (IF index = 0 THEN Len(past) + 1 ELSE index) - 1 IN
  /\ i \in DOMAIN past /\ typed < MaxTyped
  /\ edit' = past[i] /\ index' = i
  /\ UNCHANGED <<tree, path, root, waiting, future, past, ran, tab, typed, keys, others>>
KeyDown ==
  LET i == IF index = 0 \/ index + 1 > Len(past) THEN 0 ELSE index + 1 IN
  /\ edit' = IF i = 0 THEN Empty ELSE past[i]
  /\ index' = i
  /\ UNCHANGED <<tree, path, root, waiting, future, past, ran, tab, typed, keys, others>>

\* Tab: the last name of a path is completed to the first that is longer; with
\* nothing typed of it the second tab in time shows the names.
RNames(h, o) == IF o = 0 THEN <<>> ELSE [i \in DOMAIN List(h, o) |-> RName(h, List(h, o)[i])]
Longer(h, o, half) == SelectSeq(RNames(h, o), LAMBDA name : IsStrictPrefix(half, name))
Complete(c) ==
  LET names == c.arg
      from == IF c.cmd = "d" THEN Root ELSE Resolve(heap, Root, path)
      fit == Longer(heap, Resolve(heap, from, Front(names)), Last(names))
  IN /\ c.cmd \in {"c", "r", "d"} /\ names # <<>> /\ (c.cmd = "c" => Len(names) = 1)
     /\ edit' = IF fit = <<>> \/ Last(names) = <<>> THEN c ELSE [c EXCEPT !.arg = Append(Front(names), fit[1])]
     /\ tab' = (fit = <<>> \/ Last(names) = <<>> \/ (c.cmd = "c" /\ tab))
     /\ UNCHANGED <<tree, shell, typed, keys, others>>
KeyTab == edit.cmd # "" /\ Complete(edit)
TabOver == tab /\ tab' = FALSE /\ UNCHANGED <<tree, shell, edit, typed, keys, others>>

-----------------------------------------------------------------------------
(* Others: they change the tree, and have commands come and go.            *)

Other ==
  /\ others < MaxOthers /\ others' = others + 1
  /\ \/ /\ \E name \in Names : Insert(Root, name) \/ RemovePath(Root, name)
        /\ value' = [o \in Objects |-> IF heap'[o].live /\ heap[o].live THEN value[o] ELSE Null]
        /\ UNCHANGED keys
     \/ \E k \in DOMAIN Externals :
          keys' = (IF k \in keys THEN keys \ {k} ELSE keys \cup {k}) /\ UNCHANGED tree
  /\ UNCHANGED <<shell, input>>

WidgetNext ==
  \/ Enter \/ Timeout \/ KeyUp \/ KeyDown \/ KeyTab \/ TabOver \/ Other
  \/ \E c \in Texts : Type(c)

-----------------------------------------------------------------------------

\* Commands are run in the order they were entered, each once: those that were
\* not run yet wait, and a timer runs for them (terminal_widget.cpp,
\* analyseCommand); commands of others that are refused are not among them.
Entered == SelectSeq(ran, LAMBDA r : r.id > 0) \o SelectSeq(future, LAMBDA f : f.id > 0)
RunInTurn ==
  /\ \A i, j \in DOMAIN Entered : i < j => Entered[i].id < Entered[j].id
  /\ \A i \in DOMAIN Entered : Entered[i].id <= typed
  /\ future # <<>> => waiting

\* The history has each text once but the masked ones, none with a password, and
\* the place in it is in it (finishCommand, eventFilter).
HistoryKept ==
  /\ index \in 0 .. Len(past) /\ Len(past) <= Limit
  /\ \A i, j \in DOMAIN past : past[i] = past[j] => i = j \/ past[i].cmd = "su"
  /\ \A i \in DOMAIN past : past[i].cmd = "su" => past[i].arg = <<>>

\* The lines of a script run before what was entered after it.  Not of one that
\* had to wait itself: its lines are put behind what waits by then.
ScriptFirst ==
  \A i, j \in DOMAIN ran :
    i < j /\ ran[j].id = 0 =>
      ~ \E k \in 1 .. i - 1 : ran[k].text.cmd = "sh" /\ ran[i].id > ran[k].id /\ ran[k].id > 0

\* The terminal stays at an object until it is told to go elsewhere or that one
\* is removed.  A c without a name takes it to no object.
Found == path # NullData
=============================================================================
