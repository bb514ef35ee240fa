----------------------------- MODULE Containers -----------------------------
(***************************************************************************)
(* The containers of the library, each on variables of its own.            *)
(***************************************************************************)
EXTENDS Integers, Sequences, SequencesExt, FiniteSets, FiniteSetsExt

(***************************************************************************)
(* InsertionOrderedHashMap (impl/ordered_hashmap.h): a table of elements   *)
(* with open addressing, in which an element that is far from its place    *)
(* takes the slot of one that is nearer to its own, and a list of the same *)
(* elements in the order they were inserted.                               *)
(***************************************************************************)

CONSTANTS
  Keys, MapValues,
  Hash,         \* of each key
  Capacities,   \* hash_table_size_primes, shorter and smaller
  MinIndex,     \* MIN_CAPACITY_INDEX
  MaxElements

VARIABLES
  mapSlots,        \* _hashes and _elements, by position, from 0
  index,        \* _capacity_idx
  allocated,    \* _elements is there
  list,         \* the elements from head to tail: [key, value]
  mapMeant         \* the map as its calls were mapMeant

map == <<mapSlots, index, allocated, list, mapMeant>>

Empty == [hash |-> 0, key |-> 0]
HashOf(k) == IF Hash[k] = 0 THEN 1 ELSE Hash[k]
NoSlots(i) == [p \in 0 .. Capacities[i] - 1 |-> Empty]

Capacity(s) == Cardinality(DOMAIN s)
ProbeLength(s, p) == (p - (s[p].hash % Capacity(s)) + Capacity(s)) % Capacity(s)
Pos(s, hash, distance) == (hash + distance) % Capacity(s)

-----------------------------------------------------------------------------
(* The table.                                                              *)

\* Where the search for a key ends.
Ends(s, k, distance) ==
  LET p == Pos(s, HashOf(k), distance)
  IN  \/ s[p] = Empty
      \/ distance > ProbeLength(s, p)
      \/ s[p].hash = HashOf(k) /\ s[p].key = k

EndOf(s, k) ==
  LET ends == {d \in 0 .. Capacity(s) - 1 : Ends(s, k, d)}
  IN  IF ends = {} THEN {} ELSE {Min(ends)}

\* _lookup_idx: the position of a key, if any, as a set.
Lookup(s, k) ==
  IF list = <<>> THEN {}
  ELSE {p \in {Pos(s, HashOf(k), d) : d \in EndOf(s, k)} : s[p].key = k}

\* _insert_element: who is nearer to its place gives way.
RECURSIVE Placed(_, _, _, _)
Placed(s, element, p, distance) ==
  LET next == (p + 1) % Capacity(s)
  IN  IF s[p] = Empty THEN [s EXCEPT ![p] = element]
      ELSE IF ProbeLength(s, p) < distance
        THEN Placed([s EXCEPT ![p] = element], s[p], next, ProbeLength(s, p) + 1)
      ELSE Placed(s, element, next, distance + 1)

InsertElement(s, element) == Placed(s, element, Pos(s, element.hash, 0), 0)
Element(k) == [hash |-> HashOf(k), key |-> k]

\* _resize_and_rehash, in the order of the old table.
Rehashed(s, i) ==
  FoldLeft(LAMBDA new, p : IF s[p] = Empty THEN new ELSE InsertElement(new, s[p]),
           NoSlots(i), [n \in 1 .. Capacity(s) |-> n - 1])

Grown(i) == IF i > MinIndex THEN i ELSE MinIndex
Full(size, s) == 4 * (size + 1) > 3 * Capacity(s)

\* Mutant: the mapSlots behind the erased one stay where they are.
ErasedInPlace(s, at) == [s EXCEPT ![at] = Empty]

\* erase: those behind that are not in their own place move up by one.
MapErased(s, at) ==
  LET After(n) == (at + n) % Capacity(s)
      Moves(n) == s[After(n)] # Empty /\ ProbeLength(s, After(n)) # 0
      n == Min({m \in 1 .. Capacity(s) : ~ Moves(m)})
  IN  [p \in DOMAIN s |->
         IF p = After(n - 1) THEN Empty
         ELSE IF \E m \in 0 .. n - 2 : p = After(m) THEN s[(p + 1) % Capacity(s)]
         ELSE s[p]]

-----------------------------------------------------------------------------

MapInit ==
  /\ index \in {1, MinIndex}          \* a capacity given, or none
  /\ mapSlots = NoSlots(index) /\ allocated = FALSE
  /\ list = <<>> /\ mapMeant = <<>>

Entry(k, v) == [key |-> k, value |-> v]
Replaced(l, k, v) == [i \in DOMAIN l |-> IF l[i].key = k THEN Entry(k, v) ELSE l[i]]
In(l, k) == \E i \in DOMAIN l : l[i].key = k
Put(l, k, v, front) == IF In(l, k) THEN Replaced(l, k, v)
                       ELSE IF front THEN <<Entry(k, v)>> \o l ELSE Append(l, Entry(k, v))

\* What is found at a position is one element of the list.
MapAssign(at, v) == list' = Replaced(list, mapSlots[at].key, v) /\ UNCHANGED <<mapSlots, index, allocated>>

\* _insert.
InsertNew(k, v, front) ==
  LET grows == Full(Len(list), mapSlots)
      i == IF grows THEN Grown(index + 1) ELSE index
  IN  /\ Len(list) < MaxElements
      /\ index' = i /\ allocated' = TRUE
      /\ mapSlots' = InsertElement(IF grows THEN Rehashed(mapSlots, i) ELSE mapSlots, Element(k))
      /\ list' = (IF front THEN <<Entry(k, v)>> \o list ELSE Append(list, Entry(k, v)))

\* insert and operator[].
MapInsert(k, v, front) ==
  /\ LET found == Lookup(mapSlots, k)
     IN  \/ \E at \in found : MapAssign(at, v)
         \/ found = {} /\ InsertNew(k, v, front)
  /\ mapMeant' = Put(mapMeant, k, v, front)

\* The element is unlinked where the table says it is.
MapErase(k) ==
  /\ LET found == Lookup(mapSlots, k)
     IN  \/ \E at \in found :
              /\ mapSlots' = MapErased(mapSlots, at)
              /\ list' = SelectSeq(list, LAMBDA e : e.key # mapSlots[at].key)
              /\ UNCHANGED <<index, allocated>>
         \/ found = {} /\ UNCHANGED <<mapSlots, index, allocated, list>>
  /\ mapMeant' = SelectSeq(mapMeant, LAMBDA e : e.key # k)

MapClear ==
  /\ IF list = <<>> THEN UNCHANGED <<mapSlots, list>> ELSE mapSlots' = NoSlots(index) /\ list' = <<>>
  /\ mapMeant' = <<>>
  /\ UNCHANGED <<index, allocated>>

Reserve(n) ==
  LET i == Min({j \in DOMAIN Capacities : j >= index /\ (Capacities[j] >= n \/ j = Len(Capacities))})
  IN  /\ i # index
      /\ index' = (IF allocated THEN Grown(i) ELSE i)
      /\ mapSlots' = (IF allocated THEN Rehashed(mapSlots, Grown(i)) ELSE NoSlots(i))
      /\ UNCHANGED <<allocated, list, mapMeant>>

\* A copy in place of the original: the elements are inserted anew, into a
\* table as large.
Copy ==
  /\ list # <<>>
  /\ mapSlots' = FoldLeft(LAMBDA s, e : InsertElement(s, Element(e.key)), NoSlots(index), list)
  /\ allocated' = TRUE
  /\ UNCHANGED <<index, list, mapMeant>>

MapNext ==
  \/ \E k \in Keys, v \in MapValues, front \in BOOLEAN : MapInsert(k, v, front)
  \/ \E k \in Keys : MapErase(k)
  \/ MapClear \/ Copy
  \/ \E i \in DOMAIN Capacities : Reserve(Capacities[i])

MapSpec == MapInit /\ [][MapNext]_map

-----------------------------------------------------------------------------

\* Whatever was inserted, erased, moved up and rehashed before: every search
\* ends, each key is found if and only if it is in the list, and the list is
\* the map that was mapMeant, in the order of insertion (ordered_hashmap.h).
FindsEach ==
  /\ \A k \in Keys :
       /\ EndOf(mapSlots, k) # {}
       /\ Lookup(mapSlots, k) # {} <=> In(list, k)
  /\ list = mapMeant

-----------------------------------------------------------------------------
(***************************************************************************)
(* SmallVectorImpl (impl/small_vector.h): a vector that keeps its first    *)
(* elements in itself and moves them to the heap when there are more.  Its *)
(* slots are raw memory, in which elements are made, moved and destroyed   *)
(* by hand.  Elements are not trivially copyable: for those that are, the  *)
(* code moves bytes instead and destroys nothing.                          *)
(***************************************************************************)

CONSTANTS
  Vectors, VectorValues,
  Inline,          \* N
  MaxSize,
  Aliases          \* a vector may be given one of its own elements

\* A slot holds a value, or what is left of one that has been moved.
Raw == "raw"
Moved == "moved"
Broken == "broken"

VARIABLES
  vectorSlots,           \* _data, as many as _capacity
  size,
  heap,            \* _data is not _storage
  vectorMeant            \* the vectors as their calls were vectorMeant

vectors == <<vectorSlots, size, heap, vectorMeant>>

RawSlots(n) == [i \in 1 .. n |-> Raw]

-----------------------------------------------------------------------------
(* Lifetimes: an element is made only in raw memory, and assigned to or    *)
(* destroyed only where there is one.                                      *)

Make(s, i, v) == [s EXCEPT ![i] = IF @ = Raw THEN v ELSE Broken]
Destroy(s, i) == [s EXCEPT ![i] = IF @ = Raw THEN Broken ELSE Raw]
MoveMake(s, i, from) == [Make(s, i, s[from]) EXCEPT ![from] = Moved]
MoveAssign(s, i, from) == [s EXCEPT ![i] = IF @ = Raw THEN Broken ELSE s[from], ![from] = Moved]

Steps(Op(_, _), s, indices) == FoldLeft(Op, s, indices)
Up(from, to) == [n \in 1 .. (IF to < from THEN 0 ELSE to - from + 1) |-> from + n - 1]
Down(from, to) == Reverse(Up(to, from))

\* _destroy_range.
DestroyRange(s, from, to) == Steps(Destroy, s, Up(from, to))

\* _grow: as the code doubles.
RECURSIVE Doubled(_, _)
Doubled(capacity, needed) ==
  IF capacity >= needed THEN capacity ELSE Doubled(IF capacity < 4 THEN 4 ELSE capacity * 2, needed)

\* _move_construct, to memory of n vectorSlots.
MovedTo(s, count, n) == [i \in 1 .. n |-> IF i <= count THEN s[i] ELSE Raw]

\* _ensure_capacity: the vectorSlots and whether they are on the heap afterwards.
Ensured(s, onHeap, count, needed) ==
  IF needed <= Len(s) THEN [slots |-> s, heap |-> onHeap]
  ELSE [slots |-> MovedTo(s, count, Doubled(Len(s), needed)), heap |-> TRUE]

\* _insert_at: a gap.
Gap(s, count, place) ==
  IF place > count THEN s
  ELSE Destroy(Steps(LAMBDA x, i : MoveAssign(x, i, i - 1), MoveMake(s, count + 1, count), Down(count, place + 1)),
               place)

\* erase.
VectorErased(s, count, place) ==
  LET gone == Destroy(s, place)
  IN  IF place = count THEN gone
      ELSE Destroy(Steps(LAMBDA x, i : MoveAssign(x, i, i + 1),
                         MoveMake(gone, place, place + 1), Up(place + 1, count - 1)),
                   count)

EraseSwapped(s, count, place) ==
  Destroy(IF place = count THEN s ELSE MoveMake(Destroy(s, place), place, count), count)

-----------------------------------------------------------------------------

VectorInit ==
  /\ vectorSlots = [v \in Vectors |-> RawSlots(Inline)]
  /\ size = [v \in Vectors |-> 0]
  /\ heap = [v \in Vectors |-> FALSE]
  /\ vectorMeant = [v \in Vectors |-> <<>>]

Set(v, s, n, onHeap, m) ==
  /\ vectorSlots' = [vectorSlots EXCEPT ![v] = s]
  /\ size' = [size EXCEPT ![v] = n]
  /\ heap' = [heap EXCEPT ![v] = onHeap]
  /\ vectorMeant' = [vectorMeant EXCEPT ![v] = m]

\* What a reference to the vector's own element reads after the vectorSlots have
\* been moved or shifted; of freed memory, anything.
Read(s, i) == IF i \in DOMAIN s THEN s[i] ELSE Broken

\* push_back and emplace_back, of a value or of the vector's own element i.
PushBack(v, x, own) ==
  LET e == Ensured(vectorSlots[v], heap[v], size[v], size[v] + 1)
      value == IF own = 0 THEN x ELSE IF e.slots = vectorSlots[v] THEN vectorSlots[v][own] ELSE Broken
  IN  /\ size[v] < MaxSize
      /\ Set(v, Make(e.slots, size[v] + 1, value), size[v] + 1, e.heap,
             Append(vectorMeant[v], IF own = 0 THEN x ELSE vectorMeant[v][own]))

VectorInsert(v, place, x, own) ==
  LET e == Ensured(vectorSlots[v], heap[v], size[v], size[v] + 1)
      s == Gap(e.slots, size[v], place)
      value == IF own = 0 THEN x ELSE IF Len(e.slots) = Len(vectorSlots[v]) THEN Read(s, own) ELSE Broken
  IN  /\ size[v] < MaxSize
      /\ Set(v, Make(s, place, value), size[v] + 1, e.heap,
             InsertAt(vectorMeant[v], place, IF own = 0 THEN x ELSE vectorMeant[v][own]))

Own(v) == IF Aliases THEN 0 .. size[v] ELSE {0}

VectorErase(v, place) ==
  Set(v, VectorErased(vectorSlots[v], size[v], place), size[v] - 1, heap[v], RemoveAt(vectorMeant[v], place))

EraseSwap(v, place) ==
  Set(v, EraseSwapped(vectorSlots[v], size[v], place), size[v] - 1, heap[v],
      SubSeq([vectorMeant[v] EXCEPT ![place] = Last(vectorMeant[v])], 1, size[v] - 1))

VectorClear(v) == Set(v, DestroyRange(vectorSlots[v], 1, size[v]), 0, heap[v], <<>>)

\* resize, and reserve before it.
Resize(v, n, x) ==
  LET e == Ensured(vectorSlots[v], heap[v], size[v], n)
  IN  IF n < size[v]
      THEN Set(v, DestroyRange(vectorSlots[v], n + 1, size[v]), n, heap[v], SubSeq(vectorMeant[v], 1, n))
      ELSE Set(v, Steps(LAMBDA s, i : Make(s, i, x), e.slots, Up(size[v] + 1, n)), n, e.heap,
               vectorMeant[v] \o [i \in 1 .. n - size[v] |-> x])

ShrinkToFit(v) ==
  /\ heap[v] /\ size[v] # Len(vectorSlots[v])
  /\ IF size[v] <= Inline THEN Set(v, MovedTo(vectorSlots[v], size[v], Inline), size[v], FALSE, vectorMeant[v])
     ELSE Set(v, MovedTo(vectorSlots[v], size[v], size[v]), size[v], TRUE, vectorMeant[v])

\* operator= of another.
VectorAssign(v, w) ==
  LET cleared == DestroyRange(vectorSlots[v], 1, size[v])
      e == Ensured(cleared, heap[v], 0, size[w])
  IN  /\ v # w
      /\ Set(v, Steps(LAMBDA s, i : Make(s, i, vectorSlots[w][i]), e.slots, Up(1, size[w])), size[w], e.heap, vectorMeant[w])

\* operator= of another that is given up: its heap is taken, or its elements
\* are moved one by one.
MoveFrom(v, w) ==
  LET cleared == DestroyRange(vectorSlots[v], 1, size[v])
      mine == IF heap[v] THEN RawSlots(Inline) ELSE cleared
  IN  /\ v # w
      /\ vectorSlots' = [vectorSlots EXCEPT
           ![v] = IF heap[w] THEN vectorSlots[w] ELSE Steps(LAMBDA s, i : Make(s, i, vectorSlots[w][i]), mine, Up(1, size[w])),
           ![w] = IF heap[w] THEN RawSlots(Inline) ELSE DestroyRange(vectorSlots[w], 1, size[w])]
      /\ size' = [size EXCEPT ![v] = size[w], ![w] = 0]
      /\ heap' = [heap EXCEPT ![v] = heap[w], ![w] = FALSE]
      /\ vectorMeant' = [vectorMeant EXCEPT ![v] = vectorMeant[w], ![w] = <<>>]

VectorNext ==
  \E v \in Vectors :
    \/ \E x \in VectorValues, own \in Own(v) : PushBack(v, x, own)
    \/ \E x \in VectorValues, own \in Own(v), i \in 1 .. size[v] + 1 : VectorInsert(v, i, x, own)
    \/ \E i \in 1 .. size[v] : VectorErase(v, i) \/ EraseSwap(v, i)
    \/ VectorClear(v) \/ ShrinkToFit(v)
    \/ \E n \in 0 .. MaxSize, x \in VectorValues : Resize(v, n, x)
    \/ \E w \in Vectors : VectorAssign(v, w) \/ MoveFrom(v, w)

VectorSpec == VectorInit /\ [][VectorNext]_vectors

-----------------------------------------------------------------------------

\* After any sequence of calls the elements are those that were vectorMeant, in
\* their order, each made once and none left behind in a slot that the vector
\* takes for raw memory; what it keeps in itself has room for no more
\* (the placement new and destructor calls of small_vector.h).
KeepsElements ==
  \A v \in Vectors :
    /\ vectorSlots[v] = vectorMeant[v] \o RawSlots(Len(vectorSlots[v]) - size[v])
    /\ ~ heap[v] => Len(vectorSlots[v]) = Inline
=============================================================================
