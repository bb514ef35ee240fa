--------------------------- MODULE NodeTreeProofs ---------------------------
(***************************************************************************)
(* Proofs about NodeTree for any nodes, names and insert positions.        *)
(*                                                                         *)
(* The inductive invariant IInv says that the tree is one: each node's     *)
(* Children record agrees with the parent links and with its own name      *)
(* index, but for the positions that a batch insert in progress has not    *)
(* recorded yet, and what that batch remembers is where it left it.        *)
(*                                                                         *)
(* From the bottom: sequences; the positions of one name; the index of all *)
(* names; one Children record; the whole tree under each change; each      *)
(* action; the theorems; and last what a call signals, and whom it moves.  *)
(***************************************************************************)
EXTENDS NodeTree, SequenceTheorems, WellFoundedInduction, TLAPS

\* What a concatenation, a slice, an insertion and a removal are, slot by slot.
LEMMA ConcatIn ==
  ASSUME NEW S, NEW a \in Seq(S), NEW b \in Seq(S)
  PROVE  /\ a \o b \in Seq(S)
         /\ Len(a \o b) = Len(a) + Len(b)
         /\ \A j \in 1 .. Len(a) + Len(b) :
              (a \o b)[j] = IF j <= Len(a) THEN a[j] ELSE b[j - Len(a)]
OBVIOUS

LEMMA SubSeqIn ==
  ASSUME NEW S, NEW s \in Seq(S), NEW m \in 1 .. Len(s) + 1, NEW n \in m - 1 .. Len(s)
  PROVE  /\ SubSeq(s, m, n) \in Seq(S)
         /\ Len(SubSeq(s, m, n)) = n - m + 1
         /\ \A j \in 1 .. n - m + 1 : SubSeq(s, m, n)[j] = s[m + j - 1]
OBVIOUS

\* r is the sequence s over S with e at slot i.
IsInsert(S, s, i, e, r) ==
  /\ r \in Seq(S)
  /\ Len(r) = Len(s) + 1
  /\ \A j \in 1 .. Len(s) + 1 : r[j] = IF j < i THEN s[j] ELSE IF j = i THEN e ELSE s[j - 1]

LEMMA InsertAtIn ==
  ASSUME NEW S, NEW s \in Seq(S), NEW i \in 1 .. Len(s) + 1, NEW e \in S
  PROVE  IsInsert(S, s, i, e, InsertAt(s, i, e))
<1> DEFINE a == SubSeq(s, 1, i - 1)
           b == SubSeq(s, i, Len(s))
<1>1. /\ a \in Seq(S) /\ Len(a) = i - 1
      /\ \A j \in 1 .. i - 1 : a[j] = s[j]
  BY SubSeqIn
<1>2. /\ b \in Seq(S) /\ Len(b) = Len(s) - i + 1
      /\ \A j \in 1 .. Len(s) - i + 1 : b[j] = s[i + j - 1]
  BY SubSeqIn
<1> HIDE DEF a, b
<1>3. Len(s) \in Nat /\ <<e>> \in Seq(S) /\ Len(<<e>>) = 1 /\ <<e>>[1] = e
  OBVIOUS
<1> DEFINE t == a \o <<e>>
           r == t \o b
<1>4. /\ t \in Seq(S) /\ Len(t) = Len(a) + 1
      /\ \A j \in 1 .. Len(a) + 1 : t[j] = IF j <= Len(a) THEN a[j] ELSE <<e>>[j - Len(a)]
  BY <1>1, <1>3, ConcatIn
<1>5. InsertAt(s, i, e) = r
  BY DEF InsertAt, a, b
<1> HIDE DEF t
<1>6. /\ r \in Seq(S) /\ Len(r) = Len(t) + Len(b)
      /\ \A j \in 1 .. Len(t) + Len(b) : r[j] = IF j <= Len(t) THEN t[j] ELSE b[j - Len(t)]
  BY <1>2, <1>4, ConcatIn
<1> HIDE DEF r
<1>7. ASSUME NEW j \in 1 .. Len(s) + 1
      PROVE  r[j] = IF j < i THEN s[j] ELSE IF j = i THEN e ELSE s[j - 1]
  <2>1. CASE j < i
    <3>1. r[j] = t[j]
      BY <2>1, <1>1, <1>2, <1>3, <1>4, <1>6
    <3>2. t[j] = a[j]
      BY <2>1, <1>1, <1>3, <1>4
    <3>3. QED BY <2>1, <3>1, <3>2, <1>1, <1>3
  <2>2. CASE j = i
    <3>1. r[j] = t[j]
      BY <2>2, <1>1, <1>2, <1>3, <1>4, <1>6
    <3>2. t[j] = e
      BY <2>2, <1>1, <1>3, <1>4
    <3>3. QED BY <2>2, <3>1, <3>2
  <2>3. CASE j > i
    <3>1. r[j] = b[j - i]
      BY <2>3, <1>1, <1>2, <1>3, <1>4, <1>6
    <3>2. b[j - i] = s[j - 1]
      BY <2>3, <1>2, <1>3
    <3>3. QED BY <2>3, <3>1, <3>2, <1>3
  <2>4. QED BY <2>1, <2>2, <2>3, <1>3
<1>8. r \in Seq(S) /\ Len(r) = Len(s) + 1
  BY <1>1, <1>2, <1>3, <1>4, <1>6
<1>9. QED BY <1>5, <1>7, <1>8 DEF IsInsert

\* r is the sequence s over S without its element i.
IsRemove(S, s, i, r) ==
  /\ r \in Seq(S)
  /\ Len(r) = Len(s) - 1
  /\ \A j \in 1 .. Len(s) - 1 : r[j] = IF j < i THEN s[j] ELSE s[j + 1]

LEMMA RemoveAtIn ==
  ASSUME NEW S, NEW s \in Seq(S), NEW i \in 1 .. Len(s)
  PROVE  IsRemove(S, s, i, RemoveAt(s, i))
<1> DEFINE a == SubSeq(s, 1, i - 1)
           b == SubSeq(s, i + 1, Len(s))
<1>1. /\ a \in Seq(S) /\ Len(a) = i - 1
      /\ \A j \in 1 .. i - 1 : a[j] = s[j]
  BY SubSeqIn
<1>2. /\ b \in Seq(S) /\ Len(b) = Len(s) - i
      /\ \A j \in 1 .. Len(s) - i : b[j] = s[i + j]
  BY SubSeqIn
<1> HIDE DEF a, b
<1>3. Len(s) \in Nat
  OBVIOUS
<1>4. /\ a \o b \in Seq(S) /\ Len(a \o b) = Len(a) + Len(b)
      /\ \A j \in 1 .. Len(a) + Len(b) : (a \o b)[j] = IF j <= Len(a) THEN a[j] ELSE b[j - Len(a)]
  BY <1>1, <1>2, ConcatIn
<1>5. RemoveAt(s, i) = a \o b
  BY DEF RemoveAt, a, b
<1> DEFINE r == a \o b
<1> HIDE DEF r
<1>6. r \in Seq(S) /\ Len(r) = Len(s) - 1
  BY <1>1, <1>2, <1>3, <1>4 DEF r
<1>7. ASSUME NEW j \in 1 .. Len(s) - 1
      PROVE  r[j] = IF j < i THEN s[j] ELSE s[j + 1]
  <2>1. r[j] = IF j <= i - 1 THEN a[j] ELSE b[j - (i - 1)]
    BY <1>1, <1>2, <1>3, <1>4 DEF r
  <2>2. CASE j < i
    BY <2>1, <2>2, <1>1, <1>3
  <2>3. CASE j >= i
    BY <2>1, <2>3, <1>2, <1>3
  <2>4. QED BY <2>2, <2>3, <1>3
<1>8. QED BY <1>5, <1>6, <1>7 DEF r, IsRemove

\* Functions on 1 .. n are sequences, and sets of naturals have a least member.
LEMMA SeqOfFunction ==
  ASSUME NEW S, NEW n \in Nat, NEW f \in [1 .. n -> S]
  PROVE  f \in Seq(S) /\ Len(f) = n
OBVIOUS

LEMMA NatLess == OpToRel(<, Nat) = {ss \in Nat \X Nat : ss[1] < ss[2]}
BY Zenon DEF OpToRel

LEMMA NatMin ==
  ASSUME NEW T \in SUBSET Nat, T # {}
  PROVE  \E m \in T : \A k \in T : m <= k
<1> DEFINE R == {ss \in Nat \X Nat : ss[1] < ss[2]}
<1>1. IsWellFoundedOn(R, Nat)
  BY NatLessThanWellFounded, NatLess, Zenon
<1>2. PICK m \in T : \A k \in T : ~ (<<k, m>> \in R)
  BY <1>1, WFMin, Zenon
<1>3. ASSUME NEW k \in T PROVE m <= k
  <2>1. k \in Nat /\ m \in Nat
    OBVIOUS
  <2>2. <<k, m>>[1] = k /\ <<k, m>>[2] = m
    OBVIOUS
  <2>3. ~ (k < m)
    BY <1>2, <2>1, <2>2
  <2>4. QED BY <2>1, <2>3
<1>4. QED BY <1>3

Ascending(iv) == \A j, k \in DOMAIN iv : j < k => iv[j] < iv[k]

\* std::lower_bound finds its slot on an ascending vector.
LEMMA LowerBoundIn ==
  ASSUME NEW iv \in Seq(Nat), NEW pos \in Nat,
         Ascending(iv)
  PROVE  /\ LowerBound(iv, pos) \in 1 .. Len(iv) + 1
         /\ \A j \in 1 .. LowerBound(iv, pos) - 1 : iv[j] < pos
         /\ \A j \in LowerBound(iv, pos) .. Len(iv) : iv[j] >= pos
<1> DEFINE T == {k \in 1 .. Len(iv) + 1 : k = Len(iv) + 1 \/ iv[k] >= pos}
           Slot(k) == /\ \A j \in 1 .. k - 1 : iv[j] < pos
                      /\ \A j \in k .. Len(iv) : iv[j] >= pos
<1>1. Len(iv) \in Nat /\ DOMAIN iv = 1 .. Len(iv) /\ \A j \in 1 .. Len(iv) : iv[j] \in Nat
  OBVIOUS
<1>2. T \in SUBSET Nat /\ T # {}
  <2>1. Len(iv) + 1 \in T
    BY <1>1
  <2>2. QED BY <2>1, <1>1
<1>3. PICK m \in T : \A k \in T : m <= k
  BY <1>2, NatMin
<1>4. m \in 1 .. Len(iv) + 1
  OBVIOUS
<1>5. ASSUME NEW j \in 1 .. m - 1 PROVE iv[j] < pos
  <2>1. j \in 1 .. Len(iv) /\ j \notin T
    BY <1>1, <1>3, <1>4
  <2>2. QED BY <2>1, <1>1
<1>6. ASSUME NEW j \in m .. Len(iv) PROVE iv[j] >= pos
  <2>1. m \in 1 .. Len(iv) /\ iv[m] >= pos
    BY <1>1, <1>4
  <2>2. CASE j = m
    BY <2>1, <2>2
  <2>3. CASE m < j
    <3>1. iv[m] < iv[j]
      <4>1. m \in DOMAIN iv /\ j \in DOMAIN iv
        BY <2>1, <1>1, <1>4
      <4>2. QED BY <4>1, <2>3, Zenon DEF Ascending
    <3>2. QED BY <2>1, <3>1, <1>1
  <2>4. QED BY <2>2, <2>3, <1>4, <1>1
<1>7. \E k \in 1 .. Len(iv) + 1 : Slot(k)
  BY <1>4, <1>5, <1>6
<1>8. LowerBound(iv, pos) = CHOOSE k \in 1 .. Len(iv) + 1 : Slot(k)
  BY DEF LowerBound
<1> HIDE DEF Slot
<1>9. LowerBound(iv, pos) \in 1 .. Len(iv) + 1 /\ Slot(LowerBound(iv, pos))
  BY <1>7, <1>8
<1>10. QED BY <1>9 DEF Slot

-----------------------------------------------------------------------------
(* One name's index against the vector.                                    *)

\* Children::shift on the positions of one name: order and count are kept.
LEMMA ShiftSeqIn ==
  ASSUME NEW iv \in Seq(Nat), NEW from \in Nat, NEW delta \in Int
  PROVE  /\ DOMAIN ShiftSeq(iv, from, delta) = DOMAIN iv
         /\ \A k \in DOMAIN iv :
              ShiftSeq(iv, from, delta)[k] = IF iv[k] >= from THEN iv[k] + delta ELSE iv[k]
BY DEF ShiftSeq

\* w is nodes with L elements inserted at position pos.
Spread(nodes, w, pos, L) ==
  /\ DOMAIN w = 1 .. Len(nodes) + L
  /\ \A j \in 1 .. pos : w[j] = nodes[j]
  /\ \A j \in pos + 1 .. Len(nodes) : w[j + L] = nodes[j]

\* A gap of L slots at pos: shifting by L makes the positions of a name right again.
LEMMA ShiftUp ==
  ASSUME NEW iv \in Seq(Nat), NEW nodes \in Seq(Nodes), NEW w, NEW nm \in Names,
         NEW pos \in 0 .. Len(nodes), NEW L \in Nat, Spread(nodes, w, pos, L),
         NameAgrees(iv, nodes, {}, nm)
  PROVE  /\ ShiftSeq(iv, pos, L) \in Seq(Nat)
         /\ NameAgrees(ShiftSeq(iv, pos, L), w, pos .. pos + L - 1, nm)
<1> DEFINE s == ShiftSeq(iv, pos, L)
           P == pos .. pos + L - 1
<1>0. /\ Len(nodes) \in Nat /\ DOMAIN nodes = 1 .. Len(nodes) /\ Len(iv) \in Nat
      /\ DOMAIN iv = 1 .. Len(iv) /\ \A k \in DOMAIN iv : iv[k] \in Nat
  OBVIOUS
<1>1. /\ DOMAIN s = DOMAIN iv
      /\ \A k \in DOMAIN iv : s[k] = IF iv[k] >= pos THEN iv[k] + L ELSE iv[k]
  BY ShiftSeqIn
<1>2. s \in Seq(Nat)
  <2>1. \A k \in 1 .. Len(iv) : iv[k] + L \in Nat /\ iv[k] \in Nat
    BY <1>0
  <2>2. s = [k \in 1 .. Len(iv) |-> IF iv[k] >= pos THEN iv[k] + L ELSE iv[k]]
    BY <1>0 DEF ShiftSeq
  <2>3. s \in [1 .. Len(iv) -> Nat]
    BY <2>1, <2>2
  <2> HIDE DEF s
  <2>4. QED BY <1>0, <2>3, SeqOfFunction, Zenon
<1> HIDE DEF s
<1>3. ASSUME NEW j \in DOMAIN iv, NEW k \in DOMAIN iv, j < k PROVE s[j] < s[k]
  <2>1. iv[j] < iv[k]
    BY <1>3, Zenon DEF NameAgrees
  <2>2. QED BY <2>1, <1>0, <1>1
<1>4. ASSUME NEW k \in DOMAIN iv
      PROVE  s[k] + 1 \in DOMAIN w /\ s[k] \notin P /\ NameOf[w[s[k] + 1]] = nm
  <2>1. iv[k] + 1 \in DOMAIN nodes /\ NameOf[nodes[iv[k] + 1]] = nm
    BY Zenon DEF NameAgrees
  <2>2. CASE iv[k] >= pos
    <3>1. s[k] = iv[k] + L /\ iv[k] + 1 \in pos + 1 .. Len(nodes) /\ iv[k] \in Nat
      BY <2>1, <2>2, <1>0, <1>1
    <3>2. s[k] + 1 = (iv[k] + 1) + L
      BY <3>1
    <3>3. w[s[k] + 1] = nodes[iv[k] + 1]
      <4>1. \A x \in pos + 1 .. Len(nodes) : w[x + L] = nodes[x]
        BY DEF Spread
      <4>2. QED BY <3>1, <3>2, <4>1
    <3>4. s[k] + 1 \in DOMAIN w /\ s[k] \notin P
      <4>1. pos <= Len(nodes) /\ pos \in Nat
        BY <1>0
      <4>2. DOMAIN w = 1 .. Len(nodes) + L
        BY DEF Spread
      <4>3. s[k] + 1 \in 1 .. Len(nodes) + L
        BY <3>1, <4>1, <1>0
      <4>4. s[k] \notin P
        BY <3>1, <4>1, <2>2
      <4>5. QED BY <4>2, <4>3, <4>4
    <3>5. QED BY <2>1, <3>3, <3>4
  <2>3. CASE ~ (iv[k] >= pos)
    <3>1. s[k] = iv[k] /\ iv[k] + 1 \in 1 .. pos /\ iv[k] \in Nat
      BY <2>1, <2>3, <1>0, <1>1
    <3>2. w[s[k] + 1] = nodes[iv[k] + 1]
      <4>1. \A x \in 1 .. pos : w[x] = nodes[x]
        BY DEF Spread
      <4>2. QED BY <3>1, <4>1
    <3>3. s[k] + 1 \in DOMAIN w /\ s[k] \notin P
      <4>1. pos <= Len(nodes) /\ pos \in Nat
        BY <1>0
      <4>2. DOMAIN w = 1 .. Len(nodes) + L
        BY DEF Spread
      <4>3. s[k] + 1 \in 1 .. Len(nodes) + L
        BY <3>1, <4>1, <1>0
      <4>4. s[k] \notin P
        BY <3>1, <4>1
      <4>5. QED BY <4>2, <4>3, <4>4
    <3>4. QED BY <2>1, <3>2, <3>3
  <2>4. QED BY <2>2, <2>3
<1>5. ASSUME NEW i \in DOMAIN w, NameOf[w[i]] = nm, i - 1 \notin P
      PROVE  \E k \in DOMAIN iv : s[k] = i - 1
  <2>0. i \in 1 .. Len(nodes) + L
    BY DEF Spread
  <2>1. CASE i <= pos
    <3>1. i \in DOMAIN nodes /\ w[i] = nodes[i]
      BY <2>0, <2>1, <1>0 DEF Spread
    <3>2. PICK k \in DOMAIN iv : iv[k] = i - 1
      BY <3>1, <1>5, Zenon DEF NameAgrees
    <3>3. s[k] = i - 1
      BY <3>2, <2>0, <2>1, <1>0, <1>1
    <3>4. QED BY <3>3
  <2>2. CASE i > pos
    <3>0. i - L \in pos + 1 .. Len(nodes) /\ i = (i - L) + L
      BY <2>0, <2>2, <1>0, <1>5
    <3>1. i - L \in DOMAIN nodes /\ w[i] = nodes[i - L]
      BY <3>0, <1>0 DEF Spread
    <3>2. PICK k \in DOMAIN iv : iv[k] = (i - L) - 1
      BY <3>1, <1>5, Zenon DEF NameAgrees
    <3>3. s[k] = i - 1
      BY <3>0, <3>2, <2>0, <2>2, <1>0, <1>1
    <3>4. QED BY <3>3
  <2>3. QED BY <2>0, <2>1, <2>2
<1>6. NameAgrees(s, w, P, nm)
  BY <1>1, <1>3, <1>4, <1>5, Zenon DEF NameAgrees
<1>7. QED BY <1>2, <1>6 DEF s

\* w is nodes without its element at position pos.
Closed(nodes, w, pos) ==
  /\ DOMAIN w = 1 .. Len(nodes) - 1
  /\ \A j \in 1 .. pos : w[j] = nodes[j]
  /\ \A j \in pos + 1 .. Len(nodes) - 1 : w[j] = nodes[j + 1]

\* The slot at pos closed: shifting by -1 makes them right again.
LEMMA ShiftDown ==
  ASSUME NEW iv \in Seq(Nat), NEW nodes \in Seq(Nodes), NEW w, NEW nm \in Names,
         NEW pos \in 0 .. Len(nodes) - 1, Closed(nodes, w, pos),
         NameAgrees(iv, nodes, {pos}, nm)
  PROVE  /\ ShiftSeq(iv, pos, -1) \in Seq(Nat)
         /\ NameAgrees(ShiftSeq(iv, pos, -1), w, {}, nm)
<1> DEFINE s == ShiftSeq(iv, pos, -1)
<1>0. /\ Len(nodes) \in Nat /\ DOMAIN nodes = 1 .. Len(nodes) /\ Len(iv) \in Nat
      /\ DOMAIN iv = 1 .. Len(iv) /\ \A k \in DOMAIN iv : iv[k] \in Nat
      /\ pos \in Nat /\ pos < Len(nodes)
  OBVIOUS
<1>1. /\ DOMAIN s = DOMAIN iv
      /\ \A k \in DOMAIN iv : s[k] = IF iv[k] >= pos THEN iv[k] + (-1) ELSE iv[k]
  BY DEF ShiftSeq
<1>2. ASSUME NEW k \in DOMAIN iv
      PROVE  /\ iv[k] \in Nat /\ iv[k] # pos
             /\ s[k] = IF iv[k] > pos THEN iv[k] - 1 ELSE iv[k]
  <2>1. iv[k] # pos
    BY DEF NameAgrees
  <2>2. iv[k] \in Nat /\ s[k] = IF iv[k] >= pos THEN iv[k] + (-1) ELSE iv[k]
    BY <1>0, <1>1
  <2>3. QED BY <2>1, <2>2, <1>0
<1>3. s \in Seq(Nat)
  <2>1. ASSUME NEW k \in 1 .. Len(iv) PROVE s[k] \in Nat
    <3>1. /\ iv[k] \in Nat /\ iv[k] # pos
          /\ s[k] = IF iv[k] > pos THEN iv[k] - 1 ELSE iv[k]
      BY <1>0, <1>2
    <3> HIDE DEF s
    <3>2. QED BY <3>1, <1>0
  <2>2. s = [k \in 1 .. Len(iv) |-> s[k]]
    BY <1>0 DEF ShiftSeq
  <2> HIDE DEF s
  <2>3. s \in [1 .. Len(iv) -> Nat]
    BY <2>1, <2>2
  <2>4. QED BY <1>0, <2>3, SeqOfFunction, Zenon
<1> HIDE DEF s
<1>4. ASSUME NEW j \in DOMAIN iv, NEW k \in DOMAIN iv, j < k PROVE s[j] < s[k]
  <2>1. iv[j] < iv[k]
    BY <1>4, Zenon DEF NameAgrees
  <2>2. QED BY <2>1, <1>0, <1>2
<1>5. ASSUME NEW k \in DOMAIN iv
      PROVE  s[k] + 1 \in DOMAIN w /\ s[k] \notin {} /\ NameOf[w[s[k] + 1]] = nm
  <2>1. iv[k] + 1 \in DOMAIN nodes /\ NameOf[nodes[iv[k] + 1]] = nm
    BY Zenon DEF NameAgrees
  <2>2. CASE iv[k] > pos
    <3>1. s[k] + 1 = iv[k] /\ iv[k] \in pos + 1 .. Len(nodes) - 1
      BY <2>1, <2>2, <1>0, <1>2
    <3>2. w[iv[k]] = nodes[iv[k] + 1] /\ iv[k] \in DOMAIN w
      BY <3>1, <1>0 DEF Closed
    <3>3. QED BY <2>1, <3>1, <3>2
  <2>3. CASE ~ (iv[k] > pos)
    <3>1. s[k] = iv[k] /\ iv[k] + 1 \in 1 .. pos /\ iv[k] \in Nat
      BY <2>1, <2>3, <1>0, <1>2
    <3>2. w[iv[k] + 1] = nodes[iv[k] + 1] /\ iv[k] + 1 \in DOMAIN w
      BY <3>1, <1>0 DEF Closed
    <3>3. QED BY <2>1, <3>1, <3>2
  <2>4. QED BY <2>2, <2>3
<1>6. ASSUME NEW i \in DOMAIN w, NameOf[w[i]] = nm
      PROVE  \E k \in DOMAIN iv : s[k] = i - 1
  <2>0. i \in 1 .. Len(nodes) - 1
    BY DEF Closed
  <2>1. CASE i <= pos
    <3>1. i \in DOMAIN nodes /\ w[i] = nodes[i] /\ i - 1 \notin {pos}
      BY <2>0, <2>1, <1>0 DEF Closed
    <3>2. PICK k \in DOMAIN iv : iv[k] = i - 1
      BY <3>1, <1>6, Zenon DEF NameAgrees
    <3>3. s[k] = i - 1
      BY <3>2, <2>0, <2>1, <1>0, <1>2
    <3>4. QED BY <3>3
  <2>2. CASE i > pos
    <3>1. i + 1 \in DOMAIN nodes /\ w[i] = nodes[i + 1] /\ (i + 1) - 1 \notin {pos}
      BY <2>0, <2>2, <1>0 DEF Closed
    <3>2. PICK k \in DOMAIN iv : iv[k] = (i + 1) - 1
      BY <3>1, <1>6, Zenon DEF NameAgrees
    <3>3. s[k] = i - 1
      BY <3>2, <2>0, <2>2, <1>0, <1>2
    <3>4. QED BY <3>3
  <2>3. QED BY <2>0, <2>1, <2>2
<1>7. NameAgrees(s, w, {}, nm)
  BY <1>1, <1>4, <1>5, <1>6, Zenon DEF NameAgrees
<1>8. QED BY <1>3, <1>7 DEF s

\* Recording a pending position under its name.
LEMMA RecordName ==
  ASSUME NEW iv \in Seq(Nat), NEW nodes \in Seq(Nodes), NEW nm \in Names,
         NEW pending, NEW pos \in Nat, pos \in pending,
         pos + 1 \in DOMAIN nodes, NameOf[nodes[pos + 1]] = nm,
         NameAgrees(iv, nodes, pending, nm)
  PROVE  /\ InsertAt(iv, LowerBound(iv, pos), pos) \in Seq(Nat)
         /\ NameAgrees(InsertAt(iv, LowerBound(iv, pos), pos), nodes, pending \ {pos}, nm)
<1> DEFINE lb == LowerBound(iv, pos)
           s == InsertAt(iv, lb, pos)
<1>0. /\ Len(iv) \in Nat
      /\ DOMAIN iv = 1 .. Len(iv) /\ \A k \in DOMAIN iv : iv[k] \in Nat
  OBVIOUS
<1>1. \A j, k \in DOMAIN iv : j < k => iv[j] < iv[k]
  BY Zenon DEF NameAgrees
<1>2. /\ lb \in 1 .. Len(iv) + 1
      /\ \A j \in 1 .. lb - 1 : iv[j] < pos
      /\ \A j \in lb .. Len(iv) : iv[j] >= pos
  BY <1>1, LowerBoundIn DEF Ascending
<1>3. \A k \in DOMAIN iv : iv[k] # pos
  BY DEF NameAgrees
<1> HIDE DEF lb
<1>4. /\ s \in Seq(Nat) /\ Len(s) = Len(iv) + 1
      /\ \A j \in 1 .. Len(iv) + 1 : s[j] = IF j < lb THEN iv[j] ELSE IF j = lb THEN pos ELSE iv[j - 1]
  <2>1. lb \in 1 .. Len(iv) + 1
    BY <1>2
  <2>2. IsInsert(Nat, iv, lb, pos, s)
    BY <2>1, InsertAtIn, Zenon
  <2> HIDE DEF s
  <2>3. QED BY <2>2 DEF IsInsert
<1> HIDE DEF s
<1>5. DOMAIN s = 1 .. Len(iv) + 1 /\ lb \in Nat
  BY <1>0, <1>2, <1>4
<1>6. ASSUME NEW j \in DOMAIN s, NEW k \in DOMAIN s, j < k PROVE s[j] < s[k]
  <2>0. j \in 1 .. Len(iv) + 1 /\ k \in 1 .. Len(iv) + 1
    BY <1>5
  <2>1. CASE k < lb
    <3>1. s[j] = iv[j] /\ s[k] = iv[k] /\ j \in DOMAIN iv /\ k \in DOMAIN iv
      BY <2>0, <2>1, <1>0, <1>2, <1>4, <1>5, <1>6
    <3>2. QED BY <3>1, <1>1, <1>6
  <2>2. CASE k = lb
    <3>1. s[j] = iv[j] /\ s[k] = pos /\ j \in 1 .. lb - 1
      BY <2>0, <2>2, <1>0, <1>2, <1>4, <1>5, <1>6
    <3>2. QED BY <3>1, <1>2
  <2>3. CASE k > lb /\ j < lb
    <3>0. j \in DOMAIN iv /\ k - 1 \in DOMAIN iv /\ j < k - 1
      BY <2>0, <2>3, <1>0, <1>2, <1>5
    <3>a. s[j] = iv[j]
      BY <2>0, <2>3, <1>4
    <3>b. ~ (k < lb) /\ k # lb
      BY <2>0, <2>3, <1>0, <1>5
    <3>c. s[k] = iv[k - 1]
      BY <2>0, <3>b, <1>4
    <3>1. s[j] = iv[j] /\ s[k] = iv[k - 1]
      BY <3>a, <3>c
    <3>2. QED BY <3>0, <3>1, <1>1
  <2>4. CASE j = lb
    <3>1. s[j] = pos /\ s[k] = iv[k - 1] /\ k - 1 \in lb .. Len(iv) /\ k - 1 \in DOMAIN iv
      BY <2>0, <2>4, <1>0, <1>2, <1>4, <1>5, <1>6
    <3>2. iv[k - 1] >= pos /\ iv[k - 1] # pos /\ iv[k - 1] \in Nat
      BY <3>1, <1>0, <1>2, <1>3
    <3>3. QED BY <3>1, <3>2
  <2>5. CASE j > lb
    <3>a. /\ ~ (j < lb) /\ j # lb /\ ~ (k < lb) /\ k # lb
          /\ j \in Nat /\ k \in Nat /\ 1 < j /\ k - 1 <= Len(iv) /\ j < k
      BY <2>0, <2>5, <1>0, <1>2, <1>5, <1>6
    <3>0. j - 1 \in DOMAIN iv /\ k - 1 \in DOMAIN iv /\ j - 1 < k - 1
      BY <3>a, <1>0
    <3>1. s[j] = iv[j - 1] /\ s[k] = iv[k - 1]
      BY <2>0, <3>a, <1>4
    <3>2. QED BY <3>0, <3>1, <1>1
  <2>6. QED BY <2>0, <1>5, <1>6, <2>1, <2>2, <2>3, <2>4, <2>5
<1>7. ASSUME NEW k \in DOMAIN s
      PROVE  s[k] + 1 \in DOMAIN nodes /\ s[k] \notin pending \ {pos} /\ NameOf[nodes[s[k] + 1]] = nm
  <2>0. k \in 1 .. Len(iv) + 1
    BY <1>5
  <2>1. \A x \in DOMAIN iv : iv[x] + 1 \in DOMAIN nodes /\ iv[x] \notin pending /\ NameOf[nodes[iv[x] + 1]] = nm
    BY Zenon DEF NameAgrees
  <2>2. CASE k < lb
    <3>1. s[k] = iv[k] /\ k \in DOMAIN iv
      BY <2>0, <2>2, <1>0, <1>2, <1>4, <1>5
    <3>2. QED BY <3>1, <2>1
  <2>3. CASE k = lb
    <3>1. s[k] = pos
      BY <2>0, <2>3, <1>4, <1>5
    <3>2. QED BY <3>1
  <2>4. CASE k > lb
    <3>1. s[k] = iv[k - 1] /\ k - 1 \in DOMAIN iv
      BY <2>0, <2>4, <1>0, <1>2, <1>4, <1>5
    <3>2. QED BY <3>1, <2>1
  <2>5. QED BY <2>0, <1>5, <2>2, <2>3, <2>4
<1>8. ASSUME NEW i \in DOMAIN nodes, NameOf[nodes[i]] = nm, i - 1 \notin pending \ {pos}
      PROVE  \E k \in DOMAIN s : s[k] = i - 1
  <2>1. CASE i - 1 = pos
    <3>1. lb \in DOMAIN s /\ s[lb] = pos
      BY <1>2, <1>4, <1>5
    <3>2. QED BY <3>1, <2>1
  <2>2. CASE i - 1 # pos
    <3>1. PICK k \in DOMAIN iv : iv[k] = i - 1
      BY <2>2, <1>8, Zenon DEF NameAgrees
    <3>2. CASE k < lb
      <4>1. k \in DOMAIN s /\ s[k] = iv[k]
        BY <3>2, <1>0, <1>2, <1>4, <1>5
      <4>2. QED BY <4>1, <3>1
    <3>3. CASE k >= lb
      <4>1. k + 1 \in DOMAIN s /\ s[k + 1] = iv[k]
        BY <3>3, <1>0, <1>2, <1>4, <1>5
      <4>2. QED BY <4>1, <3>1
    <3>4. QED BY <1>0, <1>5, <3>2, <3>3
  <2>3. QED BY <2>1, <2>2
<1>9. NameAgrees(s, nodes, pending \ {pos}, nm)
  BY <1>6, <1>7, <1>8, Zenon DEF NameAgrees
<1>10. QED BY <1>4, <1>9 DEF s, lb

\* Erasing a recorded position leaves that one position pending.
LEMMA UnrecordName ==
  ASSUME NEW iv \in Seq(Nat), NEW nodes \in Seq(Nodes), NEW nm \in Names,
         NEW pos \in Nat, pos + 1 \in DOMAIN nodes, NameOf[nodes[pos + 1]] = nm,
         NameAgrees(iv, nodes, {}, nm)
  PROVE  /\ RemoveAt(iv, CHOOSE k \in DOMAIN iv : iv[k] = pos) \in Seq(Nat)
         /\ NameAgrees(RemoveAt(iv, CHOOSE k \in DOMAIN iv : iv[k] = pos), nodes, {pos}, nm)
<1> DEFINE x == CHOOSE k \in DOMAIN iv : iv[k] = pos
           s == RemoveAt(iv, x)
<1>0. /\ Len(iv) \in Nat
      /\ DOMAIN iv = 1 .. Len(iv) /\ \A k \in DOMAIN iv : iv[k] \in Nat
  OBVIOUS
<1>1. \A j, k \in DOMAIN iv : j < k => iv[j] < iv[k]
  BY Zenon DEF NameAgrees
<1>2. \E k \in DOMAIN iv : iv[k] = pos
  <2>1. (pos + 1) - 1 \notin {} /\ (pos + 1) - 1 = pos
    OBVIOUS
  <2>2. \E k \in DOMAIN iv : iv[k] = (pos + 1) - 1
    BY <2>1, Zenon DEF NameAgrees
  <2>3. QED BY <2>1, <2>2
<1>3. x \in DOMAIN iv /\ iv[x] = pos
  BY <1>2
<1> HIDE DEF x
<1>4. IsRemove(Nat, iv, x, s)
  BY <1>0, <1>3, RemoveAtIn, Zenon
<1> HIDE DEF s
<1>5. /\ s \in Seq(Nat) /\ DOMAIN s = 1 .. Len(iv) - 1 /\ x \in Nat
      /\ \A j \in 1 .. Len(iv) - 1 : s[j] = IF j < x THEN iv[j] ELSE iv[j + 1]
  BY <1>0, <1>3, <1>4 DEF IsRemove
<1>6. ASSUME NEW j \in DOMAIN s, NEW k \in DOMAIN s, j < k PROVE s[j] < s[k]
  <2>0. j \in 1 .. Len(iv) - 1 /\ k \in 1 .. Len(iv) - 1
    BY <1>5
  <2>a. ASSUME NEW y \in 1 .. Len(iv) - 1
        PROVE  y \in DOMAIN iv /\ y + 1 \in DOMAIN iv
    <3>1. y \in 1 .. Len(iv) /\ y + 1 \in 1 .. Len(iv)
      BY <1>0
    <3>2. QED BY <3>1, <1>0
  <2>b. j < k + 1 /\ j + 1 < k + 1
    BY <2>0, <1>0, <1>6
  <2>1. /\ j \in DOMAIN iv /\ j + 1 \in DOMAIN iv /\ k \in DOMAIN iv /\ k + 1 \in DOMAIN iv
        /\ j < k + 1 /\ j + 1 < k + 1
    BY <2>0, <2>a, <2>b
  <2>2. iv[j] < iv[k] /\ iv[j] < iv[k + 1] /\ iv[j + 1] < iv[k + 1]
    BY <2>1, <1>1, <1>6
  <2>3. CASE j < x /\ k < x
    BY <2>0, <2>2, <2>3, <1>5
  <2>4. CASE j < x /\ ~ (k < x)
    BY <2>0, <2>2, <2>4, <1>5
  <2>5. CASE ~ (j < x)
    <3>1. ~ (k < x)
      BY <2>0, <2>5, <1>5, <1>6
    <3>2. s[j] = iv[j + 1] /\ s[k] = iv[k + 1]
      BY <2>0, <2>5, <3>1, <1>5
    <3>3. QED BY <2>2, <3>2
  <2>6. QED BY <2>3, <2>4, <2>5
<1>7. ASSUME NEW k \in DOMAIN s
      PROVE  s[k] + 1 \in DOMAIN nodes /\ s[k] \notin {pos} /\ NameOf[nodes[s[k] + 1]] = nm
  <2>0. k \in 1 .. Len(iv) - 1
    BY <1>5
  <2>1. \A y \in DOMAIN iv : iv[y] + 1 \in DOMAIN nodes /\ NameOf[nodes[iv[y] + 1]] = nm
    BY Zenon DEF NameAgrees
  <2>2. CASE k < x
    <3>1. s[k] = iv[k] /\ k \in DOMAIN iv
      BY <2>0, <2>2, <1>0, <1>5
    <3>2. iv[k] < iv[x]
      BY <3>1, <2>2, <1>1, <1>3
    <3>3. QED BY <3>1, <3>2, <2>1, <1>0, <1>3
  <2>3. CASE ~ (k < x)
    <3>a. s[k] = iv[k + 1]
      BY <2>0, <2>3, <1>5
    <3>b. k + 1 \in 1 .. Len(iv) /\ x < k + 1
      BY <2>0, <2>3, <1>0, <1>5
    <3>1. s[k] = iv[k + 1] /\ k + 1 \in DOMAIN iv /\ x < k + 1
      BY <3>a, <3>b, <1>0
    <3>2. iv[x] < iv[k + 1]
      BY <3>1, <1>1, <1>3
    <3>3. QED BY <3>1, <3>2, <2>1, <1>0, <1>3
  <2>4. QED BY <2>2, <2>3
<1>8. ASSUME NEW i \in DOMAIN nodes, NameOf[nodes[i]] = nm, i - 1 \notin {pos}
      PROVE  \E k \in DOMAIN s : s[k] = i - 1
  <2>1. PICK k \in DOMAIN iv : iv[k] = i - 1
    BY <1>8, Zenon DEF NameAgrees
  <2>2. k # x
    BY <2>1, <1>3, <1>8
  <2>3. CASE k < x
    <3>a. k \in 1 .. Len(iv) - 1
      BY <2>3, <1>0, <1>3
    <3>1. k \in DOMAIN s /\ s[k] = iv[k]
      BY <3>a, <2>3, <1>5
    <3>2. QED BY <3>1, <2>1
  <2>4. CASE x < k
    <3>a. k \in 1 .. Len(iv) /\ x \in 1 .. Len(iv)
      BY <1>0, <1>3
    <3>0. k - 1 \in 1 .. Len(iv) - 1 /\ ~ (k - 1 < x) /\ (k - 1) + 1 = k
      BY <2>4, <3>a, <1>0
    <3>1. k - 1 \in DOMAIN s /\ s[k - 1] = iv[k]
      BY <3>0, <1>5
    <3>2. QED BY <3>1, <2>1
  <2>5. QED BY <2>2, <2>3, <2>4, <1>0, <1>5
<1>9. NameAgrees(s, nodes, {pos}, nm)
  BY <1>6, <1>7, <1>8, Zenon DEF NameAgrees
<1>10. QED BY <1>5, <1>9 DEF s, x

\* A position of another name makes no difference.
LEMMA OtherName ==
  ASSUME NEW iv \in Seq(Nat), NEW nodes \in Seq(Nodes), NEW nm \in Names,
         NEW pending, NEW pos \in Nat, NameOf[nodes[pos + 1]] # nm,
         NameAgrees(iv, nodes, pending, nm)
  PROVE  /\ NameAgrees(iv, nodes, pending \ {pos}, nm)
         /\ NameAgrees(iv, nodes, pending \cup {pos}, nm)
<1>1. \A j, k \in DOMAIN iv : j < k => iv[j] < iv[k]
  BY Zenon DEF NameAgrees
<1>2. ASSUME NEW k \in DOMAIN iv
      PROVE  /\ iv[k] + 1 \in DOMAIN nodes /\ iv[k] \notin pending /\ iv[k] # pos
             /\ NameOf[nodes[iv[k] + 1]] = nm
  BY DEF NameAgrees
<1>3. ASSUME NEW i \in DOMAIN nodes, NameOf[nodes[i]] = nm, i - 1 \notin pending \ {pos}
      PROVE  \E k \in DOMAIN iv : iv[k] = i - 1
  <2>1. CASE i - 1 = pos
    <3>1. i = pos + 1
      BY <2>1
    <3>2. QED BY <3>1, <1>3
  <2>2. CASE i - 1 # pos
    BY <2>2, <1>3, Zenon DEF NameAgrees
  <2>3. QED BY <2>1, <2>2
<1>4. NameAgrees(iv, nodes, pending \ {pos}, nm)
  BY <1>1, <1>2, <1>3, Zenon DEF NameAgrees
<1>5. ASSUME NEW i \in DOMAIN nodes, NameOf[nodes[i]] = nm, i - 1 \notin pending \cup {pos}
      PROVE  \E k \in DOMAIN iv : iv[k] = i - 1
  BY <1>5, Zenon DEF NameAgrees
<1>6. NameAgrees(iv, nodes, pending \cup {pos}, nm)
  BY <1>1, <1>2, <1>5, Zenon DEF NameAgrees
<1>7. QED BY <1>4, <1>6

-----------------------------------------------------------------------------
(* The whole name index against the vector.                                *)

IxAgrees(ix, nodes, pending) ==
  /\ ix \in [Names -> Seq(Nat)]
  /\ \A nm \in Names : NameAgrees(ix[nm], nodes, pending, nm)

\* The same for the index of all names: recording a position makes it known, ...
LEMMA RecordIx ==
  ASSUME NEW ix, NEW nodes \in Seq(Nodes), NEW pending, NEW pos \in Nat, pos \in pending,
         pos + 1 \in DOMAIN nodes, IxAgrees(ix, nodes, pending)
  PROVE  IxAgrees(Record(ix, NameOf[nodes[pos + 1]], pos), nodes, pending \ {pos})
<1> DEFINE nm == NameOf[nodes[pos + 1]]
<1>0. nm \in Names \cup {NoName} /\ ix \in [Names -> Seq(Nat)]
  BY NodeTreeAssumption DEF IxAgrees
<1>1. CASE nm = NoName
  <2>1. \A m \in Names : NameAgrees(ix[m], nodes, pending \ {pos}, m)
    <3>1. SUFFICES ASSUME NEW m \in Names PROVE NameAgrees(ix[m], nodes, pending \ {pos}, m)
      OBVIOUS
    <3>2. NameAgrees(ix[m], nodes, pending, m) /\ ix[m] \in Seq(Nat) /\ nm # m
      BY <1>0, <1>1, NodeTreeAssumption DEF IxAgrees
    <3>3. QED BY <3>2, OtherName
  <2>2. QED BY <2>1, <1>0, <1>1 DEF IxAgrees, Record
<1>2. CASE nm # NoName
  <2> DEFINE iv == InsertAt(ix[nm], LowerBound(ix[nm], pos), pos)
             jx == [ix EXCEPT ![nm] = iv]
  <2>0. nm \in Names /\ ix[nm] \in Seq(Nat) /\ NameAgrees(ix[nm], nodes, pending, nm)
    BY <1>0, <1>2 DEF IxAgrees
  <2>1. iv \in Seq(Nat) /\ NameAgrees(iv, nodes, pending \ {pos}, nm)
    BY <2>0, RecordName
  <2>2. Record(ix, nm, pos) = jx
    BY <1>2 DEF Record
  <2> HIDE DEF iv
  <2>3. jx \in [Names -> Seq(Nat)] /\ jx[nm] = iv
    BY <2>0, <2>1, <1>0
  <2>4. ASSUME NEW m \in Names, m # nm PROVE NameAgrees(jx[m], nodes, pending \ {pos}, m)
    <3>1. jx[m] = ix[m] /\ ix[m] \in Seq(Nat)
      BY <2>4, <1>0
    <3>2. NameAgrees(ix[m], nodes, pending, m)
      BY DEF IxAgrees
    <3>3. QED BY <3>1, <3>2, <2>4, OtherName
  <2> HIDE DEF jx
  <2>5. \A m \in Names : NameAgrees(jx[m], nodes, pending \ {pos}, m)
    BY <2>1, <2>3, <2>4
  <2>6. QED BY <2>2, <2>3, <2>5 DEF IxAgrees
<1>3. QED BY <1>1, <1>2

\* ... forgetting it makes it pending, ...
LEMMA UnrecordIx ==
  ASSUME NEW ix, NEW nodes \in Seq(Nodes), NEW pos \in Nat,
         pos + 1 \in DOMAIN nodes, IxAgrees(ix, nodes, {})
  PROVE  IxAgrees(Unrecord(ix, NameOf[nodes[pos + 1]], pos), nodes, {pos})
<1> DEFINE nm == NameOf[nodes[pos + 1]]
<1>0. nm \in Names \cup {NoName} /\ ix \in [Names -> Seq(Nat)] /\ {} \cup {pos} = {pos}
  BY NodeTreeAssumption DEF IxAgrees
<1>a. ASSUME NEW m \in Names, m # nm PROVE NameAgrees(ix[m], nodes, {pos}, m)
  <2>1. NameAgrees(ix[m], nodes, {}, m) /\ ix[m] \in Seq(Nat)
    BY <1>0 DEF IxAgrees
  <2>2. NameAgrees(ix[m], nodes, {} \cup {pos}, m)
    BY <2>1, <1>a, OtherName
  <2>3. QED BY <2>2, <1>0
<1>1. CASE nm = NoName
  <2>1. \A m \in Names : NameAgrees(ix[m], nodes, {pos}, m)
    BY <1>a, <1>1, NodeTreeAssumption
  <2>2. QED BY <2>1, <1>0, <1>1 DEF IxAgrees, Unrecord
<1>2. CASE nm # NoName
  <2> DEFINE iv == RemoveAt(ix[nm], CHOOSE k \in DOMAIN ix[nm] : ix[nm][k] = pos)
             jx == [ix EXCEPT ![nm] = iv]
  <2>0. nm \in Names /\ ix[nm] \in Seq(Nat) /\ NameAgrees(ix[nm], nodes, {}, nm)
    BY <1>0, <1>2 DEF IxAgrees
  <2>1. iv \in Seq(Nat) /\ NameAgrees(iv, nodes, {pos}, nm)
    BY <2>0, UnrecordName
  <2>2. Unrecord(ix, nm, pos) = jx
    BY <1>2 DEF Unrecord
  <2> HIDE DEF iv
  <2>3. jx \in [Names -> Seq(Nat)] /\ jx[nm] = iv
    BY <2>0, <2>1, <1>0
  <2>4. ASSUME NEW m \in Names, m # nm PROVE NameAgrees(jx[m], nodes, {pos}, m)
    BY <2>4, <1>0, <1>a
  <2> HIDE DEF jx
  <2>5. \A m \in Names : NameAgrees(jx[m], nodes, {pos}, m)
    BY <2>1, <2>3, <2>4
  <2>6. QED BY <2>2, <2>3, <2>5 DEF IxAgrees
<1>3. QED BY <1>1, <1>2

\* ... a gap of L leaves L positions pending, ...
LEMMA WidenIx ==
  ASSUME NEW ix, NEW nodes \in Seq(Nodes), NEW w,
         NEW pos \in 0 .. Len(nodes), NEW L \in Nat, Spread(nodes, w, pos, L),
         IxAgrees(ix, nodes, {})
  PROVE  IxAgrees(Shift(ix, pos, L), w, pos .. pos + L - 1)
<1>1. ASSUME NEW nm \in Names
      PROVE  /\ ShiftSeq(ix[nm], pos, L) \in Seq(Nat)
             /\ NameAgrees(ShiftSeq(ix[nm], pos, L), w, pos .. pos + L - 1, nm)
  <2>1. ix[nm] \in Seq(Nat) /\ NameAgrees(ix[nm], nodes, {}, nm)
    BY DEF IxAgrees
  <2>2. QED BY <2>1, ShiftUp
<1>2. QED BY <1>1 DEF IxAgrees, Shift

\* ... and closing a pending slot leaves none.
LEMMA CloseIx ==
  ASSUME NEW ix, NEW nodes \in Seq(Nodes), NEW w,
         NEW pos \in 0 .. Len(nodes) - 1, Closed(nodes, w, pos),
         IxAgrees(ix, nodes, {pos})
  PROVE  IxAgrees(Shift(ix, pos, -1), w, {})
<1>1. ASSUME NEW nm \in Names
      PROVE  /\ ShiftSeq(ix[nm], pos, -1) \in Seq(Nat)
             /\ NameAgrees(ShiftSeq(ix[nm], pos, -1), w, {}, nm)
  <2>1. ix[nm] \in Seq(Nat) /\ NameAgrees(ix[nm], nodes, {pos}, nm)
    BY DEF IxAgrees
  <2>2. QED BY <2>1, ShiftDown
<1>2. QED BY <1>1 DEF IxAgrees, Shift

-----------------------------------------------------------------------------
(* The Children record.                                                    *)

\* Children records taken apart and put together.
LEMMA ChildrenParts ==
  ASSUME NEW ch
  PROVE  /\ ch \in Children => /\ ch.nodes \in Seq(Nodes) /\ Len(ch.nodes) \in Nat
                               /\ DOMAIN ch.nodes = 1 .. Len(ch.nodes)
                               /\ ch.indices \in [Names -> Seq(Nat)]
                               /\ ch = [nodes |-> ch.nodes, indices |-> ch.indices]
         /\ \A pending : ch \in Children /\ IndexAgrees(ch, pending)
                           => IxAgrees(ch.indices, ch.nodes, pending)
BY DEF Children, IndexAgrees, IxAgrees

LEMMA ChildrenMade ==
  ASSUME NEW nodes \in Seq(Nodes), NEW ix, NEW pending, IxAgrees(ix, nodes, pending)
  PROVE  /\ [nodes |-> nodes, indices |-> ix] \in Children
         /\ IndexAgrees([nodes |-> nodes, indices |-> ix], pending)
BY DEF Children, IndexAgrees, IxAgrees

IsWidened(ch, cs, pos, w) ==
  /\ w \in Children
  /\ Spread(ch.nodes, w.nodes, pos, Len(cs))
  /\ \A j \in 1 .. Len(cs) : w.nodes[pos + j] = cs[j]
  /\ IndexAgrees(w, pos .. pos + Len(cs) - 1)

\* Node::insert of a batch: the vector is widened, the index shifted.
LEMMA WidenedIn ==
  ASSUME NEW ch \in Children, IndexAgrees(ch, {}), NEW cs \in Seq(Nodes),
         NEW pos \in 0 .. Len(ch.nodes)
  PROVE  IsWidened(ch, cs, pos, Widened(ch, cs, pos))
<1> DEFINE nodes == ch.nodes
           a == SubSeq(nodes, 1, pos)
           b == SubSeq(nodes, pos + 1, Len(nodes))
           ac == a \o cs
           w == ac \o b
<1>0. /\ nodes \in Seq(Nodes) /\ Len(nodes) \in Nat /\ Len(cs) \in Nat /\ pos \in Nat
      /\ pos <= Len(nodes) /\ IxAgrees(ch.indices, nodes, {})
  BY ChildrenParts
<1> HIDE DEF nodes
<1>1. /\ a \in Seq(Nodes) /\ Len(a) = pos
      /\ \A j \in 1 .. pos : a[j] = nodes[j]
  BY <1>0, SubSeqIn
<1>2. /\ b \in Seq(Nodes) /\ Len(b) = Len(nodes) - pos
      /\ \A j \in 1 .. Len(nodes) - pos : b[j] = nodes[pos + j]
  BY <1>0, SubSeqIn
<1> HIDE DEF a, b
<1>3. /\ ac \in Seq(Nodes) /\ Len(ac) = pos + Len(cs)
      /\ \A j \in 1 .. pos + Len(cs) : ac[j] = IF j <= pos THEN a[j] ELSE cs[j - pos]
  BY <1>1, ConcatIn
<1> HIDE DEF ac
<1>4. /\ w \in Seq(Nodes) /\ Len(w) = Len(ac) + Len(b)
      /\ \A j \in 1 .. Len(ac) + Len(b) : w[j] = IF j <= Len(ac) THEN ac[j] ELSE b[j - Len(ac)]
  BY <1>2, <1>3, ConcatIn
<1> HIDE DEF w
<1>5. DOMAIN w = 1 .. Len(nodes) + Len(cs)
  BY <1>0, <1>2, <1>3, <1>4
<1>6. ASSUME NEW j \in 1 .. pos PROVE w[j] = nodes[j]
  <2>1. w[j] = ac[j]
    BY <1>0, <1>2, <1>3, <1>4
  <2>2. ac[j] = a[j]
    BY <1>0, <1>3
  <2>3. QED BY <2>1, <2>2, <1>1
<1>7. ASSUME NEW j \in 1 .. Len(cs) PROVE w[pos + j] = cs[j]
  <2>0. pos + j \in 1 .. Len(ac) + Len(b) /\ pos + j <= Len(ac)
    BY <1>0, <1>2, <1>3
  <2>1. w[pos + j] = ac[pos + j]
    BY <2>0, <1>4
  <2>2. ac[pos + j] = cs[j]
    BY <1>0, <1>3
  <2>3. QED BY <2>1, <2>2
<1>8. ASSUME NEW j \in pos + 1 .. Len(nodes) PROVE w[j + Len(cs)] = nodes[j]
  <2>0. /\ j + Len(cs) \in 1 .. Len(ac) + Len(b) /\ ~ (j + Len(cs) <= Len(ac))
        /\ j + Len(cs) - Len(ac) = j - pos
    BY <1>0, <1>2, <1>3
  <2> DEFINE m == j + Len(cs)
  <2>a. w[m] = b[m - Len(ac)]
    <3> HIDE DEF m
    <3>1. m \in 1 .. Len(ac) + Len(b) /\ ~ (m <= Len(ac))
      BY <2>0 DEF m
    <3>2. QED BY <3>1, <1>4
  <2>1. w[j + Len(cs)] = b[j - pos]
    BY <2>0, <2>a
  <2>2. b[j - pos] = nodes[j]
    BY <1>0, <1>2
  <2>3. QED BY <2>1, <2>2
<1>9. Spread(nodes, w, pos, Len(cs))
  BY <1>5, <1>6, <1>8 DEF Spread
<1>10. IxAgrees(Shift(ch.indices, pos, Len(cs)), w, pos .. pos + Len(cs) - 1)
  BY <1>0, <1>9, WidenIx
<1>11. Widened(ch, cs, pos) = [nodes |-> w, indices |-> Shift(ch.indices, pos, Len(cs))]
  BY DEF Widened, nodes, w, ac, a, b
<1> DEFINE r == [nodes |-> w, indices |-> Shift(ch.indices, pos, Len(cs))]
<1>12. r \in Children /\ IndexAgrees(r, pos .. pos + Len(cs) - 1) /\ r.nodes = w
  BY <1>4, <1>10, ChildrenMade
<1> HIDE DEF r
<1>13. IsWidened(ch, cs, pos, r)
  BY <1>7, <1>9, <1>12 DEF IsWidened, nodes
<1>14. QED BY <1>11, <1>13 DEF r

IsRecorded(ch, pending, pos, w) ==
  /\ w \in Children
  /\ w.nodes = ch.nodes
  /\ IndexAgrees(w, pending \ {pos})

\* Node::insert of a batch: one child of it is recorded.
LEMMA RecordedIn ==
  ASSUME NEW ch \in Children, NEW pending, IndexAgrees(ch, pending), NEW pos \in Nat,
         pos \in pending, pos + 1 \in DOMAIN ch.nodes
  PROVE  IsRecorded(ch, pending, pos,
                    [ch EXCEPT !.indices = Record(@, NameOf[ch.nodes[pos + 1]], pos)])
<1> DEFINE nodes == ch.nodes
           ix == Record(ch.indices, NameOf[nodes[pos + 1]], pos)
           r == [nodes |-> nodes, indices |-> ix]
<1>1. nodes \in Seq(Nodes) /\ IxAgrees(ch.indices, nodes, pending)
  BY ChildrenParts
<1>2. IxAgrees(ix, nodes, pending \ {pos})
  BY <1>1, RecordIx
<1>3. [ch EXCEPT !.indices = Record(@, NameOf[ch.nodes[pos + 1]], pos)] = r
  BY ChildrenParts DEF Children
<1> HIDE DEF ix
<1>4. r \in Children /\ IndexAgrees(r, pending \ {pos}) /\ r.nodes = nodes
  BY <1>1, <1>2, ChildrenMade
<1> HIDE DEF r
<1>5. IsRecorded(ch, pending, pos, r)
  BY <1>4 DEF IsRecorded
<1>6. QED BY <1>3, <1>5 DEF r, ix

\* Node::indexOf finds a child where it is.
LEMMA PositionIn ==
  ASSUME NEW ch \in Children, NEW c, Holds(ch, c)
  PROVE  /\ Position(ch, c) \in 0 .. Len(ch.nodes) - 1
         /\ ch.nodes[Position(ch, c) + 1] = c
         /\ Position(ch, c) \in Nat
         /\ Position(ch, c) + 1 \in DOMAIN ch.nodes
<1>0. DOMAIN ch.nodes = 1 .. Len(ch.nodes) /\ Len(ch.nodes) \in Nat
  BY ChildrenParts
<1>1. PICK i \in DOMAIN ch.nodes : ch.nodes[i] = c
  BY DEF Holds
<1>2. i - 1 \in 0 .. Len(ch.nodes) - 1 /\ (i - 1) + 1 = i
  BY <1>0
<1>3. \E k \in 0 .. Len(ch.nodes) - 1 : ch.nodes[k + 1] = c
  BY <1>1, <1>2
<1>4. Position(ch, c) \in 0 .. Len(ch.nodes) - 1 /\ ch.nodes[Position(ch, c) + 1] = c
  BY <1>3 DEF Position
<1>5. QED BY <1>0, <1>4

IsWithout(ch, c, w) ==
  /\ w \in Children
  /\ Closed(ch.nodes, w.nodes, Position(ch, c))
  /\ IndexAgrees(w, {})

\* Node::take: the child is unrecorded, the slot closed, the index shifted.
LEMMA WithoutIn ==
  ASSUME NEW ch \in Children, IndexAgrees(ch, {}), NEW c, Holds(ch, c)
  PROVE  IsWithout(ch, c, Without(ch, c))
<1> DEFINE nodes == ch.nodes
           pos == Position(ch, c)
           w == RemoveAt(nodes, pos + 1)
           ix == Shift(Unrecord(ch.indices, NameOf[c], pos), pos, -1)
           r == [nodes |-> w, indices |-> ix]
<1>0. /\ nodes \in Seq(Nodes) /\ Len(nodes) \in Nat /\ DOMAIN nodes = 1 .. Len(nodes)
      /\ IxAgrees(ch.indices, nodes, {})
  BY ChildrenParts
<1>1. pos \in 0 .. Len(nodes) - 1 /\ nodes[pos + 1] = c /\ pos \in Nat /\ pos + 1 \in DOMAIN nodes
  BY PositionIn
<1> HIDE DEF nodes, pos
<1>2. IsRemove(Nodes, nodes, pos + 1, w)
  BY <1>0, <1>1, RemoveAtIn
<1>3. IxAgrees(Unrecord(ch.indices, NameOf[c], pos), nodes, {pos})
  BY <1>0, <1>1, UnrecordIx
<1> HIDE DEF w
<1>4. /\ w \in Seq(Nodes) /\ Len(w) = Len(nodes) - 1
      /\ \A j \in 1 .. Len(nodes) - 1 : w[j] = IF j < pos + 1 THEN nodes[j] ELSE nodes[j + 1]
  BY <1>2 DEF IsRemove
<1>5. Closed(nodes, w, pos)
  <2>1. DOMAIN w = 1 .. Len(nodes) - 1
    BY <1>0, <1>4
  <2>2. ASSUME NEW j \in 1 .. pos PROVE w[j] = nodes[j]
    BY <1>0, <1>1, <1>4
  <2>3. ASSUME NEW j \in pos + 1 .. Len(nodes) - 1 PROVE w[j] = nodes[j + 1]
    BY <1>0, <1>1, <1>4
  <2>4. QED BY <2>1, <2>2, <2>3 DEF Closed
<1>6. IxAgrees(ix, w, {})
  BY <1>0, <1>1, <1>3, <1>5, CloseIx
<1>7. Without(ch, c) = r
  BY DEF Without, w, pos, nodes
<1> HIDE DEF ix
<1>8. r \in Children /\ IndexAgrees(r, {}) /\ r.nodes = w
  BY <1>4, <1>6, ChildrenMade
<1> HIDE DEF r
<1>9. IsWithout(ch, c, r)
  BY <1>5, <1>8 DEF IsWithout, nodes, pos
<1>10. QED BY <1>7, <1>9

-----------------------------------------------------------------------------
(* The tree: live nodes, parent links and Children records, with the       *)
(* positions P of node b that are not recorded yet.                        *)

NodeOK(lv, par, rec, p, P) ==
  /\ \A i, j \in DOMAIN rec.nodes : rec.nodes[i] = rec.nodes[j] => i = j
  /\ \A i \in DOMAIN rec.nodes : par[rec.nodes[i]] = IF i - 1 \in P THEN NULL ELSE p
  /\ \A c \in Nodes : par[c] = p => \E i \in DOMAIN rec.nodes : rec.nodes[i] = c
  /\ IndexAgrees(rec, P)
  /\ p \in lv => \A i \in DOMAIN rec.nodes : rec.nodes[i] \in lv
  /\ p \notin lv => rec = NoChildren

Tree(lv, par, ch, b, P) ==
  /\ lv \subseteq Nodes
  /\ par \in [Nodes -> Nodes \cup {NULL}]
  /\ ch \in [Nodes -> Children]
  /\ \A n \in lv : par[n] \in lv \cup {NULL}
  /\ \A n \in Nodes : n \notin lv => par[n] = NULL
  /\ \A p \in Nodes : NodeOK(lv, par, ch[p], p, IF p = b THEN P ELSE {})

\* Without unrecorded positions it does not matter whose they are not.
LEMMA TreeNone ==
  ASSUME NEW lv, NEW par, NEW ch, NEW b, Tree(lv, par, ch, b, {})
  PROVE  Tree(lv, par, ch, NULL, {})
BY DEF Tree

\* A node without children agrees with anything.
LEMMA NoChildrenOK == NoChildren \in Children /\ DOMAIN NoChildren.nodes = {}
  /\ \A P : IndexAgrees(NoChildren, P)
<1>1. NoChildren \in Children /\ NoChildren.nodes = <<>> /\ DOMAIN NoChildren.nodes = {}
  BY DEF NoChildren, Children
<1>2. \A nm \in Names : NoChildren.indices[nm] = <<>>
  BY DEF NoChildren
<1>3. ASSUME NEW P, NEW nm \in Names
      PROVE  NameAgrees(NoChildren.indices[nm], NoChildren.nodes, P, nm)
  BY <1>1, <1>2 DEF NameAgrees
<1>4. QED BY <1>1, <1>3 DEF IndexAgrees

\* What is left after an erase comes from another slot, in the same order.
LEMMA ClosedSlots ==
  ASSUME NEW nodes \in Seq(Nodes), NEW w, NEW pos \in 0 .. Len(nodes) - 1, Closed(nodes, w, pos)
  PROVE  /\ \A i \in DOMAIN w : \E j \in DOMAIN nodes :
              j # pos + 1 /\ w[i] = nodes[j] /\ j = IF i <= pos THEN i ELSE i + 1
         /\ \A j \in DOMAIN nodes : j # pos + 1 => \E i \in DOMAIN w : w[i] = nodes[j]
<1>0. /\ Len(nodes) \in Nat /\ DOMAIN nodes = 1 .. Len(nodes) /\ pos \in Nat /\ pos < Len(nodes)
      /\ DOMAIN w = 1 .. Len(nodes) - 1
  BY DEF Closed
<1>1. ASSUME NEW i \in DOMAIN w
      PROVE  \E j \in DOMAIN nodes :
               j # pos + 1 /\ w[i] = nodes[j] /\ j = IF i <= pos THEN i ELSE i + 1
  <2>0. i \in 1 .. Len(nodes) - 1
    BY <1>0
  <2>1. CASE i <= pos
    <3>1. i \in 1 .. pos /\ i \in 1 .. Len(nodes) /\ i # pos + 1
      BY <2>0, <2>1, <1>0
    <3>2. w[i] = nodes[i]
      BY <3>1 DEF Closed
    <3>3. QED BY <3>1, <3>2, <2>1, <1>0
  <2>2. CASE ~ (i <= pos)
    <3>1. i \in pos + 1 .. Len(nodes) - 1 /\ i + 1 \in 1 .. Len(nodes) /\ i + 1 # pos + 1
      BY <2>0, <2>2, <1>0
    <3>2. w[i] = nodes[i + 1]
      BY <3>1 DEF Closed
    <3>3. QED BY <3>1, <3>2, <2>2, <1>0
  <2>3. QED BY <2>1, <2>2
<1>2. ASSUME NEW j \in DOMAIN nodes, j # pos + 1
      PROVE  \E i \in DOMAIN w : w[i] = nodes[j]
  <2>0. j \in 1 .. Len(nodes)
    BY <1>0
  <2>1. CASE j <= pos
    <3>1. j \in 1 .. pos /\ j \in 1 .. Len(nodes) - 1
      BY <2>0, <2>1, <1>0
    <3>2. w[j] = nodes[j]
      BY <3>1 DEF Closed
    <3>3. QED BY <3>1, <3>2, <1>0
  <2>2. CASE ~ (j <= pos)
    <3>1. j - 1 \in pos + 1 .. Len(nodes) - 1 /\ j - 1 \in 1 .. Len(nodes) - 1 /\ (j - 1) + 1 = j
      BY <2>0, <2>2, <1>0, <1>2
    <3>2. w[j - 1] = nodes[j]
      BY <3>1 DEF Closed
    <3>3. QED BY <3>1, <3>2, <1>0
  <2>3. QED BY <2>1, <2>2
<1>3. QED BY <1>1, <1>2

\* A child leaves its parent.
LEMMA DetachTree ==
  ASSUME NEW lv, NEW par, NEW ch, Tree(lv, par, ch, NULL, {}),
         NEW c \in Nodes, NEW p \in Nodes, par[c] = p
  PROVE  Tree(lv, [par EXCEPT ![c] = NULL], [ch EXCEPT ![p] = Without(@, c)], NULL, {})
<1> DEFINE parx == [par EXCEPT ![c] = NULL]
           w == Without(ch[p], c)
           chx == [ch EXCEPT ![p] = w]
           pos == Position(ch[p], c)
           nodes == ch[p].nodes
<1>0. /\ par \in [Nodes -> Nodes \cup {NULL}] /\ ch \in [Nodes -> Children] /\ lv \subseteq Nodes
      /\ \A q \in Nodes : NodeOK(lv, par, ch[q], q, {})
      /\ \A n \in lv : par[n] \in lv \cup {NULL}
      /\ \A n \in Nodes : n \notin lv => par[n] = NULL
  BY DEF Tree
<1>1. ch[p] \in Children /\ IndexAgrees(ch[p], {}) /\ Holds(ch[p], c) /\ p \in lv
  BY <1>0, NodeTreeAssumption DEF NodeOK, Holds
<1>2. IsWithout(ch[p], c, w)
  BY <1>1, WithoutIn
<1>3. /\ pos \in 0 .. Len(nodes) - 1 /\ nodes[pos + 1] = c /\ pos + 1 \in DOMAIN nodes
      /\ nodes \in Seq(Nodes)
  BY <1>1, PositionIn, ChildrenParts
<1> HIDE DEF w
<1>4. /\ chx \in [Nodes -> Children] /\ parx \in [Nodes -> Nodes \cup {NULL}]
      /\ chx[p] = w /\ \A q \in Nodes : q # p => chx[q] = ch[q]
      /\ parx[c] = NULL /\ \A n \in Nodes : n # c => parx[n] = par[n]
  BY <1>0, <1>2 DEF IsWithout
<1> HIDE DEF parx, chx
<1>5. NodeOK(lv, parx, w, p, {})
  <2>0. Closed(nodes, w.nodes, pos) /\ IndexAgrees(w, {})
    BY <1>2 DEF IsWithout
  <2>1. \A i, j \in DOMAIN nodes : nodes[i] = nodes[j] => i = j
    BY <1>0 DEF NodeOK
  <2>2. \A i \in DOMAIN nodes : par[nodes[i]] = p /\ nodes[i] \in lv /\ nodes[i] \in Nodes
    BY <1>0, <1>1 DEF NodeOK
  <2>3. \A x \in Nodes : par[x] = p => \E i \in DOMAIN nodes : nodes[i] = x
    BY <1>0 DEF NodeOK
  <2> HIDE DEF nodes, pos
  <2>4. /\ \A i \in DOMAIN w.nodes : \E j \in DOMAIN nodes :
             j # pos + 1 /\ w.nodes[i] = nodes[j] /\ j = IF i <= pos THEN i ELSE i + 1
        /\ \A j \in DOMAIN nodes : j # pos + 1 => \E i \in DOMAIN w.nodes : w.nodes[i] = nodes[j]
    BY <2>0, <1>3, ClosedSlots
  <2>5. ASSUME NEW i \in DOMAIN w.nodes, NEW j \in DOMAIN w.nodes, w.nodes[i] = w.nodes[j]
        PROVE  i = j
    <3>0. i \in Nat /\ j \in Nat /\ pos \in Nat
      BY <2>0, <1>3 DEF Closed
    <3>1. PICK i1 \in DOMAIN nodes : w.nodes[i] = nodes[i1] /\ i1 = IF i <= pos THEN i ELSE i + 1
      BY <2>4
    <3>2. PICK j1 \in DOMAIN nodes : w.nodes[j] = nodes[j1] /\ j1 = IF j <= pos THEN j ELSE j + 1
      BY <2>4
    <3>3. i1 = j1
      BY <3>1, <3>2, <2>1, <2>5
    <3>4. QED BY <3>0, <3>1, <3>2, <3>3
  <2>6. ASSUME NEW i \in DOMAIN w.nodes PROVE parx[w.nodes[i]] = p /\ w.nodes[i] \in lv
    <3>1. PICK j \in DOMAIN nodes : j # pos + 1 /\ w.nodes[i] = nodes[j]
      BY <2>4
    <3>2. nodes[j] # c
      BY <3>1, <2>1, <1>3
    <3>3. QED BY <3>1, <3>2, <2>2, <1>4
  <2>7. ASSUME NEW x \in Nodes, parx[x] = p PROVE \E i \in DOMAIN w.nodes : w.nodes[i] = x
    <3>1. x # c /\ par[x] = p
      BY <2>7, <1>4, NodeTreeAssumption
    <3>2. PICK j \in DOMAIN nodes : nodes[j] = x
      BY <3>1, <2>3
    <3>3. j # pos + 1
      BY <3>1, <3>2, <1>3
    <3>4. QED BY <3>2, <3>3, <2>4
  <2>8. QED BY <2>0, <2>5, <2>6, <2>7, <1>1 DEF NodeOK
<1>6. ASSUME NEW q \in Nodes, q # p PROVE NodeOK(lv, parx, ch[q], q, {})
  <2>1. NodeOK(lv, par, ch[q], q, {}) /\ ch[q] \in Children
    BY <1>0
  <2>2. ASSUME NEW i \in DOMAIN ch[q].nodes
        PROVE  parx[ch[q].nodes[i]] = q
    <3>1. par[ch[q].nodes[i]] = q /\ ch[q].nodes[i] \in Nodes
      BY <2>1, ChildrenParts DEF NodeOK
    <3>2. ch[q].nodes[i] # c
      BY <3>1, <1>6
    <3>3. QED BY <3>1, <3>2, <1>4
  <2>3. ASSUME NEW x \in Nodes, parx[x] = q PROVE par[x] = q
    BY <2>3, <1>4, NodeTreeAssumption
  <2>4. QED BY <2>1, <2>2, <2>3 DEF NodeOK
<1>7. ASSUME NEW q \in Nodes PROVE NodeOK(lv, parx, chx[q], q, IF q = NULL THEN {} ELSE {})
  BY <1>4, <1>5, <1>6
<1>8. /\ \A n \in lv : parx[n] \in lv \cup {NULL}
      /\ \A n \in Nodes : n \notin lv => parx[n] = NULL
  BY <1>0, <1>4
<1>9. Tree(lv, parx, chx, NULL, {})
  BY <1>0, <1>4, <1>7, <1>8 DEF Tree
<1>10. QED BY <1>9 DEF parx, chx, w

\* A slot of a widened vector holds a new child or one from before.
Slots(nodes, cs, pos, w) ==
  /\ \A i \in DOMAIN w :
       \/ i - 1 \in pos .. pos + Len(cs) - 1 /\ i - pos \in DOMAIN cs /\ w[i] = cs[i - pos]
       \/ /\ i - 1 \notin pos .. pos + Len(cs) - 1
          /\ \E j \in DOMAIN nodes : w[i] = nodes[j] /\ i = IF j <= pos THEN j ELSE j + Len(cs)
  /\ \A j \in DOMAIN nodes : \E i \in DOMAIN w : w[i] = nodes[j]

\* After a batch is placed every slot is an old one or one of the batch.
LEMMA SpreadSlots ==
  ASSUME NEW nodes \in Seq(Nodes), NEW cs \in Seq(Nodes), NEW w,
         NEW pos \in 0 .. Len(nodes), Spread(nodes, w, pos, Len(cs)),
         \A j \in 1 .. Len(cs) : w[pos + j] = cs[j]
  PROVE  Slots(nodes, cs, pos, w)
<1> DEFINE L == Len(cs)
<1>0. /\ Len(nodes) \in Nat /\ DOMAIN nodes = 1 .. Len(nodes) /\ pos \in Nat /\ pos <= Len(nodes)
      /\ DOMAIN w = 1 .. Len(nodes) + L /\ L \in Nat /\ DOMAIN cs = 1 .. L
  BY DEF Spread
<1> HIDE DEF L
<1>a. /\ \A j \in 1 .. pos : w[j] = nodes[j]
      /\ \A j \in pos + 1 .. Len(nodes) : w[j + L] = nodes[j]
      /\ \A j \in 1 .. L : w[pos + j] = cs[j]
  BY DEF Spread, L
<1>1. ASSUME NEW i \in DOMAIN w
      PROVE  \/ i - 1 \in pos .. pos + L - 1 /\ i - pos \in DOMAIN cs /\ w[i] = cs[i - pos]
             \/ i - 1 \notin pos .. pos + L - 1
                /\ \E j \in DOMAIN nodes : w[i] = nodes[j] /\ i = IF j <= pos THEN j ELSE j + L
  <2>0. i \in 1 .. Len(nodes) + L /\ i \in Nat /\ 1 <= i /\ i <= Len(nodes) + L
    BY <1>0
  <2>1. CASE i <= pos
    <3>1. i \in 1 .. pos /\ i \in 1 .. Len(nodes) /\ i - 1 \notin pos .. pos + L - 1
      BY <2>0, <2>1, <1>0
    <3>2. QED BY <3>1, <2>1, <1>0, <1>a
  <2>2. CASE i > pos /\ i <= pos + L
    <3>a. i - pos \in 1 .. L
      BY <2>0, <2>2, <1>0
    <3>b. pos + (i - pos) = i /\ i - 1 \in pos .. pos + L - 1
      BY <2>0, <2>2, <1>0
    <3>1. i - pos \in 1 .. L /\ pos + (i - pos) = i /\ i - 1 \in pos .. pos + L - 1
      BY <3>a, <3>b
    <3>2. w[pos + (i - pos)] = cs[i - pos]
      BY <3>1, <1>a
    <3>3. QED BY <3>1, <3>2, <1>0
  <2>3. CASE i > pos + L
    <3>a. i - L \in pos + 1 .. Len(nodes) /\ i - L \in 1 .. Len(nodes)
      BY <2>0, <2>3, <1>0
    <3>b. i - 1 \notin pos .. pos + L - 1
      BY <2>0, <2>3, <1>0
    <3>c. (i - L) + L = i /\ ~ (i - L <= pos)
      BY <2>0, <2>3, <1>0
    <3>1. /\ i - L \in pos + 1 .. Len(nodes) /\ (i - L) + L = i /\ i - 1 \notin pos .. pos + L - 1
          /\ i - L \in 1 .. Len(nodes) /\ ~ (i - L <= pos)
      BY <3>a, <3>b, <3>c
    <3>2. w[(i - L) + L] = nodes[i - L]
      BY <3>1, <1>a
    <3>3. QED BY <3>1, <3>2, <1>0
  <2>4. QED BY <2>0, <2>1, <2>2, <2>3, <1>0
<1>2. ASSUME NEW j \in DOMAIN nodes PROVE \E i \in DOMAIN w : w[i] = nodes[j]
  <2>0. j \in 1 .. Len(nodes)
    BY <1>0
  <2>1. CASE j <= pos
    <3>1. j \in 1 .. pos /\ j \in 1 .. Len(nodes) + L
      BY <2>0, <2>1, <1>0
    <3>2. QED BY <3>1, <1>0, <1>a
  <2>2. CASE ~ (j <= pos)
    <3>1. j \in pos + 1 .. Len(nodes) /\ j + L \in 1 .. Len(nodes) + L
      BY <2>0, <2>2, <1>0
    <3>2. QED BY <3>1, <1>0, <1>a
  <2>3. QED BY <2>1, <2>2
<1>3. QED BY <1>1, <1>2 DEF L, Slots

\* A batch of detached nodes is placed in the vector, unrecorded.
LEMMA PlaceTree ==
  ASSUME NEW lv, NEW par, NEW ch, Tree(lv, par, ch, NULL, {}), NEW p \in lv,
         NEW cs \in Seq(Nodes), Distinct(cs),
         \A i \in DOMAIN cs : cs[i] \in lv /\ par[cs[i]] = NULL,
         NEW pos \in 0 .. Len(ch[p].nodes)
  PROVE  Tree(lv, par, [ch EXCEPT ![p] = Widened(@, cs, pos)], p, pos .. pos + Len(cs) - 1)
<1> DEFINE w == Widened(ch[p], cs, pos)
           chx == [ch EXCEPT ![p] = w]
           nodes == ch[p].nodes
           P == pos .. pos + Len(cs) - 1
<1>0. /\ par \in [Nodes -> Nodes \cup {NULL}] /\ ch \in [Nodes -> Children] /\ lv \subseteq Nodes
      /\ \A q \in Nodes : NodeOK(lv, par, ch[q], q, {})
      /\ \A n \in lv : par[n] \in lv \cup {NULL}
      /\ \A n \in Nodes : n \notin lv => par[n] = NULL
      /\ p \in Nodes
  BY DEF Tree
<1>1. /\ ch[p] \in Children /\ IndexAgrees(ch[p], {}) /\ nodes \in Seq(Nodes)
      /\ Len(nodes) \in Nat /\ DOMAIN nodes = 1 .. Len(nodes)
      /\ \A i, j \in DOMAIN nodes : nodes[i] = nodes[j] => i = j
      /\ \A i \in DOMAIN nodes : par[nodes[i]] = p /\ nodes[i] \in lv
      /\ \A c \in Nodes : par[c] = p => \E i \in DOMAIN nodes : nodes[i] = c
  BY <1>0, ChildrenParts DEF NodeOK
<1>2. IsWidened(ch[p], cs, pos, w)
  BY <1>1, WidenedIn
<1> HIDE DEF w
<1>3. /\ chx \in [Nodes -> Children] /\ chx[p] = w
      /\ \A q \in Nodes : q # p => chx[q] = ch[q]
  BY <1>0, <1>2 DEF IsWidened
<1> HIDE DEF chx, nodes
<1>4. /\ Spread(nodes, w.nodes, pos, Len(cs)) /\ \A j \in 1 .. Len(cs) : w.nodes[pos + j] = cs[j]
      /\ IndexAgrees(w, P) /\ pos \in 0 .. Len(nodes)
  BY <1>2 DEF IsWidened, nodes
<1>s. Slots(nodes, cs, pos, w.nodes)
  BY <1>1, <1>4, SpreadSlots
<1>5. /\ \A i \in DOMAIN w.nodes :
           \/ i - 1 \in P /\ i - pos \in DOMAIN cs /\ w.nodes[i] = cs[i - pos]
           \/ /\ i - 1 \notin P
              /\ \E j \in DOMAIN nodes : w.nodes[i] = nodes[j] /\ i = IF j <= pos THEN j ELSE j + Len(cs)
      /\ \A j \in DOMAIN nodes : \E i \in DOMAIN w.nodes : w.nodes[i] = nodes[j]
  BY <1>s DEF Slots
<1>6. NodeOK(lv, par, w, p, P)
  <2>0. DOMAIN w.nodes \subseteq Nat /\ pos \in Nat /\ Len(cs) \in Nat
    BY <1>1, <1>4 DEF Spread
  <2> HIDE DEF P
  <2>1. ASSUME NEW i \in DOMAIN w.nodes
        PROVE  par[w.nodes[i]] = (IF i - 1 \in P THEN NULL ELSE p) /\ w.nodes[i] \in lv
    BY <1>1, <1>5
  <2>2. ASSUME NEW i \in DOMAIN w.nodes, NEW j \in DOMAIN w.nodes, w.nodes[i] = w.nodes[j]
        PROVE  i = j
    <3>0. (i - 1 \in P) <=> (j - 1 \in P)
      BY <2>1, <2>2, <1>0, NodeTreeAssumption
    <3>1. CASE i - 1 \in P
      <4>1. i - pos \in DOMAIN cs /\ j - pos \in DOMAIN cs /\ cs[i - pos] = cs[j - pos]
        BY <1>5, <2>2, <3>0, <3>1
      <4>2. i - pos = j - pos
        BY <4>1 DEF Distinct
      <4>3. QED BY <4>2, <2>0
    <3>2. CASE i - 1 \notin P
      <4>1. PICK i1 \in DOMAIN nodes : w.nodes[i] = nodes[i1] /\ i = IF i1 <= pos THEN i1 ELSE i1 + Len(cs)
        BY <1>5, <3>2
      <4>2. PICK j1 \in DOMAIN nodes : w.nodes[j] = nodes[j1] /\ j = IF j1 <= pos THEN j1 ELSE j1 + Len(cs)
        BY <1>5, <3>0, <3>2
      <4>3. i1 = j1
        BY <4>1, <4>2, <2>2, <1>1
      <4>4. QED BY <4>1, <4>2, <4>3
    <3>3. QED BY <3>1, <3>2
  <2>3. ASSUME NEW x \in Nodes, par[x] = p PROVE \E i \in DOMAIN w.nodes : w.nodes[i] = x
    <3>1. PICK j \in DOMAIN nodes : nodes[j] = x
      BY <2>3, <1>1 DEF nodes
    <3>2. QED BY <3>1, <1>5
  <2>4. QED BY <1>4, <2>1, <2>2, <2>3 DEF NodeOK
<1>7. ASSUME NEW q \in Nodes PROVE NodeOK(lv, par, chx[q], q, IF q = p THEN P ELSE {})
  BY <1>0, <1>3, <1>6
<1>8. Tree(lv, par, chx, p, P)
  BY <1>0, <1>3, <1>7 DEF Tree
<1>9. QED BY <1>8 DEF chx, w

\* One node of it is recorded and gets its parent link.
LEMMA RecordTree ==
  ASSUME NEW lv, NEW par, NEW ch, NEW p \in lv, NEW P, Tree(lv, par, ch, p, P),
         NEW k \in Nat, k \in P, k + 1 \in DOMAIN ch[p].nodes,
         NEW c, c = ch[p].nodes[k + 1]
  PROVE  Tree(lv, [par EXCEPT ![c] = p],
              [ch EXCEPT ![p].indices = Record(@, NameOf[c], k)], p, P \ {k})
<1> DEFINE rec == ch[p]
           w == [rec EXCEPT !.indices = Record(@, NameOf[c], k)]
           chx == [ch EXCEPT ![p] = w]
           parx == [par EXCEPT ![c] = p]
<1>0. /\ par \in [Nodes -> Nodes \cup {NULL}] /\ ch \in [Nodes -> Children] /\ lv \subseteq Nodes
      /\ \A q \in Nodes : NodeOK(lv, par, ch[q], q, IF q = p THEN P ELSE {})
      /\ \A n \in lv : par[n] \in lv \cup {NULL}
      /\ \A n \in Nodes : n \notin lv => par[n] = NULL
      /\ p \in Nodes
  BY DEF Tree
<1>a. NodeOK(lv, par, rec, p, P)
  BY <1>0
<1>1. /\ rec \in Children /\ IndexAgrees(rec, P) /\ DOMAIN rec.nodes = 1 .. Len(rec.nodes)
      /\ \A i, j \in DOMAIN rec.nodes : rec.nodes[i] = rec.nodes[j] => i = j
      /\ \A i \in DOMAIN rec.nodes : par[rec.nodes[i]] = IF i - 1 \in P THEN NULL ELSE p
      /\ \A i \in DOMAIN rec.nodes : rec.nodes[i] \in lv
      /\ \A x \in Nodes : par[x] = p => \E i \in DOMAIN rec.nodes : rec.nodes[i] = x
  BY <1>0, <1>a, ChildrenParts DEF NodeOK
<1>2. IsRecorded(rec, P, k, w)
  BY <1>1, RecordedIn
<1>3. [ch EXCEPT ![p].indices = Record(@, NameOf[c], k)] = chx
  BY <1>0
<1> HIDE DEF w
<1>4. /\ chx \in [Nodes -> Children] /\ chx[p] = w /\ w.nodes = rec.nodes
      /\ \A q \in Nodes : q # p => chx[q] = ch[q]
  BY <1>0, <1>2 DEF IsRecorded
<1>5. /\ c \in lv /\ c \in Nodes /\ par[c] = NULL /\ (k + 1) - 1 = k
  BY <1>0, <1>1
<1>6. /\ parx \in [Nodes -> Nodes \cup {NULL}] /\ parx[c] = p
      /\ \A n \in Nodes : n # c => parx[n] = par[n]
  BY <1>0, <1>5
<1> HIDE DEF chx, parx, rec
<1>7. NodeOK(lv, parx, w, p, P \ {k})
  <2>1. ASSUME NEW i \in DOMAIN rec.nodes
        PROVE  parx[rec.nodes[i]] = IF i - 1 \in P \ {k} THEN NULL ELSE p
    <3>1. CASE i = k + 1
      <4>1. rec.nodes[i] = c /\ i - 1 = k
        BY <3>1 DEF rec
      <4>2. QED BY <4>1, <1>6
    <3>2. CASE i # k + 1
      <4>1. rec.nodes[i] # c /\ k + 1 \in DOMAIN rec.nodes /\ i - 1 # k
        BY <3>2, <1>1 DEF rec
      <4>2. QED BY <4>1, <1>0, <1>1, <1>6
    <3>3. QED BY <3>1, <3>2
  <2>2. ASSUME NEW x \in Nodes, parx[x] = p PROVE \E i \in DOMAIN rec.nodes : rec.nodes[i] = x
    <3>1. CASE x = c
      BY <3>1 DEF rec
    <3>2. CASE x # c
      BY <3>2, <2>2, <1>1, <1>6
    <3>3. QED BY <3>1, <3>2
  <2>3. IndexAgrees(w, P \ {k})
    BY <1>2 DEF IsRecorded
  <2>4. QED BY <2>1, <2>2, <2>3, <1>1, <1>4 DEF NodeOK
<1>8. ASSUME NEW q \in Nodes, q # p PROVE NodeOK(lv, parx, ch[q], q, {})
  <2>1. NodeOK(lv, par, ch[q], q, {}) /\ ch[q] \in Children
    BY <1>0, <1>8
  <2>2. ASSUME NEW i \in DOMAIN ch[q].nodes PROVE parx[ch[q].nodes[i]] = q
    <3>1. par[ch[q].nodes[i]] = q /\ ch[q].nodes[i] \in Nodes
      BY <2>1, ChildrenParts DEF NodeOK
    <3>2. ch[q].nodes[i] # c
      BY <3>1, <1>5, NodeTreeAssumption
    <3>3. QED BY <3>1, <3>2, <1>6
  <2>3. ASSUME NEW x \in Nodes, parx[x] = q PROVE par[x] = q
    BY <2>3, <1>6, <1>8
  <2>4. QED BY <2>1, <2>2, <2>3 DEF NodeOK
<1>9. ASSUME NEW q \in Nodes
      PROVE  NodeOK(lv, parx, chx[q], q, IF q = p THEN P \ {k} ELSE {})
  BY <1>4, <1>7, <1>8
<1>10. /\ \A n \in lv : parx[n] \in lv \cup {NULL}
       /\ \A n \in Nodes : n \notin lv => parx[n] = NULL
  BY <1>0, <1>5, <1>6
<1>11. Tree(lv, parx, chx, p, P \ {k})
  BY <1>0, <1>4, <1>6, <1>9, <1>10 DEF Tree
<1>12. QED BY <1>3, <1>11 DEF parx

\* One detached node enters: the single insert.
LEMMA EnterTree ==
  ASSUME NEW lv, NEW par, NEW ch, Tree(lv, par, ch, NULL, {}), NEW p \in lv,
         NEW c \in lv, par[c] = NULL, NEW pos \in 0 .. Len(ch[p].nodes)
  PROVE  Tree(lv, [par EXCEPT ![c] = p], [ch EXCEPT ![p] = With(@, c, pos)], NULL, {})
<1> DEFINE cs == <<c>>
           w == Widened(ch[p], cs, pos)
           chx == [ch EXCEPT ![p] = w]
           chy == [chx EXCEPT ![p].indices = Record(@, NameOf[c], pos)]
<1>0. /\ ch \in [Nodes -> Children] /\ lv \subseteq Nodes /\ p \in Nodes /\ c \in Nodes
      /\ IndexAgrees(ch[p], {}) /\ ch[p] \in Children
  BY NodeTreeAssumption DEF Tree, NodeOK
<1>1. cs \in Seq(Nodes) /\ Len(cs) = 1 /\ DOMAIN cs = {1} /\ cs[1] = c
  BY <1>0
<1>2. Distinct(cs) /\ \A i \in DOMAIN cs : cs[i] \in lv /\ par[cs[i]] = NULL
  BY <1>1 DEF Distinct
<1>b. pos \in Nat /\ Len(ch[p].nodes) \in Nat
  BY <1>0, ChildrenParts
<1>3. pos .. pos + Len(cs) - 1 = {pos}
  BY <1>1, <1>b
<1> HIDE DEF cs
<1>4. Tree(lv, par, chx, p, {pos})
  <2>1. Tree(lv, par, [ch EXCEPT ![p] = Widened(@, cs, pos)], p, pos .. pos + Len(cs) - 1)
    BY <1>1, <1>2, PlaceTree
  <2>2. QED BY <2>1, <1>3
<1>5. IsWidened(ch[p], cs, pos, w)
  BY <1>0, <1>1, WidenedIn
<1> HIDE DEF w
<1>6. w.nodes[pos + 1] = c /\ pos + 1 \in DOMAIN w.nodes /\ w \in Children
  <2>1. w.nodes[pos + 1] = cs[1]
    BY <1>5, <1>1 DEF IsWidened
  <2>2. pos + 1 \in 1 .. Len(ch[p].nodes) + 1
    BY <1>b
  <2>3. QED BY <2>1, <2>2, <1>1, <1>5 DEF IsWidened, Spread
<1>7. chx[p] = w
  BY <1>0
<1>8. Tree(lv, [par EXCEPT ![c] = p], chy, p, {pos} \ {pos})
  <2> HIDE DEF chx
  <2>1. QED BY <1>4, <1>6, <1>7, <1>b, RecordTree
<1>9. chy = [ch EXCEPT ![p] = [w EXCEPT !.indices = Record(@, NameOf[c], pos)]]
  BY <1>0, <1>7
<1>10. With(ch[p], c, pos) = [w EXCEPT !.indices = Record(@, NameOf[c], pos)]
  BY DEF With, w, cs
<1>11. {pos} \ {pos} = {}
  OBVIOUS
<1> HIDE DEF chy
<1>12. Tree(lv, [par EXCEPT ![c] = p], chy, NULL, {})
  BY <1>8, <1>11, TreeNone
<1>13. QED BY <1>9, <1>10, <1>12

\* New nodes are nobody's child or parent.
LEMMA GrowTree ==
  ASSUME NEW lv, NEW par, NEW ch, Tree(lv, par, ch, NULL, {}), NEW X \in SUBSET Nodes
  PROVE  Tree(lv \cup X, par, ch, NULL, {})
<1>1. ASSUME NEW q \in Nodes PROVE NodeOK(lv \cup X, par, ch[q], q, {})
  <2>1. NodeOK(lv, par, ch[q], q, {})
    BY DEF Tree
  <2>2. CASE q \in lv
    BY <2>1, <2>2 DEF NodeOK
  <2>3. CASE q \notin lv
    <3>1. DOMAIN ch[q].nodes = {}
      BY <2>1, <2>3, NoChildrenOK DEF NodeOK
    <3>2. QED BY <2>1, <2>3, <3>1 DEF NodeOK
  <2>4. QED BY <2>2, <2>3
<1>2. QED BY <1>1 DEF Tree

\* Deleting a set of nodes closed downwards whose tops are parentless.
LEMMA EraseTree ==
  ASSUME NEW lv, NEW par, NEW ch, Tree(lv, par, ch, NULL, {}), NEW S \in SUBSET lv,
         \A x \in S : \A i \in DOMAIN ch[x].nodes : ch[x].nodes[i] \in S,
         \A x \in S : par[x] \in S \cup {NULL}
  PROVE  Tree(lv \ S, [m \in Nodes |-> IF m \in S THEN NULL ELSE par[m]],
              [m \in Nodes |-> IF m \in S THEN NoChildren ELSE ch[m]], NULL, {})
<1> DEFINE parx == [m \in Nodes |-> IF m \in S THEN NULL ELSE par[m]]
           chx == [m \in Nodes |-> IF m \in S THEN NoChildren ELSE ch[m]]
<1>0. /\ par \in [Nodes -> Nodes \cup {NULL}] /\ ch \in [Nodes -> Children] /\ lv \subseteq Nodes
      /\ \A q \in Nodes : NodeOK(lv, par, ch[q], q, {})
      /\ \A n \in lv : par[n] \in lv \cup {NULL}
      /\ \A n \in Nodes : n \notin lv => par[n] = NULL
  BY NodeTreeAssumption DEF Tree
<1>1. /\ parx \in [Nodes -> Nodes \cup {NULL}] /\ chx \in [Nodes -> Children]
      /\ \A m \in Nodes : parx[m] = IF m \in S THEN NULL ELSE par[m]
      /\ \A m \in Nodes : chx[m] = IF m \in S THEN NoChildren ELSE ch[m]
  BY <1>0, NoChildrenOK
<1> HIDE DEF parx, chx
<1>2. ASSUME NEW c \in Nodes, NEW q \in Nodes, par[c] = q
      PROVE  c \in S <=> q \in S
  <2>1. PICK i \in DOMAIN ch[q].nodes : ch[q].nodes[i] = c
    BY <1>0, <1>2 DEF NodeOK
  <2>2. q # NULL
    BY NodeTreeAssumption
  <2>3. QED BY <2>1, <2>2, <1>2
<1>3. ASSUME NEW q \in Nodes, q \in S PROVE NodeOK(lv \ S, parx, NoChildren, q, {})
  <2>1. ASSUME NEW c \in Nodes PROVE parx[c] # q
    <3>1. CASE c \in S
      BY <3>1, <1>1, NodeTreeAssumption
    <3>2. CASE c \notin S
      BY <3>2, <1>1, <1>2, <1>3
    <3>3. QED BY <3>1, <3>2
  <2>2. QED BY <2>1, <1>3, NoChildrenOK DEF NodeOK
<1>4. ASSUME NEW q \in Nodes, q \notin S PROVE NodeOK(lv \ S, parx, ch[q], q, {})
  <2>1. NodeOK(lv, par, ch[q], q, {}) /\ ch[q] \in Children
    BY <1>0
  <2>2. ASSUME NEW i \in DOMAIN ch[q].nodes
        PROVE  parx[ch[q].nodes[i]] = q /\ ch[q].nodes[i] \notin S
    <3>1. par[ch[q].nodes[i]] = q /\ ch[q].nodes[i] \in Nodes
      BY <2>1, ChildrenParts DEF NodeOK
    <3>2. ch[q].nodes[i] \notin S
      BY <3>1, <1>2, <1>4
    <3>3. QED BY <3>1, <3>2, <1>1
  <2>3. ASSUME NEW x \in Nodes, parx[x] = q PROVE par[x] = q
    BY <2>3, <1>1, NodeTreeAssumption
  <2>4. QED BY <2>1, <2>2, <2>3, <1>4 DEF NodeOK
<1>5. ASSUME NEW q \in Nodes PROVE NodeOK(lv \ S, parx, chx[q], q, IF q = NULL THEN {} ELSE {})
  <2>1. CASE q \in S
    <3>1. NodeOK(lv \ S, parx, NoChildren, q, {})
      BY <2>1, <1>3
    <3>2. chx[q] = NoChildren
      BY <2>1, <1>1
    <3>3. QED BY <3>1, <3>2
  <2>2. CASE q \notin S
    <3>1. NodeOK(lv \ S, parx, ch[q], q, {})
      BY <2>2, <1>4
    <3>2. chx[q] = ch[q]
      BY <2>2, <1>1
    <3>3. QED BY <3>1, <3>2
  <2>3. QED BY <2>1, <2>2
<1>6. ASSUME NEW n \in lv \ S PROVE parx[n] \in (lv \ S) \cup {NULL}
  <2>1. n \in Nodes /\ parx[n] = par[n] /\ par[n] \in lv \cup {NULL}
    BY <1>0, <1>1
  <2>2. CASE par[n] = NULL
    BY <2>1, <2>2
  <2>3. CASE par[n] # NULL
    <3>1. par[n] \in lv /\ par[n] \in Nodes
      BY <2>1, <2>3, <1>0
    <3>2. par[n] \notin S
      BY <3>1, <2>1, <1>2
    <3>3. QED BY <3>1, <3>2, <2>1
  <2>4. QED BY <2>2, <2>3
<1>7. ASSUME NEW n \in Nodes, n \notin lv \ S PROVE parx[n] = NULL
  BY <1>0, <1>1, <1>7
<1>8. Tree(lv \ S, parx, chx, NULL, {})
  BY <1>0, <1>1, <1>5, <1>6, <1>7 DEF Tree
<1>9. QED BY <1>8 DEF parx, chx

Orphaned(par, K) == [m \in Nodes |-> IF m \in K THEN NULL ELSE par[m]]

\* Emptying one node.
LEMMA ClearTree ==
  ASSUME NEW lv, NEW par, NEW ch, Tree(lv, par, ch, NULL, {}), NEW p \in lv,
         NEW K, \A x \in K : \E i \in DOMAIN ch[p].nodes : ch[p].nodes[i] = x,
         \A i \in DOMAIN ch[p].nodes : ch[p].nodes[i] \in K
  PROVE  Tree(lv, Orphaned(par, K), [ch EXCEPT ![p] = NoChildren], NULL, {})
<1> DEFINE parx == [m \in Nodes |-> IF m \in K THEN NULL ELSE par[m]]
           chx == [ch EXCEPT ![p] = NoChildren]
<1>0. /\ par \in [Nodes -> Nodes \cup {NULL}] /\ ch \in [Nodes -> Children] /\ lv \subseteq Nodes
      /\ \A q \in Nodes : NodeOK(lv, par, ch[q], q, {})
      /\ \A n \in lv : par[n] \in lv \cup {NULL}
      /\ \A n \in Nodes : n \notin lv => par[n] = NULL
      /\ p \in Nodes
  BY NodeTreeAssumption DEF Tree
<1>1. /\ parx \in [Nodes -> Nodes \cup {NULL}] /\ chx \in [Nodes -> Children]
      /\ \A m \in Nodes : parx[m] = IF m \in K THEN NULL ELSE par[m]
      /\ chx[p] = NoChildren /\ \A q \in Nodes : q # p => chx[q] = ch[q]
  BY <1>0, NoChildrenOK
<1>2. /\ \A x \in Nodes : par[x] = p => x \in K
      /\ \A x \in K : par[x] = p
  BY <1>0 DEF NodeOK
<1> HIDE DEF parx, chx
<1>3. NodeOK(lv, parx, NoChildren, p, {})
  <2>1. ASSUME NEW c \in Nodes PROVE parx[c] # p
    BY <1>0, <1>1, <1>2, NodeTreeAssumption
  <2>2. QED BY <2>1, NoChildrenOK DEF NodeOK
<1>4. ASSUME NEW q \in Nodes, q # p PROVE NodeOK(lv, parx, ch[q], q, {})
  <2>1. NodeOK(lv, par, ch[q], q, {}) /\ ch[q] \in Children
    BY <1>0
  <2>2. ASSUME NEW i \in DOMAIN ch[q].nodes PROVE parx[ch[q].nodes[i]] = q
    <3>1. par[ch[q].nodes[i]] = q /\ ch[q].nodes[i] \in Nodes
      BY <2>1, ChildrenParts DEF NodeOK
    <3>2. ch[q].nodes[i] \notin K
      BY <3>1, <1>2, <1>4
    <3>3. QED BY <3>1, <3>2, <1>1
  <2>3. ASSUME NEW x \in Nodes, parx[x] = q PROVE par[x] = q
    BY <2>3, <1>1, NodeTreeAssumption
  <2>4. QED BY <2>1, <2>2, <2>3 DEF NodeOK
<1>5. ASSUME NEW q \in Nodes PROVE NodeOK(lv, parx, chx[q], q, IF q = NULL THEN {} ELSE {})
  BY <1>1, <1>3, <1>4
<1>6. /\ \A n \in lv : parx[n] \in lv \cup {NULL}
      /\ \A n \in Nodes : n \notin lv => parx[n] = NULL
  BY <1>0, <1>1
<1>7. Tree(lv, parx, chx, NULL, {})
  BY <1>0, <1>1, <1>5, <1>6 DEF Tree
<1>8. QED BY <1>7 DEF parx, chx, Orphaned

-----------------------------------------------------------------------------
(* The inductive invariant.  Beyond the properties it says what a batch in *)
(* progress relies on: its nodes are live and distinct, those already      *)
(* taken are parentless, and once placed they stand side by side.          *)

BusyType ==
  \/ busy = Idle
  \/ /\ busy \in [op : {"detach", "batch"}, at : Nodes, cs : Seq(Nodes), index : Int,
                  done : Nat, oi : Int]
     /\ busy.done <= Len(busy.cs)
  \/ busy \in [op : {"removeAll"}, at : Nodes, name : Names]

BusyOK ==
  /\ busy.op \in {"detach", "batch"} =>
       /\ busy.at \in live
       /\ Len(busy.cs) > 0
       /\ Distinct(busy.cs)
       /\ \A i \in DOMAIN busy.cs : busy.cs[i] \in live
  /\ busy.op = "detach" => \A i \in 1 .. busy.done : parent[busy.cs[i]] = NULL
  /\ busy.op = "batch" =>
       /\ busy.index \in Nat
       /\ busy.done < Len(busy.cs)
       /\ \A i \in DOMAIN busy.cs :
            /\ busy.index + i \in DOMAIN children[busy.at].nodes
            /\ children[busy.at].nodes[busy.index + i] = busy.cs[i]

At == IF busy.op = "batch" THEN busy.at ELSE NULL
Unrecorded == IF busy.op = "batch" THEN Pending(busy.at) ELSE {}

IInv == BusyType /\ BusyOK /\ Tree(live, parent, children, At, Unrecorded)

\* Between calls nothing is unrecorded, and back.
LEMMA UnlockedTree ==
  ASSUME IInv, busy.op # "batch"
  PROVE  Tree(live, parent, children, NULL, {})
BY DEF IInv, At, Unrecorded

\* What a call has to leave behind.
LEMMA Relock ==
  ASSUME Tree(live', parent', children', NULL, {}),
         busy' = Idle \/ busy' \in [op : {"removeAll"}, at : Nodes, name : Names]
  PROVE  IInv'
<1>1. BusyType' /\ (busy').op \in {"idle", "removeAll"}
  BY DEF BusyType, Idle
<1>2. BusyOK' /\ At' = NULL /\ Unrecorded' = {}
  BY <1>1 DEF BusyOK, At, Unrecorded
<1>3. QED BY <1>1, <1>2 DEF IInv

\* A call that may begin finds no batch in progress.
LEMMA UnlockedBusy ==
  ASSUME BusyType, Unlocked
  PROVE  busy = Idle \/ busy \in [op : {"removeAll"}, at : Nodes, name : Names]
BY DEF BusyType, Unlocked, Idle

\* Subtree holds the children of its members and nobody else's.
LEMMA SubtreeIn ==
  ASSUME Tree(live, parent, children, NULL, {}), NEW n \in live
  PROVE  /\ n \in Subtree(n) /\ Subtree(n) \subseteq live
         /\ \A x \in Subtree(n) : ChildSet(x) \subseteq Subtree(n)
         /\ \A m \in Subtree(n) : m # n => parent[m] \in Subtree(n)
<1>0. /\ live \subseteq Nodes
      /\ \A x \in live : ChildSet(x) \subseteq live
      /\ \A x \in live : \A m \in ChildSet(x) : parent[m] = x
  BY NodeTreeAssumption DEF Tree, NodeOK, ChildSet
<1>1. Subtree(n) \subseteq live
  BY DEF Subtree
<1>2. n \in Subtree(n)
  BY DEF Subtree
<1>3. ASSUME NEW x \in Subtree(n), NEW m \in ChildSet(x)
      PROVE  m \in Subtree(n)
  <2>1. m \in live
    BY <1>0, <1>1
  <2>2. ASSUME NEW S \in SUBSET (live \ {m}), n \in S, \A y \in S : ChildSet(y) \subseteq S
        PROVE  FALSE
    <3>1. x \notin S
      BY <2>2, <1>3
    <3>2. S \in SUBSET (live \ {x})
      BY <3>1
    <3>3. QED BY <3>2, <2>2, <1>3 DEF Subtree
  <2>3. QED BY <2>1, <2>2 DEF Subtree
<1>4. ASSUME NEW m \in Subtree(n), m # n
      PROVE  parent[m] \in Subtree(n)
  <2> DEFINE S == Subtree(n) \ {m}
  <2>1. S \in SUBSET (live \ {m}) /\ n \in S
    BY <1>1, <1>2, <1>4
  <2>2. PICK x \in S : ~ (ChildSet(x) \subseteq S)
    BY <2>1, <1>4, Zenon DEF Subtree
  <2>3. m \in ChildSet(x)
    BY <2>2, <1>3
  <2>4. QED BY <2>2, <2>3, <1>0, <1>1
<1>5. QED BY <1>1, <1>2, <1>3, <1>4

-----------------------------------------------------------------------------
(* One lemma per action.                                                   *)

\* One lemma for each action.
LEMMA NewInv == ASSUME IInv, NEW n \in Nodes, New(n) PROVE IInv'
<1>1. Tree(live, parent, children, NULL, {})
  BY UnlockedTree DEF New, Unlocked
<1>2. Tree(live \cup {n}, parent, children, NULL, {})
  BY <1>1, GrowTree
<1>3. Tree(live', parent', children', NULL, {})
  BY <1>2 DEF New
<1>4. busy' = Idle \/ busy' \in [op : {"removeAll"}, at : Nodes, name : Names]
  BY UnlockedBusy DEF IInv, New
<1>5. QED BY <1>3, <1>4, Relock

LEMMA DeleteInv == ASSUME IInv, NEW n \in Nodes, Delete(n) PROVE IInv'
<1> DEFINE S == Subtree(n)
<1>1. Tree(live, parent, children, NULL, {})
  BY UnlockedTree DEF Delete, Unlocked
<1>2. /\ n \in S /\ S \in SUBSET live
      /\ \A x \in S : \A i \in DOMAIN children[x].nodes : children[x].nodes[i] \in S
      /\ \A m \in S : parent[m] \in S \cup {NULL}
  BY <1>1, SubtreeIn DEF Delete, ChildSet
<1>3. /\ live' = live \ S
      /\ parent' = [m \in Nodes |-> IF m \in S THEN NULL ELSE parent[m]]
      /\ children' = [m \in Nodes |-> IF m \in S THEN NoChildren ELSE children[m]]
      /\ busy' = busy
  BY DEF Delete
<1> HIDE DEF S
<1>4. Tree(live', parent', children', NULL, {})
  BY <1>1, <1>2, <1>3, EraseTree
<1>5. busy' = Idle \/ busy' \in [op : {"removeAll"}, at : Nodes, name : Names]
  BY <1>3, UnlockedBusy DEF IInv, Delete
<1>6. QED BY <1>4, <1>5, Relock

\* Leaving the old parent, if there is one.
LEMMA LeaveTree ==
  ASSUME Tree(live, parent, children, NULL, {}), NEW c \in Nodes
  PROVE  Tree(live, [parent EXCEPT ![c] = NULL], Detached(c), NULL, {})
<1>1. parent \in [Nodes -> Nodes \cup {NULL}]
  BY DEF Tree
<1>2. CASE parent[c] = NULL
  <2>1. [parent EXCEPT ![c] = NULL] = parent
    BY <1>1, <1>2
  <2>2. QED BY <2>1, <1>2 DEF Detached
<1>3. CASE parent[c] # NULL
  <2>1. parent[c] \in Nodes
    BY <1>1, <1>3
  <2>2. Tree(live, [parent EXCEPT ![c] = NULL], [children EXCEPT ![parent[c]] = Without(@, c)], NULL, {})
    BY <2>1, DetachTree
  <2>3. QED BY <2>2, <1>3 DEF Detached
<1>4. QED BY <1>2, <1>3

\* Node::insert of a single child, append of a new one, take.
LEMMA InsertInv ==
  ASSUME IInv, NEW p \in Nodes, NEW c \in Nodes, NEW index, Insert(p, c, index)
  PROVE  IInv'
<1> DEFINE base == Detached(c)
           parx == [parent EXCEPT ![c] = NULL]
           pos == Resolve(index, Len(base[p].nodes))
<1>1. Tree(live, parent, children, NULL, {}) /\ p \in live /\ c \in live
  BY UnlockedTree DEF Insert, Unlocked
<1>2. Tree(live, parx, base, NULL, {}) /\ parent \in [Nodes -> Nodes \cup {NULL}]
  BY <1>1, LeaveTree DEF Tree
<1>3. busy' = Idle \/ busy' \in [op : {"removeAll"}, at : Nodes, name : Names]
  BY UnlockedBusy DEF IInv, Insert
<1>4. live' = live /\ \/ /\ pos \in 0 .. Len(base[p].nodes) /\ Enter(base, p, c, pos)
                      \/ children' = base /\ parent' = parx
  BY DEF Insert
<1> HIDE DEF base
<1>5. CASE pos \in 0 .. Len(base[p].nodes) /\ Enter(base, p, c, pos)
  <2> HIDE DEF pos
  <2>1. parx[c] = NULL /\ [parx EXCEPT ![c] = p] = [parent EXCEPT ![c] = p]
    BY <1>2
  <2> HIDE DEF parx
  <2>2. Tree(live, [parx EXCEPT ![c] = p], [base EXCEPT ![p] = With(@, c, pos)], NULL, {})
    BY <1>1, <1>2, <1>5, <2>1, EnterTree
  <2>3. Tree(live', parent', children', NULL, {})
    BY <2>1, <2>2, <1>4, <1>5 DEF Enter
  <2>4. QED BY <2>3, <1>3, Relock
<1>6. CASE children' = base /\ parent' = parx
  <2>1. Tree(live', parent', children', NULL, {})
    BY <1>2, <1>4, <1>6
  <2>2. QED BY <2>1, <1>3, Relock
<1>7. QED BY <1>4, <1>5, <1>6

LEMMA AppendNewInv ==
  ASSUME IInv, NEW p \in Nodes, NEW c \in Nodes, AppendNew(p, c)
  PROVE  IInv'
<1> DEFINE pos == Len(children[p].nodes)
           lv == live \cup {c}
<1>1. Tree(live, parent, children, NULL, {}) /\ p \in live /\ c \notin live
  BY UnlockedTree DEF AppendNew, Unlocked
<1>2. Tree(lv, parent, children, NULL, {})
  BY <1>1, GrowTree
<1>3. parent[c] = NULL /\ children[p] \in Children
  BY <1>1 DEF Tree
<1>4. pos \in 0 .. Len(children[p].nodes)
  BY <1>3, ChildrenParts
<1>5. busy' = Idle \/ busy' \in [op : {"removeAll"}, at : Nodes, name : Names]
  BY UnlockedBusy DEF IInv, AppendNew
<1>6. p \in lv /\ c \in lv
  BY <1>1
<1>7. /\ live' = lv /\ parent' = [parent EXCEPT ![c] = p]
      /\ children' = [children EXCEPT ![p] = With(@, c, pos)]
  BY DEF AppendNew, Enter
<1> HIDE DEF pos, lv
<1>8. Tree(live', parent', children', NULL, {})
  BY <1>2, <1>3, <1>4, <1>6, <1>7, EnterTree
<1>9. QED BY <1>5, <1>8, Relock

LEMMA TakeInv ==
  ASSUME IInv, NEW p \in Nodes, NEW c \in Nodes, Take(p, c)
  PROVE  IInv'
<1>1. Tree(live, parent, children, NULL, {})
  BY UnlockedTree DEF Take, Unlocked
<1>2. parent[c] = p
  BY <1>1 DEF Take, Holds, Tree, NodeOK
<1>3. Tree(live', parent', children', NULL, {})
  BY <1>1, <1>2, DetachTree DEF Take
<1>4. busy' = Idle \/ busy' \in [op : {"removeAll"}, at : Nodes, name : Names]
  BY UnlockedBusy DEF IInv, Take
<1>5. QED BY <1>3, <1>4, Relock

\* Node::remove: taken, then deleted with its subtree.
LEMMA TakeAndDeleteTree ==
  ASSUME Tree(live, parent, children, NULL, {}), NEW p \in Nodes, NEW c \in Nodes,
         Holds(children[p], c), TakeAndDelete(p, c)
  PROVE  Tree(live', parent', children', NULL, {})
<1> DEFINE S == Subtree(c)
           parx == [parent EXCEPT ![c] = NULL]
           chx == [children EXCEPT ![p] = Without(@, c)]
<1>1. /\ parent[c] = p /\ p \in live /\ c \in live
      /\ parent \in [Nodes -> Nodes \cup {NULL}] /\ children \in [Nodes -> Children]
      /\ live \subseteq Nodes
  <2>1. parent[c] = p
    BY DEF Holds, Tree, NodeOK
  <2>2. p \in live /\ c \in live
    BY <2>1, NodeTreeAssumption DEF Tree
  <2>3. QED BY <2>1, <2>2 DEF Tree
<1>2. Tree(live, parx, chx, NULL, {})
  BY <1>1, DetachTree
<1>3. /\ c \in S /\ S \in SUBSET live
      /\ \A x \in S : \A i \in DOMAIN children[x].nodes : children[x].nodes[i] \in S
      /\ \A m \in S : m # c => parent[m] \in S
  BY <1>1, SubtreeIn DEF ChildSet
<1>4. /\ live' = live \ S
      /\ parent' = [n \in Nodes |-> IF n \in S THEN NULL ELSE parent[n]]
      /\ children' = [n \in Nodes |-> IF n \in S THEN NoChildren
                                      ELSE IF n = p THEN Without(children[p], c)
                                      ELSE children[n]]
  BY DEF TakeAndDelete
<1> HIDE DEF S
<1>5. \A x \in S : parx[x] \in S \cup {NULL}
  BY <1>1, <1>3
<1>6. ASSUME NEW x \in S PROVE \A i \in DOMAIN chx[x].nodes : chx[x].nodes[i] \in S
  <2>1. x \in Nodes
    BY <1>1, <1>3
  <2>2. CASE x # p
    <3>1. chx[x] = children[x]
      BY <2>1, <2>2, <1>1
    <3>2. QED BY <3>1, <1>3
  <2>3. CASE x = p
    <3>1. chx[x] = Without(children[p], c)
      BY <2>3, <1>1
    <3>2. IsWithout(children[p], c, Without(children[p], c))
      BY <1>1, WithoutIn DEF Tree, NodeOK
    <3>3. Closed(children[p].nodes, chx[x].nodes, Position(children[p], c))
      BY <3>1, <3>2 DEF IsWithout
    <3>4. /\ Position(children[p], c) \in 0 .. Len(children[p].nodes) - 1
          /\ children[p].nodes \in Seq(Nodes)
      BY <1>1, PositionIn, ChildrenParts
    <3>5. \A i \in DOMAIN chx[x].nodes : \E j \in DOMAIN children[p].nodes :
             chx[x].nodes[i] = children[p].nodes[j]
      <4> HIDE DEF chx
      <4>1. QED BY <3>3, <3>4, ClosedSlots
    <3>6. QED BY <3>5, <2>3, <1>3
  <2>4. QED BY <2>2, <2>3
<1> DEFINE pary == [m \in Nodes |-> IF m \in S THEN NULL ELSE parx[m]]
           chy == [m \in Nodes |-> IF m \in S THEN NoChildren ELSE chx[m]]
<1>7. parent' = pary
  BY <1>1, <1>3, <1>4
<1>8. children' = chy
  BY <1>1, <1>4
<1> HIDE DEF chx, parx
<1>9. Tree(live \ S, pary, chy, NULL, {})
  BY <1>2, <1>3, <1>5, <1>6, EraseTree
<1>10. QED BY <1>4, <1>7, <1>8, <1>9

LEMMA RemoveChildInv ==
  ASSUME IInv, NEW p \in Nodes, NEW c \in Nodes, RemoveChild(p, c)
  PROVE  IInv'
<1>1. Tree(live, parent, children, NULL, {})
  BY UnlockedTree DEF RemoveChild, Unlocked
<1>2. Tree(live', parent', children', NULL, {})
  BY <1>1, TakeAndDeleteTree DEF RemoveChild
<1>3. busy' = Idle \/ busy' \in [op : {"removeAll"}, at : Nodes, name : Names]
  BY UnlockedBusy DEF IInv, RemoveChild
<1>4. QED BY <1>2, <1>3, Relock

LEMMA RemoveNameInv ==
  ASSUME IInv, NEW p \in Nodes, NEW nm \in Names, RemoveName(p, nm)
  PROVE  IInv'
<1>1. Tree(live, parent, children, NULL, {})
  BY UnlockedTree DEF RemoveName, Idle
<1>2. Tree(live', parent', children', NULL, {})
  BY <1>1 DEF RemoveName
<1>3. busy' \in [op : {"removeAll"}, at : Nodes, name : Names]
  BY DEF RemoveName
<1>4. QED BY <1>2, <1>3, Relock

LEMMA RemoveNameRoundInv ==
  ASSUME IInv, RemoveNameRound
  PROVE  IInv'
<1> DEFINE p == busy.at
           c == AtKey(children[p], Key(busy.name, 0))
<1>1. Tree(live, parent, children, NULL, {})
  BY UnlockedTree DEF RemoveNameRound
<1>2. busy \in [op : {"removeAll"}, at : Nodes, name : Names] /\ p \in Nodes /\ busy.name \in Names
  BY DEF IInv, BusyType, Idle, RemoveNameRound
<1>3. CASE c # NULL
  <2>1. children[p] \in Children /\ IndexAgrees(children[p], {})
    BY <1>1, <1>2 DEF Tree, NodeOK
  <2> DEFINE iv == children[p].indices[busy.name]
             nodes == children[p].nodes
  <2>2. c = nodes[iv[1] + 1] /\ 0 < Len(iv)
    BY <1>2, <1>3, NodeTreeAssumption DEF AtKey, Key
  <2>3. iv \in Seq(Nat) /\ 1 \in DOMAIN iv
    BY <2>1, <2>2, <1>2, ChildrenParts
  <2>4. iv[1] + 1 \in DOMAIN nodes
    BY <2>1, <2>3, <1>2 DEF IndexAgrees, NameAgrees
  <2>5. Holds(children[p], c) /\ c \in Nodes
    BY <2>1, <2>2, <2>4, ChildrenParts DEF Holds
  <2>6. TakeAndDelete(p, c) /\ busy' = busy
    BY <1>3 DEF RemoveNameRound
  <2> HIDE DEF c, p
  <2>7. Tree(live', parent', children', NULL, {})
    BY <1>1, <1>2, <2>5, <2>6, TakeAndDeleteTree
  <2>8. QED BY <2>6, <2>7, <1>2, Relock
<1>4. CASE c = NULL
  <2>1. busy' = Idle /\ live' = live /\ parent' = parent /\ children' = children
    BY <1>4 DEF RemoveNameRound
  <2>2. Tree(live', parent', children', NULL, {})
    BY <1>1, <2>1
  <2>3. QED BY <2>1, <2>2, Relock
<1>5. QED BY <1>3, <1>4

LEMMA ClearInv ==
  ASSUME IInv, NEW p \in Nodes, NEW autoDelete \in BOOLEAN, Clear(p, autoDelete)
  PROVE  IInv'
<1> DEFINE K == ChildSet(p)
           S == IF autoDelete THEN UNION {Subtree(c) : c \in K} ELSE {}
           parx == [m \in Nodes |-> IF m \in K THEN NULL ELSE parent[m]]
           chx == [children EXCEPT ![p] = NoChildren]
           pary == [m \in Nodes |-> IF m \in S THEN NULL ELSE parx[m]]
           chy == [m \in Nodes |-> IF m \in S THEN NoChildren ELSE chx[m]]
<1>1. /\ Tree(live, parent, children, NULL, {}) /\ p \in live /\ live \subseteq Nodes
      /\ parent \in [Nodes -> Nodes \cup {NULL}] /\ children \in [Nodes -> Children]
  BY UnlockedTree DEF Clear, Unlocked, Tree
<1>2. K \subseteq live
  BY <1>1 DEF Tree, NodeOK, ChildSet
<1>3. /\ S \in SUBSET live
      /\ \A x \in S : ChildSet(x) \subseteq S
      /\ \A m \in S : m \in K \/ parent[m] \in S
  BY <1>1, <1>2, SubtreeIn
<1>4. /\ live' = live \ S
      /\ parent' = [m \in Nodes |-> IF m \in S \cup K THEN NULL ELSE parent[m]]
      /\ children' = [m \in Nodes |-> IF m \in S \cup {p} THEN NoChildren ELSE children[m]]
      /\ busy' = busy
  BY DEF Clear
<1>5. Tree(live, parx, chx, NULL, {})
  <2>1. /\ \A x \in K : \E i \in DOMAIN children[p].nodes : children[p].nodes[i] = x
        /\ \A i \in DOMAIN children[p].nodes : children[p].nodes[i] \in K
    BY DEF ChildSet
  <2> HIDE DEF K
  <2>2. Tree(live, Orphaned(parent, K), [children EXCEPT ![p] = NoChildren], NULL, {})
    BY <2>1, <1>1, ClearTree
  <2>3. QED BY <2>2 DEF Orphaned
<1> HIDE DEF S, K
<1>6. \A x \in S : parx[x] \in S \cup {NULL}
  BY <1>1, <1>3
<1>7. ASSUME NEW x \in S PROVE \A i \in DOMAIN chx[x].nodes : chx[x].nodes[i] \in S
  <2>1. CASE x = p
    <3>1. chx[x] = NoChildren
      BY <2>1, <1>1
    <3>2. QED BY <3>1, NoChildrenOK
  <2>2. CASE x # p
    <3>1. chx[x] = children[x]
      BY <2>2, <1>1, <1>3
    <3>2. QED BY <3>1, <1>3 DEF ChildSet
  <2>3. QED BY <2>1, <2>2
<1>8. parent' = pary
  BY <1>1, <1>4
<1>9. children' = chy
  BY <1>1, <1>4
<1> HIDE DEF parx, chx
<1>10. Tree(live \ S, pary, chy, NULL, {})
  BY <1>3, <1>5, <1>6, <1>7, EraseTree
<1>11. Tree(live', parent', children', NULL, {})
  BY <1>4, <1>8, <1>9, <1>10
<1>12. busy' = Idle \/ busy' \in [op : {"removeAll"}, at : Nodes, name : Names]
  BY <1>4, UnlockedBusy DEF IInv, Clear
<1>13. QED BY <1>11, <1>12, Relock

\* The four steps of a batch insert.
LEMMA StartBatchInv ==
  ASSUME IInv, NEW p \in Nodes, NEW cs, NEW n \in 1 .. MaxBatch, cs \in [1 .. n -> Nodes],
         NEW index \in Int, StartBatch(p, cs, index),
         NEW X \in SUBSET Nodes, live' = live \cup X, \A i \in DOMAIN cs : cs[i] \in live'
  PROVE  IInv'
<1>1. Tree(live, parent, children, NULL, {})
  BY UnlockedTree DEF StartBatch, Idle
<1>2. Tree(live \cup X, parent, children, NULL, {})
  BY <1>1, GrowTree
<1>3. Tree(live', parent', children', NULL, {})
  BY <1>2 DEF StartBatch
<1>4. cs \in Seq(Nodes) /\ Len(cs) = n /\ n \in Nat /\ n > 0
  BY SeqOfFunction, NodeTreeBounds
<1>5. busy' = [op |-> "detach", at |-> p, cs |-> cs, index |-> index, done |-> 0, oi |-> -1]
  BY DEF StartBatch
<1>6. BusyType'
  <2>1. /\ busy' \in [op : {"detach", "batch"}, at : Nodes, cs : Seq(Nodes), index : Int,
                      done : Nat, oi : Int]
        /\ (busy').done <= Len((busy').cs)
    BY <1>4, <1>5
  <2>2. QED BY <2>1 DEF BusyType
<1>7. BusyOK'
  <2>1. (busy').op = "detach" /\ (busy').at = p /\ (busy').cs = cs /\ (busy').done = 0
    BY <1>5
  <2>2. p \in live' /\ Distinct(cs)
    BY DEF StartBatch
  <2>3. QED BY <2>1, <2>2, <1>4 DEF BusyOK, Distinct
<1>8. At' = NULL /\ Unrecorded' = {}
  BY <1>5 DEF At, Unrecorded
<1>9. QED BY <1>3, <1>6, <1>7, <1>8 DEF IInv

LEMMA BatchDetachInv ==
  ASSUME IInv, BatchDetach
  PROVE  IInv'
<1> DEFINE c == busy.cs[busy.done + 1]
<1>1. /\ busy \in [op : {"detach", "batch"}, at : Nodes, cs : Seq(Nodes), index : Int,
                    done : Nat, oi : Int]
      /\ busy.op = "detach" /\ busy.done < Len(busy.cs) /\ busy.done \in Nat
      /\ busy.cs \in Seq(Nodes) /\ Len(busy.cs) \in Nat
      /\ DOMAIN busy.cs = 1 .. Len(busy.cs)
  BY DEF IInv, BusyType, Idle, BatchDetach
<1>2. Tree(live, parent, children, NULL, {})
  BY <1>1, UnlockedTree
<1>3. busy.done + 1 \in DOMAIN busy.cs /\ c \in Nodes
  BY <1>1
<1>4. /\ children' = Detached(c) /\ parent' = [parent EXCEPT ![c] = NULL] /\ live' = live
      /\ busy' = [busy EXCEPT !.done = @ + 1]
  BY DEF BatchDetach
<1>5. Tree(live', parent', children', NULL, {})
  BY <1>2, <1>3, <1>4, LeaveTree
<1>6. /\ (busy').op = "detach" /\ (busy').at = busy.at /\ (busy').cs = busy.cs
      /\ (busy').done = busy.done + 1
      /\ busy' \in [op : {"detach", "batch"}, at : Nodes, cs : Seq(Nodes), index : Int,
                     done : Nat, oi : Int]
  BY <1>1, <1>4
<1>7. BusyType'
  BY <1>1, <1>6 DEF BusyType
<1>8. BusyOK'
  <2>1. ASSUME NEW i \in 1 .. busy.done + 1 PROVE parent'[busy.cs[i]] = NULL
    <3>1. parent \in [Nodes -> Nodes \cup {NULL}] /\ busy.cs[i] \in Nodes
      BY <1>1, <1>2 DEF Tree
    <3>2. i = busy.done + 1 \/ i \in 1 .. busy.done
      BY <1>1
    <3>3. i \in 1 .. busy.done => parent[busy.cs[i]] = NULL
      BY <1>1 DEF IInv, BusyOK
    <3>4. QED BY <3>1, <3>2, <3>3, <1>4
  <2>2. /\ busy.at \in live /\ Len(busy.cs) > 0 /\ Distinct(busy.cs)
        /\ \A i \in DOMAIN busy.cs : busy.cs[i] \in live
    BY <1>1 DEF IInv, BusyOK
  <2>3. QED BY <2>1, <2>2, <1>4, <1>6 DEF BusyOK, Distinct
<1>9. At' = NULL /\ Unrecorded' = {}
  BY <1>6 DEF At, Unrecorded
<1>10. QED BY <1>5, <1>7, <1>8, <1>9 DEF IInv

LEMMA BatchPlaceInv ==
  ASSUME IInv, BatchPlace
  PROVE  IInv'
<1> DEFINE p == busy.at
           cs == busy.cs
           pos == Resolve(busy.index, Len(children[p].nodes))
<1>1. /\ busy \in [op : {"detach", "batch"}, at : Nodes, cs : Seq(Nodes), index : Int,
                    done : Nat, oi : Int]
      /\ busy.op = "detach" /\ busy.done = Len(cs)
      /\ cs \in Seq(Nodes) /\ Len(cs) \in Nat /\ DOMAIN cs = 1 .. Len(cs)
  BY DEF IInv, BusyType, Idle, BatchPlace
<1>2. Tree(live, parent, children, NULL, {})
  BY <1>1, UnlockedTree
<1>3. /\ p \in live /\ p \in Nodes /\ Len(cs) > 0 /\ Distinct(cs)
      /\ \A i \in DOMAIN cs : cs[i] \in live /\ parent[cs[i]] = NULL
  BY <1>1 DEF IInv, BusyOK
<1>4. live' = live /\ parent' = parent
  BY DEF BatchPlace
<1>5. CASE /\ pos \in 0 .. Len(children[p].nodes)
           /\ children' = [children EXCEPT ![p] = Widened(@, cs, pos)]
           /\ busy' = [busy EXCEPT !.op = "batch", !.index = pos, !.done = 0]
  <2> DEFINE w == Widened(children[p], cs, pos)
  <2>1. /\ (busy').op = "batch" /\ (busy').at = p /\ (busy').cs = cs /\ (busy').done = 0
        /\ (busy').index = pos
    BY <1>1, <1>5
  <2>2. pos \in Nat
    BY <1>5
  <2>3. /\ children[p] \in Children /\ IndexAgrees(children[p], {})
        /\ children \in [Nodes -> Children] /\ Len(children[p].nodes) \in Nat
    BY <1>2, <1>3, NodeTreeAssumption, ChildrenParts DEF Tree, NodeOK
  <2>a. busy' \in [op : {"detach", "batch"}, at : Nodes, cs : Seq(Nodes), index : Int,
                    done : Nat, oi : Int]
    <3>1. busy' = [busy EXCEPT !.op = "batch", !.index = pos, !.done = 0]
      BY <1>5
    <3> HIDE DEF pos
    <3>2. busy' = [op |-> "batch", at |-> busy.at, cs |-> busy.cs, index |-> pos,
                   done |-> 0, oi |-> busy.oi]
      BY <3>1, <1>1
    <3>3. busy.at \in Nodes /\ busy.cs \in Seq(Nodes) /\ pos \in Int /\ busy.oi \in Int
      BY <1>1, <2>2
    <3>4. QED BY <3>2, <3>3
  <2>b. pos \in 0 .. Len(children[p].nodes)
    BY <1>5
  <2> HIDE DEF pos
  <2>4. Tree(live, parent, [children EXCEPT ![p] = Widened(@, cs, pos)], p, pos .. pos + Len(cs) - 1)
    BY <1>1, <1>2, <1>3, <2>b, PlaceTree
  <2>5. At' = p /\ Unrecorded' = pos .. pos + Len(cs) - 1
    <3>1. Unrecorded' = {pos + i : i \in 0 .. Len(cs) - 1}
      BY <2>1 DEF Unrecorded, Pending
    <3>2. ASSUME NEW x \in pos .. pos + Len(cs) - 1
          PROVE  x \in {pos + i : i \in 0 .. Len(cs) - 1}
      <4>1. x - pos \in 0 .. Len(cs) - 1 /\ x = pos + (x - pos)
        BY <1>1, <2>2
      <4>2. QED BY <4>1
    <3>3. ASSUME NEW i \in 0 .. Len(cs) - 1
          PROVE  pos + i \in pos .. pos + Len(cs) - 1
      BY <1>1, <2>2
    <3>4. QED BY <2>1, <3>1, <3>2, <3>3 DEF At
  <2>6. Tree(live', parent', children', At', Unrecorded')
    BY <2>4, <2>5, <1>4, <1>5
  <2>7. IsWidened(children[p], cs, pos, w)
    BY <1>1, <2>3, <2>b, WidenedIn
  <2>8. children'[p] = w
    BY <1>3, <1>5, <2>3
  <2> HIDE DEF w
  <2>9. ASSUME NEW i \in DOMAIN cs
        PROVE  pos + i \in DOMAIN w.nodes /\ w.nodes[pos + i] = cs[i]
    <3>1. i \in 1 .. Len(cs)
      BY <1>1
    <3>2. w.nodes[pos + i] = cs[i]
      BY <3>1, <2>7 DEF IsWidened
    <3>3. DOMAIN w.nodes = 1 .. Len(children[p].nodes) + Len(cs)
      BY <2>7 DEF IsWidened, Spread
    <3>4. pos + i \in 1 .. Len(children[p].nodes) + Len(cs)
      BY <3>1, <1>1, <2>b, <2>2, <2>3
    <3>5. QED BY <3>2, <3>3, <3>4
  <2>10. BusyOK'
    BY <1>1, <1>3, <1>4, <2>1, <2>2, <2>8, <2>9 DEF BusyOK, Distinct
  <2>11. BusyType'
    BY <1>1, <2>1, <2>a DEF BusyType
  <2>12. QED BY <2>6, <2>10, <2>11 DEF IInv
<1>6. CASE busy' = Idle /\ children' = children
  <2>1. Tree(live', parent', children', NULL, {})
    BY <1>2, <1>4, <1>6
  <2>2. QED BY <2>1, <1>6, Relock
<1>7. QED BY <1>5, <1>6 DEF BatchPlace

LEMMA BatchRecordInv ==
  ASSUME IInv, BatchRecord
  PROVE  IInv'
<1> DEFINE p == busy.at
           cs == busy.cs
           d == busy.done
           c == cs[d + 1]
           k == busy.index + d
           oi == IF d = 0 THEN OverlapOf(children[p].indices, NameOf[c], k) ELSE busy.oi
           P == Pending(p)
           chx == [children EXCEPT ![p].indices = Record(@, NameOf[c], k)]
<1>1. /\ busy \in [op : {"detach", "batch"}, at : Nodes, cs : Seq(Nodes), index : Int,
                    done : Nat, oi : Int]
      /\ busy.op = "batch" /\ d \in Nat
      /\ cs \in Seq(Nodes) /\ Len(cs) \in Nat /\ DOMAIN cs = 1 .. Len(cs)
  BY DEF IInv, BusyType, Idle, BatchRecord
<1>2. /\ p \in live /\ Len(cs) > 0 /\ Distinct(cs) /\ \A i \in DOMAIN cs : cs[i] \in live
      /\ busy.index \in Nat /\ d < Len(cs)
      /\ \A i \in DOMAIN cs : /\ busy.index + i \in DOMAIN children[p].nodes
                              /\ children[p].nodes[busy.index + i] = cs[i]
  BY <1>1 DEF IInv, BusyOK
<1>3. P = {busy.index + i : i \in d .. Len(cs) - 1}
  BY <1>1 DEF Pending
<1>4. Tree(live, parent, children, p, P)
  BY <1>1 DEF IInv, At, Unrecorded
<1>5. k \in Nat /\ d + 1 \in DOMAIN cs /\ k + 1 = busy.index + (d + 1) /\ d \in d .. Len(cs) - 1
  BY <1>1, <1>2
<1>6. k \in P /\ k + 1 \in DOMAIN children[p].nodes /\ c = children[p].nodes[k + 1]
  <2>1. k \in P
    BY <1>3, <1>5
  <2> HIDE DEF k, P
  <2>2. /\ busy.index + (d + 1) \in DOMAIN children[p].nodes
        /\ children[p].nodes[busy.index + (d + 1)] = cs[d + 1]
    BY <1>2, <1>5
  <2>3. QED BY <2>1, <2>2, <1>5
<1>7. live' = live /\ parent' = [parent EXCEPT ![c] = p] /\ children' = chx
  BY DEF BatchRecord
<1> HIDE DEF P, c, k
<1>8. Tree(live', parent', children', p, P \ {k})
  BY <1>2, <1>4, <1>5, <1>6, <1>7, RecordTree
<1>9. P \ {k} = {busy.index + i : i \in d + 1 .. Len(cs) - 1}
  <2>1. ASSUME NEW i \in d .. Len(cs) - 1, busy.index + i # k PROVE i \in d + 1 .. Len(cs) - 1
    BY <2>1, <1>1, <1>2 DEF k
  <2>2. ASSUME NEW i \in d + 1 .. Len(cs) - 1
        PROVE  i \in d .. Len(cs) - 1 /\ busy.index + i # k
    BY <1>1, <1>2 DEF k
  <2>3. QED BY <2>1, <2>2, <1>3
<1>10. \A i \in DOMAIN cs : /\ busy.index + i \in DOMAIN children'[p].nodes
                            /\ children'[p].nodes[busy.index + i] = cs[i]
  <2>1. children'[p].nodes = children[p].nodes
    <3>1. p \in Nodes /\ children \in [Nodes -> Children]
      BY <1>2, <1>4 DEF Tree
    <3>2. children'[p] = [children[p] EXCEPT !.indices = Record(@, NameOf[c], k)]
      BY <3>1, <1>7
    <3>3. children[p] \in Children
      BY <3>1
    <3>4. QED BY <3>2, <3>3 DEF Children
  <2>2. QED BY <2>1, <1>2
<1>11. CASE d + 1 < Len(cs) /\ busy' = [busy EXCEPT !.done = @ + 1, !.oi = oi]
  <2>0. oi \in Int
    <3>1. CASE d = 0
      <4>1. children[p] \in Children /\ IndexAgrees(children[p], P)
        BY <1>2, <1>4 DEF Tree, NodeOK
      <4>2. CASE NameOf[c] = NoName
        BY <3>1, <4>2, <1>5 DEF OverlapOf
      <4>3. CASE NameOf[c] # NoName
        <5> DEFINE iv == children[p].indices[NameOf[c]]
        <5>1. c \in Nodes
          BY <1>1, <1>5 DEF c
        <5>2. NameOf[c] \in Names
          BY <5>1, <4>3, NodeTreeAssumption
        <5>3. iv \in Seq(Nat) /\ Ascending(iv) /\ Len(iv) \in Nat
          BY <4>1, <5>2, ChildrenParts DEF IndexAgrees, NameAgrees, Ascending
        <5> HIDE DEF iv
        <5>4. LowerBound(iv, k) \in 1 .. Len(iv) + 1
          BY <5>3, <1>5, LowerBoundIn
        <5>5. OverlapOf(children[p].indices, NameOf[c], k)
                = IF Len(iv) = 0 THEN -1 ELSE LowerBound(iv, k) - 1
          BY <4>3 DEF OverlapOf, iv
        <5>6. QED BY <3>1, <5>3, <5>4, <5>5
      <4>4. QED BY <4>2, <4>3
    <3>2. CASE d # 0
      BY <3>2, <1>1
    <3>3. QED BY <3>1, <3>2
  <2> HIDE DEF oi
  <2>1. /\ (busy').op = "batch" /\ (busy').at = p /\ (busy').cs = cs /\ (busy').done = d + 1
        /\ (busy').index = busy.index
        /\ busy' \in [op : {"detach", "batch"}, at : Nodes, cs : Seq(Nodes), index : Int,
                       done : Nat, oi : Int]
    <3>1. busy' = [op |-> "batch", at |-> p, cs |-> cs, index |-> busy.index,
                   done |-> d + 1, oi |-> oi]
      BY <1>1, <1>11
    <3>2. p \in Nodes /\ cs \in Seq(Nodes) /\ busy.index \in Int /\ d + 1 \in Nat
      BY <1>1
    <3>3. QED BY <3>1, <3>2, <2>0
  <2>2. BusyType'
    BY <1>1, <1>11, <2>1 DEF BusyType
  <2>3. BusyOK'
    BY <1>2, <1>7, <1>10, <1>11, <2>1 DEF BusyOK, Distinct
  <2>4. At' = p /\ Unrecorded' = P \ {k}
    BY <1>9, <2>1 DEF At, Unrecorded, Pending
  <2>5. QED BY <1>8, <2>2, <2>3, <2>4 DEF IInv
<1>12. CASE d + 1 = Len(cs) /\ busy' = Idle
  <2>1. P \ {k} = {}
    BY <1>9, <1>12, <1>1
  <2>2. Tree(live', parent', children', NULL, {})
    BY <2>1, <1>8, TreeNone
  <2>3. QED BY <2>2, <1>12, Relock
<1>13. QED BY <1>11, <1>12 DEF BatchRecord, c, k

-----------------------------------------------------------------------------
(* The theorems.                                                           *)

\* The invariant holds at first, is kept by every step, and so always holds.
LEMMA InitInv == Init => IInv
<1> SUFFICES ASSUME Init PROVE IInv
  OBVIOUS
<1>1. /\ live = {} /\ parent \in [Nodes -> Nodes \cup {NULL}] /\ \A n \in Nodes : parent[n] = NULL
      /\ children \in [Nodes -> Children] /\ \A n \in Nodes : children[n] = NoChildren
  BY NoChildrenOK DEF Init
<1>2. ASSUME NEW p \in Nodes PROVE NodeOK(live, parent, children[p], p, {})
  BY <1>1, NoChildrenOK, NodeTreeAssumption DEF NodeOK
<1>3. Tree(live, parent, children, NULL, {})
  BY <1>1, <1>2 DEF Tree
<1>4. busy = Idle /\ busy.op = "idle"
  BY DEF Init, Idle
<1>5. QED BY <1>3, <1>4 DEF IInv, BusyType, BusyOK, At, Unrecorded

LEMMA NextInv == IInv /\ [Next]_vars => IInv'
<1> SUFFICES ASSUME IInv, [Next]_vars PROVE IInv'
  OBVIOUS
<1>1. ASSUME NEW n \in Nodes, New(n) \/ Delete(n) PROVE IInv'
  BY <1>1, NewInv, DeleteInv
<1>2. ASSUME NEW p \in Nodes, NEW c \in Nodes, AppendNew(p, c) \/ Take(p, c) \/ RemoveChild(p, c)
      PROVE  IInv'
  BY <1>2, AppendNewInv, TakeInv, RemoveChildInv
<1>3. ASSUME NEW p \in Nodes, NEW c \in Nodes, NEW index \in IndexArgs, Insert(p, c, index)
      PROVE  IInv'
  BY <1>3, InsertInv
<1>4. ASSUME NEW p \in Nodes, NEW cs \in Batches, AppendBatch(p, cs) PROVE IInv'
  <2>1. PICK n \in 1 .. MaxBatch : cs \in [1 .. n -> Nodes]
    BY DEF Batches
  <2> DEFINE X == {cs[i] : i \in DOMAIN cs}
  <2>2. X \in SUBSET Nodes /\ live' = live \cup X /\ \A i \in DOMAIN cs : cs[i] \in live'
    BY <1>4, <2>1 DEF AppendBatch
  <2>3. StartBatch(p, cs, -1) /\ -1 \in Int
    BY <1>4 DEF AppendBatch
  <2> HIDE DEF X
  <2>4. QED BY <2>1, <2>2, <2>3, StartBatchInv
<1>5. ASSUME NEW p \in Nodes, NEW cs \in Batches, NEW index \in IndexArgs, InsertBatch(p, cs, index)
      PROVE  IInv'
  <2>1. PICK n \in 1 .. MaxBatch : cs \in [1 .. n -> Nodes]
    BY DEF Batches
  <2>2. {} \in SUBSET Nodes /\ live' = live \cup {} /\ \A i \in DOMAIN cs : cs[i] \in live'
    BY <1>5 DEF InsertBatch
  <2>3. StartBatch(p, cs, index) /\ index \in Int
    BY <1>5, NodeTreeBounds DEF InsertBatch
  <2>4. QED BY <2>1, <2>2, <2>3, StartBatchInv
<1>6. CASE BatchDetach \/ BatchPlace \/ BatchRecord
  BY <1>6, BatchDetachInv, BatchPlaceInv, BatchRecordInv
<1>7. ASSUME NEW p \in Nodes, NEW nm \in Names, RemoveName(p, nm) PROVE IInv'
  BY <1>7, RemoveNameInv
<1>8. CASE RemoveNameRound
  BY <1>8, RemoveNameRoundInv
<1>9. ASSUME NEW p \in Nodes, NEW autoDelete \in BOOLEAN, Clear(p, autoDelete) PROVE IInv'
  BY <1>9, ClearInv
<1>10. CASE UNCHANGED vars
  BY <1>10 DEF vars, IInv, BusyType, BusyOK, At, Unrecorded, Pending
<1>11. QED
  BY <1>1, <1>2, <1>3, <1>4, <1>5, <1>6, <1>7, <1>8, <1>9, <1>10 DEF Next

LEMMA Invariant == Spec => []IInv
<1>1. QED BY InitInv, NextInv, PTL DEF Spec

\* Every reachable state is a well-typed tree: positions in the name index
\* never go negative, batch records stay in range (Children, node.cpp).
THEOREM TypeCorrect == Spec => []TypeOK
<1>1. IInv => TypeOK
  BY DEF IInv, BusyType, Tree, TypeOK
<1>2. QED BY <1>1, Invariant, PTL

\* The structural invariant of the code's three parallel structures: child
\* vector, parent links and name index agree in every reachable state.
THEOREM StructureAgrees == Spec => []Structured
<1>1. ASSUME IInv, NEW p \in Nodes PROVE LinkedAt(p) /\ IndexAgrees(children[p], Pending(p))
  <2>1. Pending(p) = IF p = At THEN Unrecorded ELSE {}
    BY NodeTreeAssumption DEF Pending, At, Unrecorded
  <2>2. NodeOK(live, parent, children[p], p, Pending(p))
    BY <1>1, <2>1 DEF IInv, Tree
  <2>3. QED BY <2>2 DEF NodeOK, LinkedAt
<1>2. IInv => Structured
  BY <1>1 DEF Structured, Linked, Indexed
<1>3. QED BY <1>2, Invariant, PTL

\* No live node refers to a deleted one and a deleted node keeps nothing.
THEOREM NothingDangles == Spec => []NoDangling
<1>1. ASSUME IInv PROVE NoDangling
  BY <1>1 DEF IInv, Tree, NodeOK, NoDangling, ChildSet
<1>2. QED BY <1>1, Invariant, PTL

\* Node::keyOf and Node::atKey on one Children record: the key of a child finds it.
LEMMA KeyAddresses ==
  ASSUME NEW ch \in Children, IndexAgrees(ch, {}), NEW c \in Nodes, Holds(ch, c)
  PROVE  AtKey(ch, KeyIn(ch, c)) = c
<1> DEFINE pos == Position(ch, c)
           nm == NameOf[c]
           iv == ch.indices[nm]
<1>1. /\ pos \in Nat /\ ch.nodes[pos + 1] = c /\ pos + 1 \in DOMAIN ch.nodes
      /\ pos < Len(ch.nodes) /\ ~ (pos < 0)
  BY PositionIn, ChildrenParts
<1>2. CASE nm = NoName
  <2>1. KeyIn(ch, c) = Key(NoName, pos)
    BY <1>2 DEF KeyIn
  <2> HIDE DEF pos
  <2>2. AtKey(ch, Key(NoName, pos)) = ch.nodes[pos + 1]
    BY <1>1 DEF AtKey, Key
  <2>3. QED BY <2>1, <2>2, <1>1
<1>3. CASE nm # NoName
  <2>1. nm \in Names
    BY <1>3, NodeTreeAssumption
  <2>2. iv \in Seq(Nat) /\ Len(iv) \in Nat /\ DOMAIN iv = 1 .. Len(iv)
    BY <2>1, ChildrenParts
  <2>3. \E k \in DOMAIN iv : iv[k] = (pos + 1) - 1
    <3> HIDE DEF pos
    <3>1. (pos + 1) - 1 \notin {}
      OBVIOUS
    <3>2. QED BY <1>1, <2>1, <3>1, Zenon DEF IndexAgrees, NameAgrees
  <2>4. PICK k \in DOMAIN iv : iv[k] = pos
    BY <2>3, <1>1
  <2> DEFINE x == CHOOSE y \in DOMAIN iv : iv[y] = pos
  <2>5. x \in DOMAIN iv /\ iv[x] = pos
    BY <2>4
  <2>6. KeyIn(ch, c) = IF Len(iv) <= 1 THEN Key(nm, -1) ELSE Key(nm, x - 1)
    BY <1>3 DEF KeyIn
  <2> HIDE DEF x, pos
  <2>7. CASE Len(iv) <= 1
    <3>1. k = 1 /\ 0 < Len(iv)
      BY <2>2, <2>4, <2>7
    <3>2. AtKey(ch, Key(nm, -1)) = ch.nodes[iv[1] + 1]
      BY <3>1, <1>3 DEF AtKey, Key
    <3>3. QED BY <3>1, <3>2, <2>4, <2>6, <2>7, <1>1
  <2>8. CASE ~ (Len(iv) <= 1)
    <3>1. x - 1 < Len(iv) /\ ~ (x - 1 < 0) /\ (x - 1) + 1 = x
      BY <2>2, <2>5
    <3>2. AtKey(ch, Key(nm, x - 1)) = ch.nodes[iv[x] + 1]
      <4> DEFINE i == x - 1
      <4>1. AtKey(ch, Key(nm, i)) = IF i < Len(iv) THEN ch.nodes[iv[i + 1] + 1] ELSE NULL
        BY <1>3, <3>1 DEF AtKey, Key
      <4>2. QED BY <4>1, <3>1
    <3>3. QED BY <3>2, <2>5, <2>6, <2>8, <1>1
  <2>9. QED BY <2>7, <2>8
<1>4. QED BY <1>2, <1>3

\* keyOf and atKey are inverse: the key a parent reports for a child leads
\* back to that child, so two siblings never share a key.
THEOREM KeysAreAddresses == Spec => []KeysAddress
<1>1. ASSUME IInv, busy.op # "batch", NEW p \in live, NEW c \in ChildSet(p)
      PROVE  AtKey(children[p], KeyIn(children[p], c)) = c
  <2>1. Tree(live, parent, children, NULL, {}) /\ p \in Nodes
    BY <1>1, UnlockedTree DEF Tree
  <2>2. children[p] \in Children /\ IndexAgrees(children[p], {})
    BY <2>1, NodeTreeAssumption DEF Tree, NodeOK
  <2>3. Holds(children[p], c) /\ c \in Nodes
    BY <2>1, <2>2, ChildrenParts DEF Holds, ChildSet
  <2>4. QED BY <2>2, <2>3, KeyAddresses
<1>2. IInv => KeysAddress
  BY <1>1 DEF KeysAddress
<1>3. QED BY <1>2, Invariant, PTL

-----------------------------------------------------------------------------
(* What a call signals.  The key of NODE_ADDED is computed before the      *)
(* child is recorded - in a batch, before all the others are - and has to  *)
(* lead to it when it is signalled.                                        *)

\* A key with name nm and overlap oi leads to position pos.
Leads(ch, nm, oi, pos) ==
  IF nm = NoName THEN oi = pos
  ELSE LET k == (IF oi < 0 THEN 0 ELSE oi) + 1
       IN  k \in DOMAIN ch.indices[nm] /\ ch.indices[nm][k] = pos

\* Node::atKey follows it.
LEMMA LeadsThere ==
  ASSUME NEW ch \in Children, NEW nm \in Names \cup {NoName}, NEW oi \in Int, NEW pos \in Nat,
         pos + 1 \in DOMAIN ch.nodes, Leads(ch, nm, oi, pos)
  PROVE  AtKey(ch, Key(nm, oi)) = ch.nodes[pos + 1]
<1>1. DOMAIN ch.nodes = 1 .. Len(ch.nodes) /\ Len(ch.nodes) \in Nat
  BY ChildrenParts
<1>2. CASE nm = NoName
  <2>1. oi = pos /\ ~ (pos < 0) /\ pos < Len(ch.nodes)
    BY <1>1, <1>2 DEF Leads
  <2>2. QED BY <2>1, <1>2 DEF AtKey, Key
<1>3. CASE nm # NoName
  <2> DEFINE iv == ch.indices[nm]
             i == IF oi < 0 THEN 0 ELSE oi
  <2>1. iv \in Seq(Nat) /\ Len(iv) \in Nat /\ DOMAIN iv = 1 .. Len(iv)
    BY <1>3, ChildrenParts
  <2>2. i \in Nat
    OBVIOUS
  <2>3. i + 1 \in DOMAIN iv /\ iv[i + 1] = pos
    BY <1>3 DEF Leads
  <2>4. AtKey(ch, Key(nm, oi)) = IF i < Len(iv) THEN ch.nodes[iv[i + 1] + 1] ELSE NULL
    BY <1>3 DEF AtKey, Key
  <2> HIDE DEF i, iv
  <2>5. i < Len(iv)
    BY <2>1, <2>2, <2>3
  <2>6. QED BY <2>3, <2>4, <2>5
<1>4. QED BY <1>2, <1>3

Recorded(ch, c, pos) == [ch EXCEPT !.indices = Record(@, NameOf[c], pos)]

LEMMA RecordedIndices ==
  ASSUME NEW ch \in Children, NEW c \in Nodes, NEW pos
  PROVE  /\ Recorded(ch, c, pos).nodes = ch.nodes
         /\ \A nm \in Names :
              Recorded(ch, c, pos).indices[nm] =
                IF NameOf[c] = nm THEN InsertAt(ch.indices[nm], LowerBound(ch.indices[nm], pos), pos)
                ELSE ch.indices[nm]
<1>1. ch.indices \in [Names -> Seq(Nat)] /\ ch = [nodes |-> ch.nodes, indices |-> ch.indices]
  BY ChildrenParts
<1>2. Recorded(ch, c, pos) = [nodes |-> ch.nodes, indices |-> Record(ch.indices, NameOf[c], pos)]
  BY <1>1 DEF Recorded, Children
<1>3. ASSUME NEW nm \in Names
      PROVE  Record(ch.indices, NameOf[c], pos)[nm] =
                IF NameOf[c] = nm THEN InsertAt(ch.indices[nm], LowerBound(ch.indices[nm], pos), pos)
                ELSE ch.indices[nm]
  BY <1>1, NodeTreeAssumption DEF Record
<1>4. QED BY <1>2, <1>3

\* The overlap that insert computes before it records the child leads to it afterwards.
LEMMA RecordLeads ==
  ASSUME NEW ch \in Children, NEW pending, IndexAgrees(ch, pending), NEW c \in Nodes, NEW pos \in Nat
  PROVE  /\ OverlapOf(ch.indices, NameOf[c], pos) \in Int
         /\ Leads(Recorded(ch, c, pos), NameOf[c], OverlapOf(ch.indices, NameOf[c], pos), pos)
<1> DEFINE nm == NameOf[c]
           iv == ch.indices[nm]
           lb == LowerBound(iv, pos)
<1>1. CASE nm = NoName
  BY <1>1 DEF OverlapOf, Leads
<1>2. CASE nm # NoName
  <2>1. nm \in Names
    BY <1>2, NodeTreeAssumption
  <2>2. iv \in Seq(Nat) /\ Ascending(iv) /\ Len(iv) \in Nat
    BY <2>1, ChildrenParts DEF IndexAgrees, NameAgrees, Ascending
  <2>3. Recorded(ch, c, pos).indices[nm] = InsertAt(iv, lb, pos)
    BY <2>1, RecordedIndices
  <2>4. OverlapOf(ch.indices, nm, pos) = IF Len(iv) = 0 THEN -1 ELSE lb - 1
    BY <1>2 DEF OverlapOf
  <2> HIDE DEF iv
  <2>5. lb \in 1 .. Len(iv) + 1
    BY <2>2, LowerBoundIn
  <2> HIDE DEF lb
  <2>6. IsInsert(Nat, iv, lb, pos, InsertAt(iv, lb, pos))
    BY <2>2, <2>5, InsertAtIn
  <2> DEFINE r == InsertAt(iv, lb, pos)
  <2> HIDE DEF r
  <2>7. r \in Seq(Nat) /\ DOMAIN r = 1 .. Len(iv) + 1 /\ r[lb] = pos
    BY <2>2, <2>5, <2>6 DEF IsInsert, r
  <2> DEFINE oi == IF Len(iv) = 0 THEN -1 ELSE lb - 1
  <2>8. oi \in Int /\ (IF oi < 0 THEN 0 ELSE oi) + 1 = lb
    BY <2>2, <2>5
  <2> HIDE DEF oi
  <2>9. Leads(Recorded(ch, c, pos), nm, oi, pos)
    BY <1>2, <2>3, <2>5, <2>7, <2>8 DEF Leads, r
  <2>10. QED BY <2>4, <2>8, <2>9 DEF oi
<1>3. QED BY <1>1, <1>2

\* Recording a later position does not lead it astray.
LEMMA StillLeads ==
  ASSUME NEW ch \in Children, NEW pending, IndexAgrees(ch, pending), NEW c \in Nodes, NEW k \in Nat,
         NEW nm \in Names \cup {NoName}, NEW oi \in Int, NEW pos \in Nat, pos < k, Leads(ch, nm, oi, pos)
  PROVE  Leads(Recorded(ch, c, k), nm, oi, pos)
<1> DEFINE iv == ch.indices[nm]
           lb == LowerBound(iv, k)
           s == (IF oi < 0 THEN 0 ELSE oi) + 1
<1>1. CASE nm = NoName
  BY <1>1 DEF Leads
<1>2. CASE nm # NoName /\ NameOf[c] # nm
  <2>1. Recorded(ch, c, k).indices[nm] = iv
    BY <1>2, RecordedIndices
  <2>2. QED BY <1>2, <2>1 DEF Leads
<1>3. CASE nm # NoName /\ NameOf[c] = nm
  <2>1. iv \in Seq(Nat) /\ Ascending(iv) /\ Len(iv) \in Nat /\ DOMAIN iv = 1 .. Len(iv)
    BY <1>3, ChildrenParts DEF IndexAgrees, NameAgrees, Ascending
  <2>2. Recorded(ch, c, k).indices[nm] = InsertAt(iv, lb, k)
    BY <1>3, RecordedIndices
  <2>3. s \in DOMAIN iv /\ iv[s] = pos
    BY <1>3 DEF Leads
  <2> HIDE DEF iv, s
  <2>4. lb \in 1 .. Len(iv) + 1 /\ \A j \in lb .. Len(iv) : iv[j] >= k
    BY <2>1, LowerBoundIn
  <2> HIDE DEF lb
  <2>5. s < lb
    BY <2>1, <2>3, <2>4
  <2>6. IsInsert(Nat, iv, lb, k, InsertAt(iv, lb, k))
    BY <2>1, <2>4, InsertAtIn
  <2> DEFINE r == InsertAt(iv, lb, k)
  <2> HIDE DEF r
  <2>7. s \in DOMAIN r /\ r[s] = pos
    BY <2>1, <2>3, <2>4, <2>5, <2>6 DEF IsInsert, r
  <2>8. QED BY <1>3, <2>2, <2>7 DEF Leads, r, s
<1>4. QED BY <1>1, <1>2, <1>3

\* No node stands in two places.
Unique(ch) == \A i, j \in DOMAIN ch.nodes : ch.nodes[i] = ch.nodes[j] => i = j

LEMMA PositionIs ==
  ASSUME NEW ch \in Children, Unique(ch), NEW pos \in Nat, pos + 1 \in DOMAIN ch.nodes
  PROVE  Position(ch, ch.nodes[pos + 1]) = pos
<1> DEFINE c == ch.nodes[pos + 1]
<1>1. Holds(ch, c)
  BY DEF Holds
<1>2. ch.nodes[Position(ch, c) + 1] = c /\ Position(ch, c) \in Nat /\ Position(ch, c) + 1 \in DOMAIN ch.nodes
  BY <1>1, PositionIn
<1>3. Position(ch, c) + 1 = pos + 1
  BY <1>2, Zenon DEF Unique
<1>4. QED BY <1>2, <1>3

\* Node::insert of one child reports the key that leads to it.
LEMMA WithAdded ==
  ASSUME NEW ch \in Children, IndexAgrees(ch, {}), NEW p, NEW c \in Nodes, NEW pos \in 0 .. Len(ch.nodes),
         With(ch, c, pos) \in Children, Unique(With(ch, c, pos))
  PROVE  AddedAddressed(AddedEvent(ch, p, c, pos), With(ch, c, pos))
<1> DEFINE cs == <<c>>
           w == Widened(ch, cs, pos)
           nm == NameOf[c]
           oi == OverlapOf(w.indices, nm, pos)
           r == Recorded(w, c, pos)
<1>1. cs \in Seq(Nodes) /\ Len(cs) = 1 /\ cs[1] = c
  OBVIOUS
<1>2. pos \in Nat /\ Len(ch.nodes) \in Nat
  BY ChildrenParts
<1>3. IsWidened(ch, cs, pos, w)
  BY <1>1, WidenedIn
<1>4. w.indices = Shift(ch.indices, pos, 1) /\ With(ch, c, pos) = r
  BY <1>1 DEF Widened, With, Recorded
<1> HIDE DEF w, cs
<1>5. /\ w \in Children /\ IndexAgrees(w, pos .. pos + Len(cs) - 1)
      /\ w.nodes[pos + 1] = c /\ DOMAIN w.nodes = 1 .. Len(ch.nodes) + 1
  BY <1>1, <1>3 DEF IsWidened, Spread
<1>6. pos + 1 \in DOMAIN w.nodes
  BY <1>2, <1>5
<1>7. r.nodes = w.nodes
  BY <1>5, RecordedIndices
<1>8. oi \in Int /\ Leads(r, nm, oi, pos)
  BY <1>2, <1>5, RecordLeads
<1> HIDE DEF r, oi
<1>9. r \in Children /\ Unique(r) /\ nm \in Names \cup {NoName}
  BY <1>4, NodeTreeAssumption
<1>10. AtKey(r, Key(nm, oi)) = c
  <2>1. pos + 1 \in DOMAIN r.nodes /\ r.nodes[pos + 1] = c
    BY <1>5, <1>6, <1>7
  <2>2. r \in Children /\ nm \in Names \cup {NoName} /\ oi \in Int /\ pos \in Nat /\ Leads(r, nm, oi, pos)
    BY <1>2, <1>8, <1>9
  <2> HIDE DEF nm
  <2>3. QED BY <2>1, <2>2, LeadsThere
<1>11. Position(r, c) = pos
  BY <1>2, <1>5, <1>6, <1>7, <1>9, PositionIs
<1>12. pos + 0 < Len(r.nodes)
  BY <1>2, <1>5, <1>7, <1>9, ChildrenParts
<1>13. AddedEvent(ch, p, c, pos) = Event("ADDED", p, Key(nm, oi), 0, c)
  BY <1>4 DEF AddedEvent, oi
<1>14. QED BY <1>4, <1>10, <1>11, <1>12, <1>13 DEF AddedAddressed, Event

-----------------------------------------------------------------------------
(* The order of siblings.                                                  *)

Precedes(s, c, d) == \E i, j \in DOMAIN s : i < j /\ s[i] = c /\ s[j] = d

LEMMA BeforeIs ==
  ASSUME NEW ch \in Children, Unique(ch), NEW c, NEW d
  PROVE  Before(ch, c, d) <=> Precedes(ch.nodes, c, d)
<1>1. DOMAIN ch.nodes = 1 .. Len(ch.nodes) /\ Len(ch.nodes) \in Nat
  BY ChildrenParts
<1>2. ASSUME Before(ch, c, d) PROVE Precedes(ch.nodes, c, d)
  <2>1. Holds(ch, c) /\ Holds(ch, d) /\ Position(ch, c) < Position(ch, d)
    BY <1>2 DEF Before
  <2>2. /\ Position(ch, c) + 1 \in DOMAIN ch.nodes /\ ch.nodes[Position(ch, c) + 1] = c
        /\ Position(ch, d) + 1 \in DOMAIN ch.nodes /\ ch.nodes[Position(ch, d) + 1] = d
        /\ Position(ch, c) \in Nat /\ Position(ch, d) \in Nat
    BY <2>1, PositionIn
  <2>3. Position(ch, c) + 1 < Position(ch, d) + 1
    BY <2>1, <2>2
  <2>4. QED BY <2>2, <2>3, Zenon DEF Precedes
<1>3. ASSUME NEW i \in DOMAIN ch.nodes, NEW j \in DOMAIN ch.nodes, i < j, ch.nodes[i] = c, ch.nodes[j] = d
      PROVE  Before(ch, c, d)
  <2>1. Holds(ch, c) /\ Holds(ch, d)
    BY <1>3 DEF Holds
  <2>2. /\ Position(ch, c) + 1 \in DOMAIN ch.nodes /\ ch.nodes[Position(ch, c) + 1] = c
        /\ Position(ch, d) + 1 \in DOMAIN ch.nodes /\ ch.nodes[Position(ch, d) + 1] = d
        /\ Position(ch, c) \in Nat /\ Position(ch, d) \in Nat
    BY <2>1, PositionIn
  <2>3. Position(ch, c) + 1 = i /\ Position(ch, d) + 1 = j
    BY <1>3, <2>2, Zenon DEF Unique
  <2>4. Position(ch, c) < Position(ch, d)
    BY <1>3, <2>2, <2>3
  <2>5. QED BY <2>1, <2>4 DEF Before
<1>4. QED BY <1>2, <1>3 DEF Precedes

\* Who is taken leaves the others in their order, ...
LEMMA WithoutSteady ==
  ASSUME NEW ch \in Children, IndexAgrees(ch, {}), NEW x, Holds(ch, x),
         NEW c, NEW d, c # x, d # x, Precedes(ch.nodes, c, d)
  PROVE  Precedes(Without(ch, x).nodes, c, d)
<1> DEFINE pos == Position(ch, x)
           w == Without(ch, x).nodes
           nodes == ch.nodes
           Slot2(i) == IF i <= pos THEN i ELSE i - 1
<1>1. DOMAIN nodes = 1 .. Len(nodes) /\ Len(nodes) \in Nat
  BY ChildrenParts
<1>2. pos \in 0 .. Len(nodes) - 1 /\ nodes[pos + 1] = x
  BY PositionIn
<1>3. Closed(nodes, w, pos)
  BY WithoutIn DEF IsWithout
<1>4. PICK i \in DOMAIN nodes, j \in DOMAIN nodes : i < j /\ nodes[i] = c /\ nodes[j] = d
  BY DEF Precedes
<1> HIDE DEF pos, w, nodes
<1>5. /\ DOMAIN w = 1 .. Len(nodes) - 1 /\ \A k \in 1 .. pos : w[k] = nodes[k]
      /\ \A k \in pos + 1 .. Len(nodes) - 1 : w[k] = nodes[k + 1]
  BY <1>3 DEF Closed
<1>6. ASSUME NEW k \in DOMAIN nodes, k # pos + 1
      PROVE  Slot2(k) \in DOMAIN w /\ w[Slot2(k)] = nodes[k]
  <2>1. CASE k <= pos
    BY <1>1, <1>2, <1>5, <2>1
  <2>2. CASE ~ (k <= pos)
    <3>1. k - 1 \in pos + 1 .. Len(nodes) - 1 /\ (k - 1) + 1 = k /\ k - 1 \in 1 .. Len(nodes) - 1
      BY <1>1, <1>2, <1>6, <2>2
    <3>2. w[k - 1] = nodes[(k - 1) + 1]
      BY <1>5, <3>1
    <3>3. QED BY <1>5, <2>2, <3>1, <3>2
  <2>3. QED BY <2>1, <2>2
<1>7. i # pos + 1 /\ j # pos + 1
  BY <1>2, <1>4
<1>8. Slot2(i) < Slot2(j)
  BY <1>1, <1>2, <1>4, <1>7
<1> HIDE DEF Slot2
<1>9. w[Slot2(i)] = c /\ w[Slot2(j)] = d /\ Slot2(i) \in DOMAIN w /\ Slot2(j) \in DOMAIN w
  BY <1>4, <1>6, <1>7
<1>10. QED BY <1>8, <1>9, Zenon DEF Precedes, w

\* ... and so do those who come.
LEMMA WidenedSteady ==
  ASSUME NEW ch \in Children, IndexAgrees(ch, {}), NEW cs \in Seq(Nodes),
         NEW pos \in 0 .. Len(ch.nodes), NEW c, NEW d, Precedes(ch.nodes, c, d)
  PROVE  Precedes(Widened(ch, cs, pos).nodes, c, d)
<1> DEFINE w == Widened(ch, cs, pos).nodes
           nodes == ch.nodes
           L == Len(cs)
           Slot2(i) == IF i <= pos THEN i ELSE i + L
<1>1. DOMAIN nodes = 1 .. Len(nodes) /\ Len(nodes) \in Nat /\ L \in Nat
  BY ChildrenParts
<1>2. Spread(nodes, w, pos, L)
  BY WidenedIn DEF IsWidened
<1>3. PICK i \in DOMAIN nodes, j \in DOMAIN nodes : i < j /\ nodes[i] = c /\ nodes[j] = d
  BY DEF Precedes
<1> HIDE DEF w, L
<1>4. pos \in 0 .. Len(nodes)
  OBVIOUS
<1> HIDE DEF nodes
<1>5. /\ DOMAIN w = 1 .. Len(nodes) + L /\ \A k \in 1 .. pos : w[k] = nodes[k]
      /\ \A k \in pos + 1 .. Len(nodes) : w[k + L] = nodes[k]
  BY <1>2 DEF Spread
<1>6. ASSUME NEW k \in DOMAIN nodes
      PROVE  Slot2(k) \in DOMAIN w /\ w[Slot2(k)] = nodes[k]
  <2>1. CASE k <= pos
    BY <1>1, <1>4, <1>5, <2>1
  <2>2. CASE ~ (k <= pos)
    BY <1>1, <1>4, <1>5, <2>2
  <2>3. QED BY <2>1, <2>2
<1>7. Slot2(i) < Slot2(j)
  BY <1>1, <1>3, <1>4
<1> HIDE DEF Slot2
<1>8. w[Slot2(i)] = c /\ w[Slot2(j)] = d /\ Slot2(i) \in DOMAIN w /\ Slot2(j) \in DOMAIN w
  BY <1>3, <1>6
<1>9. QED BY <1>7, <1>8, Zenon DEF Precedes, w

-----------------------------------------------------------------------------
(* One step.                                                               *)

\* At every node, what is not moved and is still there keeps its order.
Steady ==
  \A p \in Nodes : \A c, d \in Nodes \ Moved :
    Precedes(children[p].nodes, c, d) /\ Holds(children'[p], c) => Precedes(children'[p].nodes, c, d)

AllUnique == children \in [Nodes -> Children] /\ \A p \in Nodes : Unique(children[p])

LEMMA TreeUnique == IInv => AllUnique
BY DEF IInv, Tree, NodeOK, AllUnique, Unique

LEMMA SteadyKeepsOrder ==
  ASSUME AllUnique, AllUnique', Steady
  PROVE  OrderKept
<1>1. ASSUME NEW p \in Nodes, NEW c \in ChildSet(p) \ Moved, NEW d \in ChildSet(p) \ Moved,
             Before(children[p], c, d), Holds(children'[p], c), Holds(children'[p], d)
      PROVE  Before(children'[p], c, d)
  <2>1. children[p] \in Children /\ Unique(children[p]) /\ children'[p] \in Children /\ Unique(children'[p])
    BY DEF AllUnique
  <2>2. c \in Nodes \ Moved /\ d \in Nodes \ Moved
    BY <2>1, ChildrenParts DEF ChildSet
  <2>3. Precedes(children[p].nodes, c, d)
    BY <1>1, <2>1, BeforeIs
  <2>4. Precedes(children'[p].nodes, c, d)
    BY <1>1, <2>2, <2>3 DEF Steady
  <2>5. QED BY <2>1, <2>4, BeforeIs
<1>2. QED BY <1>1 DEF OrderKept

LEMMA OneEvent ==
  ASSUME NEW e, events' = <<e>>
  PROVE  Head(events') = e /\ Last(events') = e /\ events' # <<>> /\ Moved = {e.who}
<1>1. DOMAIN <<e>> = {1} /\ <<e>>[1] = e /\ Len(<<e>>) = 1 /\ <<e>> # <<>> /\ Head(<<e>>) = e
  OBVIOUS
<1>2. QED BY <1>1 DEF Last, Moved

LEMMA TwoEvents ==
  ASSUME NEW e, NEW f, events' = <<e, f>>
  PROVE  Head(events') = e /\ Last(events') = f /\ events' # <<>> /\ {e.who, f.who} \subseteq Moved
<1>1. DOMAIN <<e, f>> = {1, 2} /\ <<e, f>>[1] = e /\ <<e, f>>[2] = f /\ Len(<<e, f>>) = 2
      /\ <<e, f>> # <<>> /\ Head(<<e, f>>) = e
  OBVIOUS
<1>2. QED BY <1>1 DEF Last, Moved

LEMMA NoEvents ==
  ASSUME events' = <<>>
  PROVE  KeysSignalled
BY DEF KeysSignalled

LEMMA Untouched ==
  ASSUME children' = children
  PROVE  Steady
BY DEF Steady

\* What a node without children keeps in order.
LEMMA NoneHeld == \A c : ~ Holds(NoChildren, c)
BY NoChildrenOK DEF Holds

\* The signal of a child that is taken from q.
LEMMA TakenSignal ==
  ASSUME Tree(live, parent, children, NULL, {}), NEW q \in Nodes, NEW c \in Nodes, Holds(children[q], c),
         events' = <<Event("REMOVED", q, KeyIn(children[q], c), 0, c)>>
  PROVE  KeysSignalled /\ Moved = {c}
<1> DEFINE e == Event("REMOVED", q, KeyIn(children[q], c), 0, c)
<1>1. children[q] \in Children /\ IndexAgrees(children[q], {})
  BY NodeTreeAssumption DEF Tree, NodeOK
<1>2. AtKey(children[q], KeyIn(children[q], c)) = c
  BY <1>1, KeyAddresses
<1>3. e.sig = "REMOVED" /\ e.at = q /\ e.key = KeyIn(children[q], c) /\ e.who = c
  BY DEF Event
<1> HIDE DEF e
<1>4. Head(events') = e /\ Last(events') = e /\ Moved = {c}
  BY <1>3, OneEvent DEF e
<1>5. QED BY <1>2, <1>3, <1>4 DEF KeysSignalled

\* Who leaves its parent, or has none, leaves its siblings in their order.
LEMMA DetachedSteady ==
  ASSUME Tree(live, parent, children, NULL, {}), NEW x \in Nodes, NEW p \in Nodes,
         NEW c, NEW d, c # x, d # x, Precedes(children[p].nodes, c, d)
  PROVE  Precedes(Detached(x)[p].nodes, c, d)
<1>1. CASE parent[x] # p \/ parent[x] = NULL
  <2>1. Detached(x)[p] = children[p]
    BY <1>1 DEF Detached, Tree
  <2>2. QED BY <2>1
<1>2. CASE parent[x] = p /\ parent[x] # NULL
  <2>1. Holds(children[p], x) /\ children[p] \in Children /\ IndexAgrees(children[p], {})
    BY <1>2 DEF Tree, NodeOK, Holds
  <2>2. Detached(x)[p] = Without(children[p], x)
    BY <1>2 DEF Detached, Tree
  <2>3. QED BY <2>1, <2>2, WithoutSteady
<1>3. QED BY <1>1, <1>2

\* What TakenEvent says is true.
LEMMA TakenIs ==
  ASSUME Tree(live, parent, children, NULL, {}), NEW c \in Nodes, parent[c] # NULL
  PROVE  /\ parent[c] \in Nodes /\ Holds(children[parent[c]], c)
         /\ TakenEvent(c) = <<Event("REMOVED", parent[c], KeyIn(children[parent[c]], c), 0, c)>>
<1>1. parent[c] \in Nodes
  BY DEF Tree
<1>2. Holds(children[parent[c]], c)
  BY <1>1 DEF Tree, NodeOK, Holds
<1>3. QED BY <1>1, <1>2 DEF TakenEvent

LEMMA DeleteOrder ==
  ASSUME IInv, NEW n \in Nodes, Delete(n)
  PROVE  KeysSignalled /\ Steady
<1>1. KeysSignalled
  BY NoEvents DEF Delete
<1>2. ASSUME NEW p \in Nodes PROVE children'[p] = children[p] \/ children'[p] = NoChildren
  BY DEF Delete
<1>3. Steady
  BY <1>2, NoneHeld DEF Steady
<1>4. QED BY <1>1, <1>3

LEMMA InsertOrder ==
  ASSUME IInv, AllUnique', NEW p \in Nodes, NEW c \in Nodes, NEW index, Insert(p, c, index)
  PROVE  KeysSignalled /\ Steady
<1> DEFINE base == Detached(c)
           parx == [parent EXCEPT ![c] = NULL]
           pos == Resolve(index, Len(base[p].nodes))
           f == AddedEvent(base[p], p, c, pos)
           e == Event("REMOVED", parent[c], KeyIn(children[parent[c]], c), 0, c)
<1>1. Tree(live, parent, children, NULL, {})
  BY UnlockedTree DEF Insert, Unlocked
<1>2. Tree(live, parx, base, NULL, {})
  BY <1>1, LeaveTree
<1>3. base \in [Nodes -> Children] /\ IndexAgrees(base[p], {}) /\ base[p] \in Children
  BY <1>2, NodeTreeAssumption DEF Tree, NodeOK
<1>4. parent[c] = NULL => TakenEvent(c) = <<>> /\ base = children
  BY DEF TakenEvent, Detached
<1>5. parent[c] # NULL => parent[c] \in Nodes /\ Holds(children[parent[c]], c) /\ TakenEvent(c) = <<e>>
  BY <1>1, TakenIs
<1>6. parent[c] # NULL => AtKey(children[parent[c]], KeyIn(children[parent[c]], c)) = c
  <2>1. ASSUME parent[c] # NULL
        PROVE  children[parent[c]] \in Children /\ IndexAgrees(children[parent[c]], {})
    BY <1>1, <1>5, <2>1, NodeTreeAssumption DEF Tree, NodeOK
  <2>2. QED BY <1>5, <2>1, KeyAddresses
<1>7. e.sig = "REMOVED" /\ e.at = parent[c] /\ e.key = KeyIn(children[parent[c]], c) /\ e.who = c
  BY DEF Event
<1>8. f.sig = "ADDED" /\ f.at = p /\ f.who = c
  BY DEF AddedEvent, Event
<1>9. ASSUME NEW q \in Nodes, NEW x \in Nodes, NEW y \in Nodes, x # c, y # c, Precedes(children[q].nodes, x, y)
      PROVE  Precedes(base[q].nodes, x, y)
  BY <1>1, <1>9, DetachedSteady
<1>10. CASE pos \in 0 .. Len(base[p].nodes) /\ Enter(base, p, c, pos) /\ events' = Append(TakenEvent(c), f)
  <2> HIDE DEF base, parx
  <2>1. pos \in 0 .. Len(base[p].nodes) /\ children' = [base EXCEPT ![p] = With(@, c, pos)]
    BY <1>10 DEF Enter
  <2> HIDE DEF e
  <2>2. events' = IF parent[c] = NULL THEN <<f>> ELSE <<e, f>>
    BY <1>4, <1>5, <1>10
  <2> HIDE DEF pos
  <2>3. children'[p] = With(base[p], c, pos)
    BY <1>3, <2>1
  <2>4. AddedAddressed(f, children'[p])
    <3>1. With(base[p], c, pos) \in Children /\ Unique(With(base[p], c, pos))
      BY <2>3 DEF AllUnique
    <3>2. QED BY <1>3, <2>1, <2>3, <3>1, WithAdded
  <2> HIDE DEF f
  <2>5. KeysSignalled /\ c \in Moved
    <3>1. CASE parent[c] = NULL
      <4>1. Head(events') = f /\ Last(events') = f /\ Moved = {f.who}
        BY <2>2, <3>1, OneEvent
      <4>2. QED BY <4>1, <1>8, <2>4 DEF KeysSignalled
    <3>2. CASE parent[c] # NULL
      <4>1. Head(events') = e /\ Last(events') = f /\ {e.who, f.who} \subseteq Moved
        BY <2>2, <3>2, TwoEvents
      <4>2. QED BY <4>1, <3>2, <1>6, <1>7, <1>8, <2>4 DEF KeysSignalled
    <3>3. QED BY <3>1, <3>2
  <2>6. ASSUME NEW q \in Nodes, NEW x \in Nodes \ Moved, NEW y \in Nodes \ Moved, Precedes(children[q].nodes, x, y)
        PROVE  Precedes(children'[q].nodes, x, y)
    <3>1. Precedes(base[q].nodes, x, y)
      BY <2>5, <2>6, <1>9
    <3>2. CASE q # p
      BY <3>1, <3>2, <1>3, <2>1
    <3>3. CASE q = p
      <4> DEFINE cs == <<c>>
      <4>1. cs \in Seq(Nodes)
        OBVIOUS
      <4>2. Precedes(Widened(base[p], cs, pos).nodes, x, y)
        <5> HIDE DEF cs
        <5>1. QED BY <3>1, <3>3, <4>1, <1>3, <2>1, WidenedSteady
      <4>3. With(base[p], c, pos).nodes = Widened(base[p], cs, pos).nodes
        <5>1. With(base[p], c, pos) = [Widened(base[p], cs, pos) EXCEPT !.indices = Record(@, NameOf[c], pos)]
          BY DEF With
        <5>2. QED BY <5>1 DEF Widened
      <4>4. QED BY <4>2, <4>3, <3>3, <2>3
    <3>4. QED BY <3>2, <3>3
  <2>7. QED BY <2>5, <2>6 DEF Steady
<1>11. CASE children' = base /\ events' = TakenEvent(c)
  <2>1. CASE parent[c] = NULL
    BY <1>4, <1>11, <2>1, NoEvents, Untouched
  <2>2. CASE parent[c] # NULL
    <3>1. KeysSignalled /\ Moved = {c}
      BY <1>1, <1>5, <1>11, <2>2, TakenSignal
    <3>2. QED BY <3>1, <1>9, <1>11 DEF Steady
  <2>3. QED BY <2>1, <2>2
<1>12. QED BY <1>10, <1>11 DEF Insert

LEMMA AppendNewOrder ==
  ASSUME IInv, AllUnique', NEW p \in Nodes, NEW c \in Nodes, AppendNew(p, c)
  PROVE  KeysSignalled /\ Steady
<1> DEFINE pos == Len(children[p].nodes)
           f == AddedEvent(children[p], p, c, pos)
           cs == <<c>>
<1>1. Tree(live, parent, children, NULL, {})
  BY UnlockedTree DEF AppendNew, Unlocked
<1>2. children \in [Nodes -> Children] /\ IndexAgrees(children[p], {}) /\ children[p] \in Children
  BY <1>1, NodeTreeAssumption DEF Tree, NodeOK
<1>3. pos \in 0 .. Len(children[p].nodes) /\ cs \in Seq(Nodes)
  BY <1>2, ChildrenParts
<1>4. children' = [children EXCEPT ![p] = With(@, c, pos)] /\ events' = <<f>>
  BY DEF AppendNew, Enter
<1>5. children'[p] = With(children[p], c, pos)
  BY <1>2, <1>4
<1>6. With(children[p], c, pos) \in Children /\ Unique(With(children[p], c, pos))
  BY <1>5 DEF AllUnique
<1>7. AddedAddressed(f, children'[p]) /\ f.sig = "ADDED" /\ f.at = p
  <2>1. f.sig = "ADDED" /\ f.at = p
    BY DEF AddedEvent, Event
  <2> HIDE DEF pos
  <2>2. AddedAddressed(f, With(children[p], c, pos))
    BY <1>2, <1>3, <1>6, WithAdded
  <2>3. QED BY <2>1, <2>2, <1>5
<1> HIDE DEF f, cs
<1>8. KeysSignalled
  BY <1>4, <1>7, OneEvent DEF KeysSignalled
<1>9. With(children[p], c, pos).nodes = Widened(children[p], cs, pos).nodes
  <2>1. With(children[p], c, pos) = [Widened(children[p], cs, pos) EXCEPT !.indices = Record(@, NameOf[c], pos)]
    BY DEF With, cs
  <2>2. QED BY <2>1 DEF Widened
<1> HIDE DEF pos
<1>10. ASSUME NEW q \in Nodes, NEW x, NEW y, Precedes(children[q].nodes, x, y)
       PROVE  Precedes(children'[q].nodes, x, y)
  <2>1. CASE q # p
    BY <2>1, <1>2, <1>4, <1>10
  <2>2. CASE q = p
    BY <2>2, <1>2, <1>3, <1>5, <1>9, <1>10, WidenedSteady
  <2>3. QED BY <2>1, <2>2
<1>11. QED BY <1>8, <1>10 DEF Steady

LEMMA TakeOrder ==
  ASSUME IInv, NEW p \in Nodes, NEW c \in Nodes, Take(p, c)
  PROVE  KeysSignalled /\ Steady
<1>1. Tree(live, parent, children, NULL, {})
  BY UnlockedTree DEF Take, Unlocked
<1>2. KeysSignalled /\ Moved = {c}
  BY <1>1, TakenSignal DEF Take
<1>3. children[p] \in Children /\ IndexAgrees(children[p], {}) /\ Holds(children[p], c)
  BY <1>1, NodeTreeAssumption DEF Tree, NodeOK, Take
<1>4. \A q \in Nodes : children'[q] = IF q = p THEN Without(children[p], c) ELSE children[q]
  BY <1>1 DEF Take, Tree
<1>5. QED BY <1>2, <1>3, <1>4, WithoutSteady DEF Steady

LEMMA TakeAndDeleteOrder ==
  ASSUME Tree(live, parent, children, NULL, {}), NEW p \in Nodes, NEW c \in Nodes,
         Holds(children[p], c), TakeAndDelete(p, c)
  PROVE  KeysSignalled /\ Steady
<1>1. KeysSignalled /\ Moved = {c}
  BY TakenSignal DEF TakeAndDelete
<1>2. children[p] \in Children /\ IndexAgrees(children[p], {})
  BY NodeTreeAssumption DEF Tree, NodeOK
<1>3. \A q \in Nodes : \/ children'[q] = NoChildren
                       \/ children'[q] = IF q = p THEN Without(children[p], c) ELSE children[q]
  BY DEF TakeAndDelete
<1>4. QED BY <1>1, <1>2, <1>3, WithoutSteady, NoneHeld DEF Steady

LEMMA RemoveNameRoundOrder ==
  ASSUME IInv, RemoveNameRound
  PROVE  KeysSignalled /\ Steady
<1> DEFINE p == busy.at
           c == AtKey(children[p], Key(busy.name, 0))
<1>1. Tree(live, parent, children, NULL, {})
  BY UnlockedTree DEF RemoveNameRound
<1>2. busy \in [op : {"removeAll"}, at : Nodes, name : Names] /\ p \in Nodes /\ busy.name \in Names
  BY DEF IInv, BusyType, Idle, RemoveNameRound
<1>3. CASE c # NULL
  <2>1. children[p] \in Children /\ IndexAgrees(children[p], {})
    BY <1>1, <1>2, NodeTreeAssumption DEF Tree, NodeOK
  <2> DEFINE iv == children[p].indices[busy.name]
             nodes == children[p].nodes
  <2>2. c = nodes[iv[1] + 1] /\ 0 < Len(iv)
    BY <1>2, <1>3, NodeTreeAssumption DEF AtKey, Key
  <2>3. iv \in Seq(Nat) /\ 1 \in DOMAIN iv
    BY <2>1, <2>2, <1>2, ChildrenParts
  <2>4. iv[1] + 1 \in DOMAIN nodes
    BY <2>1, <2>3, <1>2 DEF IndexAgrees, NameAgrees
  <2>5. Holds(children[p], c) /\ c \in Nodes
    BY <2>1, <2>2, <2>4, ChildrenParts DEF Holds
  <2>6. TakeAndDelete(p, c)
    BY <1>3 DEF RemoveNameRound
  <2> HIDE DEF c, p
  <2>7. QED BY <1>1, <1>2, <2>5, <2>6, TakeAndDeleteOrder
<1>4. CASE c = NULL
  BY <1>4, NoEvents, Untouched DEF RemoveNameRound
<1>5. QED BY <1>3, <1>4

LEMMA ClearOrder ==
  ASSUME IInv, NEW p \in Nodes, NEW autoDelete \in BOOLEAN, Clear(p, autoDelete)
  PROVE  KeysSignalled /\ Steady
<1> DEFINE e == Event("REMOVED", p, Key(NoName, 0), Len(children[p].nodes) - 1, children[p].nodes[1])
<1>1. AtKey(children[p], Key(NoName, 0)) = children[p].nodes[1]
  BY DEF Clear, AtKey, Key
<1>2. e.sig = "REMOVED" /\ e.at = p /\ e.key = Key(NoName, 0) /\ e.who = children[p].nodes[1]
  BY DEF Event
<1>3. events' = <<e>>
  BY DEF Clear
<1> HIDE DEF e
<1>4. KeysSignalled
  BY <1>1, <1>2, <1>3, OneEvent DEF KeysSignalled
<1>5. ASSUME NEW q \in Nodes PROVE children'[q] = children[q] \/ children'[q] = NoChildren
  BY DEF Clear
<1>6. Steady
  BY <1>5, NoneHeld DEF Steady
<1>7. QED BY <1>4, <1>6

LEMMA BatchDetachOrder ==
  ASSUME IInv, BatchDetach
  PROVE  KeysSignalled /\ Steady
<1> DEFINE c == busy.cs[busy.done + 1]
<1>1. /\ busy.op = "detach" /\ busy.done < Len(busy.cs) /\ busy.done \in Nat
      /\ busy.cs \in Seq(Nodes) /\ Len(busy.cs) \in Nat
      /\ DOMAIN busy.cs = 1 .. Len(busy.cs)
  BY DEF IInv, BusyType, Idle, BatchDetach
<1>2. Tree(live, parent, children, NULL, {})
  BY <1>1, UnlockedTree
<1>3. c \in Nodes
  BY <1>1
<1>4. children' = Detached(c) /\ events' = TakenEvent(c)
  BY DEF BatchDetach
<1> HIDE DEF c
<1>5. CASE parent[c] = NULL
  BY <1>4, <1>5, NoEvents, Untouched DEF TakenEvent, Detached
<1>6. CASE parent[c] # NULL
  <2>1. KeysSignalled /\ Moved = {c}
    BY <1>2, <1>3, <1>4, <1>6, TakenIs, TakenSignal
  <2>2. QED BY <2>1, <1>2, <1>3, <1>4, DetachedSteady DEF Steady
<1>7. QED BY <1>5, <1>6

LEMMA BatchPlaceOrder ==
  ASSUME IInv, BatchPlace
  PROVE  KeysSignalled /\ Steady
<1> DEFINE p == busy.at
           pos == Resolve(busy.index, Len(children[p].nodes))
<1>1. busy.op = "detach" /\ busy.cs \in Seq(Nodes) /\ p \in Nodes
  BY DEF IInv, BusyType, Idle, BatchPlace
<1>2. Tree(live, parent, children, NULL, {})
  BY <1>1, UnlockedTree
<1>3. children \in [Nodes -> Children] /\ IndexAgrees(children[p], {}) /\ children[p] \in Children
  BY <1>1, <1>2, NodeTreeAssumption DEF Tree, NodeOK
<1>4. KeysSignalled
  BY NoEvents DEF BatchPlace
<1>5. CASE pos \in 0 .. Len(children[p].nodes) /\ children' = [children EXCEPT ![p] = Widened(@, busy.cs, pos)]
  <2> HIDE DEF pos, p
  <2>1. ASSUME NEW q \in Nodes, NEW x, NEW y, Precedes(children[q].nodes, x, y)
        PROVE  Precedes(children'[q].nodes, x, y)
    <3>1. CASE q # p
      BY <1>3, <1>5, <2>1, <3>1
    <3>2. CASE q = p
      <4>1. children'[p] = Widened(children[p], busy.cs, pos)
        BY <1>1, <1>3, <1>5
      <4>2. QED BY <4>1, <1>1, <1>3, <1>5, <2>1, <3>2, WidenedSteady
    <3>3. QED BY <3>1, <3>2
  <2>2. QED BY <1>4, <2>1 DEF Steady
<1>6. CASE children' = children
  BY <1>4, <1>6, Untouched
<1>7. QED BY <1>5, <1>6 DEF BatchPlace

\* What insert of a batch remembers of its first child until it signals it.
BatchLeads ==
  busy.op = "batch" /\ busy.done > 0 =>
    Leads(children[busy.at], NameOf[busy.cs[1]], busy.oi, busy.index)

LEMMA BatchRecordOrder ==
  ASSUME IInv, AllUnique', BatchLeads, BatchRecord
  PROVE  KeysSignalled /\ Steady /\ BatchLeads'
<1> DEFINE p == busy.at
           cs == busy.cs
           d == busy.done
           c == cs[d + 1]
           k == busy.index + d
           oi == IF d = 0 THEN OverlapOf(children[p].indices, NameOf[c], k) ELSE busy.oi
           nm == NameOf[cs[1]]
           r == Recorded(children[p], c, k)
<1>1. /\ busy \in [op : {"detach", "batch"}, at : Nodes, cs : Seq(Nodes), index : Int,
                    done : Nat, oi : Int]
      /\ busy.op = "batch" /\ d \in Nat /\ p \in Nodes /\ busy.oi \in Int
      /\ cs \in Seq(Nodes) /\ Len(cs) \in Nat /\ DOMAIN cs = 1 .. Len(cs)
  BY DEF IInv, BusyType, Idle, BatchRecord
<1>2. /\ Len(cs) > 0 /\ busy.index \in Nat /\ d < Len(cs)
      /\ \A i \in DOMAIN cs : /\ busy.index + i \in DOMAIN children[p].nodes
                              /\ children[p].nodes[busy.index + i] = cs[i]
  BY <1>1 DEF IInv, BusyOK
<1>3. PICK P : P = Pending(p)
  OBVIOUS
<1>4. Tree(live, parent, children, p, P)
  BY <1>1, <1>3 DEF IInv, At, Unrecorded
<1>5. children[p] \in Children /\ IndexAgrees(children[p], P) /\ children \in [Nodes -> Children]
  BY <1>1, <1>4 DEF Tree, NodeOK
<1>6. k \in Nat /\ d + 1 \in DOMAIN cs /\ c \in Nodes /\ 1 \in DOMAIN cs /\ cs[1] \in Nodes
  BY <1>1, <1>2
<1>7. nm \in Names \cup {NoName}
  BY <1>6, NodeTreeAssumption
<1>8. children' = [children EXCEPT ![p].indices = Record(@, NameOf[c], k)]
  BY DEF BatchRecord
<1> HIDE DEF k, c
<1>9. children'[p] = r /\ \A q \in Nodes : q # p => children'[q] = children[q]
  BY <1>1, <1>5, <1>8 DEF Recorded
<1>10. r.nodes = children[p].nodes
  BY <1>5, <1>6, RecordedIndices
<1> HIDE DEF p, r
<1>11. Steady
  BY <1>1, <1>9, <1>10 DEF Steady
<1>12. oi \in Int /\ Leads(r, nm, oi, busy.index)
  <2>1. CASE d = 0
    <3>1. k = busy.index /\ c = cs[1]
      BY <1>2, <2>1 DEF k, c
    <3>2. QED BY <3>1, <2>1, <1>5, <1>6, RecordLeads DEF r
  <2>2. CASE d # 0
    <3>1. Leads(children[p], nm, busy.oi, busy.index)
      BY <1>1, <2>2 DEF BatchLeads, p
    <3>2. busy.index < k
      BY <1>1, <1>2, <2>2 DEF k
    <3> HIDE DEF nm
    <3>3. Leads(r, nm, busy.oi, busy.index)
      BY <3>1, <3>2, <1>1, <1>2, <1>5, <1>6, <1>7, StillLeads DEF r
    <3>4. QED BY <3>3, <2>2, <1>1
  <2>3. QED BY <2>1, <2>2
<1> HIDE DEF oi
<1>13. CASE busy' = [busy EXCEPT !.done = @ + 1, !.oi = oi] /\ events' = <<>>
  <2>1. (busy').at = p /\ (busy').cs = cs /\ (busy').oi = oi /\ (busy').index = busy.index
    BY <1>1, <1>13 DEF p
  <2>2. BatchLeads'
    BY <2>1, <1>9, <1>12 DEF BatchLeads
  <2>3. QED BY <2>2, <1>11, <1>13, NoEvents
<1>14. CASE /\ d + 1 = Len(cs) /\ busy' = Idle
            /\ events' = <<Event("ADDED", p, Key(nm, oi), d, cs[1])>>
  <2> DEFINE e == Event("ADDED", p, Key(nm, oi), d, cs[1])
  <2>1. e.sig = "ADDED" /\ e.at = p /\ e.key = Key(nm, oi) /\ e.who = cs[1] /\ e.overlap = d
    BY DEF Event
  <2>2. /\ busy.index + 1 \in DOMAIN r.nodes /\ r.nodes[busy.index + 1] = cs[1]
        /\ busy.index + Len(cs) \in DOMAIN r.nodes
    <3>1. Len(cs) \in DOMAIN cs
      BY <1>1, <1>2
    <3>2. QED BY <3>1, <1>2, <1>6, <1>10, Zenon
  <2>3. r \in Children /\ Unique(r)
    BY <1>1, <1>9 DEF AllUnique, p
  <2> HIDE DEF nm
  <2>4. AtKey(r, Key(nm, oi)) = cs[1]
    BY <2>2, <2>3, <1>2, <1>7, <1>12, LeadsThere
  <2>5. Position(r, cs[1]) = busy.index
    BY <2>2, <2>3, <1>2, PositionIs
  <2>6. busy.index + d < Len(r.nodes)
    BY <2>2, <2>3, <1>1, <1>2, <1>14, ChildrenParts
  <2> HIDE DEF e
  <2>7. Head(events') = e /\ Last(events') = e
    BY <1>14, OneEvent DEF e
  <2>8. KeysSignalled
    BY <2>1, <2>4, <2>5, <2>6, <2>7, <1>9 DEF KeysSignalled, AddedAddressed
  <2>9. BatchLeads'
    BY <1>14 DEF BatchLeads, Idle
  <2>10. QED BY <2>8, <2>9, <1>11
<1>15. QED BY <1>13, <1>14 DEF BatchRecord, p, c, k, oi

LEMMA InitLeads == Init => BatchLeads
BY DEF Init, BatchLeads, Idle

\* A batch is under way only after its own steps.
LEMMA NoBatch ==
  ASSUME busy.op # "batch", busy' = busy \/ (busy').op # "batch"
  PROVE  BatchLeads'
BY DEF BatchLeads

\* What every step signals is true, and who is not moved keeps its place
\* among its siblings.
LEMMA StepSignals ==
  ASSUME IInv, BatchLeads, Next
  PROVE  KeysSignalled /\ OrderKept /\ BatchLeads'
<1>1. IInv' /\ AllUnique /\ AllUnique'
  <2>1. IInv'
    BY NextInv
  <2>2. AllUnique'
    BY <2>1 DEF IInv, Tree, NodeOK, AllUnique, Unique
  <2>3. QED BY <2>1, <2>2, TreeUnique
<1>2. SUFFICES KeysSignalled /\ Steady /\ BatchLeads'
  BY <1>1, SteadyKeepsOrder
<1>3. ASSUME NEW n \in Nodes, New(n) \/ Delete(n) PROVE KeysSignalled /\ Steady /\ BatchLeads'
  BY <1>3, DeleteOrder, NoEvents, Untouched, NoBatch DEF New, Delete, Unlocked
<1>4. ASSUME NEW p \in Nodes, NEW c \in Nodes, AppendNew(p, c)
      PROVE  KeysSignalled /\ Steady /\ BatchLeads'
  BY <1>1, <1>4, AppendNewOrder, NoBatch DEF AppendNew, Unlocked
<1>5. ASSUME NEW p \in Nodes, NEW c \in Nodes, Take(p, c)
      PROVE  KeysSignalled /\ Steady /\ BatchLeads'
  BY <1>5, TakeOrder, NoBatch DEF Take, Unlocked
<1>6. ASSUME NEW p \in Nodes, NEW c \in Nodes, RemoveChild(p, c)
      PROVE  KeysSignalled /\ Steady /\ BatchLeads'
  <2>1. busy.op # "batch" /\ busy' = busy
    BY <1>6 DEF RemoveChild, Unlocked
  <2>2. Tree(live, parent, children, NULL, {})
    BY <2>1, UnlockedTree
  <2>3. KeysSignalled /\ Steady
    BY <1>6, <2>2, TakeAndDeleteOrder DEF RemoveChild
  <2>4. QED BY <2>1, <2>3, NoBatch
<1>7. ASSUME NEW p \in Nodes, NEW c \in Nodes, NEW index \in IndexArgs, Insert(p, c, index)
      PROVE  KeysSignalled /\ Steady /\ BatchLeads'
  BY <1>1, <1>7, InsertOrder, NoBatch DEF Insert, Unlocked
<1>8. ASSUME NEW p \in Nodes, NEW cs, NEW index, StartBatch(p, cs, index)
      PROVE  KeysSignalled /\ Steady /\ BatchLeads'
  BY <1>8, NoEvents, Untouched, NoBatch DEF StartBatch, Idle
<1>9. ASSUME NEW p \in Nodes, NEW cs \in Batches,
             AppendBatch(p, cs) \/ \E index \in IndexArgs : InsertBatch(p, cs, index)
      PROVE  KeysSignalled /\ Steady /\ BatchLeads'
  BY <1>8, <1>9 DEF AppendBatch, InsertBatch
<1>10. CASE BatchDetach
  <2>1. busy.op = "detach" /\ (busy').op = "detach"
    BY <1>10 DEF BatchDetach, IInv, BusyType, Idle
  <2>2. QED BY <1>10, <2>1, BatchDetachOrder, NoBatch
<1>11. CASE BatchPlace
  <2>1. busy \in [op : {"detach", "batch"}, at : Nodes, cs : Seq(Nodes), index : Int,
                    done : Nat, oi : Int]
    BY <1>11 DEF BatchPlace, IInv, BusyType, Idle
  <2> DEFINE pos == Resolve(busy.index, Len(children[busy.at].nodes))
  <2> HIDE DEF pos
  <2>2. busy' = Idle \/ busy' = [busy EXCEPT !.op = "batch", !.index = pos, !.done = 0]
    BY <1>11 DEF BatchPlace, pos
  <2>3. (busy').op = "batch" => (busy').done = 0
    <3>1. CASE busy' = Idle
      BY <3>1 DEF Idle
    <3>2. CASE busy' = [busy EXCEPT !.op = "batch", !.index = pos, !.done = 0]
      <4>1. busy' = [op |-> "batch", at |-> busy.at, cs |-> busy.cs, index |-> pos,
                     done |-> 0, oi |-> busy.oi]
        BY <2>1, <3>2
      <4>2. QED BY <4>1
    <3>3. QED BY <2>2, <3>1, <3>2
  <2>4. BatchLeads'
    BY <2>3 DEF BatchLeads
  <2>5. QED BY <1>11, <2>4, BatchPlaceOrder
<1>12. CASE BatchRecord
  BY <1>1, <1>12, BatchRecordOrder
<1>13. ASSUME NEW p \in Nodes, NEW nm \in Names, RemoveName(p, nm)
       PROVE  KeysSignalled /\ Steady /\ BatchLeads'
  BY <1>13, NoEvents, Untouched, NoBatch DEF RemoveName, Idle
<1>14. CASE RemoveNameRound
  <2>1. BatchLeads'
    BY <1>14, NoBatch DEF RemoveNameRound, Idle
  <2>2. QED BY <1>14, <2>1, RemoveNameRoundOrder
<1>15. ASSUME NEW p \in Nodes, NEW autoDelete \in BOOLEAN, Clear(p, autoDelete)
       PROVE  KeysSignalled /\ Steady /\ BatchLeads'
  BY <1>15, ClearOrder, NoBatch DEF Clear, Unlocked
<1>16. QED
  BY <1>3, <1>4, <1>5, <1>6, <1>7, <1>9, <1>10, <1>11, <1>12, <1>13, <1>14, <1>15 DEF Next

\* The key in NODE_REMOVED addressed the child it is about before the call,
\* the key in NODE_ADDED does so after it, also for a batch that computes it
\* before its last children are recorded, and siblings that a call is not
\* about never change places (insert, take, remove and clear of node.cpp).
THEOREM MovesAreSignalled == Spec => MovesAsSignalled
<1>1. Init => IInv /\ BatchLeads
  BY InitInv, InitLeads
<1>2. IInv /\ BatchLeads /\ [Next]_vars => (IInv /\ BatchLeads)'
  <2>1. IInv /\ BatchLeads /\ Next => (IInv /\ BatchLeads)'
    BY NextInv, StepSignals
  <2>2. IInv /\ BatchLeads /\ UNCHANGED vars => (IInv /\ BatchLeads)'
    <3>1. BatchLeads /\ UNCHANGED vars => BatchLeads'
      BY DEF vars, BatchLeads
    <3>2. QED BY <3>1, NextInv
  <2>3. QED BY <2>1, <2>2
<1>3. IInv /\ BatchLeads /\ [Next]_vars => [KeysSignalled /\ OrderKept]_vars
  BY StepSignals
<1>4. QED BY <1>1, <1>2, <1>3, PTL DEF Spec, MovesAsSignalled
=============================================================================
