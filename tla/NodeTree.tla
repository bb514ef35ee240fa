------------------------------ MODULE NodeTree ------------------------------
(***************************************************************************)
(* The structure of a ve::Node tree (ve/src/core/node.cpp): every node     *)
(* keeps its children in a flat vector in insertion order and, beside it,  *)
(* a hash from child name to the ascending positions of the children of    *)
(* that name.  insert, batch insert, append, take, remove and clear keep   *)
(* the two and the parent links in step.                                   *)
(*                                                                         *)
(* One thread mutates the tree at a time.  Two calls are loops and are     *)
(* modelled step by step: a batch insert records its children one by one   *)
(* under the parent's mutex (nothing else runs meanwhile), and remove(name)*)
(* takes and deletes one child per round with no lock held in between, so  *)
(* a NODE_REMOVED handler may call back into the tree.                     *)
(*                                                                         *)
(* Positions are 0-based as in the code: position i is nodes[i+1].         *)
(***************************************************************************)
EXTENDS Integers, Sequences, FiniteSets, SequencesExt

CONSTANTS
  Nodes,      \* the Node objects that may be allocated
  Names,      \* the non-empty node names
  NoName,     \* the empty name of an anonymous node
  NameOf,     \* the name each node is constructed with (immutable)
  NULL

ASSUME NodeTreeAssumption ==
  /\ NULL \notin Nodes
  /\ NoName \notin Names
  /\ NameOf \in [Nodes -> Names \cup {NoName}]

VARIABLES
  live,       \* nodes that are allocated
  parent,     \* Private::parent
  children,   \* Private::children: the node vector and the name index
  busy,       \* the looping call in progress, if any
  events      \* the structural signals of the last step, oldest first

vars == <<live, parent, children, busy, events>>

-----------------------------------------------------------------------------
(* Data types.                                                             *)

Children == [nodes : Seq(Nodes), indices : [Names -> Seq(Nat)]]
NoChildren == [nodes |-> <<>>, indices |-> [nm \in Names |-> <<>>]]

Idle == [op |-> "idle"]

\* A key "name#N" or "#N"; idx = -1 stands for the bare "name".
Key(nm, idx) == [name |-> nm, idx |-> idx]

\* key and overlap are the payload of NODE_ADDED / NODE_REMOVED on node at;
\* who is the first child the signal is about.
Event(sig, p, key, overlap, c) ==
  [sig |-> sig, at |-> p, key |-> key, overlap |-> overlap, who |-> c]

TypeOK ==
  /\ live \subseteq Nodes
  /\ parent \in [Nodes -> Nodes \cup {NULL}]
  /\ children \in [Nodes -> Children]
  /\ \/ busy = Idle
     \/ /\ busy \in [op : {"detach", "batch"}, at : Nodes, cs : Seq(Nodes), index : Int,
                     done : Nat, oi : Int]
        /\ busy.done <= Len(busy.cs)
     \/ busy \in [op : {"removeAll"}, at : Nodes, name : Names]

-----------------------------------------------------------------------------
(* The Children record.                                                    *)

\* Children::shift: every recorded position >= from moves by delta.
\* Mutant: the gap is closed one position too late.
ShiftSeqLate(iv, from, delta) ==
  [k \in DOMAIN iv |-> IF iv[k] > from THEN iv[k] + delta ELSE iv[k]]

ShiftSeq(iv, from, delta) ==
  [k \in DOMAIN iv |-> IF iv[k] >= from THEN iv[k] + delta ELSE iv[k]]
Shift(ix, from, delta) == [nm \in Names |-> ShiftSeq(ix[nm], from, delta)]

\* std::lower_bound on an ascending vector (as a 1-based slot).
LowerBound(iv, pos) ==
  CHOOSE k \in 1 .. Len(iv) + 1 :
    /\ \A j \in 1 .. k - 1 : iv[j] < pos
    /\ \A j \in k .. Len(iv) : iv[j] >= pos

\* Where the children of one name record a new position.
Record(ix, nm, pos) ==
  IF nm = NoName THEN ix
  ELSE [ix EXCEPT ![nm] = InsertAt(@, LowerBound(@, pos), pos)]

Position(ch, c) == CHOOSE i \in 0 .. Len(ch.nodes) - 1 : ch.nodes[i + 1] = c
Holds(ch, c) == \E i \in DOMAIN ch.nodes : ch.nodes[i] = c

\* Mutant: the overlap counts from one.
KeyInFromOne(ch, c) ==
  LET pos == Position(ch, c)
      iv  == ch.indices[NameOf[c]]
  IN  IF NameOf[c] = NoName THEN Key(NoName, pos)
      ELSE IF Len(iv) <= 1 THEN Key(NameOf[c], -1)
      ELSE Key(NameOf[c], CHOOSE k \in DOMAIN iv : iv[k] = pos)

\* The key a child has among its siblings: "#i" when anonymous, "name" when
\* it is the only one of its name, "name#k" otherwise (keyOf).
KeyIn(ch, c) ==
  LET pos == Position(ch, c)
      nm  == NameOf[c]
      iv  == ch.indices[nm]
  IN  IF nm = NoName THEN Key(NoName, pos)
      ELSE IF Len(iv) <= 1 THEN Key(nm, -1)
      ELSE Key(nm, (CHOOSE k \in DOMAIN iv : iv[k] = pos) - 1)

\* atKey: the child a key addresses, through the vector or the name index.
\* parseKey reads the bare "name" as overlap 0.
AtKey(ch, key) ==
  LET i  == IF key.idx < 0 THEN 0 ELSE key.idx
      iv == ch.indices[key.name]
  IN  IF key.name = NoName
      THEN IF i < Len(ch.nodes) THEN ch.nodes[i + 1] ELSE NULL
      ELSE IF i < Len(iv) THEN ch.nodes[iv[i + 1] + 1] ELSE NULL

\* take without its signal: erase from the index, erase from the vector,
\* close the gap in every recorded position.
Unrecord(ix, nm, pos) ==
  IF nm = NoName THEN ix
  ELSE [ix EXCEPT ![nm] = RemoveAt(@, CHOOSE k \in DOMAIN @ : @[k] = pos)]

Without(ch, c) ==
  LET pos == Position(ch, c)
  IN  [nodes   |-> RemoveAt(ch.nodes, pos + 1),
       indices |-> Shift(Unrecord(ch.indices, NameOf[c], pos), pos, -1)]

\* Make room for cs at position pos: shift, then insert into the vector.
Widened(ch, cs, pos) ==
  [nodes   |-> SubSeq(ch.nodes, 1, pos) \o cs \o SubSeq(ch.nodes, pos + 1, Len(ch.nodes)),
   indices |-> Shift(ch.indices, pos, Len(cs))]

\* insert of one child: widen, then record its position under its name.
With(ch, c, pos) ==
  LET w == Widened(ch, <<c>>, pos)
  IN  [w EXCEPT !.indices = Record(@, NameOf[c], pos)]

\* Negative positions count from the end: -1 appends.
Resolve(index, sz) == IF index < 0 THEN index + sz + 1 ELSE index

\* Mutant: the overlap index of an append, whatever the position.
OverlapOfAppend(ix, nm, pos) ==
  IF nm = NoName THEN pos
  ELSE IF Len(ix[nm]) = 0 THEN -1 ELSE Len(ix[nm])

\* The overlap index insert reports: -1 for the only child of that name.
OverlapOf(ix, nm, pos) ==
  IF nm = NoName THEN pos
  ELSE IF Len(ix[nm]) = 0 THEN -1 ELSE LowerBound(ix[nm], pos) - 1

-----------------------------------------------------------------------------
(* The tree.                                                               *)

ChildSet(p) == {children[p].nodes[i] : i \in DOMAIN children[p].nodes}

\* n and everything below it: the least set with n that is closed under
\* children (what deleting n destroys).
Subtree(n) ==
  {m \in live : \A S \in SUBSET (live \ {m}) :
                   n \in S => \E x \in S : ~ (ChildSet(x) \subseteq S)}

\* The Children records and the signal once c has been taken from its parent.
Detached(c) ==
  IF parent[c] = NULL THEN children
  ELSE [children EXCEPT ![parent[c]] = Without(@, c)]

TakenEvent(c) ==
  IF parent[c] = NULL THEN <<>>
  ELSE <<Event("REMOVED", parent[c], KeyIn(children[parent[c]], c), 0, c)>>

-----------------------------------------------------------------------------
(* Calls.  A batch holds the parent's mutex until its last child is        *)
(* recorded, and nothing else runs between the takes that precede it.      *)

Unlocked == busy.op \in {"idle", "removeAll"}

\* remove(name) keeps using its parent node between rounds: a handler does
\* not delete it.
Spares(S) == busy.op = "removeAll" => busy.at \notin S

\* new Node(name)
New(n) ==
  /\ Unlocked
  /\ n \notin live
  /\ live' = live \cup {n}
  /\ events' = <<>>
  /\ UNCHANGED <<parent, children, busy>>

\* delete of a node nobody holds as a child: ~Node deletes its subtree.
Delete(n) ==
  LET S == Subtree(n)
  IN  /\ Unlocked
      /\ n \in live
      /\ parent[n] = NULL
      /\ Spares(S)
      /\ live' = live \ S
      /\ parent' = [m \in Nodes |-> IF m \in S THEN NULL ELSE parent[m]]
      /\ children' = [m \in Nodes |-> IF m \in S THEN NoChildren ELSE children[m]]
      /\ events' = <<>>
      /\ UNCHANGED busy

\* The tree base with c placed in p, and the signal that says so.
Enter(base, p, c, pos) ==
  /\ children' = [base EXCEPT ![p] = With(@, c, pos)]
  /\ parent' = [parent EXCEPT ![c] = p]

AddedEvent(ch, p, c, pos) ==
  Event("ADDED", p, Key(NameOf[c], OverlapOf(Shift(ch.indices, pos, 1), NameOf[c], pos)), 0, c)

\* insert(child, index): leave the old parent, then enter at the position;
\* a position out of range fails after the child has left its old parent.
\* The caller does not insert a node below itself.
Insert(p, c, index) ==
  LET base == Detached(c)
      sz   == Len(base[p].nodes)
      pos  == Resolve(index, sz)
  IN  /\ Unlocked
      /\ {p, c} \subseteq live
      /\ p \notin Subtree(c)
      /\ \/ /\ pos \in 0 .. sz
            /\ Enter(base, p, c, pos)
            /\ events' = Append(TakenEvent(c), AddedEvent(base[p], p, c, pos))
         \/ /\ pos \notin 0 .. sz
            /\ children' = base
            /\ parent' = [parent EXCEPT ![c] = NULL]
            /\ events' = TakenEvent(c)
      /\ UNCHANGED <<live, busy>>

\* append(name): a fresh node inserted at the end.
AppendNew(p, c) ==
  LET sz == Len(children[p].nodes)
  IN  /\ Unlocked
      /\ p \in live
      /\ c \notin live
      /\ live' = live \cup {c}
      /\ Enter(children, p, c, sz)
      /\ events' = <<AddedEvent(children[p], p, c, sz)>>
      /\ UNCHANGED busy

Distinct(cs) == \A i, j \in DOMAIN cs : cs[i] = cs[j] => i = j

StartBatch(p, cs, index) ==
  /\ busy = Idle
  /\ p \in live
  /\ Distinct(cs)
  /\ busy' = [op |-> "detach", at |-> p, cs |-> cs, index |-> index, done |-> 0, oi |-> -1]
  /\ events' = <<>>
  /\ UNCHANGED <<parent, children>>

\* insert(children, index)
InsertBatch(p, cs, index) ==
  /\ StartBatch(p, cs, index)
  /\ \A i \in DOMAIN cs : cs[i] \in live /\ p \notin Subtree(cs[i])
  /\ UNCHANGED live

\* append(name, overlap > 0): 1 + overlap fresh nodes of one name as a batch.
AppendBatch(p, cs) ==
  /\ Len(cs) > 1
  /\ \A i \in DOMAIN cs : cs[i] \notin live /\ NameOf[cs[i]] = NameOf[cs[1]]
  /\ live' = live \cup {cs[i] : i \in DOMAIN cs}
  /\ StartBatch(p, cs, -1)

\* The takes that precede a batch insert, one per round.
BatchDetach ==
  LET c == busy.cs[busy.done + 1]
  IN  /\ busy.op = "detach"
      /\ busy.done < Len(busy.cs)
      /\ children' = Detached(c)
      /\ parent' = [parent EXCEPT ![c] = NULL]
      /\ busy' = [busy EXCEPT !.done = @ + 1]
      /\ events' = TakenEvent(c)
      /\ UNCHANGED live

\* Under the mutex: resolve the position, one shift, one vector insert.
BatchPlace ==
  LET p   == busy.at
      sz  == Len(children[p].nodes)
      pos == Resolve(busy.index, sz)
  IN  /\ busy.op = "detach"
      /\ busy.done = Len(busy.cs)
      /\ \/ /\ pos \in 0 .. sz
            /\ children' = [children EXCEPT ![p] = Widened(@, busy.cs, pos)]
            /\ busy' = [busy EXCEPT !.op = "batch", !.index = pos, !.done = 0]
         \/ /\ pos \notin 0 .. sz
            /\ busy' = Idle
            /\ UNCHANGED children
      /\ events' = <<>>
      /\ UNCHANGED <<live, parent>>

\* One round of the recording loop; the last one releases the mutex and
\* signals the first child with the number of its followers.
BatchRecord ==
  LET p  == busy.at
      c  == busy.cs[busy.done + 1]
      gi == busy.index + busy.done
      oi == IF busy.done = 0 THEN OverlapOf(children[p].indices, NameOf[c], gi) ELSE busy.oi
  IN  /\ busy.op = "batch"
      /\ parent' = [parent EXCEPT ![c] = p]
      /\ children' = [children EXCEPT ![p].indices = Record(@, NameOf[c], gi)]
      /\ \/ /\ busy.done + 1 < Len(busy.cs)
            /\ busy' = [busy EXCEPT !.done = @ + 1, !.oi = oi]
            /\ events' = <<>>
         \/ /\ busy.done + 1 = Len(busy.cs)
            /\ busy' = Idle
            /\ events' = <<Event("ADDED", p, Key(NameOf[busy.cs[1]], oi), busy.done, busy.cs[1])>>
      /\ UNCHANGED live

\* take(child): a node that is not a child of p is left alone.
Take(p, c) ==
  /\ Unlocked
  /\ p \in live
  /\ Holds(children[p], c)
  /\ children' = [children EXCEPT ![p] = Without(@, c)]
  /\ parent' = [parent EXCEPT ![c] = NULL]
  /\ events' = <<Event("REMOVED", p, KeyIn(children[p], c), 0, c)>>
  /\ UNCHANGED <<live, busy>>

\* take, then delete what was taken with everything below it.
TakeAndDelete(p, c) ==
  LET S == Subtree(c)
  IN  /\ live' = live \ S
      /\ parent' = [n \in Nodes |-> IF n \in S THEN NULL ELSE parent[n]]
      /\ children' = [n \in Nodes |-> IF n \in S THEN NoChildren
                                      ELSE IF n = p THEN Without(children[p], c)
                                      ELSE children[n]]
      /\ events' = <<Event("REMOVED", p, KeyIn(children[p], c), 0, c)>>

\* remove(child)
RemoveChild(p, c) ==
  /\ Unlocked
  /\ p \in live
  /\ Holds(children[p], c)
  /\ Spares(Subtree(c))
  /\ TakeAndDelete(p, c)
  /\ UNCHANGED busy

\* remove(name): take(name) and delete until none is left.
RemoveName(p, nm) ==
  /\ busy = Idle
  /\ p \in live
  /\ busy' = [op |-> "removeAll", at |-> p, name |-> nm]
  /\ events' = <<>>
  /\ UNCHANGED <<live, parent, children>>

RemoveNameRound ==
  LET c == AtKey(children[busy.at], Key(busy.name, 0))
  IN  /\ busy.op = "removeAll"
      /\ \/ /\ c # NULL
            /\ TakeAndDelete(busy.at, c)
            /\ UNCHANGED busy
         \/ /\ c = NULL
            /\ busy' = Idle
            /\ events' = <<>>
            /\ UNCHANGED <<live, parent, children>>

\* clear(auto_delete) of a node that has children.
Clear(p, autoDelete) ==
  LET S == IF autoDelete THEN UNION {Subtree(c) : c \in ChildSet(p)} ELSE {}
      n == Len(children[p].nodes)
  IN  /\ Unlocked
      /\ p \in live
      /\ n > 0
      /\ Spares(S)
      /\ live' = live \ S
      /\ parent' = [m \in Nodes |-> IF m \in S \cup ChildSet(p) THEN NULL ELSE parent[m]]
      /\ children' = [m \in Nodes |-> IF m \in S \cup {p} THEN NoChildren ELSE children[m]]
      /\ events' = <<Event("REMOVED", p, Key(NoName, 0), n - 1, children[p].nodes[1])>>
      /\ UNCHANGED busy

-----------------------------------------------------------------------------

CONSTANTS
  IndexArgs,  \* the index arguments callers pass to insert
  MaxBatch    \* the longest batch

ASSUME NodeTreeBounds == IndexArgs \subseteq Int /\ MaxBatch \in Nat

Batches == UNION {[1 .. n -> Nodes] : n \in 1 .. MaxBatch}

Init ==
  /\ live = {}
  /\ parent = [n \in Nodes |-> NULL]
  /\ children = [n \in Nodes |-> NoChildren]
  /\ busy = Idle
  /\ events = <<>>

Next ==
  \/ \E n \in Nodes : New(n) \/ Delete(n)
  \/ \E p, c \in Nodes : AppendNew(p, c) \/ Take(p, c) \/ RemoveChild(p, c)
  \/ \E p, c \in Nodes, index \in IndexArgs : Insert(p, c, index)
  \/ \E p \in Nodes, cs \in Batches : AppendBatch(p, cs)
  \/ \E p \in Nodes, cs \in Batches, index \in IndexArgs : InsertBatch(p, cs, index)
  \/ BatchDetach
  \/ BatchPlace
  \/ BatchRecord
  \/ \E p \in Nodes, nm \in Names : RemoveName(p, nm)
  \/ RemoveNameRound
  \/ \E p \in Nodes, autoDelete \in BOOLEAN : Clear(p, autoDelete)

Spec == Init /\ [][Next]_vars

-----------------------------------------------------------------------------
(* Properties.                                                             *)

\* The children of the batch in progress that are in the vector but not yet
\* recorded.
Pending(p) ==
  IF busy.op = "batch" /\ busy.at = p
  THEN {busy.index + i : i \in busy.done .. Len(busy.cs) - 1}
  ELSE {}

\* Vector and parent links agree: the children of p are exactly the nodes
\* whose parent is p (those of a batch once recorded), each of them once.
LinkedAt(p) ==
  LET nodes == children[p].nodes
  IN  /\ \A i, j \in DOMAIN nodes : nodes[i] = nodes[j] => i = j
      /\ \A i \in DOMAIN nodes :
           parent[nodes[i]] = IF i - 1 \in Pending(p) THEN NULL ELSE p
      /\ \A c \in Nodes : parent[c] = p => \E i \in DOMAIN nodes : nodes[i] = c

Linked == \A p \in Nodes : LinkedAt(p)

\* Vector and name index agree: the index of a name lists, in ascending
\* order, exactly the positions of the (recorded) children of that name.
NameAgrees(iv, nodes, pending, nm) ==
  /\ \A j, k \in DOMAIN iv : j < k => iv[j] < iv[k]
  /\ \A k \in DOMAIN iv : /\ iv[k] + 1 \in DOMAIN nodes
                          /\ iv[k] \notin pending
                          /\ NameOf[nodes[iv[k] + 1]] = nm
  /\ \A i \in DOMAIN nodes :
       NameOf[nodes[i]] = nm /\ i - 1 \notin pending => \E k \in DOMAIN iv : iv[k] = i - 1

IndexAgrees(ch, pending) ==
  \A nm \in Names : NameAgrees(ch.indices[nm], ch.nodes, pending, nm)

Indexed == \A p \in Nodes : IndexAgrees(children[p], Pending(p))

\* The three places that say who is whose child, and where, tell the same.
Structured == Linked /\ Indexed

\* No node that is allocated refers to one that was deleted, upwards or
\* downwards, and a deleted node keeps nothing.
NoDangling ==
  /\ \A n \in live : ChildSet(n) \subseteq live /\ parent[n] \in live \cup {NULL}
  /\ \A n \in Nodes \ live : children[n] = NoChildren /\ parent[n] = NULL

\* Every child is addressed by the key its parent reports for it, so keys
\* of siblings are distinct (keyOf and atKey are inverse).
KeysAddress ==
  busy.op # "batch" =>
    \A p \in live : \A c \in ChildSet(p) : AtKey(children[p], KeyIn(children[p], c)) = c

\* The key of a structural signal addresses the child it is about: that of
\* NODE_REMOVED, built from positions read before the erase, did so before
\* the call; that of NODE_ADDED, computed without indexOf, does so after it,
\* and its overlap counts the children that follow.
AddedAddressed(e, ch) ==
  /\ AtKey(ch, e.key) = e.who
  /\ Position(ch, e.who) + e.overlap < Len(ch.nodes)

KeysSignalled ==
  events' # <<>> =>
    /\ Head(events').sig = "REMOVED" =>
         AtKey(children[Head(events').at], Head(events').key) = Head(events').who
    /\ Last(events').sig = "ADDED" =>
         AddedAddressed(Last(events'), children'[Last(events').at])

\* Siblings never change places: a call moves only the node it is given.
Before(ch, c, d) == Holds(ch, c) /\ Holds(ch, d) /\ Position(ch, c) < Position(ch, d)
Moved == {events'[i].who : i \in DOMAIN events'}
OrderKept ==
  \A p \in Nodes : \A c, d \in ChildSet(p) \ Moved :
    Before(children[p], c, d) /\ Holds(children'[p], c) /\ Holds(children'[p], d)
      => Before(children'[p], c, d)

\* A call says truly where it moved what, and moves nothing else.
MovesAsSignalled == [][KeysSignalled /\ OrderKept]_vars

-----------------------------------------------------------------------------
(* An instance for TLC: which node carries which name.                     *)

Bearers(f, nm) == {n \in Nodes : f[n] = nm}

\* Two nodes share a name, the others have one of their own or none.
MCNameOf ==
  CHOOSE f \in [Nodes -> Names \cup {NoName}] :
    \E nm \in Names : \A other \in Names \cup {NoName} :
      Cardinality(Bearers(f, other)) = IF other = nm THEN 2 ELSE 1

\* Append, before the last, prepend, and one that is out of range below three siblings.
MCIndexArgs == {-2, -1, 0, 3}

\* Nodes of the same name are interchangeable.
MCSymmetry ==
  Permutations({n \in Nodes : Cardinality(Bearers(MCNameOf, MCNameOf[n])) > 1})
=============================================================================
