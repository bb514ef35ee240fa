----------------------------- MODULE NodeEnsure -----------------------------
(***************************************************************************)
(* Concurrent use of one ve::Node (ve/src/core/node.cpp): threads call     *)
(* at(name, overlap), which looks the child up, counts, appends what is    *)
(* missing and looks again - four critical sections, not one - while       *)
(* others take children or clear the node.  take and clear look at the     *)
(* children pointer before they lock.                                      *)
(*                                                                         *)
(* Only the children of one name are represented: the others change        *)
(* neither the count nor the overlaps of that name.                        *)
(***************************************************************************)
EXTENDS Integers, Sequences, FiniteSets, SequencesExt

CONSTANTS
  Threads,
  Calls,        \* which of "at", "take", "clear" are made
  MaxOverlap,   \* the largest overlap asked for
  ShadowCount,  \* how many children of the name the shadow has
  MaxNodes,     \* bound on nodes created
  NULL

VARIABLES
  kids,     \* the children of the name in order, or NULL without Children
  fresh,    \* nodes created so far; a node is its number
  pc,       \* per thread: idle, or the next critical section of its call
  want,     \* the overlap asked for, or the child to be taken
  seen,     \* what count() returned
  result,   \* what the last call to return has returned
  answers,  \* the answers of at since the last removal: [overlap, node]
  taken,    \* how often each node was handed out by take
  crashed   \* a null children pointer was dereferenced

vars == <<kids, fresh, pc, want, seen, result, answers, taken, crashed>>

Kin == 1 .. MaxNodes
Shadows == {-(i + 1) : i \in 0 .. ShadowCount - 1}   \* children of the shadow

TypeOK ==
  /\ kids \in Seq(Kin) \cup {NULL}
  /\ fresh \in 0 .. MaxNodes
  /\ pc \in [Threads -> {"idle", "count", "append", "rematch", "take", "clear"}]
  /\ want \in [Threads -> 0 .. MaxOverlap + MaxNodes]
  /\ seen \in [Threads -> 0 .. MaxNodes]
  /\ result \in Kin \cup Shadows \cup {NULL}
  /\ \A a \in answers : a.overlap \in 0 .. MaxOverlap /\ a.node \in Kin \cup Shadows
  /\ taken \in [Kin -> Nat]
  /\ crashed \in BOOLEAN

Init ==
  /\ kids = NULL
  /\ fresh = 0
  /\ pc = [t \in Threads |-> "idle"]
  /\ want = [t \in Threads |-> 0]
  /\ seen = [t \in Threads |-> 0]
  /\ result = NULL
  /\ answers = {}
  /\ taken = [n \in Kin |-> 0]
  /\ crashed = FALSE

-----------------------------------------------------------------------------

Kids == IF kids = NULL THEN <<>> ELSE kids

\* child(name, overlap)
Child(overlap) == IF overlap < Len(Kids) THEN Kids[overlap + 1] ELSE NULL

\* The const atKey: the own child, else the shadow's.
Found(overlap) ==
  IF Child(overlap) # NULL THEN Child(overlap)
  ELSE IF overlap < ShadowCount THEN -(overlap + 1) ELSE NULL

Begin(t, first) == pc' = [pc EXCEPT ![t] = first]

\* The call ends, and its locals with it.
Return(t, node) ==
  /\ pc' = [pc EXCEPT ![t] = "idle"]
  /\ want' = [want EXCEPT ![t] = 0]
  /\ seen' = [seen EXCEPT ![t] = 0]
  /\ result' = node

Answer(t, node) ==
  /\ Return(t, node)
  /\ answers' = IF node = NULL THEN answers ELSE answers \cup {[overlap |-> want[t], node |-> node]}

-----------------------------------------------------------------------------
(* at(name, overlap)                                                       *)

\* The look-up.
At(t, overlap) ==
  /\ "at" \in Calls /\ pc[t] = "idle" /\ ~ crashed
  /\ \/ /\ Found(overlap) # NULL
        /\ result' = Found(overlap)
        /\ answers' = answers \cup {[overlap |-> overlap, node |-> Found(overlap)]}
        /\ UNCHANGED <<pc, want>>
     \/ /\ Found(overlap) = NULL
        /\ want' = [want EXCEPT ![t] = overlap]
        /\ Begin(t, "count")
        /\ UNCHANGED <<result, answers>>
  /\ UNCHANGED <<kids, fresh, seen, taken, crashed>>

\* count(name)
Count(t) ==
  /\ pc[t] = "count"
  /\ seen' = [seen EXCEPT ![t] = Len(Kids)]
  /\ pc' = [pc EXCEPT ![t] = "append"]
  /\ UNCHANGED <<kids, fresh, want, result, answers, taken, crashed>>

\* How many nodes append(name, overlap - count) creates; none when negative.
Missing(t) == want[t] - seen[t] + 1

\* append: a batch of new nodes at the end, or nullptr without any.
Append_(t) ==
  LET n == Missing(t)
  IN  /\ pc[t] = "append"
      /\ \/ /\ n <= 0
            /\ Return(t, NULL)
            /\ UNCHANGED <<kids, fresh>>
         \/ /\ n > 0
            /\ fresh + n <= MaxNodes
            /\ fresh' = fresh + n
            /\ kids' = Kids \o [i \in 1 .. n |-> fresh + i]
            /\ pc' = [pc EXCEPT ![t] = "rematch"]
            /\ UNCHANGED <<want, seen, result>>
      /\ UNCHANGED <<answers, taken, crashed>>

\* Mutant: the last child instead of a second look-up.
LastChild(t) == IF Kids = <<>> THEN NULL ELSE Kids[Len(Kids)]

\* The node the second look-up finds.
Rematched(t) == Child(want[t])

Rematch(t) ==
  /\ pc[t] = "rematch"
  /\ Answer(t, Rematched(t))
  /\ UNCHANGED <<kids, fresh, taken, crashed>>

-----------------------------------------------------------------------------
(* take(child) and clear()                                                 *)

\* The pointer is looked at, then the mutex is taken.
TakeCheck(t, n) ==
  /\ "take" \in Calls /\ pc[t] = "idle" /\ ~ crashed
  /\ kids # NULL
  /\ n \in 1 .. fresh
  /\ want' = [want EXCEPT ![t] = n]
  /\ Begin(t, "take")
  /\ UNCHANGED <<kids, fresh, seen, result, answers, taken, crashed>>

\* Whether the locked part of take finds the child in the index.
Holds(n) == \E i \in DOMAIN kids : kids[i] = n

TakeLocked(t) ==
  LET n == want[t]
  IN  /\ pc[t] = "take"
      /\ \/ /\ kids = NULL
            /\ crashed' = TRUE
            /\ UNCHANGED <<kids, pc, want, seen, result, answers, taken>>
         \/ /\ kids # NULL /\ Holds(n)
            /\ \E i \in DOMAIN kids : kids[i] = n /\ kids' = RemoveAt(kids, i)
            /\ taken' = [taken EXCEPT ![n] = @ + 1]
            /\ answers' = {}
            /\ Return(t, n)
            /\ UNCHANGED crashed
         \/ /\ kids # NULL /\ ~ Holds(n)
            /\ Return(t, NULL)
            /\ UNCHANGED <<kids, answers, taken, crashed>>
      /\ UNCHANGED <<fresh>>

ClearCheck(t) ==
  /\ "clear" \in Calls /\ pc[t] = "idle" /\ ~ crashed
  /\ kids # NULL
  /\ Begin(t, "clear")
  /\ UNCHANGED <<kids, fresh, want, seen, result, answers, taken, crashed>>

ClearLocked(t) ==
  /\ pc[t] = "clear"
  /\ \/ /\ kids = NULL
        /\ crashed' = TRUE
        /\ UNCHANGED <<kids, pc, want, seen, result, answers>>
     \/ /\ kids # NULL
        /\ kids' = NULL
        /\ answers' = {}
        /\ Return(t, NULL)
        /\ UNCHANGED crashed
  /\ UNCHANGED <<fresh, taken>>

-----------------------------------------------------------------------------

Next ==
  \E t \in Threads :
    \/ \E overlap \in 0 .. MaxOverlap : At(t, overlap)
    \/ Count(t) \/ Append_(t) \/ Rematch(t)
    \/ \E n \in Kin : TakeCheck(t, n)
    \/ TakeLocked(t) \/ ClearCheck(t) \/ ClearLocked(t)

Spec == Init /\ [][Next]_vars

-----------------------------------------------------------------------------
(* Properties.                                                             *)

\* As long as nobody removes a child, every caller of at(name, overlap) that
\* gets a node of the tree gets the same one, however the calls interleave
\* with each other and with earlier removals.
EnsureAgrees ==
  \A a, b \in answers : a.overlap = b.overlap /\ {a.node, b.node} \subseteq Kin => a.node = b.node

\* A child is handed out by take to one caller only.
TakenOnce == \A n \in Kin : taken[n] <= 1

\* "ensure exists, creates if not found": at does not return null (node.h).
EnsureExists ==
  [][\A t \in Threads : pc[t] \in {"append", "rematch"} /\ pc'[t] = "idle" => result' # NULL]_vars

\* "insert/take/clear all lock mutex()": concurrent take and clear are safe
\* (node.cpp).
NoNullChildren == ~ crashed
=============================================================================
