----------------------------- MODULE QuickNodes -----------------------------
(***************************************************************************)
(* Nodes as objects of a Qt interface (quick_node.cpp,                     *)
(* node_signal_bridge.cpp, node_qobject.cpp): a bridge is on one node,     *)
(* and what that node signals, on whatever thread, is posted to the        *)
(* interface's thread.  A node is set in two steps: the value is swapped   *)
(* under its lock, and its signal given afterwards.  The structure of the  *)
(* tree changes in one step (NodeEnsure has how it does); names are        *)
(* unique.                                                                 *)
(***************************************************************************)
EXTENDS Naturals, Sequences, FiniteSets
LOCAL INSTANCE SequencesExt
LOCAL INSTANCE Functions

CONSTANTS
  Viewers,  \* QuickNodes, NodeQObjects: what has a bridge
  Threads,  \* that set nodes, besides the interface
  Paths,    \* of nodes, closed under prefixes
  Values,
  MaxNodes, MaxSets,
  Careful   \* a node that a bridge is on is not removed

VARIABLES
  tree,     \* the id of the node at each path there is; 0 is none
  value,    \* of each id
  on,       \* Impl::n of each viewer
  path,     \* QuickNode::Private::path
  pc,       \* what each thread is about to do: [at, node, value, again, rest]
  queue,    \* posted with singleShot(0): [to, kind, arg]
  seen,     \* what a viewer's value was when changed was emitted; the list of
            \* names that the page keeps for it, if it has read one
  changed,  \* viewers whose node was set since they are on it
  mixed,    \* viewers that posts of an earlier node were under way to
  sets, made

vars == <<tree, value, on, path, pc, queue, seen, changed, mixed, sets, made>>

UI == "ui"
None == "none"
Unread == {}
Nodes == 1 .. MaxNodes
Idle == [at |-> "idle", node |-> 0, value |-> None, again |-> {}, rest |-> <<>>]
Live == {tree[p] : p \in DOMAIN tree}
Below(p) == {q \in DOMAIN tree : IsPrefix(p, q)}
PathOf(n) == CHOOSE p \in DOMAIN tree : tree[p] = n
NamesAt(t, n) == {Last(p) : p \in {q \in DOMAIN t : q # <<>> /\ t[Front(q)] = n}}
ValueOf(n) == IF n = 0 THEN None ELSE value[n]

Init ==
  /\ tree = (<<>> :> 1) /\ value = [n \in Nodes |-> None]
  /\ on = [v \in Viewers |-> 0] /\ path = [v \in Viewers |-> <<>>]
  /\ pc = [t \in Threads \cup {UI} |-> Idle]
  /\ queue = <<>> /\ seen = [v \in Viewers |-> [value |-> None, names |-> Unread]] /\ changed = {} /\ mixed = {}
  /\ sets = 0 /\ made = 1

Post(to, kind, arg) == [to |-> to, kind |-> kind, arg |-> arg]
Posts(who, kind, arg) == SetToSeq({Post(v, kind, arg) : v \in who})
OnNode(n) == {v \in Viewers : n # 0 /\ on[v] = n}

-----------------------------------------------------------------------------
(* The tree.                                                               *)

\* at(path): the nodes there are not yet, each with a signal of its parent.
\* [tree, made, posts].
Ensured(p) ==
  FoldLeft(
    LAMBDA s, i :
      LET q == SubSeq(p, 1, i) IN
      IF q \in DOMAIN s.tree THEN s
      ELSE [tree |-> (q :> s.made + 1) @@ s.tree, made |-> s.made + 1,
            posts |-> s.posts \o Posts(OnNode(s.tree[Front(q)]), "added", q[i])],
    [tree |-> tree, made |-> made, posts |-> <<>>], [i \in 1 .. Len(p) |-> i])
Makes(p) == Ensured(p).made <= MaxNodes

\* A node and all below it are removed and deleted.
RemoveNode(p) ==
  /\ p \in DOMAIN tree \ {<<>>} /\ pc[UI] = Idle
  /\ Careful => \A v \in Viewers : on[v] \notin {tree[q] : q \in Below(p)}
  /\ \A t \in DOMAIN pc : pc[t].node \notin {tree[q] : q \in Below(p)}
  /\ queue' = queue \o Posts(OnNode(tree[Front(p)]), "removed", Last(p))
  /\ tree' = Restrict(tree, DOMAIN tree \ Below(p))
  /\ UNCHANGED <<value, on, path, pc, seen, changed, mixed, sets, made>>

\* set: swapped, and the signal still to be given; then the nodes that are to
\* be set besides.
Swap(t, n, x, again, rest) ==
  /\ value' = [value EXCEPT ![n] = x]
  /\ changed' = changed \cup OnNode(n)
  /\ pc' = [pc EXCEPT ![t] = [at |-> "signal", node |-> n, value |-> x, again |-> again, rest |-> rest]]

OneSet(n, x) == [node |-> n, value |-> x]
Sets(todo) ==
  IF todo = <<>> THEN Idle
  ELSE [at |-> "set", node |-> Head(todo).node, value |-> Head(todo).value, again |-> {}, rest |-> Tail(todo)]

\* The callbacks of the bridges that are on the node: a post for each.
Signal(t) ==
  /\ pc[t].at = "signal"
  /\ queue' = queue \o Posts(OnNode(pc[t].node), "changed", pc[t].value)
  /\ pc' = [pc EXCEPT ![t] = Sets(pc[t].rest)]
  /\ seen' = [v \in Viewers |-> IF v \in pc[t].again THEN [seen[v] EXCEPT !.value = ValueOf(on[v])] ELSE seen[v]]
  /\ UNCHANGED <<tree, value, on, path, changed, mixed, sets, made>>

\* Another thread sets a node.
SetBy(t, p, x) ==
  /\ t \in Threads /\ pc[t] = Idle /\ sets < MaxSets /\ p \in DOMAIN tree
  /\ Swap(t, tree[p], x, {}, <<>>) /\ sets' = sets + 1
  /\ UNCHANGED <<tree, on, path, queue, seen, mixed, made>>

-----------------------------------------------------------------------------
(* QuickNode, on the interface's thread.                                   *)

\* attach: off the old node and on the new one; nothing of what is posted is
\* taken back, no changed says that the value is another's now, and no added
\* which children there are.
Attach(v, n, posts) ==
  /\ on' = [on EXCEPT ![v] = n]
  /\ changed' = changed \ {v}
  /\ queue' = queue \o posts
  /\ mixed' = IF \E i \in DOMAIN queue' : queue'[i].to = v THEN mixed \cup {v} ELSE mixed \ {v}
  /\ seen' = [seen EXCEPT ![v].names = Unread]

SetPath(v, p) ==
  /\ pc[UI] = Idle
  /\ IF p = <<>> THEN Attach(v, 0, <<>>) /\ UNCHANGED <<tree, made>>
     ELSE /\ Makes(p)
          /\ LET s == Ensured(p) IN
               tree' = s.tree /\ made' = s.made /\ Attach(v, s.tree[p], s.posts)
  /\ path' = [path EXCEPT ![v] = p]
  /\ UNCHANGED <<value, pc, sets>>

SetValue(v, x) ==
  /\ pc[UI] = Idle /\ sets < MaxSets /\ on[v] # 0
  /\ Swap(UI, on[v], x, {}, <<>>) /\ sets' = sets + 1
  /\ UNCHANGED <<tree, on, path, queue, seen, mixed, made>>

\* trigger: changed is emitted at once, with the value there is.
Trigger(v) ==
  /\ pc[UI] = Idle /\ on[v] # 0
  /\ seen' = [seen EXCEPT ![v].value = value[on[v]]]
  /\ UNCHANGED <<tree, value, on, path, pc, queue, changed, mixed, sets, made>>

\* fromVar(subPath): a node below is set, and then perhaps the trigger.
FromVar(v, sub, x, auto) ==
  /\ pc[UI] = Idle /\ sets < MaxSets /\ sub # <<>> /\ on[v] \in Live
  /\ LET p == PathOf(on[v]) \o sub
         s == Ensured(p)
     IN /\ p \in Paths /\ Makes(p)
        /\ tree' = s.tree /\ made' = s.made /\ queue' = queue \o s.posts
        /\ Swap(UI, s.tree[p], x, IF auto THEN {v} ELSE {}, <<>>)
  /\ sets' = sets + 1
  /\ UNCHANGED <<on, path, seen, mixed>>

\* fromProperties: the children that the object has properties of, one after
\* the other, and in the end the node itself, which is left without a value.
FromProperties(v, properties) ==
  /\ pc[UI] = Idle /\ sets < MaxSets /\ on[v] \in Live
  /\ LET kids == SetToSeq(DOMAIN properties \cap NamesAt(tree, on[v]))
         Kid(i) == OneSet(tree[Append(PathOf(on[v]), kids[i])], properties[kids[i]])
     IN pc' = [pc EXCEPT ![UI] = Sets(Append([i \in DOMAIN kids |-> Kid(i)], OneSet(on[v], None)))]
  /\ sets' = sets + 1
  /\ UNCHANGED <<tree, value, on, path, queue, seen, changed, mixed, made>>

-----------------------------------------------------------------------------
(* QuickRootNode.                                                          *)

RootSet(p, x) ==
  /\ pc[UI] = Idle /\ sets < MaxSets /\ Makes(p)
  /\ LET s == Ensured(p) IN
       tree' = s.tree /\ made' = s.made /\ queue' = queue \o s.posts /\ Swap(UI, s.tree[p], x, {}, <<>>)
  /\ sets' = sets + 1
  /\ UNCHANGED <<on, path, seen, mixed>>

\* trigger(path): set to what get returned before.
RootTrigger(p) ==
  /\ pc[UI] = Idle /\ sets < MaxSets /\ p \in DOMAIN tree
  /\ pc' = [pc EXCEPT ![UI] = Sets(<<OneSet(tree[p], value[tree[p]])>>)]
  /\ sets' = sets + 1
  /\ UNCHANGED <<tree, value, on, path, queue, seen, changed, mixed, made>>
SetNext ==
  /\ pc[UI].at = "set"
  /\ Swap(UI, pc[UI].node, pc[UI].value, {}, pc[UI].rest)
  /\ UNCHANGED <<tree, on, path, queue, seen, mixed, sets, made>>

\* exportAsVar: the page begins a list of the node's children, to be kept by
\* what it hears.
ReadNames(v) ==
  /\ pc[UI] = Idle /\ on[v] # 0 /\ path[v] \in DOMAIN tree /\ seen[v].names = Unread
  /\ seen' = [seen EXCEPT ![v].names = {NamesAt(tree, tree[path[v]])}]
  /\ UNCHANGED <<tree, value, on, path, pc, queue, changed, mixed, sets, made>>

-----------------------------------------------------------------------------

\* A page's list, when it hears of a name more or less.
Listed(names, e) == {IF e.kind = "added" THEN list \cup {e.arg} ELSE list \ {e.arg} : list \in names}

Delivered(new(_, _)) ==
  /\ pc[UI] = Idle /\ queue # <<>>
  /\ LET e == Head(queue) IN
       seen' = [seen EXCEPT ![e.to] = IF e.kind = "changed" THEN [@ EXCEPT !.value = new(e, on[e.to])]
                                      ELSE [@ EXCEPT !.names = Listed(@, e)]]
  /\ queue' = Tail(queue)
  /\ UNCHANGED <<tree, value, on, path, pc, changed, mixed, sets, made>>

\* Mutant: value is what changed carried last.
DeliverCarried == Delivered(LAMBDA e, n : e.arg)

\* The event loop: the oldest post.  Who hears changed reads the value anew.
Deliver == Delivered(LAMBDA e, n : ValueOf(n))

Next ==
  \/ \E p \in Paths : RemoveNode(p) \/ RootTrigger(p) \/ \E x \in Values : RootSet(p, x)
  \/ \E t \in Threads \cup {UI} : Signal(t) \/ \E p \in Paths, x \in Values : SetBy(t, p, x)
  \/ \E v \in Viewers :
       \/ Trigger(v) \/ ReadNames(v)
       \/ \E p \in Paths : SetPath(v, p)
       \/ \E x \in Values : SetValue(v, x) \/ \E sub \in Paths, auto \in BOOLEAN : FromVar(v, sub, x, auto)
       \/ \E name \in {Last(p) : p \in Paths \ {<<>>}}, x \in Values : FromProperties(v, name :> x)
  \/ SetNext \/ Deliver

Spec == Init /\ [][Next]_vars

-----------------------------------------------------------------------------

Quiet == queue = <<>> /\ \A t \in DOMAIN pc : pc[t] = Idle

\* When all is delivered, whose node was set since it is on it shows the node's
\* value, in whatever order the threads' signals were posted.  The value a
\* signal carries may be an older one; a viewer that was given another path
\* shows the old node's until the new one is set.
ShownAtLast == Quiet => \A v \in changed : seen[v].value = value[on[v]]

\* A page that has read which children there are, at whatever moment, and goes
\* by what it hears of them has those there are, whatever was under way when it
\* read.  Not for an object that was given another path while names of the old
\* node were under way.
NamesAgree ==
  Quiet => \A v \in Viewers \ mixed : on[v] \in Live => \A names \in seen[v].names : names = NamesAt(tree, on[v])

\* No bridge is on a node that is deleted.
NodeStands == \A v \in Viewers : on[v] \in Live \cup {0}

\* The same for every object: does not hold, what is posted is not taken back.
NamesAlways ==
  Quiet => \A v \in Viewers : on[v] \in Live => \A names \in seen[v].names : names = NamesAt(tree, on[v])

\* Every object shows the value of its node: does not hold after another path
\* was set, which emits no changed.
ShownAlways == Quiet => \A v \in Viewers : on[v] # 0 => seen[v].value = value[on[v]]

\* A trigger leaves the value as it is: does not hold where another thread sets
\* it between the trigger's get and its set.
TriggerKeeps == [][pc[UI].at = "set" => value' = value \/ pc'[UI] = pc[UI]]_vars
=============================================================================
