-------------------------- MODULE ModuleLifecycle ---------------------------
(***************************************************************************)
(* The life of the modules under ve::entry (ve/src/entry.cpp): the graph   *)
(* of the enabled modules is put in order - parents and declared           *)
(* dependencies first, then by effective priority and depth - and the      *)
(* order is walked forwards to construct and init, backwards to ready,     *)
(* deinit and delete.  In between run() waits until any thread asks to     *)
(* quit, which may have happened long before.                              *)
(*                                                                         *)
(* The keys are those of the factory and their dotted prefixes; the        *)
(* configuration says which are enabled, with what priority, and depend    *)
(* on which others.                                                        *)
(***************************************************************************)
EXTENDS Integers, Sequences, FiniteSets

CONSTANTS
  Keys,
  Ancestors,   \* the proper dotted prefixes of a key
  Configs,     \* records of enabled, priority and depends
  MayFail,     \* keys whose constructor may throw or return null
  MaxRounds    \* bound on runs of exec in one process

VARIABLES
  phase,    \* what the main thread is doing
  config,   \* the configuration in the node tree
  cyclic,   \* resolveDepends found a cycle
  order,    \* the slots, as far as they have been put in order
  at,       \* the slot the walk has come to
  made,     \* the modules that have an instance
  mstate,   \* Module::state of each
  quit,     \* quit_requested
  rounds

vars == <<phase, config, cyclic, order, at, made, mstate, quit, rounds>>

Phases == {"none", "resolve", "create", "init", "ready", "running", "deinit", "delete"}
States == {"none", "INIT", "READY", "DEINIT"}

TypeOK ==
  /\ phase \in Phases
  /\ config.enabled \subseteq Keys
  /\ cyclic \in BOOLEAN
  /\ order \in Seq(config.enabled)
  /\ at \in 0 .. Len(order) + 1
  /\ made \subseteq config.enabled
  /\ mstate \in [Keys -> States]
  /\ quit \in BOOLEAN
  /\ rounds \in 0 .. MaxRounds

Init ==
  /\ phase = "none"
  /\ config \in Configs
  /\ cyclic = FALSE
  /\ order = <<>> /\ at = 0
  /\ made = {}
  /\ mstate = [k \in Keys |-> "none"]
  /\ quit = FALSE
  /\ rounds = 0

-----------------------------------------------------------------------------
(* buildModuleGraph and resolveDepends.                                    *)

Enabled == config.enabled
Depth(k) == Cardinality(Ancestors[k])

\* The enabled prefix that is longest: parentKey, repeated.
Parent(k) ==
  {a \in Ancestors[k] \cap Enabled : \A b \in Ancestors[k] \cap Enabled : b = a \/ b \in Ancestors[a]}

\* p is the effective priority of k: its own or that of an enabled prefix,
\* whichever is largest.
Effective(k, p) ==
  LET line == {k} \cup (Ancestors[k] \cap Enabled)
  IN  /\ \E a \in line : config.priority[a] = p
      /\ \A a \in line : config.priority[a] <= p

\* Smaller effective priority first, then smaller depth.
Before(j, k) ==
  \E p, q \in {config.priority[a] : a \in Enabled} :
    /\ Effective(j, p) /\ Effective(k, q)
    /\ p < q \/ (p = q /\ Depth(j) < Depth(k))

\* What must come before k: its parent and the enabled keys it depends on.
Needs(k) == Parent(k) \cup (config.depends[k] \cap Enabled)

Placed == {order[i] : i \in DOMAIN order}

\* Indegree zero, and not taken yet.
Placeable(k) == k \in Enabled \ Placed /\ Needs(k) \subseteq Placed

\* The top of the priority queue; among equals any.
First(k) == \A j \in Enabled : Placeable(j) => ~ Before(j, k)

\* setup() has loaded the configuration, init() builds the graph.
Setup ==
  /\ phase = "none" /\ rounds < MaxRounds
  /\ rounds' = rounds + 1
  /\ phase' = "resolve"
  /\ order' = <<>> /\ at' = 0
  /\ cyclic' = FALSE
  /\ UNCHANGED <<config, made, mstate, quit>>

\* One round of Kahn's algorithm.
Place(k) ==
  /\ phase = "resolve"
  /\ Placeable(k) /\ First(k)
  /\ order' = Append(order, k)
  /\ UNCHANGED <<phase, config, cyclic, at, made, mstate, quit, rounds>>

\* What the slots are when the sort by effective priority and depth is kept.
Sorted(s) == \A i, j \in DOMAIN s : i < j => ~ Before(s[j], s[i])

Listing(s) ==
  /\ {s[i] : i \in DOMAIN s} = Enabled
  /\ \A i, j \in DOMAIN s : s[i] = s[j] => i = j

\* Nothing is placeable any more: all are in order, or there is a cycle and
\* the slots stay sorted by priority.
Resolved ==
  /\ phase = "resolve"
  /\ \A k \in Enabled : ~ Placeable(k)
  /\ phase' = "create"
  /\ at' = 1
  /\ \/ /\ Placed = Enabled
        /\ UNCHANGED <<order, cyclic>>
     \/ /\ Placed # Enabled
        /\ cyclic' = TRUE
        /\ order' \in [1 .. Cardinality(Enabled) -> Enabled]
        /\ Listing(order') /\ Sorted(order')
  /\ UNCHANGED <<config, made, mstate, quit, rounds>>

-----------------------------------------------------------------------------
(* init, run and deinit walk the order.                                    *)

There == at \in DOMAIN order
Turn(p, k) == phase = p /\ There /\ order[at] = k

\* The constructor returns, throws or returns null.
Create(k) ==
  /\ Turn("create", k)
  /\ at' = at + 1
  /\ \/ /\ made' = made \cup {k}
        /\ mstate' = [mstate EXCEPT ![k] = "none"]
     \/ /\ k \in MayFail
        /\ UNCHANGED <<made, mstate>>
  /\ UNCHANGED <<phase, config, cyclic, order, quit, rounds>>

\* exeState of the module whose turn it is, if it has an instance.
Execute(k, state) ==
  /\ mstate' = IF k \in made THEN [mstate EXCEPT ![k] = state] ELSE mstate
  /\ UNCHANGED <<phase, config, cyclic, order, made, quit, rounds>>

InitModule(k) == Turn("init", k) /\ at' = at + 1 /\ Execute(k, "INIT")
ReadyModule(k) == Turn("ready", k) /\ at' = at - 1 /\ Execute(k, "READY")

\* Mutant: the walks of deinit start at the first slot.
FromTheFirst == 1

\* The walks of deinit start at the last slot and go backwards.
FromTheLast == Len(order)

DeinitModule(k) == Turn("deinit", k) /\ at' = at - 1 /\ Execute(k, "DEINIT")

Delete(k) ==
  /\ Turn("delete", k)
  /\ at' = at - 1
  /\ made' = made \ {k}
  /\ UNCHANGED <<phase, config, cyclic, order, mstate, quit, rounds>>

\* A walk is over and the next begins.
Switch(from, to, start) ==
  /\ phase = from /\ ~ There
  /\ phase' = to
  /\ at' = start
  /\ UNCHANGED <<config, cyclic, order, made, mstate, quit, rounds>>

Created == Switch("create", "init", 1)
Initialized == Switch("init", "ready", Len(order))
Run == Switch("ready", "running", 0)
Deinitialized == Switch("deinit", "delete", FromTheLast)

\* The condition run waits for.
Woken == quit

\* loop::run returns, and exec goes on with deinit.
RunReturns ==
  /\ phase = "running"
  /\ Woken
  /\ phase' = "deinit"
  /\ at' = FromTheLast
  /\ UNCHANGED <<config, cyclic, order, made, mstate, quit, rounds>>

\* The end of deinit.
Shutdown ==
  /\ phase = "delete" /\ ~ There
  /\ phase' = "none"
  /\ order' = <<>> /\ at' = 0
  /\ quit' = FALSE
  /\ UNCHANGED <<config, cyclic, made, mstate, rounds>>

\* loop::quit, from any thread, at any time.
RequestQuit ==
  /\ ~ quit
  /\ quit' = TRUE
  /\ UNCHANGED <<phase, config, cyclic, order, at, made, mstate, rounds>>

Step ==
  \/ \E k \in Keys :
       Place(k) \/ Create(k) \/ InitModule(k) \/ ReadyModule(k) \/ DeinitModule(k) \/ Delete(k)
  \/ Resolved \/ Created \/ Initialized \/ Run \/ RunReturns \/ Deinitialized \/ Shutdown

Next == Step \/ Setup \/ RequestQuit

Spec == Init /\ [][Next]_vars

\* The main thread goes on.
FairSpec == Spec /\ WF_vars(Step)

-----------------------------------------------------------------------------
(* Properties.                                                             *)

\* What is promised to come before k: its parent always, and unless there is
\* a cycle everything it depends on.
Firm(k) == IF cyclic THEN Parent(k) ELSE Needs(k)

\* "Parents first: all constructors -> all init()" (module.h): a module is
\* initialized after everything it needs.
NeedsFirst ==
  [][\A k \in Keys : mstate[k] # "INIT" /\ mstate'[k] = "INIT" =>
       \A n \in Firm(k) \cap made : mstate[n] = "INIT"]_vars

\* "Children first: all ready() -> ... -> all deinit() -> all destructors": a
\* module gets ready, ends and is deleted after everything that needs it.
UsersFirst ==
  [][\A k \in Keys : \A u \in made : k \in Firm(u) =>
       /\ mstate[k] # mstate'[k] /\ mstate'[k] \in {"READY", "DEINIT"} => mstate[u] = mstate'[k]
       /\ k \notin made \ made']_vars

\* The order departs from priority and depth only where it has to: of two
\* neighbours that are in the wrong order, the second needs the first.
InversionsForced ==
  phase # "resolve" /\ ~ cyclic =>
    \A i \in 1 .. Len(order) - 1 :
      Before(order[i + 1], order[i]) => order[i] \in Needs(order[i + 1])

\* Whoever asks to quit before deinit gets it, even before run was called.
QuitHonoured == quit /\ phase \notin {"none", "deinit", "delete"} ~> phase = "deinit"
=============================================================================
