----------------------------- MODULE MCServices -----------------------------
(***************************************************************************)
(* What several threads share, one part at a time: the children of a node, *)
(* the events of nodes to sessions, the static server's table, the ports   *)
(* of the servers; and the real-time toolkit's pool, commands, objects and *)
(* the buffer of its servers.                                              *)
(***************************************************************************)
EXTENDS Integers, Sequences, FiniteSets, TLC

CONSTANTS
  Careful, Nobody,
  Threads, Calls, MaxOverlap, ShadowCount, MaxNodes, NULL,
  Nodes, Parent, Later, Wanted, Listeners, Writers, Addresses, MaxWrites, MaxConnects, MaxSubscriptions,
  Mounts, Targets, NoTarget, Paths, Setters, Visitors, MaxSets,
  Order, Closing, Ai, Static, Off, Port, Retry, Hundred, Ten, Width, Others, MaxRounds,
  Workers, Tasks, MaxStarts,
  Clients, Templates, Cips, Requests, Values, Accepts(_, _), Lines, Queries, MaxObjects, MaxMessages,
  Objects, Names, Connections, Messages, MaxCache

\* What no call returns is neither a node nor a list of them.
ASSUME ChildrenAssumption ==
  /\ MaxNodes \in Nat /\ MaxOverlap \in Nat /\ ShadowCount \in Nat
  /\ NULL \notin Int /\ NULL \notin Seq(Nat)

\* There is a worker, and nobody is neither a worker nor a task.
ASSUME PoolAssumption ==
  /\ IsFiniteSet(Workers) /\ Workers # {}
  /\ Nobody \notin Workers \cup Tasks

\* The result of a step that a loop runs before the last is one of the three that
\* handleResult knows.
ASSUME StepsAssumption ==
  /\ \A key \in DOMAIN Templates :
       /\ Templates[key] \in Seq([loop : BOOLEAN, result : STRING])
       /\ \A i \in 1 .. Len(Templates[key]) - 1 :
            Templates[key][i].loop => Templates[key][i].result \in {"success", "accept", "fail"}
  /\ \A key \in DOMAIN Cips : Cips[key] \in STRING

\* A node that is there at the start has its parent then.
ASSUME NodesAssumption ==
  /\ Parent \in [Nodes -> Nodes]
  /\ Later \subseteq Nodes /\ \A n \in Nodes \ Later : Parent[n] \notin Later

\* Who rests is not at work, and no session is at 0.
ASSUME WritersAssumption ==
  /\ Addresses \subseteq Nat \ {0}
  /\ Nobody \notin [node : Nodes, at : Nodes, bubbles : BOOLEAN, todo : SUBSET Nat, step : {"trigger", "call", "read", "post"},
                    event : Seq([key : Nat, of : Nodes, node : Nodes, value : Nat, looked : Nat])]

VARIABLES
  which,
  kids, fresh, pc, want, seen, got, answers, taken, crashed,
  latest, nodes, watching, key, keys, subs, ids, writing, told, heard, asked, joined, writes,
  value, table, running, setting, asking, answer, sets,
  stage, at, trying, enabled, client, open, foreign, listening, port, rounds,
  turning, owner, starts, queue, mutex, adding, place, hand, done,
  conns, data, objects, posted, serving, sent,
  alive, name, owned, entries, connections, calling, misused,
  type, connected, sending, bytes, stream, handled

children == <<kids, fresh, pc, want, seen, got, answers, taken, crashed>>
delivery == <<latest, nodes, watching, key, keys, subs, ids, writing, told, heard, asked, joined, writes>>
site     == <<value, table, running, setting, asking, answer, sets>>
ports    == <<stage, at, trying, enabled, client, open, foreign, listening, port, rounds>>
pool     == <<turning, owner, starts, queue, mutex, adding, place, hand, done>>
orders   == <<conns, data, objects, posted, serving, sent>>
family   == <<alive, name, owned, entries, connections, calling, misused>>
lines    == <<type, connected, sending, bytes, stream, handled>>
services == <<children, delivery, site, ports>>
toolkit  == <<pool, orders, family, lines>>
all == <<which, services, toolkit>>

Fa == INSTANCE NodeEnsure WITH result <- got
Events == INSTANCE NodeSessions WITH Clients <- Listeners, Resting <- Nobody, value <- latest, posted <- told
Served == INSTANCE ServerModule WITH Clients <- Visitors, Resting <- Nobody
Rtt == INSTANCE RealTime WITH
  running <- turning, at <- place, table <- entries, FamilyCareful <- Careful

\* Each server is opened once and closed, and a range ends where ports do.
ASSUME PortsAssumption ==
  /\ Order \in Seq(Served!Servers) /\ Order # <<>>
  /\ \A i, j \in DOMAIN Order : Order[i] = Order[j] => i = j
  /\ Closing \in Seq(Served!Servers) /\ {Closing[i] : i \in DOMAIN Closing} = Served!Servers
  /\ Port \in [Served!Servers -> Nat] /\ Width \in Nat
  /\ \A s \in Served!Servers : Served!LastPort(s) \in 0 .. Width - 1

Parts == {"children", "events", "web", "ports", "pool", "orders", "family", "lines"}

\* A part that is not the one keeps one initial state.
MCInit ==
  /\ which \in Parts
  /\ Fa!Init /\ Events!Init /\ Rtt!PoolInit /\ Rtt!OrderInit /\ Rtt!FamilyInit
  /\ Rtt!LineInit /\ (which # "lines" => type = "line")
  /\ Served!SiteInit /\ (which # "web" => \A node \in DOMAIN value : value[node] = NoTarget)
  /\ Served!PortInit /\ (which # "ports" => enabled = Served!Servers /\ ~ client)

Of(part) == which = part /\ UNCHANGED which

MCNext ==
  \/ Of("children") /\ Fa!Next /\ UNCHANGED <<delivery, site, ports, toolkit>>
  \/ Of("events") /\ Events!Next /\ UNCHANGED <<children, site, ports, toolkit>>
  \/ Of("web") /\ Served!SiteNext /\ UNCHANGED <<children, delivery, ports, toolkit>>
  \/ Of("ports") /\ Served!PortNext /\ UNCHANGED <<children, delivery, site, toolkit>>
  \/ Of("pool") /\ Rtt!PoolNext /\ UNCHANGED <<services, orders, family, lines>>
  \/ Of("orders") /\ Rtt!OrderNext /\ UNCHANGED <<services, pool, family, lines>>
  \/ Of("family") /\ Rtt!FamilyNext /\ UNCHANGED <<services, pool, orders, lines>>
  \/ Of("lines") /\ Rtt!LineNext /\ UNCHANGED <<services, pool, orders, family>>

MCSpec == MCInit /\ [][MCNext]_all

-----------------------------------------------------------------------------

\* Callers that ensure the same child get the same one, and a child is taken by
\* one caller only (Node::atKey, Node::take).
ChildrenAgree == which = "children" => Fa!EnsureAgrees /\ Fa!TakenOnce

\* Sessions hear the last value, and only of what they asked for (Node::set,
\* subscribe_service.cpp).
SessionsHear == which = "events" => Events!LatestHeard /\ Events!NoStrangers

\* Servers listen where the node tree says (server_module.cpp).
ServersListen == which = "ports" => Served!ListensWhereSaid


\* Also of a rule that had no target at the start.
TargetsFollow == which = "web" => Served!TargetsFollow

\* A pool's tasks are run once and none is slept over (loop_object.cpp), a
\* command ends once and its client is told (command_object.cpp,
\* sdk_service.cpp), who is gone is forgotten (object.cpp).
ToolkitKeeps ==
  /\ which = "pool" => Rtt!TasksKept /\ Rtt!NoneForgotten
  /\ which = "orders" => Rtt!EndsOnce /\ Rtt!ToldOf
  /\ which = "family" => Rtt!NobodyGone

-----------------------------------------------------------------------------
(* The instance.  The static server has a root, a mount below it, and one  *)
(* below that; ports are eight instead of 65536, ranges four and two, and  *)
(* the terminal's takes in the port of the second terminal.                *)

MCWanted == {<<"p", TRUE>>, <<"d", FALSE>>}
MCParent == [p |-> "p", d |-> "p"]

MCMounts ==
  << [prefix |-> <<>>, files |-> {{<<"index">>, <<"a", "x">>}}, spa |-> FALSE, rules |-> << <<"api">> >>],
     [prefix |-> <<"a">>, files |-> {{<<"index">>, <<"x">>}}, spa |-> TRUE, rules |-> << <<"api">>, <<"api", "b">> >>],
     [prefix |-> <<"a", "b">>, files |-> {{<<"x">>}}, spa |-> FALSE, rules |-> <<>>] >>
MCPaths == {<<>>, <<"a", "x">>, <<"a", "b", "x">>, <<"a", "b", "y">>, <<"a", "api", "b">>, <<"api", "y">>, <<"ab">>}

MCOrder == <<"repl", "ai", "http", "static">>
MCClosing == <<"http", "repl", "ai", "static">>
MCPort == [repl |-> 0, ai |-> 2, http |-> 4, static |-> 6]
MCRetry == [repl |-> -1, ai |-> -1, http |-> 1, static |-> -1]

\* Commands at an end at once, on a loop, left to somebody, and with a step for
\* their input.
Inline(result) == [loop |-> FALSE, result |-> result]
OnLoop(result) == [loop |-> TRUE, result |-> result]
MCTemplates ==
  [none |-> <<>>, quick |-> <<Inline("success"), Inline("odd"), Inline("success")>>,
   wrong |-> <<Inline("fail"), OnLoop("success")>>,
   slow |-> <<Inline("success"), OnLoop("success"), Inline("success"), OnLoop("success")>>,
   held |-> <<OnLoop("success"), Inline("accept"), Inline("fail")>>,
   lost |-> <<OnLoop("fail"), Inline("success")>>, late |-> <<OnLoop("accept"), Inline("success")>>]
MCCips == [slow |-> "success", held |-> "fail", late |-> "accept"]
Wants(g, s, c, id) == [g |-> g, s |-> s, c |-> c, id |-> id]
MCRequests ==
  {Wants({"x", "none"}, [x |-> <<"v">>], <<"late", "none", "nope">>, "1"),
   Wants({}, [n |-> <<"v">>, x |-> <<"bad">>], <<"held", "quick">>, "2"),
   Wants({}, [k \in {} |-> <<>>], <<"lost", "slow", "wrong">>, "3")}
MCValues == [x |-> <<"o">>]
MCAccepts(k, v) == v # <<"bad">>
MCLines == [go |-> "held", late |-> "late", no |-> "nope", quick |-> "quick", run |-> "slow"]
MCQueries == [ask |-> "yes", go |-> "no"]
MCMessages == [c |-> 2, d |-> 1]

Symmetry == Permutations(Threads)
=============================================================================
