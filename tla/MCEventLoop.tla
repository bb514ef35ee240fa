---------------------------- MODULE MCEventLoop -----------------------------
(***************************************************************************)
(* What runs the program, one part at a time: an event loop with its users *)
(* and workers, and the life of the modules.                               *)
(***************************************************************************)
EXTENDS EventLoop, Integers

CONSTANTS Keys, Ancestors, Configs, MayFail, MaxRounds

\* A key's prefixes are prefixes of one another; the configuration says of
\* each key that is enabled which number it has and which others it names.
ASSUME LifecycleAssumption ==
  /\ IsFiniteSet(Keys) /\ MaxRounds \in Nat
  /\ Ancestors \in [Keys -> SUBSET Keys]
  /\ \A k \in Keys : k \notin Ancestors[k] /\ \A a \in Ancestors[k] : Ancestors[a] \subseteq Ancestors[k]
  /\ \A c \in Configs :
       /\ c.enabled \subseteq Keys
       /\ c.priority \in [Keys -> Int]
       /\ c.depends \in [Keys -> SUBSET Keys]

VARIABLES which, phase, config, cyclic, order, at, made, mstate, quit, rounds

modules == <<phase, config, cyclic, order, at, made, mstate, quit, rounds>>

Life == INSTANCE ModuleLifecycle

MCInit ==
  /\ Init
  /\ \/ which = "loop" /\ config = CHOOSE x \in Configs : TRUE
     \/ which = "modules" /\ threads = Workers
  /\ Life!Init

OfLoop(A) == which = "loop" /\ A /\ UNCHANGED <<which, modules>>
OfModules(A) == which = "modules" /\ A /\ UNCHANGED <<which, vars>>

MCNext == OfLoop(Next) \/ OfModules(Life!Next)

all == <<which, vars, modules>>

\* Workers keep working, tasks return, a call that has begun goes on, and so
\* does the main thread.
MCSpec ==
  /\ MCInit /\ [][MCNext]_all
  /\ \A w \in Workers : WF_all(OfLoop(Work(w)))
  /\ \A u \in Users : WF_all(OfLoop(StopReturns(u)))
  /\ WF_all(OfModules(Life!Step))

-----------------------------------------------------------------------------

\* A module is initialized after what it needs, and gets ready, ends and is
\* deleted before it, and only for that is the order of priorities left
\* (resolveDepends, init and deinit of entry.cpp).
NeedsOutliveUsers == Life!NeedsFirst /\ Life!UsersFirst /\ []Life!InversionsForced

\* What is posted has its turn, stop returns, and whoever asks to quit before
\* deinit gets it, even before run (Loop::post, Loop::stop, loop::quit).
AskedIsDone == TaskRuns /\ StopEnds /\ Life!QuitHonoured

-----------------------------------------------------------------------------
(* Four modules, three of which are in line, with all priorities and up to *)
(* two declared dependencies.                                              *)

MCAncestors == [k \in Keys |-> CASE k = "a.b" -> {"a"} [] k = "a.b.d" -> {"a", "a.b"} [] OTHER -> {}]

Edges == {e \in SUBSET {p \in Keys \X Keys : p[1] # p[2]} : Cardinality(e) <= 2}

\* All modules, or all but the middle one of the three generations.
MCConfigs ==
  {[enabled |-> on, priority |-> p, depends |-> [k \in Keys |-> {d \in Keys : <<k, d>> \in e}]] :
     on \in {Keys, Keys \ {"a.b"}}, p \in [Keys -> {1, 2}], e \in Edges}
=============================================================================
