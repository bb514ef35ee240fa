----------------------------- MODULE CommandRun -----------------------------
(***************************************************************************)
(* One dispatch of a command: drivePipeline (ve/src/core/command.cpp)      *)
(* builds a pipeline, starts it on the caller's thread and, by mode,       *)
(*   wait     waits for its end, returns its last result and deletes it    *)
(*   detach   hands it to NodeTaskService::attach                          *)
(*            (ve/src/service/node_task_service.cpp), which finalizes the  *)
(*            task and deletes the pipeline when it ends                   *)
(*   drop     stops and deletes it when it did not end at once.            *)
(* build gives every step the main loop unless it names one, so the        *)
(* pipeline is run by the loop's thread while its caller goes on.          *)
(***************************************************************************)
EXTENDS Pipeline

CONSTANTS
  Caller,   \* the thread that dispatches the command
  Modes     \* which of "wait", "detach", "drop"

ASSUME CommandRunAssumption ==
  /\ Caller \in Callers
  /\ Modes \subseteq {"wait", "detach", "drop"}

VARIABLES
  mode,       \* how the command is dispatched
  call,       \* where the caller is
  heard,      \* the flag the waiting handler sets
  returned,   \* the result call() returned
  deleted,    \* the pipeline has been deleted
  finalized,  \* the task's atomic flag "finished"
  task,       \* status of the task node
  events      \* task.result events sent

calling == <<mode, call, heard, returned, deleted, finalized, task, events>>
cvars == <<vars, calling>>

CallTypeOK ==
  /\ TypeOK
  /\ mode \in Modes
  /\ call \in {"none", "starting", "waiting", "reading", "attaching", "checking", "returned"}
  /\ heard \in BOOLEAN /\ deleted \in BOOLEAN /\ finalized \in BOOLEAN
  /\ returned \in Results \cup {NoJob}
  /\ task \in {"none", "running", "done", "error"}
  /\ events \in Nat

\* A waiting caller has set its handler before it starts the pipeline.
CallInit ==
  /\ Init
  /\ mode \in Modes
  /\ call = "none"
  /\ handler = (mode = "wait")
  /\ heard = FALSE /\ deleted = FALSE /\ finalized = FALSE
  /\ returned = NoJob
  /\ task = "none"
  /\ events = 0

-----------------------------------------------------------------------------
(* The caller.                                                             *)

Dispatch ==
  /\ call = "none"
  /\ Start(Caller)
  /\ call' = "starting"
  /\ UNCHANGED <<mode, heard, returned, deleted, finalized, task, events>>

\* Where the caller goes once start() has returned.
AfterStart ==
  IF answer.kind # "accept" THEN "reading"
  ELSE CASE mode = "wait" -> "waiting" [] mode = "detach" -> "attaching" [] mode = "drop" -> "reading"

\* A dropped pipeline is stopped before it is deleted.
Started ==
  /\ call = "starting" /\ stack[Caller] = <<>>
  /\ call' = AfterStart
  /\ IF mode = "drop" /\ answer.kind = "accept"
     THEN queue' = <<>> /\ state' = "IDLE" /\ stepIndex' = -1
     ELSE UNCHANGED <<queue, state, stepIndex>>
  /\ UNCHANGED <<steps, lastResult, handler, succeeded, failed, posted, awaiting, stack,
                 answer, run, pauses, mode, heard, returned, deleted, finalized, task, events>>

Ended == state \in {"DONE", "ERRORED", "IDLE"}

\* The wait ends when the handler was heard, or, looked at every 10 ms, when
\* the pipeline is in a final state.
Wake ==
  /\ call = "waiting"
  /\ heard \/ Ended
  /\ call' = "reading"
  /\ UNCHANGED <<vars, mode, heard, returned, deleted, finalized, task, events>>

\* Take lastResult, delete the pipeline, return.
Read ==
  /\ call = "reading"
  /\ call' = "returned"
  /\ returned' = lastResult
  /\ deleted' = TRUE
  /\ UNCHANGED <<vars, mode, heard, finalized, task, events>>

-----------------------------------------------------------------------------
(* The task service.                                                       *)

\* Mutant: the flag is not looked at.
FinalizeTwice(res) ==
  /\ finalized' = TRUE
  /\ task' = IF res.kind = "fail" THEN "error" ELSE "done"
  /\ events' = events + 1
  /\ deleted' = TRUE

\* finalize: the first of two calls settles the task and deletes the pipeline.
Finalize(res) ==
  IF finalized THEN UNCHANGED <<finalized, task, events, deleted>>
  ELSE /\ finalized' = TRUE
       /\ task' = IF res.kind = "fail" THEN "error" ELSE "done"
       /\ events' = events + 1
       /\ deleted' = TRUE

\* attach: the task node, then the result handler ...
Attach ==
  /\ call = "attaching"
  /\ call' = "checking"
  /\ task' = "running"
  /\ handler' = TRUE
  /\ UNCHANGED <<steps, queue, state, stepIndex, lastResult, succeeded, failed, posted, awaiting,
                 stack, answer, run, pauses, mode, heard, returned, deleted, finalized, events>>

\* Mutant: what ended before the handler was set is left to the handler.
EndedMissed == FALSE

\* ... and then whether the pipeline ended before the handler was set.
EndedMeanwhile == Ended

Check ==
  /\ call = "checking"
  /\ call' = "returned"
  /\ IF EndedMeanwhile THEN Finalize(lastResult) ELSE UNCHANGED <<finalized, task, events, deleted>>
  /\ UNCHANGED <<vars, mode, heard, returned>>

\* What the handler does on whichever thread ends the run.
Handle(t) ==
  /\ stack[t] # <<>> /\ Top(t).pc = "handling"
  /\ HandlerReturns(t)
  /\ IF mode = "wait"
     THEN heard' = TRUE /\ UNCHANGED <<finalized, task, events, deleted>>
     ELSE Finalize(Top(t).res) /\ UNCHANGED heard
  /\ UNCHANGED <<mode, call, returned>>

-----------------------------------------------------------------------------

\* The loop runs nothing while its thread is the caller's and waits itself.
LoopFree == Caller = LoopThread => call \in {"none", "returned"}

\* The pipeline's own steps.
Advance ==
  /\ \/ \E t \in Threads :
          \/ RunNext(t) \/ \E k \in Kinds : StepReturns(t, k)
          \/ SetState(t) \/ SetResult(t) \/ Signal(t) \/ CallHandler(t) \/ StartReturns(t)
     \/ LoopFree /\ RunPosted
     \/ \E k \in Kinds : PostedReturns(k)
  /\ UNCHANGED calling

Answered == Answers /\ UNCHANGED calling

CallerStep == Dispatch \/ Started \/ Wake \/ Read \/ Attach \/ Check

CallNext == Advance \/ Answered \/ CallerStep \/ \E t \in Threads : Handle(t)

CallSpec == CallInit /\ [][CallNext]_cvars

\* Threads run, the loop runs what was posted, ACCEPT is followed by finish,
\* and a waiting caller wakes up every 10 ms.
CallFairSpec ==
  /\ CallSpec
  /\ WF_cvars(Advance) /\ WF_cvars(Answered) /\ WF_cvars(CallerStep)
  /\ \A t \in Threads : WF_cvars(Handle(t))

-----------------------------------------------------------------------------
(* Properties.                                                             *)

\* A call that waits returns only when the run has ended.
WaitsForTheEnd == mode = "wait" /\ call = "returned" => Ended

\* A task is settled, and its task.result event sent, at most once, whether
\* the loop's thread or attach gets there first.
SettledOnce == events <= 1

\* A task that was attached is settled: an end that falls between start and
\* setResultHandler is not lost.
TaskSettles == (task = "running") ~> (task \in {"done", "error"})

\* "block until pipe finishes, return final Result": a call that waits
\* returns (command.cpp).
CallReturns == (mode = "wait" /\ call # "none") ~> (call = "returned")

\* Whatever way it was dispatched, a run's end reaches who waits for it, and
\* nobody returns before (Command::run, TaskService::attach).
EndReachesWaiter == []WaitsForTheEnd /\ TaskSettles /\ CallReturns

\* "... return final Result": what it returns is the outcome of the run
\* (command.cpp).
ReturnsFinalResult ==
  mode = "wait" /\ call = "returned" => (returned.kind = "fail" <=> failed)

\* "... delete pipe": nobody uses the pipeline after its owner, told that
\* it has finished, has deleted it (command.cpp).
DeletedIsUnused ==
  deleted => \A t \in Threads : stack[t] = <<>>

\* "if (alive.dead()) return": a closure that finds its pipeline gone does
\* not run its step (pipeline.cpp).
NoStepOfDeleted == [][deleted => ~ RunPosted]_cvars

-----------------------------------------------------------------------------
(* Step lists to check with: what build makes, every step on a loop, and   *)
(* pipelines that also have direct steps.                                  *)

Commands == {<<LoopStep>>, <<LoopStep, LoopStep>>}
Mixed == Commands \cup {<<DirectStep>>, <<DirectStep, LoopStep>>, <<LoopStep, DirectStep>>}
=============================================================================
