------------------------------ MODULE Pipeline ------------------------------
(***************************************************************************)
(* ve::Pipeline (ve/src/core/pipeline.cpp): a chain of steps run by        *)
(* whichever thread calls start, resume or finish; a step with a LoopRef   *)
(* is posted to that loop and answered by handleResult on its thread.      *)
(*                                                                         *)
(* A call in progress is a frame on its thread's stack, innermost first;   *)
(* a tail call replaces its frame.  While a step function, a signal        *)
(* observer or the result handler runs, its thread may call the pipeline   *)
(* again.  There are no locks: pause, resume, stop, the decision of        *)
(* handleResult and a round of runNext are taken as atomic, the phases of  *)
(* complete are separate steps.                                            *)
(***************************************************************************)
EXTENDS Integers, Sequences, FiniteSets

CONSTANTS
  Threads,      \* threads that use the pipeline
  LoopThread,   \* the thread of the loop that steps are posted to
  Callers,      \* the threads that call the pipeline from outside
  MaxSteps,     \* the longest step list
  Programs,     \* step lists: sequences of [queued, returns]
  Calls,        \* which of pause, resume and stop are called
  Settled,      \* start, resume and stop are called only when nothing is under way
  MaxRuns,      \* bound on start calls
  MaxPauses     \* bound on pause calls

Kinds == {"ok", "accept", "fail"}
States == {"IDLE", "RUNNING", "PAUSED", "DONE", "ERRORED"}

\* A step function that is not callable is one that only returns "fail".
StepKinds == [queued : BOOLEAN, returns : SUBSET Kinds]

ASSUME PipelineAssumption ==
  /\ LoopThread \in Threads /\ Callers \subseteq Threads
  /\ {MaxSteps, MaxRuns, MaxPauses} \subseteq Nat
  /\ Programs \subseteq UNION {[1 .. n -> StepKinds] : n \in 0 .. MaxSteps}
  /\ Calls \subseteq {"pause", "resume", "stop"}
  /\ Settled \in BOOLEAN

VARIABLES
  steps,        \* Private::steps, fixed before the first start
  queue,        \* Private::queue, as step numbers
  state,        \* Private::state
  stepIndex,    \* Private::stepIndex
  lastResult,   \* Private::lastResult
  handler,      \* Private::handler is set
  posted,       \* jobs waiting in the loop, oldest first
  awaiting,     \* jobs that returned ACCEPT and wait for finish()
  stack,        \* per thread, the calls in progress
  answer,       \* what the last start() returned
  run,          \* start calls so far: the number of the current run
  pauses,       \* pause calls so far
  succeeded,    \* steps of this run whose success has been taken in
  failed        \* the failure of a step of this run has been taken in

engine == <<steps, queue, state, stepIndex, lastResult, handler, succeeded, failed>>
vars == <<engine, posted, awaiting, stack, answer, run, pauses>>

Result(kind, step) == [kind |-> kind, of |-> step]
Ok == Result("ok", 0)
Results == [kind : Kinds, of : 0 .. MaxSteps]

\* A step of a run, from when runNext takes it off the queue.
Jobs == [step : 1 .. MaxSteps, run : 1 .. MaxRuns]
NoJob == [step |-> 0, run |-> 0]

\* Where a call in progress is:
\*   start    start() waits for what it called, then reads the state
\*   next     runNext, at the top of its loop
\*   step     runNext, inside a step function
\*   posted   a closure on the loop, inside a step function
\*   state, result, signal, handler    complete(), before that phase
\*   signalled, handling               inside an observer, inside the handler
Frame(pc, job, to, res) == [pc |-> pc, job |-> job, to |-> to, res |-> res]
StepCode == {"step", "posted"}
UserCode == StepCode \cup {"signalled", "handling"}
Starting == Frame("start", NoJob, "IDLE", Ok)
NextRound == Frame("next", NoJob, "IDLE", Ok)
Completing(to, res) == Frame("state", NoJob, to, res)

TypeOK ==
  /\ steps \in Programs
  /\ queue \in Seq(DOMAIN steps)
  /\ state \in States
  /\ stepIndex \in Int
  /\ lastResult \in Results
  /\ handler \in BOOLEAN
  /\ posted \in Seq(Jobs) /\ awaiting \subseteq Jobs
  /\ stack \in [Threads -> Seq([pc : UserCode \cup {"start", "next", "state", "result", "signal", "handler"},
                                job : Jobs \cup {NoJob}, to : States, res : Results])]
  /\ answer \in Results \cup {NoJob}
  /\ run \in 0 .. MaxRuns /\ pauses \in 0 .. MaxPauses
  /\ succeeded \in Seq(DOMAIN steps) /\ failed \in BOOLEAN

Init ==
  /\ steps \in Programs
  /\ queue = <<>>
  /\ state = "IDLE"
  /\ stepIndex = -1
  /\ lastResult = Ok
  /\ handler \in BOOLEAN
  /\ posted = <<>>
  /\ awaiting = {}
  /\ stack = [t \in Threads |-> <<>>]
  /\ answer = NoJob
  /\ run = 0
  /\ pauses = 0
  /\ succeeded = <<>>
  /\ failed = FALSE

-----------------------------------------------------------------------------

Top(t) == Head(stack[t])
Active == state \in {"RUNNING", "PAUSED"}

\* A thread may call the pipeline from outside or from code the pipeline runs.
CanCall(t) == IF stack[t] = <<>> THEN t \in Callers ELSE Top(t).pc \in UserCode

Frames(pcs) ==
  UNION {{t} \X {i \in DOMAIN stack[t] : stack[t][i].pc \in pcs} : t \in Threads}

\* How many steps have begun and not been answered.
UnderWay == Len(posted) + Cardinality(awaiting) + Cardinality(Frames(StepCode))

\* Nothing moves the run on, ends it or is about to report its end.
Quiet ==
  Settled => /\ UnderWay = 0
             /\ Frames({"next", "state", "result", "signal", "signalled", "handler"}) = {}

\* The frames that take the place of the innermost call of t.
Becomes(t, frames) == stack' = [stack EXCEPT ![t] = frames \o Tail(@)]
Pushes(t, frames) == stack' = [stack EXCEPT ![t] = frames \o @]

\* The success of a step is taken in.
TakeIn(job, res) ==
  /\ lastResult' = res
  /\ stepIndex' = stepIndex + 1
  /\ succeeded' = Append(succeeded, job.step)

-----------------------------------------------------------------------------
(* Control calls.                                                          *)

\* start copies the step list into the run-time queue.
Refill(q) == [i \in DOMAIN steps |-> i]

Start(t) ==
  /\ CanCall(t)
  /\ Quiet
  /\ run < MaxRuns
  /\ run' = run + 1
  /\ state' = "RUNNING"
  /\ stepIndex' = 0
  /\ lastResult' = Ok
  /\ queue' = Refill(queue)
  /\ succeeded' = <<>>
  /\ failed' = FALSE
  /\ answer' = NoJob
  /\ Pushes(t, <<IF steps = <<>> THEN Completing("DONE", Ok) ELSE NextRound, Starting>>)
  /\ UNCHANGED <<steps, handler, posted, awaiting, pauses>>

\* The end of start: ACCEPT while the run goes on, else the last result.
StartReturns(t) ==
  /\ stack[t] # <<>> /\ Top(t).pc = "start"
  /\ answer' = IF Active THEN Result("accept", 0) ELSE lastResult
  /\ Becomes(t, <<>>)
  /\ UNCHANGED <<engine, posted, awaiting, run, pauses>>

\* Mutant: whatever the state.
PauseAlways(t) ==
  /\ "pause" \in Calls /\ CanCall(t)
  /\ pauses < MaxPauses
  /\ state' = "PAUSED"
  /\ pauses' = pauses + 1
  /\ UNCHANGED <<steps, queue, stepIndex, lastResult, handler, succeeded, failed,
                 posted, awaiting, stack, answer, run>>

Pause(t) ==
  /\ "pause" \in Calls /\ CanCall(t)
  /\ pauses < MaxPauses
  /\ state = "RUNNING"
  /\ state' = "PAUSED"
  /\ pauses' = pauses + 1
  /\ UNCHANGED <<steps, queue, stepIndex, lastResult, handler, succeeded, failed,
                 posted, awaiting, stack, answer, run>>

Resume(t) ==
  /\ "resume" \in Calls /\ CanCall(t) /\ Quiet
  /\ state = "PAUSED"
  /\ state' = "RUNNING"
  /\ Pushes(t, <<NextRound>>)
  /\ UNCHANGED <<steps, queue, stepIndex, lastResult, handler, succeeded, failed,
                 posted, awaiting, answer, run, pauses>>

\* stop may come while a step is posted or awaited, when callers are settled
\* not while one is being run or its result taken in.
Stop(t) ==
  /\ "stop" \in Calls /\ CanCall(t)
  /\ Settled => Frames({"step", "next", "state", "result"}) = {}
  /\ state # "IDLE"
  /\ queue' = <<>>
  /\ state' = "IDLE"
  /\ stepIndex' = -1
  /\ UNCHANGED <<steps, lastResult, handler, succeeded, failed,
                 posted, awaiting, stack, answer, run, pauses>>

-----------------------------------------------------------------------------
(* Running.                                                                *)

\* queue.pop_front()
TakeStep(q) == Tail(q)

\* Mutant: the loop goes on after a post.
AfterPostNext == <<NextRound>>

\* Having posted a step, runNext returns.
AfterPost == <<>>

\* One round of runNext: post a step, call it, or see that there is none.
RunNext(t) ==
  LET job == [step |-> Head(queue), run |-> run]
  IN  /\ stack[t] # <<>> /\ Top(t).pc = "next"
      /\ \/ /\ state = "RUNNING" /\ queue # <<>>
            /\ steps[Head(queue)].queued
            /\ queue' = TakeStep(queue)
            /\ posted' = Append(posted, job)
            /\ Becomes(t, AfterPost)
         \/ /\ state = "RUNNING" /\ queue # <<>>
            /\ ~ steps[Head(queue)].queued
            /\ queue' = TakeStep(queue)
            /\ Becomes(t, <<Frame("step", job, "IDLE", Ok)>>)
            /\ UNCHANGED posted
         \/ /\ ~ (state = "RUNNING" /\ queue # <<>>)
            /\ Becomes(t, IF state = "RUNNING" THEN <<Completing("DONE", lastResult)>> ELSE <<>>)
            /\ UNCHANGED <<queue, posted>>
      /\ UNCHANGED <<steps, state, stepIndex, lastResult, handler, succeeded, failed,
                     awaiting, answer, run, pauses>>

\* A step function called by runNext returns: ACCEPT leaves the run waiting,
\* an error ends it, success goes on with the next round - whatever the
\* function did to the pipeline meanwhile.
StepReturns(t, kind) ==
  LET job == Top(t).job
      res == Result(kind, job.step)
  IN  /\ stack[t] # <<>> /\ Top(t).pc = "step"
      /\ kind \in steps[job.step].returns
      /\ \/ /\ kind = "accept"
            /\ awaiting' = awaiting \cup {job}
            /\ Becomes(t, <<>>)
            /\ UNCHANGED <<lastResult, stepIndex, succeeded, failed>>
         \/ /\ kind = "fail"
            /\ failed' = TRUE
            /\ Becomes(t, <<Completing("ERRORED", res)>>)
            /\ UNCHANGED <<awaiting, lastResult, stepIndex, succeeded>>
         \/ /\ kind = "ok"
            /\ TakeIn(job, res)
            /\ Becomes(t, <<NextRound>>)
            /\ UNCHANGED <<awaiting, failed>>
      /\ UNCHANGED <<steps, queue, state, handler, posted, answer, run, pauses>>

\* How a run goes on after a success: it completes, waits, or takes a step.
GoesOn(res) ==
  IF queue = <<>> THEN <<Completing("DONE", res)>>
  ELSE IF state = "PAUSED" THEN <<>> ELSE <<NextRound>>

IsError(res) == res.kind = "fail"

\* handleResult, called with the frames below left on t's stack.  An ACCEPT
\* is no error and counts as a success here.
HandleResult(t, below, job, res) ==
  /\ \/ /\ ~ Active
        /\ stack' = [stack EXCEPT ![t] = below]
        /\ UNCHANGED <<lastResult, stepIndex, succeeded, failed>>
     \/ /\ Active /\ IsError(res)
        /\ failed' = TRUE
        /\ stack' = [stack EXCEPT ![t] = <<Completing("ERRORED", res)>> \o below]
        /\ UNCHANGED <<lastResult, stepIndex, succeeded>>
     \/ /\ Active /\ ~ IsError(res)
        /\ TakeIn(job, res)
        /\ stack' = [stack EXCEPT ![t] = GoesOn(res) \o below]
        /\ UNCHANGED failed
  /\ UNCHANGED <<steps, queue, state, handler, answer, run, pauses>>

\* The loop runs the oldest closure, which calls the step function.
RunPosted ==
  /\ posted # <<>>
  /\ stack[LoopThread] = <<>>
  /\ posted' = Tail(posted)
  /\ Pushes(LoopThread, <<Frame("posted", Head(posted), "IDLE", Ok)>>)
  /\ UNCHANGED <<engine, awaiting, answer, run, pauses>>

\* ... and hands its result to the pipeline.
PostedReturns(kind) ==
  LET f == Top(LoopThread)
  IN  /\ stack[LoopThread] # <<>> /\ f.pc = "posted"
      /\ kind \in steps[f.job.step].returns
      /\ HandleResult(LoopThread, Tail(stack[LoopThread]), f.job, Result(kind, f.job.step))
      /\ UNCHANGED <<posted, awaiting>>

\* finish(result), for a step that returned ACCEPT.
Finish(t, job, kind) ==
  /\ CanCall(t)
  /\ job \in awaiting
  /\ awaiting' = awaiting \ {job}
  /\ HandleResult(t, stack[t], job, Result(kind, job.step))
  /\ UNCHANGED posted

-----------------------------------------------------------------------------
(* complete: the final state, then the result, then signal and handler.    *)

SetState(t) ==
  /\ stack[t] # <<>> /\ Top(t).pc = "state"
  /\ state' = Top(t).to
  /\ Becomes(t, <<[Top(t) EXCEPT !.pc = "result"]>>)
  /\ UNCHANGED <<steps, queue, stepIndex, lastResult, handler, succeeded, failed,
                 posted, awaiting, answer, run, pauses>>

SetResult(t) ==
  /\ stack[t] # <<>> /\ Top(t).pc = "result"
  /\ lastResult' = Top(t).res
  /\ queue' = <<>>
  /\ Becomes(t, <<[Top(t) EXCEPT !.pc = "signal"]>>)
  /\ UNCHANGED <<steps, state, stepIndex, handler, succeeded, failed,
                 posted, awaiting, answer, run, pauses>>

\* Mutant: the handler is left alone.
SignalOnly(t) ==
  /\ stack[t] # <<>> /\ Top(t).pc \in {"signal", "signalled"}
  /\ Becomes(t, IF Top(t).pc = "signal" THEN <<[Top(t) EXCEPT !.pc = "signalled"]>> ELSE <<>>)
  /\ UNCHANGED <<engine, posted, awaiting, answer, run, pauses>>

\* CMD_DONE or CMD_ERROR: its observers run, then return.
Signal(t) ==
  /\ stack[t] # <<>> /\ Top(t).pc \in {"signal", "signalled"}
  /\ Becomes(t, <<[Top(t) EXCEPT !.pc = IF @ = "signal" THEN "signalled" ELSE "handler"]>>)
  /\ UNCHANGED <<engine, posted, awaiting, answer, run, pauses>>

\* The handler is moved out and called with lastResult as it then is.
CallHandler(t) ==
  /\ stack[t] # <<>> /\ Top(t).pc = "handler"
  /\ handler' = FALSE
  /\ Becomes(t, IF handler THEN <<[Top(t) EXCEPT !.pc = "handling", !.res = lastResult]>> ELSE <<>>)
  /\ UNCHANGED <<steps, queue, state, stepIndex, lastResult, succeeded, failed,
                 posted, awaiting, answer, run, pauses>>

HandlerReturns(t) ==
  /\ stack[t] # <<>> /\ Top(t).pc = "handling"
  /\ Becomes(t, <<>>)
  /\ UNCHANGED <<engine, posted, awaiting, answer, run, pauses>>

-----------------------------------------------------------------------------

Progress(t) ==
  \/ RunNext(t) \/ \E k \in Kinds : StepReturns(t, k)
  \/ SetState(t) \/ SetResult(t) \/ Signal(t) \/ CallHandler(t) \/ HandlerReturns(t)
  \/ StartReturns(t)

Answers == \E t \in Threads, job \in awaiting, k \in {"ok", "fail"} : Finish(t, job, k)

Next ==
  \/ \E t \in Threads : Start(t) \/ Pause(t) \/ Resume(t) \/ Stop(t) \/ Progress(t)
  \/ RunPosted
  \/ \E k \in Kinds : PostedReturns(k)
  \/ Answers

Spec == Init /\ [][Next]_vars

\* Calls return, the loop runs what was posted to it, and whoever got ACCEPT
\* calls finish at last.
FairSpec ==
  /\ Spec
  /\ \A t \in Threads : WF_vars(Progress(t))
  /\ WF_vars(RunPosted)
  /\ WF_vars(\E k \in Kinds : PostedReturns(k))
  /\ WF_vars(Answers)

-----------------------------------------------------------------------------
(* Properties.                                                             *)

\* Steps of a pipeline run one at a time: the next one begins when the one
\* before has been answered, on whatever threads they run.
OneStepAtATime == UnderWay <= 1

\* Every step of an active run is in exactly one place: waiting in the
\* queue, under way, or counted by stepIndex.
StepsAreConserved ==
  Active /\ ~ failed => stepIndex + UnderWay + Len(queue) = Len(steps)

\* DONE means that every step has succeeded, once and in the order given.
DoneMeansAll ==
  state = "DONE" => succeeded = [i \in DOMAIN steps |-> i]

\* The handler is called with the outcome of the run that ended.
HandlerHearsOutcome ==
  [][\A t \in Threads : handler /\ CallHandler(t) => (lastResult.kind = "fail" <=> failed)]_vars

\* A run ends, or is paused or stopped, or waits for nobody.
RunsEnd == (state = "RUNNING") ~> (state # "RUNNING")

\* A run that ends reports it: complete gets as far as its handler.
EndIsReported == (handler /\ state \in {"DONE", "ERRORED"}) ~> (~ handler \/ state = "RUNNING")

\* Steps run in turn, none is lost, and DONE comes after all of them (runNext,
\* handleResult).
RunsInTurn == OneStepAtATime /\ StepsAreConserved /\ DoneMeansAll

\* A run ends, its end is reported, and what is reported is the outcome
\* (runNext, complete).
OutcomeReported == RunsEnd /\ EndIsReported /\ HandlerHearsOutcome

\* The pipeline goes through the states of the abstract chain, a step at a
\* time, and ends only as the chain does.
Chain == INSTANCE StepChain WITH
  length <- Len(steps), done <- Len(succeeded)
ImplementsChain == Chain!Spec

\* "-> stop -> IDLE": a stopped pipeline stays idle until it is started
\* (pipeline.h).
StoppedStaysIdle == [][state = "IDLE" => state' = "IDLE" \/ run' # run]_vars

\* "Steps returning ACCEPT pause the pipeline until finish() is called": no
\* further step begins while one awaits finish (pipeline.h).
AcceptWaits ==
  [][\A t \in Threads : RunNext(t) /\ queue' # queue => awaiting = {}]_vars

\* "Each start() copies the Step list into a runtime queue for safe
\* re-execution": the result of a step counts for the run the step is of
\* (pipeline.h).
RunsApart ==
  [][\A t \in Threads : stack[t] # <<>> /\ Top(t).pc = "posted" /\ succeeded' # succeeded
       => Top(t).job.run = run]_vars

\* A loop-bound step that returns ACCEPT waits for finish like any other.
AcceptOnLoopWaits ==
  [][\A k \in {"accept"} : PostedReturns(k) => succeeded' = succeeded]_vars

-----------------------------------------------------------------------------
(* Step lists to check with.                                               *)

DirectStep == [queued |-> FALSE, returns |-> Kinds]
LoopStep == [queued |-> TRUE, returns |-> {"ok", "fail"}]

\* Every chain of up to two steps, and one that mixes them over three.
Chains ==
  {<<>>, <<DirectStep, LoopStep, DirectStep>>} \cup
  UNION {[1 .. n -> {DirectStep, LoopStep}] : n \in 1 .. 2}
=============================================================================
