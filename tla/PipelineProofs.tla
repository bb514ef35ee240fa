--------------------------- MODULE PipelineProofs ---------------------------
(***************************************************************************)
(* Proofs about Pipeline.                                                  *)
(***************************************************************************)
EXTENDS CommandRun, Functions, FiniteSetTheorems, TLAPS

\* The steps that jobs are of, and the calls that may be in progress.
OwnJobs == {j \in Jobs : j.step \in DOMAIN steps}
AnyFrame == [pc : UserCode \cup {"start", "next", "state", "result", "signal", "handler"},
             job : Jobs \cup {NoJob}, to : States, res : Results]
OwnFrames ==
  {f \in AnyFrame : /\ f.pc \in StepCode => f.job \in OwnJobs
                    /\ f.pc = "state" => f.to \in {"DONE", "ERRORED"}}

\* Calls and jobs are of this pipeline's steps, and there are none before start.
Owned ==
  /\ posted \in Seq(OwnJobs) /\ awaiting \subseteq OwnJobs
  /\ stack \in [Threads -> Seq(OwnFrames)]
  /\ run = 0 => state = "IDLE" /\ posted = <<>> /\ awaiting = {} /\ \A t \in Threads : stack[t] = <<>>

-----------------------------------------------------------------------------
(* Stacks.                                                                 *)

LEMMA OnTop ==
  ASSUME NEW F, NEW s \in Seq(F), NEW f \in F
  PROVE  /\ <<f>> \o s \in Seq(F) /\ <<f>> \o s # <<>>
         /\ Head(<<f>> \o s) = f
         /\ \A i \in DOMAIN (<<f>> \o s) :
              \/ i = 1 /\ (<<f>> \o s)[i] = f
              \/ i - 1 \in DOMAIN s /\ (<<f>> \o s)[i] = s[i - 1]
OBVIOUS

LEMMA OnTopTwo ==
  ASSUME NEW F, NEW s \in Seq(F), NEW f \in F, NEW g \in F
  PROVE  /\ <<f, g>> \o s \in Seq(F) /\ <<f, g>> \o s # <<>>
         /\ Head(<<f, g>> \o s) = f
         /\ \A i \in DOMAIN (<<f, g>> \o s) :
              \/ i = 1 /\ (<<f, g>> \o s)[i] = f
              \/ i = 2 /\ (<<f, g>> \o s)[i] = g
              \/ i - 2 \in DOMAIN s /\ (<<f, g>> \o s)[i] = s[i - 2]
OBVIOUS

LEMMA NoneOnTop ==
  ASSUME NEW F, NEW s \in Seq(F)
  PROVE  <<>> \o s = s
OBVIOUS

LEMMA Beneath ==
  ASSUME NEW F, NEW s \in Seq(F), s # <<>>
  PROVE  /\ Tail(s) \in Seq(F) /\ Head(s) \in F /\ Head(s) = s[1]
         /\ 1 \in DOMAIN s
         /\ \A i \in DOMAIN Tail(s) : i \in Nat /\ i + 1 \in DOMAIN s /\ i + 1 # 1 /\ Tail(s)[i] = s[i + 1]
OBVIOUS

LEMMA Wider ==
  ASSUME NEW S, NEW T, S \subseteq T
  PROVE  Seq(S) \subseteq Seq(T)
OBVIOUS

\* The calls of t become s.
LEMMA StackSet ==
  ASSUME NEW F, NEW st \in [Threads -> Seq(F)], NEW t \in Threads, NEW s \in Seq(F)
  PROVE  /\ [st EXCEPT ![t] = s] \in [Threads -> Seq(F)]
         /\ [st EXCEPT ![t] = s][t] = s
         /\ \A u \in Threads \ {t} : [st EXCEPT ![t] = s][u] = st[u]
OBVIOUS

-----------------------------------------------------------------------------
(* Types.                                                                  *)

\* Frames that the actions make.
LEMMA NewFrames ==
  ASSUME TypeOK
  PROVE  /\ Ok \in Results /\ Result("accept", 0) \in Results
         /\ Starting \in OwnFrames /\ NextRound \in OwnFrames
         /\ \A to \in {"DONE", "ERRORED"}, res \in Results : Completing(to, res) \in OwnFrames
         /\ \A pc \in StepCode, job \in OwnJobs : Frame(pc, job, "IDLE", Ok) \in OwnFrames
<1>1. MaxSteps \in Nat
  BY PipelineAssumption
<1>2. Ok \in Results /\ Result("accept", 0) \in Results
  BY <1>1 DEF Ok, Result, Results, Kinds
<1>3. Starting \in OwnFrames /\ NextRound \in OwnFrames
  BY <1>2 DEF Starting, NextRound, Frame, OwnFrames, AnyFrame, StepCode, UserCode, States
<1>4. ASSUME NEW to \in {"DONE", "ERRORED"}, NEW res \in Results PROVE Completing(to, res) \in OwnFrames
  BY <1>2 DEF Completing, Frame, OwnFrames, AnyFrame, StepCode, UserCode, States
<1>5. ASSUME NEW pc \in StepCode, NEW job \in OwnJobs PROVE Frame(pc, job, "IDLE", Ok) \in OwnFrames
  BY <1>2 DEF Frame, OwnFrames, OwnJobs, AnyFrame, StepCode, UserCode, States
<1>6. QED BY <1>2, <1>3, <1>4, <1>5

\* A step list is a sequence of at most MaxSteps.
LEMMA StepList ==
  ASSUME steps \in Programs
  PROVE  \E n \in 0 .. MaxSteps : steps \in [1 .. n -> StepKinds]
BY PipelineAssumption

\* The innermost call of a thread, and what is left when it ends.
LEMMA TopOwned ==
  ASSUME Owned, NEW t \in Threads, stack[t] # <<>>
  PROVE  /\ Top(t) \in OwnFrames /\ Tail(stack[t]) \in Seq(OwnFrames)
         /\ stack[t] \in Seq(OwnFrames)
         /\ run # 0
<1>1. stack[t] \in Seq(OwnFrames)
  BY DEF Owned
<1>2. QED BY <1>1, Beneath DEF Owned, Top

\* What a step has to keep for the types to hold.
KeepsTypes ==
  /\ steps' = steps
  /\ queue' \in Seq(DOMAIN steps) /\ state' \in States /\ stepIndex' \in Int
  /\ lastResult' \in Results /\ handler' \in BOOLEAN /\ failed' \in BOOLEAN
  /\ succeeded' \in Seq(DOMAIN steps)
  /\ posted' \in Seq(OwnJobs) /\ awaiting' \subseteq OwnJobs
  /\ stack' \in [Threads -> Seq(OwnFrames)]
  /\ answer' \in Results \cup {NoJob}
  /\ run' \in 1 .. MaxRuns /\ pauses' \in 0 .. MaxPauses

LEMMA TypesKept ==
  ASSUME TypeOK, KeepsTypes
  PROVE  TypeOK' /\ Owned'
<1>1. OwnJobs' = OwnJobs /\ OwnFrames' = OwnFrames
  BY DEF OwnJobs, OwnFrames, KeepsTypes
<1>2. OwnFrames \subseteq AnyFrame /\ OwnJobs \subseteq Jobs
  BY DEF OwnFrames, OwnJobs
<1>3. Seq(OwnFrames) \subseteq Seq(AnyFrame) /\ Seq(OwnJobs) \subseteq Seq(Jobs)
  BY <1>2, Wider
<1>4. stack' \in [Threads -> Seq(AnyFrame)] /\ posted' \in Seq(Jobs) /\ awaiting' \subseteq Jobs
  BY <1>2, <1>3 DEF KeepsTypes
<1>5. run' \in 0 .. MaxRuns /\ run' # 0
  BY PipelineAssumption DEF KeepsTypes
<1>6. TypeOK'
  BY <1>4, <1>5 DEF TypeOK, KeepsTypes, AnyFrame
<1>7. Owned'
  BY <1>1, <1>5 DEF Owned, KeepsTypes
<1>8. QED BY <1>6, <1>7

\* The same, for a step that changes the calls of one thread.
LEMMA StackKept ==
  ASSUME Owned, NEW t \in Threads, NEW s \in Seq(OwnFrames), stack' = [stack EXCEPT ![t] = s]
  PROVE  /\ stack' \in [Threads -> Seq(OwnFrames)]
         /\ stack'[t] = s
         /\ \A u \in Threads \ {t} : stack'[u] = stack[u]
BY StackSet DEF Owned

LEMMA InitTyped == Init => TypeOK /\ Owned
<1> SUFFICES ASSUME Init PROVE TypeOK /\ Owned
  OBVIOUS
<1>1. Ok \in Results
  BY PipelineAssumption DEF Ok, Result, Results, Kinds
<1>2. \A S : <<>> \in Seq(S)
  OBVIOUS
<1>3. 0 \in 0 .. MaxRuns /\ 0 \in 0 .. MaxPauses
  BY PipelineAssumption
<1>4. stack \in [Threads -> Seq(AnyFrame)]
  BY <1>2 DEF Init
<1>5. state \in States /\ stepIndex \in Int /\ answer \in Results \cup {NoJob}
  BY DEF Init, States
<1>6. queue \in Seq(DOMAIN steps) /\ succeeded \in Seq(DOMAIN steps) /\ posted \in Seq(Jobs)
  BY <1>2 DEF Init
<1>7. TypeOK
  BY <1>1, <1>3, <1>4, <1>5, <1>6 DEF Init, TypeOK, AnyFrame
<1>8. Owned
  BY <1>2 DEF Init, Owned
<1>9. QED BY <1>7, <1>8

\* The success of a step keeps the types, ...
LEMMA TakeInTyped ==
  ASSUME TypeOK, NEW job \in OwnJobs, NEW res \in Results, TakeIn(job, res)
  PROVE  lastResult' \in Results /\ stepIndex' \in Int /\ succeeded' \in Seq(DOMAIN steps)
BY DEF TypeOK, TakeIn, OwnJobs

LEMMA HeadTyped ==
  ASSUME NEW S, NEW q \in Seq(S), q # <<>>
  PROVE  Head(q) \in S /\ Tail(q) \in Seq(S)
OBVIOUS

LEMMA RunTyped ==
  ASSUME TypeOK, Owned, run # 0
  PROVE  /\ run \in 1 .. MaxRuns /\ pauses \in 0 .. MaxPauses /\ steps \in Programs
         /\ queue \in Seq(DOMAIN steps) /\ state \in States /\ stepIndex \in Int
         /\ lastResult \in Results /\ handler \in BOOLEAN /\ failed \in BOOLEAN
         /\ succeeded \in Seq(DOMAIN steps)
         /\ posted \in Seq(OwnJobs) /\ awaiting \subseteq OwnJobs
         /\ stack \in [Threads -> Seq(OwnFrames)]
         /\ answer \in Results \cup {NoJob}
BY PipelineAssumption DEF TypeOK, Owned

\* ... and so does handleResult.
LEMMA HandleResultTyped ==
  ASSUME TypeOK, Owned, run # 0, NEW t \in Threads, NEW below \in Seq(OwnFrames),
         NEW job \in OwnJobs, NEW kind \in Kinds,
         HandleResult(t, below, job, Result(kind, job.step)),
         posted' \in Seq(OwnJobs), awaiting' \subseteq OwnJobs
  PROVE  KeepsTypes
<1> DEFINE res == Result(kind, job.step)
<1>1. res \in Results
  BY PipelineAssumption DEF Result, Results, OwnJobs, Jobs
<1>2. \A f \in OwnFrames : <<f>> \o below \in Seq(OwnFrames)
  BY OnTop
<1>3. Completing("ERRORED", res) \in OwnFrames /\ Completing("DONE", res) \in OwnFrames /\ NextRound \in OwnFrames
  BY <1>1, NewFrames
<1>4. GoesOn(res) \o below \in Seq(OwnFrames)
  BY <1>2, <1>3, NoneOnTop DEF GoesOn
<1>5. /\ steps' = steps /\ queue' = queue /\ state' = state /\ handler' = handler /\ answer' = answer
      /\ run' = run /\ pauses' = pauses
  BY DEF HandleResult
<1>6. CASE ~ Active /\ stack' = [stack EXCEPT ![t] = below] /\ UNCHANGED <<lastResult, stepIndex, succeeded, failed>>
  BY <1>5, <1>6, RunTyped, StackKept DEF KeepsTypes
<1>7. CASE failed' = TRUE /\ stack' = [stack EXCEPT ![t] = <<Completing("ERRORED", res)>> \o below]
           /\ UNCHANGED <<lastResult, stepIndex, succeeded>>
  BY <1>2, <1>3, <1>5, <1>7, RunTyped, StackKept DEF KeepsTypes
<1>8. CASE TakeIn(job, res) /\ stack' = [stack EXCEPT ![t] = GoesOn(res) \o below] /\ UNCHANGED failed
  <2>1. lastResult' \in Results /\ stepIndex' \in Int /\ succeeded' \in Seq(DOMAIN steps)
    BY <1>1, <1>8, TakeInTyped
  <2>2. stack' \in [Threads -> Seq(OwnFrames)]
    BY <1>4, <1>8, StackKept
  <2>3. QED BY <1>5, <1>8, <2>1, <2>2, RunTyped DEF KeepsTypes
<1>9. QED BY <1>6, <1>7, <1>8 DEF HandleResult

\* A call ends, or another takes its place.
LEMMA BecomesTyped ==
  ASSUME Owned, NEW t \in Threads, stack[t] # <<>>, NEW s,
         s = <<>> \/ \E f \in OwnFrames : s = <<f>>, Becomes(t, s)
  PROVE  stack' \in [Threads -> Seq(OwnFrames)]
<1>1. Tail(stack[t]) \in Seq(OwnFrames)
  BY TopOwned
<1>2. stack' = [stack EXCEPT ![t] = s \o Tail(stack[t])]
  BY DEF Becomes
<1>3. CASE s = <<>>
  BY <1>1, <1>2, <1>3, NoneOnTop, StackKept
<1>4. CASE \E f \in OwnFrames : s = <<f>>
  <2>1. s \o Tail(stack[t]) \in Seq(OwnFrames)
    BY <1>1, <1>4, OnTop
  <2>2. QED BY <1>2, <2>1, StackKept
<1>5. QED BY <1>3, <1>4

LEMMA TypeInv == TypeOK /\ Owned /\ [Next]_vars => TypeOK' /\ Owned'
<1> SUFFICES ASSUME TypeOK, Owned, [Next]_vars PROVE TypeOK' /\ Owned'
  OBVIOUS
<1> USE PipelineAssumption
<1>1. ASSUME NEW t \in Threads, Start(t) PROVE KeepsTypes
  <2>1. \A to \in {"DONE", "ERRORED"}, res \in Results : Completing(to, res) \in OwnFrames
    BY NewFrames
  <2>2. Completing("DONE", Ok) \in OwnFrames /\ NextRound \in OwnFrames /\ Starting \in OwnFrames
    BY <2>1, NewFrames
  <2>3. stack[t] \in Seq(OwnFrames)
    BY DEF Owned
  <2>4. <<IF steps = <<>> THEN Completing("DONE", Ok) ELSE NextRound, Starting>> \o stack[t] \in Seq(OwnFrames)
    BY <2>2, <2>3, OnTopTwo
  <2>5. stack' \in [Threads -> Seq(OwnFrames)]
    BY <1>1, <2>4, StackKept DEF Start, Pushes
  <2>6. queue' \in Seq(DOMAIN steps)
    <3>1. PICK n \in 0 .. MaxSteps : steps \in [1 .. n -> StepKinds]
      BY StepList DEF TypeOK
    <3>2. Refill(queue) \in Seq(1 .. n)
      BY <3>1 DEF Refill
    <3>3. QED BY <1>1, <3>1, <3>2 DEF Start
  <2>7. run' \in 1 .. MaxRuns
    BY <1>1 DEF Start, TypeOK
  <2>8. state' \in States /\ stepIndex' \in Int /\ succeeded' \in Seq(DOMAIN steps) /\ failed' \in BOOLEAN
    <3>1. <<>> \in Seq(DOMAIN steps)
      OBVIOUS
    <3>2. state' \in States /\ stepIndex' \in Int
      BY <1>1 DEF Start, States
    <3>3. failed' \in BOOLEAN
      BY <1>1, Zenon DEF Start
    <3>4. succeeded' \in Seq(DOMAIN steps)
      BY <1>1, <3>1 DEF Start
    <3>5. QED BY <3>2, <3>3, <3>4
  <2>9. QED BY <1>1, <2>5, <2>6, <2>7, <2>8, NewFrames DEF Start, KeepsTypes, TypeOK, Owned
<1>2. ASSUME NEW t \in Threads, Pause(t) PROVE KeepsTypes
  <2>1. run # 0
    BY <1>2 DEF Pause, Owned
  <2>2. pauses' \in 0 .. MaxPauses
    BY <1>2 DEF Pause, TypeOK
  <2>3. QED BY <1>2, <2>1, <2>2, RunTyped DEF Pause, KeepsTypes, States
<1>3. ASSUME NEW t \in Threads, Resume(t) PROVE KeepsTypes
  <2>1. run # 0
    BY <1>3 DEF Resume, Owned
  <2>2. NextRound \in OwnFrames /\ stack[t] \in Seq(OwnFrames)
    BY NewFrames DEF Owned
  <2>3. stack' \in [Threads -> Seq(OwnFrames)]
    BY <1>3, <2>2, OnTop, StackKept DEF Resume, Pushes
  <2>4. QED BY <1>3, <2>1, <2>3, RunTyped DEF Resume, KeepsTypes, States
<1>4. ASSUME NEW t \in Threads, Stop(t) PROVE KeepsTypes
  <2>1. run # 0
    BY <1>4 DEF Stop, Owned
  <2>2. <<>> \in Seq(DOMAIN steps) /\ -1 \in Int
    OBVIOUS
  <2>3. QED BY <1>4, <2>1, <2>2, RunTyped DEF Stop, KeepsTypes, States
<1>5. ASSUME NEW t \in Threads, StartReturns(t) PROVE KeepsTypes
  <2>1. run # 0 /\ stack' \in [Threads -> Seq(OwnFrames)]
    BY <1>5, TopOwned, BecomesTyped DEF StartReturns
  <2>2. answer' \in Results
    BY <1>5, NewFrames DEF StartReturns, TypeOK
  <2>3. QED BY <1>5, <2>1, <2>2, RunTyped DEF StartReturns, KeepsTypes, engine
<1>6. ASSUME NEW t \in Threads, RunNext(t) PROVE KeepsTypes
  <2> DEFINE job == [step |-> Head(queue), run |-> run]
  <2>1. run # 0
    BY <1>6, TopOwned DEF RunNext
  <2>2. ASSUME queue # <<>> PROVE job \in OwnJobs /\ Tail(queue) \in Seq(DOMAIN steps)
    <3>1. Head(queue) \in DOMAIN steps /\ Tail(queue) \in Seq(DOMAIN steps)
      BY <2>2, HeadTyped DEF TypeOK
    <3>2. PICK n \in 0 .. MaxSteps : steps \in [1 .. n -> StepKinds]
      BY StepList DEF TypeOK
    <3>3. Head(queue) \in 1 .. MaxSteps /\ run \in 1 .. MaxRuns
      BY <2>1, <3>1, <3>2, RunTyped
    <3>4. QED BY <3>1, <3>3 DEF OwnJobs, Jobs
  <2>3. CASE queue # <<>> /\ queue' = TakeStep(queue) /\ posted' = Append(posted, job) /\ Becomes(t, AfterPost)
    <3>1. stack' \in [Threads -> Seq(OwnFrames)]
      BY <1>6, <2>3, BecomesTyped DEF RunNext, AfterPost
    <3>2. posted' \in Seq(OwnJobs)
      BY <2>2, <2>3 DEF Owned
    <3>3. QED BY <1>6, <2>1, <2>2, <2>3, <3>1, <3>2, RunTyped DEF RunNext, KeepsTypes, TakeStep
  <2>4. CASE queue # <<>> /\ queue' = TakeStep(queue) /\ Becomes(t, <<Frame("step", job, "IDLE", Ok)>>) /\ UNCHANGED posted
    <3>1. Frame("step", job, "IDLE", Ok) \in OwnFrames
      BY <2>2, <2>4, NewFrames DEF StepCode
    <3>2. stack' \in [Threads -> Seq(OwnFrames)]
      BY <1>6, <2>4, <3>1, BecomesTyped DEF RunNext
    <3>3. QED BY <1>6, <2>1, <2>2, <2>4, <3>2, RunTyped DEF RunNext, KeepsTypes, TakeStep
  <2>5. CASE /\ Becomes(t, IF state = "RUNNING" THEN <<Completing("DONE", lastResult)>> ELSE <<>>)
             /\ UNCHANGED <<queue, posted>>
    <3>1. Completing("DONE", lastResult) \in OwnFrames
      BY NewFrames DEF TypeOK
    <3>2. stack' \in [Threads -> Seq(OwnFrames)]
      BY <1>6, <2>5, <3>1, BecomesTyped DEF RunNext
    <3>3. QED BY <1>6, <2>1, <2>5, <3>2, RunTyped DEF RunNext, KeepsTypes
  <2>6. QED BY <1>6, <2>3, <2>4, <2>5 DEF RunNext
<1>7. ASSUME NEW t \in Threads, NEW kind \in Kinds, StepReturns(t, kind) PROVE KeepsTypes
  <2> DEFINE job == Top(t).job
             res == Result(kind, job.step)
  <2>1. run # 0 /\ job \in OwnJobs
    BY <1>7, TopOwned DEF StepReturns, OwnFrames, StepCode
  <2>2. res \in Results
    BY <2>1 DEF Result, Results, OwnJobs, Jobs
  <2>3. Completing("ERRORED", res) \in OwnFrames /\ NextRound \in OwnFrames
    BY <2>2, NewFrames
  <2>4. CASE awaiting' = awaiting \cup {job} /\ Becomes(t, <<>>)
             /\ UNCHANGED <<lastResult, stepIndex, succeeded, failed>>
    <3>1. stack' \in [Threads -> Seq(OwnFrames)]
      BY <1>7, <2>4, BecomesTyped DEF StepReturns
    <3>2. QED BY <1>7, <2>1, <2>4, <3>1, RunTyped DEF StepReturns, KeepsTypes
  <2>5. CASE failed' = TRUE /\ Becomes(t, <<Completing("ERRORED", res)>>)
             /\ UNCHANGED <<awaiting, lastResult, stepIndex, succeeded>>
    <3>1. stack' \in [Threads -> Seq(OwnFrames)]
      BY <1>7, <2>3, <2>5, BecomesTyped DEF StepReturns
    <3>2. QED BY <1>7, <2>1, <2>5, <3>1, RunTyped DEF StepReturns, KeepsTypes
  <2>6. CASE TakeIn(job, res) /\ Becomes(t, <<NextRound>>) /\ UNCHANGED <<awaiting, failed>>
    <3>1. stack' \in [Threads -> Seq(OwnFrames)]
      BY <1>7, <2>3, <2>6, BecomesTyped DEF StepReturns
    <3>2. lastResult' \in Results /\ stepIndex' \in Int /\ succeeded' \in Seq(DOMAIN steps)
      BY <2>1, <2>2, <2>6, TakeInTyped
    <3>3. QED BY <1>7, <2>1, <2>6, <3>1, <3>2, RunTyped DEF StepReturns, KeepsTypes
  <2>7. QED BY <1>7, <2>4, <2>5, <2>6 DEF StepReturns
<1>8. ASSUME RunPosted PROVE KeepsTypes
  <2>1. Head(posted) \in OwnJobs /\ Tail(posted) \in Seq(OwnJobs) /\ run # 0
    BY <1>8, HeadTyped DEF RunPosted, Owned
  <2>2. Frame("posted", Head(posted), "IDLE", Ok) \in OwnFrames
    BY <2>1, NewFrames DEF StepCode
  <2>3. stack[LoopThread] \in Seq(OwnFrames)
    BY DEF Owned
  <2>4. stack' \in [Threads -> Seq(OwnFrames)]
    BY <1>8, <2>2, <2>3, OnTop, StackKept DEF RunPosted, Pushes
  <2>5. UNCHANGED engine /\ UNCHANGED <<awaiting, answer, run, pauses>> /\ posted' = Tail(posted)
    BY <1>8 DEF RunPosted
  <2>6. queue' = queue /\ state' = state /\ steps' = steps /\ stepIndex' = stepIndex
        /\ lastResult' = lastResult /\ handler' = handler /\ failed' = failed /\ succeeded' = succeeded
    BY <2>5 DEF engine
  <2>7. QED BY <2>1, <2>4, <2>5, <2>6, RunTyped DEF KeepsTypes
<1>9. ASSUME NEW kind \in Kinds, PostedReturns(kind) PROVE KeepsTypes
  <2> DEFINE job == Top(LoopThread).job
  <2>1. run # 0 /\ job \in OwnJobs /\ Tail(stack[LoopThread]) \in Seq(OwnFrames)
    BY <1>9, TopOwned DEF PostedReturns, OwnFrames, StepCode
  <2>2. HandleResult(LoopThread, Tail(stack[LoopThread]), job, Result(kind, job.step))
    BY <1>9 DEF PostedReturns
  <2>3. posted' \in Seq(OwnJobs) /\ awaiting' \subseteq OwnJobs
    BY <1>9 DEF PostedReturns, Owned
  <2>4. QED BY <2>1, <2>2, <2>3, HandleResultTyped
<1>10. ASSUME NEW t \in Threads, NEW job \in awaiting, NEW kind \in Kinds, Finish(t, job, kind) PROVE KeepsTypes
  <2>1. run # 0 /\ job \in OwnJobs /\ stack[t] \in Seq(OwnFrames)
    BY DEF Owned
  <2>2. HandleResult(t, stack[t], job, Result(kind, job.step))
    BY <1>10 DEF Finish
  <2>3. posted' \in Seq(OwnJobs) /\ awaiting' \subseteq OwnJobs
    BY <1>10 DEF Finish, Owned
  <2>4. QED BY <2>1, <2>2, <2>3, HandleResultTyped
<1>11. ASSUME NEW t \in Threads, NEW f \in OwnFrames, stack[t] # <<>>, Becomes(t, <<f>>) \/ Becomes(t, <<>>)
       PROVE  stack' \in [Threads -> Seq(OwnFrames)] /\ run # 0
  BY <1>11, BecomesTyped, TopOwned
<1>12. ASSUME NEW t \in Threads, stack[t] # <<>>,
              NEW pc \in {"result", "signal", "signalled", "handler", "handling"}
       PROVE  /\ [Top(t) EXCEPT !.pc = pc] \in OwnFrames
              /\ \A res \in Results : [Top(t) EXCEPT !.pc = pc, !.res = res] \in OwnFrames
  BY <1>12, TopOwned DEF OwnFrames, AnyFrame, StepCode, UserCode
<1>13. ASSUME NEW t \in Threads, SetState(t) PROVE KeepsTypes
  <2>1. stack' \in [Threads -> Seq(OwnFrames)] /\ run # 0
    <3>1. [Top(t) EXCEPT !.pc = "result"] \in OwnFrames
      BY <1>12, <1>13 DEF SetState
    <3>2. QED BY <1>11, <1>13, <3>1 DEF SetState
  <2>2. state' \in States
    BY <1>13, TopOwned DEF SetState, OwnFrames, AnyFrame
  <2>3. QED BY <1>13, <2>1, <2>2, RunTyped DEF SetState, KeepsTypes
<1>14. ASSUME NEW t \in Threads, SetResult(t) PROVE KeepsTypes
  <2>1. stack' \in [Threads -> Seq(OwnFrames)] /\ run # 0
    <3>1. [Top(t) EXCEPT !.pc = "signal"] \in OwnFrames
      BY <1>12, <1>14 DEF SetResult
    <3>2. QED BY <1>11, <1>14, <3>1 DEF SetResult
  <2>2. lastResult' \in Results /\ queue' \in Seq(DOMAIN steps)
    <3>1. <<>> \in Seq(DOMAIN steps)
      OBVIOUS
    <3>2. QED BY <1>14, <3>1, TopOwned DEF SetResult, OwnFrames, AnyFrame
  <2>3. QED BY <1>14, <2>1, <2>2, RunTyped DEF SetResult, KeepsTypes
<1>15. ASSUME NEW t \in Threads, Signal(t) PROVE KeepsTypes
  <2>1. stack' \in [Threads -> Seq(OwnFrames)] /\ run # 0
    <3>1. \A pc \in {"signalled", "handler"} : [Top(t) EXCEPT !.pc = pc] \in OwnFrames
      BY <1>12, <1>15 DEF Signal
    <3>2. [Top(t) EXCEPT !.pc = IF @ = "signal" THEN "signalled" ELSE "handler"] \in OwnFrames
      BY <3>1
    <3>3. QED BY <1>11, <1>15, <3>2 DEF Signal
  <2>2. QED BY <1>15, <2>1, RunTyped DEF Signal, KeepsTypes, engine
<1>16. ASSUME NEW t \in Threads, CallHandler(t) PROVE KeepsTypes
  <2>1. stack' \in [Threads -> Seq(OwnFrames)] /\ run # 0
    BY <1>11, <1>12, <1>16 DEF CallHandler, TypeOK
  <2>2. QED BY <1>16, <2>1, RunTyped DEF CallHandler, KeepsTypes
<1>17. ASSUME NEW t \in Threads, HandlerReturns(t) PROVE KeepsTypes
  <2>1. stack' \in [Threads -> Seq(OwnFrames)] /\ run # 0
    BY <1>17, BecomesTyped, TopOwned DEF HandlerReturns
  <2>2. QED BY <1>17, <2>1, RunTyped DEF HandlerReturns, KeepsTypes, engine
<1>18. ASSUME UNCHANGED vars PROVE TypeOK' /\ Owned'
  BY <1>18 DEF vars, engine, TypeOK, Owned, OwnJobs, OwnFrames, Jobs
<1>19. Next => KeepsTypes
  <2>1. ASSUME NEW t \in Threads, Progress(t) PROVE KeepsTypes
    BY <1>5, <1>6, <1>7, <1>13, <1>14, <1>15, <1>16, <1>17, <2>1 DEF Progress
  <2>2. Answers => KeepsTypes
    BY <1>10 DEF Answers, Kinds
  <2>3. ASSUME NEW t \in Threads, Start(t) \/ Pause(t) \/ Resume(t) \/ Stop(t) PROVE KeepsTypes
    BY <1>1, <1>2, <1>3, <1>4, <2>3
  <2>4. (\E kind \in Kinds : PostedReturns(kind)) => KeepsTypes
    BY <1>9
  <2>5. QED BY <1>8, <2>1, <2>2, <2>3, <2>4 DEF Next
<1>20. QED BY <1>18, <1>19, TypesKept

\* Whatever calls are made, in whatever state: the pipeline's variables are
\* what their types say, and the jobs under way are of its own steps.
THEOREM TypeCorrect == Spec => []TypeOK
<1>1. QED BY InitTyped, TypeInv, PTL DEF Spec

-----------------------------------------------------------------------------
(* The inductive invariant when callers are settled: there is at most one  *)
(* token - a call that moves the run on or reports its end, a job posted,  *)
(* or a job awaited - and it bears what has become of the run.             *)

LiveCode == StepCode \cup {"next", "state", "result", "signal", "signalled", "handler"}
Live(t) == stack[t] # <<>> /\ Top(t).pc \in LiveCode

\* Only the innermost call of a thread moves the run on.
Nested == \A t \in Threads : \A i \in DOMAIN stack[t] : i # 1 => stack[t][i].pc \notin LiveCode

\* There is one token at most.
Sole ==
  /\ \A t, u \in Threads : Live(t) /\ Live(u) => t = u
  /\ posted # <<>> => Len(posted) = 1 /\ awaiting = {}
  /\ \A j, k \in awaiting : j = k
  /\ posted # <<>> \/ awaiting # {} => \A t \in Threads : ~ Live(t)

\* No step is under way, and so many are left; or one is, the one whose turn it is.
Between == ~ failed /\ stepIndex = Len(succeeded) /\ Len(succeeded) + Len(queue) = Len(steps)
During(job) ==
  /\ ~ failed /\ stepIndex = Len(succeeded)
  /\ job.step = Len(succeeded) + 1
  /\ Len(succeeded) + 1 + Len(queue) = Len(steps)

\* The queue is the end of the step list, what has succeeded its beginning.
Turned ==
  /\ succeeded = [i \in 1 .. Len(succeeded) |-> i]
  /\ \A i \in 1 .. Len(queue) : queue[i] = Len(steps) - Len(queue) + i
  /\ Len(succeeded) <= Len(steps)
  /\ state = "DONE" => Len(succeeded) = Len(steps)

\* What a call that moves the run on knows of it.
Bears(f) ==
  /\ f.pc = "next" => Active /\ Between
  /\ f.pc = "step" => Active /\ During(f.job)
  /\ f.pc = "posted" => (Active => During(f.job))
  /\ f.pc = "state" => /\ Active /\ (f.res.kind = "fail" <=> failed)
                       /\ f.to = "DONE" => Between /\ queue = <<>>
                       /\ f.to = "ERRORED" => failed
  /\ f.pc = "result" => ~ Active /\ (f.res.kind = "fail" <=> failed)
  /\ f.pc \in {"signal", "signalled", "handler"} => ~ Active /\ (lastResult.kind = "fail" <=> failed)

\* ... and an active run without a token has been paused between two steps.
Moves ==
  /\ Active => (\E t \in Threads : Live(t)) \/ posted # <<>> \/ awaiting # {} \/ Between
  /\ posted # <<>> /\ Active => During(Head(posted))
  /\ \A j \in awaiting : Active => During(j)
  /\ \A t \in Threads : Live(t) => Bears(Top(t))
  /\ Active /\ ~ failed => lastResult.kind # "fail"

InTurn == Nested /\ Sole /\ Turned /\ Moves

\* The token is t's, if it is anywhere.
LEMMA OnlyLive ==
  ASSUME Sole, NEW t \in Threads, Live(t)
  PROVE  posted = <<>> /\ awaiting = {} /\ \A u \in Threads \ {t} : ~ Live(u)
BY DEF Sole

LEMMA OnlyThread ==
  ASSUME NEW t \in Threads, posted' = <<>>, awaiting' = {}, \A u \in Threads \ {t} : ~ Live(u)',
         Live(t)' => Bears(Top(t))', Active' => Live(t)' \/ Between',
         Active' /\ ~ failed' => lastResult'.kind # "fail"
  PROVE  Sole' /\ Moves'
<1>1. Sole'
  BY DEF Sole
<1>2. Moves'
  BY DEF Moves
<1>3. QED BY <1>1, <1>2

\* The innermost call of t is over, or f takes its place, ...
LEMMA Over ==
  ASSUME Owned, Nested, NEW t \in Threads, stack[t] # <<>>, Becomes(t, <<>>)
  PROVE  Nested' /\ ~ Live(t)' /\ \A u \in Threads \ {t} : stack'[u] = stack[u]
<1>1. Tail(stack[t]) \in Seq(OwnFrames) /\ stack[t] \in Seq(OwnFrames)
  BY TopOwned
<1>2. stack'[t] = Tail(stack[t]) /\ \A u \in Threads \ {t} : stack'[u] = stack[u]
  BY <1>1, NoneOnTop, StackKept DEF Becomes
<1>3. \A i \in DOMAIN Tail(stack[t]) : Tail(stack[t])[i].pc \notin LiveCode
  BY <1>1, Beneath DEF Nested
<1>4. Nested'
  BY <1>2, <1>3 DEF Nested
<1>5. Tail(stack[t]) # <<>> => Head(Tail(stack[t])) = Tail(stack[t])[1] /\ 1 \in DOMAIN Tail(stack[t])
  BY <1>1, Beneath
<1>6. ~ Live(t)'
  BY <1>2, <1>3, <1>5 DEF Live, Top
<1>7. QED BY <1>2, <1>4, <1>6

LEMMA Replaced ==
  ASSUME Owned, Nested, NEW t \in Threads, stack[t] # <<>>, NEW f \in OwnFrames, Becomes(t, <<f>>)
  PROVE  Nested' /\ stack'[t] # <<>> /\ Top(t)' = f /\ \A u \in Threads \ {t} : stack'[u] = stack[u]
<1> DEFINE s == <<f>> \o Tail(stack[t])
<1>1. Tail(stack[t]) \in Seq(OwnFrames) /\ stack[t] \in Seq(OwnFrames)
  BY TopOwned
<1>2. s \in Seq(OwnFrames) /\ s # <<>> /\ Head(s) = f
      /\ \A i \in DOMAIN s : i = 1 \/ (i - 1 \in DOMAIN Tail(stack[t]) /\ s[i] = Tail(stack[t])[i - 1])
  BY <1>1, OnTop
<1>3. \A i \in DOMAIN Tail(stack[t]) : Tail(stack[t])[i].pc \notin LiveCode
  BY <1>1, Beneath DEF Nested
<1>4. stack'[t] = s /\ \A u \in Threads \ {t} : stack'[u] = stack[u]
  BY <1>2, StackKept DEF Becomes
<1>5. \A i \in DOMAIN s : i # 1 => s[i].pc \notin LiveCode
  BY <1>2, <1>3
<1>6. Nested'
  BY <1>4, <1>5 DEF Nested
<1>7. QED BY <1>2, <1>4, <1>6 DEF Top

\* ... or it is called from below.
LEMMA Called ==
  ASSUME Owned, Nested, NEW t \in Threads, NEW below \in Seq(OwnFrames), NEW f \in OwnFrames,
         \A i \in DOMAIN below : below[i].pc \notin LiveCode, stack' = [stack EXCEPT ![t] = <<f>> \o below]
  PROVE  Nested' /\ stack'[t] # <<>> /\ Top(t)' = f /\ \A u \in Threads \ {t} : stack'[u] = stack[u]
<1> DEFINE s == <<f>> \o below
<1>1. s \in Seq(OwnFrames) /\ s # <<>> /\ Head(s) = f
      /\ \A i \in DOMAIN s : i = 1 \/ (i - 1 \in DOMAIN below /\ s[i] = below[i - 1])
  BY OnTop
<1>2. stack'[t] = s /\ \A u \in Threads \ {t} : stack'[u] = stack[u]
  BY <1>1, StackKept
<1>3. \A i \in DOMAIN s : i # 1 => s[i].pc \notin LiveCode
  BY <1>1
<1>4. Nested'
  BY <1>2, <1>3 DEF Nested
<1>5. QED BY <1>1, <1>2, <1>4 DEF Top

LEMMA Left ==
  ASSUME Owned, Nested, NEW t \in Threads, NEW below \in Seq(OwnFrames),
         \A i \in DOMAIN below : below[i].pc \notin LiveCode, stack' = [stack EXCEPT ![t] = below]
  PROVE  Nested' /\ ~ Live(t)' /\ \A u \in Threads \ {t} : stack'[u] = stack[u]
<1>1. stack'[t] = below /\ \A u \in Threads \ {t} : stack'[u] = stack[u]
  BY StackKept
<1>2. Nested'
  BY <1>1 DEF Nested
<1>3. ~ Live(t)'
  BY <1>1 DEF Live, Top
<1>4. QED BY <1>1, <1>2, <1>3

\* A thread that is not live has no live call below either.
LEMMA NotLive ==
  ASSUME Owned, Nested, NEW t \in Threads, ~ Live(t)
  PROVE  stack[t] \in Seq(OwnFrames) /\ \A i \in DOMAIN stack[t] : stack[t][i].pc \notin LiveCode
<1>1. stack[t] \in Seq(OwnFrames)
  BY DEF Owned
<1>2. stack[t] # <<>> => Top(t) = stack[t][1]
  BY <1>1, Beneath DEF Top
<1>3. QED BY <1>1, <1>2 DEF Nested, Live

\* A success taken in is that of the step whose turn it was.
LEMMA TakenIn ==
  ASSUME TypeOK, Turned, Active, NEW job \in OwnJobs, NEW res \in Results, res.kind # "fail",
         During(job), TakeIn(job, res), UNCHANGED <<steps, queue, state, failed>>
  PROVE  Between' /\ Turned' /\ lastResult'.kind # "fail" /\ ~ failed'
<1>1. Between' /\ lastResult'.kind # "fail" /\ ~ failed'
  BY DEF Between, During, TakeIn, TypeOK
<1>2. Turned'
  <2>1. succeeded' = Append(succeeded, Len(succeeded) + 1) /\ succeeded \in Seq(Nat)
    <3>1. DOMAIN steps \subseteq Nat
      BY StepList DEF TypeOK
    <3>2. succeeded \in Seq(Nat)
      BY <3>1, Wider DEF TypeOK
    <3>3. QED BY <3>2 DEF During, TakeIn
  <2>2. succeeded' = [i \in 1 .. Len(succeeded') |-> i]
    BY <2>1 DEF Turned
  <2>3. Len(succeeded') = Len(succeeded) + 1 /\ Len(succeeded) + 1 <= Len(steps)
    <3>1. Len(queue) \in Nat /\ Len(succeeded) \in Nat
      BY DEF TypeOK
    <3>2. QED BY <2>1, <3>1 DEF During
  <2>4. state # "DONE"
    BY DEF Active
  <2>5. QED BY <2>2, <2>3, <2>4 DEF Turned
<1>3. QED BY <1>1, <1>2

LEMMA HandleResultInv ==
  ASSUME TypeOK, Owned, Nested, Turned, NEW t \in Threads, NEW below \in Seq(OwnFrames),
         \A i \in DOMAIN below : below[i].pc \notin LiveCode,
         NEW job \in OwnJobs, NEW kind \in Kinds, HandleResult(t, below, job, Result(kind, job.step)),
         Active => During(job), Active /\ ~ failed => lastResult.kind # "fail",
         posted' = <<>>, awaiting' = {}, \A u \in Threads \ {t} : ~ Live(u)
  PROVE  InTurn'
<1> DEFINE res == Result(kind, job.step)
<1>1. /\ steps' = steps /\ queue' = queue /\ state' = state
      /\ Active' = Active
  BY DEF HandleResult, Active
<1>2. res \in Results /\ res.kind = kind
  BY PipelineAssumption DEF Result, Results, OwnJobs, Jobs
<1>3. Completing("ERRORED", res) \in OwnFrames /\ Completing("DONE", res) \in OwnFrames /\ NextRound \in OwnFrames
  BY <1>2, NewFrames
<1>4. /\ Completing("ERRORED", res).pc = "state" /\ Completing("ERRORED", res).to = "ERRORED"
      /\ Completing("ERRORED", res).res = res
      /\ Completing("DONE", res).pc = "state" /\ Completing("DONE", res).to = "DONE"
      /\ Completing("DONE", res).res = res /\ NextRound.pc = "next"
  BY DEF Completing, NextRound, Frame
<1>5. ASSUME \A u \in Threads \ {t} : stack'[u] = stack[u] PROVE \A u \in Threads \ {t} : ~ Live(u)'
  BY <1>5 DEF Live, Top
<1>6. CASE ~ Active /\ stack' = [stack EXCEPT ![t] = below] /\ UNCHANGED <<lastResult, stepIndex, succeeded, failed>>
  <2>1. Nested' /\ ~ Live(t)' /\ \A u \in Threads \ {t} : stack'[u] = stack[u]
    BY <1>6, Left
  <2>2. Turned'
    BY <1>1, <1>6 DEF Turned
  <2>3. Sole' /\ Moves'
    BY <1>1, <1>5, <1>6, <2>1, OnlyThread
  <2>4. QED BY <2>1, <2>2, <2>3 DEF InTurn
<1>7. CASE /\ Active /\ IsError(res) /\ failed' = TRUE
           /\ stack' = [stack EXCEPT ![t] = <<Completing("ERRORED", res)>> \o below]
           /\ UNCHANGED <<lastResult, stepIndex, succeeded>>
  <2>1. Nested' /\ stack'[t] # <<>> /\ Top(t)' = Completing("ERRORED", res) /\ \A u \in Threads \ {t} : stack'[u] = stack[u]
    BY <1>3, <1>7, Called
  <2>2. Turned'
    BY <1>1, <1>7 DEF Turned
  <2>3. Bears(Top(t))' /\ Live(t)'
    <3>1. Bears(Top(t))'
      BY <1>1, <1>2, <1>4, <1>7, <2>1 DEF Bears, IsError
    <3>2. QED BY <1>4, <2>1, <3>1 DEF Live, LiveCode
  <2>4. Sole' /\ Moves'
    BY <1>5, <1>7, <2>1, <2>3, OnlyThread
  <2>5. QED BY <2>1, <2>2, <2>4 DEF InTurn
<1>8. CASE /\ Active /\ ~ IsError(res) /\ TakeIn(job, res) /\ UNCHANGED failed
           /\ stack' = [stack EXCEPT ![t] = GoesOn(res) \o below]
  <2>1. During(job) /\ res.kind # "fail"
    BY <1>2, <1>8 DEF IsError
  <2>2. Between' /\ Turned' /\ lastResult'.kind # "fail" /\ ~ failed'
    BY <1>1, <1>2, <1>8, <2>1, TakenIn
  <2>3. Turned'
    BY <2>2
  <2>4. CASE queue # <<>> /\ state = "PAUSED"
    <3>1. stack' = [stack EXCEPT ![t] = below]
      BY <1>8, <2>4, NoneOnTop DEF GoesOn
    <3>2. Nested' /\ ~ Live(t)' /\ \A u \in Threads \ {t} : stack'[u] = stack[u]
      BY <3>1, Left
    <3>3. Sole' /\ Moves'
      BY <1>5, <2>2, <3>2, OnlyThread
    <3>4. QED BY <2>3, <3>2, <3>3 DEF InTurn
  <2>5. CASE ~ (queue # <<>> /\ state = "PAUSED")
    <3> DEFINE f == IF queue = <<>> THEN Completing("DONE", res) ELSE NextRound
    <3>1. f \in OwnFrames /\ stack' = [stack EXCEPT ![t] = <<f>> \o below]
      BY <1>3, <1>8, <2>5 DEF GoesOn
    <3>2. Nested' /\ stack'[t] # <<>> /\ Top(t)' = f /\ \A u \in Threads \ {t} : stack'[u] = stack[u]
      BY <3>1, Called
    <3>3. Bears(Top(t))'
      <4>1. CASE queue = <<>>
        BY <1>1, <1>2, <1>4, <1>8, <2>1, <2>2, <3>2, <4>1 DEF Bears
      <4>2. CASE queue # <<>>
        BY <1>1, <1>4, <1>8, <2>2, <3>2, <4>2 DEF Bears
      <4>3. QED BY <4>1, <4>2
    <3>4. Live(t)'
      BY <1>4, <3>2 DEF Live, LiveCode
    <3>5. Sole' /\ Moves'
      BY <1>5, <2>2, <3>2, <3>3, <3>4, OnlyThread
    <3>6. QED BY <2>3, <3>2, <3>5 DEF InTurn
  <2>6. QED BY <2>4, <2>5
<1>9. QED BY <1>6, <1>7, <1>8 DEF HandleResult

-----------------------------------------------------------------------------
(* What the guards of settled callers say.                                 *)

\* Calls that move the run on are counted thread by thread.
LEMMA FramesAt ==
  ASSUME Owned, Nested, NEW pcs, pcs \subseteq LiveCode
  PROVE  Frames(pcs) = {<<t, 1>> : t \in {u \in Threads : stack[u] # <<>> /\ Top(u).pc \in pcs}}
<1>1. ASSUME NEW t \in Threads, NEW i \in DOMAIN stack[t], stack[t][i].pc \in pcs
      PROVE  i = 1
  BY <1>1 DEF Nested
<1>2. ASSUME NEW t \in Threads
      PROVE  (1 \in DOMAIN stack[t] <=> stack[t] # <<>>) /\ (stack[t] # <<>> => stack[t][1] = Top(t))
  BY Beneath DEF Owned, Top
<1>3. ASSUME NEW x \in Frames(pcs) PROVE x \in {<<t, 1>> : t \in {u \in Threads : stack[u] # <<>> /\ Top(u).pc \in pcs}}
  <2>1. PICK t \in Threads : x \in {t} \X {i \in DOMAIN stack[t] : stack[t][i].pc \in pcs}
    BY <1>3 DEF Frames
  <2>2. PICK i \in DOMAIN stack[t] : x = <<t, i>> /\ stack[t][i].pc \in pcs
    BY <2>1
  <2>3. i = 1
    BY <1>1, <2>2
  <2>4. QED BY <1>2, <2>2, <2>3
<1>4. ASSUME NEW t \in Threads, stack[t] # <<>>, Top(t).pc \in pcs PROVE <<t, 1>> \in Frames(pcs)
  <2>1. <<t, 1>> \in {t} \X {i \in DOMAIN stack[t] : stack[t][i].pc \in pcs}
    BY <1>2, <1>4
  <2>2. QED BY <2>1 DEF Frames
<1>5. QED BY <1>3, <1>4

\* There is at most one of them, and at most one step under way.
LEMMA UnderWayIs ==
  ASSUME TypeOK, Owned, Nested, Sole
  PROVE  /\ UnderWay \in {0, 1}
         /\ UnderWay = 1 <=> \/ posted # <<>> \/ awaiting # {}
                            \/ \E t \in Threads : stack[t] # <<>> /\ Top(t).pc \in StepCode
<1> DEFINE ts == {u \in Threads : stack[u] # <<>> /\ Top(u).pc \in StepCode}
<1>1. StepCode \subseteq LiveCode
  BY DEF LiveCode
<1>2. Frames(StepCode) = {<<t, 1>> : t \in ts}
  BY <1>1, FramesAt
<1>3. \A t \in ts : Live(t)
  BY <1>1 DEF Live
<1>4. (Len(posted) = 0 /\ posted = <<>>) \/ (Len(posted) = 1 /\ posted # <<>> /\ awaiting = {})
  BY DEF Owned, Sole
<1>5. (awaiting = {} /\ Cardinality(awaiting) = 0) \/ (awaiting # {} /\ Cardinality(awaiting) = 1)
  <2>1. CASE awaiting # {}
    <3>1. PICK j : j \in awaiting
      BY <2>1
    <3>2. awaiting = {j}
      BY <3>1 DEF Sole
    <3>3. QED BY <2>1, <3>2, FS_Singleton
  <2>2. QED BY <2>1, FS_EmptySet
<1>6. (ts = {} /\ Cardinality(Frames(StepCode)) = 0) \/ (ts # {} /\ Cardinality(Frames(StepCode)) = 1)
  <2>1. CASE ts # {}
    <3>1. PICK t : t \in ts
      BY <2>1
    <3>2. ts = {t}
      BY <1>3, <3>1 DEF Sole
    <3>3. Frames(StepCode) = {<<t, 1>>}
      BY <1>2, <3>2
    <3>4. QED BY <2>1, <3>3, FS_Singleton
  <2>2. CASE ts = {}
    <3>1. Frames(StepCode) = {}
      BY <1>2, <2>2
    <3>2. QED BY <2>2, <3>1, FS_EmptySet
  <2>3. QED BY <2>1, <2>2
<1>7. ts # {} => posted = <<>> /\ awaiting = {}
  BY <1>3 DEF Sole
<1>8. ts # {} <=> \E t \in Threads : stack[t] # <<>> /\ Top(t).pc \in StepCode
  OBVIOUS
<1>9. UnderWay = Len(posted) + Cardinality(awaiting) + Cardinality(Frames(StepCode))
  BY DEF UnderWay
<1> HIDE DEF ts
<1>10. UnderWay \in {0, 1} /\ (UnderWay = 1 <=> posted # <<>> \/ awaiting # {} \/ ts # {})
  <2>1. CASE posted # <<>>
    <3>1. Len(posted) = 1 /\ Cardinality(awaiting) = 0 /\ Cardinality(Frames(StepCode)) = 0 /\ ts = {}
      BY <1>4, <1>5, <1>6, <1>7, <2>1
    <3>2. QED BY <1>9, <2>1, <3>1
  <2>2. CASE awaiting # {}
    BY <1>4, <1>5, <1>6, <1>7, <1>9, <2>2
  <2>3. CASE posted = <<>> /\ awaiting = {}
    BY <1>4, <1>5, <1>6, <1>9, <2>3
  <2>4. QED BY <2>1, <2>2, <2>3
<1>11. QED BY <1>8, <1>10

\* When nothing is under way and nothing moves the run on, there is no token.
LEMMA QuietIs ==
  ASSUME TypeOK, Owned, Nested, Sole, Settled, Quiet
  PROVE  posted = <<>> /\ awaiting = {} /\ \A t \in Threads : ~ Live(t)
<1> DEFINE rest == {"next", "state", "result", "signal", "signalled", "handler"}
<1>1. UnderWay = 0 /\ Frames(rest) = {}
  BY DEF Quiet
<1>2. posted = <<>> /\ awaiting = {} /\ \A t \in Threads : stack[t] # <<>> => Top(t).pc \notin StepCode
  BY <1>1, UnderWayIs
<1>3. rest \subseteq LiveCode /\ LiveCode = StepCode \cup rest
  BY DEF LiveCode
<1>4. Frames(rest) = {<<t, 1>> : t \in {u \in Threads : stack[u] # <<>> /\ Top(u).pc \in rest}}
  BY <1>3, FramesAt
<1>5. \A t \in Threads : stack[t] # <<>> => Top(t).pc \notin rest
  BY <1>1, <1>4
<1>6. QED BY <1>2, <1>3, <1>5 DEF Live

\* The invariant says what the property does.
LEMMA InTurnRuns == TypeOK /\ Owned /\ InTurn => RunsInTurn
<1> SUFFICES ASSUME TypeOK, Owned, InTurn PROVE RunsInTurn
  OBVIOUS
<1> USE DEF InTurn
<1>1. OneStepAtATime
  BY UnderWayIs DEF OneStepAtATime
<1>2. Len(queue) \in Nat /\ Len(succeeded) \in Nat
  BY DEF TypeOK
<1>3. StepsAreConserved
  <2> SUFFICES ASSUME Active, ~ failed PROVE stepIndex + UnderWay + Len(queue) = Len(steps)
    BY DEF StepsAreConserved
  <2>1. CASE posted # <<>>
    BY <1>2, <2>1, UnderWayIs DEF Moves, During
  <2>2. CASE awaiting # {}
    BY <1>2, <2>2, UnderWayIs DEF Moves, During
  <2>3. ASSUME NEW t \in Threads, Live(t) PROVE stepIndex + UnderWay + Len(queue) = Len(steps)
    <3>1. posted = <<>> /\ awaiting = {} /\ \A u \in Threads \ {t} : ~ Live(u)
      BY <2>3, OnlyLive
    <3>2. Bears(Top(t)) /\ Top(t) \in OwnFrames /\ Top(t).pc \in LiveCode
      BY <2>3, TopOwned DEF Moves, Live
    <3>3. CASE Top(t).pc \in StepCode
      <4>1. UnderWay = 1
        BY <2>3, <3>3, UnderWayIs DEF Live
      <4>2. During(Top(t).job)
        BY <3>2, <3>3 DEF Bears, StepCode
      <4>3. QED BY <1>2, <4>1, <4>2 DEF During
    <3>4. CASE Top(t).pc \notin StepCode
      <4>1. \A u \in Threads : stack[u] # <<>> => Top(u).pc \notin StepCode
        BY <3>1, <3>4 DEF Live, LiveCode
      <4>2. UnderWay = 0
        BY <3>1, <4>1, UnderWayIs
      <4>3. Between
        BY <3>2, <3>4 DEF Bears, LiveCode, OwnFrames
      <4>4. QED BY <1>2, <4>2, <4>3 DEF Between
    <3>5. QED BY <3>3, <3>4
  <2>4. CASE posted = <<>> /\ awaiting = {} /\ \A t \in Threads : ~ Live(t)
    <3>1. UnderWay = 0
      BY <2>4, UnderWayIs DEF Live, LiveCode
    <3>2. Between
      BY <2>4 DEF Moves
    <3>3. QED BY <1>2, <3>1, <3>2 DEF Between
  <2>5. QED BY <2>1, <2>2, <2>3, <2>4
<1>4. DoneMeansAll
  <2>1. PICK n \in 0 .. MaxSteps : steps \in [1 .. n -> StepKinds]
    BY StepList DEF TypeOK
  <2>2. DOMAIN steps = 1 .. Len(steps)
    BY <2>1
  <2>3. QED BY <2>2 DEF DoneMeansAll, Turned
<1>5. QED BY <1>1, <1>3, <1>4 DEF RunsInTurn

-----------------------------------------------------------------------------
(* Every step keeps the invariant.                                         *)

LEMMA InitInTurn == Init => InTurn
<1> SUFFICES ASSUME Init PROVE InTurn
  OBVIOUS
<1>1. \A t \in Threads : stack[t] = <<>>
  BY DEF Init
<1>2. posted = <<>> /\ awaiting = {} /\ ~ Active /\ state # "DONE" /\ queue = <<>> /\ succeeded = <<>>
  BY DEF Init, Active
<1>3. Nested
  BY <1>1 DEF Nested
<1>4. Sole
  BY <1>1, <1>2 DEF Sole, Live
<1>5. Len(steps) \in Nat
  BY StepList DEF Init
<1>6. Turned
  BY <1>2, <1>5 DEF Turned
<1>7. Moves
  BY <1>1, <1>2 DEF Moves, Live
<1>8. QED BY <1>3, <1>4, <1>6, <1>7 DEF InTurn

\* A call that does not move the run on ends, and nothing else changes.
LEMMA Aside ==
  ASSUME Owned, InTurn, NEW t \in Threads, stack[t] # <<>>, ~ Live(t), Becomes(t, <<>>),
         UNCHANGED <<steps, queue, state, stepIndex, lastResult, succeeded, failed, posted, awaiting>>
  PROVE  InTurn'
<1>1. Nested' /\ ~ Live(t)' /\ \A u \in Threads \ {t} : stack'[u] = stack[u]
  BY Over DEF InTurn
<1>2. \A u \in Threads : (Live(u)' <=> Live(u)) /\ (Live(u)' => Top(u)' = Top(u))
  BY <1>1 DEF Live, Top
<1>3. Sole'
  BY <1>2 DEF InTurn, Sole
<1>4. Turned'
  BY DEF InTurn, Turned
<1>5. Between' = Between /\ Active' = Active /\ \A f : Bears(f) => Bears(f)
  BY DEF Between, Active
<1>6. ASSUME NEW u \in Threads, Live(u)' PROVE Bears(Top(u))'
  <2>1. Bears(Top(u)) /\ Top(u)' = Top(u)
    BY <1>2, <1>6 DEF InTurn, Moves
  <2>2. QED BY <1>5, <2>1 DEF Bears, Between, During
<1>7. Moves'
  BY <1>2, <1>5, <1>6 DEF InTurn, Moves, During
<1>8. QED BY <1>1, <1>3, <1>4, <1>7 DEF InTurn

LEMMA StartInTurn ==
  ASSUME TypeOK, Owned, InTurn, Settled, NEW t \in Threads, Start(t)
  PROVE  InTurn'
<1> DEFINE f == IF steps = <<>> THEN Completing("DONE", Ok) ELSE NextRound
           below == <<Starting>> \o stack[t]
<1>1. posted = <<>> /\ awaiting = {} /\ \A u \in Threads : ~ Live(u)
  BY QuietIs DEF Start, InTurn
<1>2. stack[t] \in Seq(OwnFrames) /\ \A i \in DOMAIN stack[t] : stack[t][i].pc \notin LiveCode
  BY <1>1, NotLive DEF InTurn
<1>3. Completing("DONE", Ok) \in OwnFrames /\ NextRound \in OwnFrames /\ Starting \in OwnFrames
  BY NewFrames
<1>4. Starting.pc \notin LiveCode
  BY DEF Starting, Frame, LiveCode, StepCode
<1>5. below \in Seq(OwnFrames) /\ \A i \in DOMAIN below : below[i].pc \notin LiveCode
  BY <1>2, <1>3, <1>4, OnTop
<1>6. stack' = [stack EXCEPT ![t] = <<f>> \o below]
  <2>1. <<f, Starting>> \o stack[t] = <<f>> \o below
    BY <1>2, <1>3
  <2>2. QED BY <2>1 DEF Start, Pushes
<1>7. Nested' /\ stack'[t] # <<>> /\ Top(t)' = f /\ \A u \in Threads \ {t} : stack'[u] = stack[u]
  BY <1>3, <1>5, <1>6, Called DEF InTurn
<1>8. PICK n \in 0 .. MaxSteps : steps \in [1 .. n -> StepKinds]
  BY StepList DEF TypeOK
<1>9. /\ Len(steps) = n /\ n \in Nat
      /\ queue' = [i \in 1 .. n |-> i] /\ Len(queue') = n
      /\ succeeded' = <<>> /\ Len(succeeded') = 0
      /\ stepIndex' = 0 /\ failed' = FALSE /\ steps' = steps /\ state' = "RUNNING" /\ lastResult' = Ok
      /\ posted' = posted /\ awaiting' = awaiting
  BY <1>8 DEF Start, Refill
<1>10. Turned'
  BY <1>9 DEF Turned
<1>11. Between' /\ Active' /\ Ok.kind = "ok"
  BY <1>9 DEF Between, Active, Ok, Result
<1>12. Bears(Top(t))' /\ Live(t)'
  <2>1. CASE steps = <<>>
    <3>1. f.pc = "state" /\ f.to = "DONE" /\ f.res = Ok
      BY <2>1 DEF Completing, Frame
    <3>2. queue' = <<>>
      BY <1>9, <2>1
    <3>3. Bears(Top(t))'
      BY <1>7, <1>9, <1>11, <3>1, <3>2 DEF Bears
    <3>4. QED BY <1>7, <3>1, <3>3 DEF Live, LiveCode
  <2>2. CASE steps # <<>>
    <3>1. f.pc = "next"
      BY <2>2 DEF NextRound, Frame
    <3>2. Bears(Top(t))'
      BY <1>7, <1>11, <3>1 DEF Bears
    <3>3. QED BY <1>7, <3>1, <3>2 DEF Live, LiveCode
  <2>3. QED BY <2>1, <2>2
<1>13. \A u \in Threads \ {t} : ~ Live(u)'
  BY <1>1, <1>7 DEF Live, Top
<1>14. lastResult'.kind # "fail"
  BY <1>9, <1>11
<1>15. Sole' /\ Moves'
  BY <1>1, <1>9, <1>12, <1>13, <1>14, OnlyThread
<1>16. QED BY <1>7, <1>10, <1>15 DEF InTurn

LEMMA PauseInTurn ==
  ASSUME Owned, InTurn, NEW t \in Threads, Pause(t)
  PROVE  InTurn'
<1>1. /\ UNCHANGED <<steps, queue, stepIndex, lastResult, succeeded, failed, posted, awaiting, stack>>
      /\ Active /\ Active' /\ state' = "PAUSED"
  BY DEF Pause, Active
<1>2. Nested' /\ Sole'
  BY <1>1 DEF InTurn, Nested, Sole, Live, Top
<1>3. Turned'
  BY <1>1 DEF InTurn, Turned
<1>4. ASSUME NEW u \in Threads, Live(u)' PROVE Bears(Top(u))'
  <2>1. Bears(Top(u)) /\ Top(u)' = Top(u)
    BY <1>1, <1>4 DEF InTurn, Moves, Live, Top
  <2>2. QED BY <1>1, <2>1 DEF Bears, Between, During
<1>5. Moves'
  BY <1>1, <1>4 DEF InTurn, Moves, During, Between, Live, Top
<1>6. QED BY <1>2, <1>3, <1>5 DEF InTurn

LEMMA ResumeInTurn ==
  ASSUME TypeOK, Owned, InTurn, Settled, NEW t \in Threads, Resume(t)
  PROVE  InTurn'
<1>1. posted = <<>> /\ awaiting = {} /\ \A u \in Threads : ~ Live(u)
  BY QuietIs DEF Resume, InTurn
<1>2. stack[t] \in Seq(OwnFrames) /\ \A i \in DOMAIN stack[t] : stack[t][i].pc \notin LiveCode
  BY <1>1, NotLive DEF InTurn
<1>3. NextRound \in OwnFrames /\ NextRound.pc = "next"
  BY NewFrames DEF NextRound, Frame
<1>4. stack' = [stack EXCEPT ![t] = <<NextRound>> \o stack[t]]
  BY DEF Resume, Pushes
<1>5. Nested' /\ stack'[t] # <<>> /\ Top(t)' = NextRound /\ \A u \in Threads \ {t} : stack'[u] = stack[u]
  BY <1>2, <1>3, <1>4, Called DEF InTurn
<1>6. /\ UNCHANGED <<steps, queue, stepIndex, lastResult, succeeded, failed, posted, awaiting>>
      /\ Active /\ Active' /\ state' = "RUNNING"
  BY DEF Resume, Active
<1>7. Turned'
  BY <1>6 DEF InTurn, Turned
<1>8. Between'
  BY <1>1, <1>6 DEF InTurn, Moves, Between
<1>9. Bears(Top(t))' /\ Live(t)'
  BY <1>3, <1>5, <1>6, <1>8 DEF Bears, Live, LiveCode
<1>10. \A u \in Threads \ {t} : ~ Live(u)'
  BY <1>1, <1>5 DEF Live, Top
<1>11. Active' /\ ~ failed' => lastResult'.kind # "fail"
  BY <1>6 DEF InTurn, Moves
<1>12. Sole' /\ Moves'
  BY <1>1, <1>6, <1>9, <1>10, <1>11, OnlyThread
<1>13. QED BY <1>5, <1>7, <1>12 DEF InTurn

LEMMA StopInTurn ==
  ASSUME TypeOK, Owned, InTurn, Settled, NEW t \in Threads, Stop(t)
  PROVE  InTurn'
<1> DEFINE moving == {"step", "next", "state", "result"}
<1>1. /\ UNCHANGED <<steps, lastResult, succeeded, failed, posted, awaiting, stack>>
      /\ queue' = <<>> /\ state' = "IDLE" /\ ~ Active'
  BY DEF Stop, Active
<1>2. \A u \in Threads : stack[u] # <<>> => Top(u).pc \notin moving
  <2>1. moving \subseteq LiveCode
    BY DEF LiveCode, StepCode
  <2>2. Frames(moving) = {<<u, 1>> : u \in {v \in Threads : stack[v] # <<>> /\ Top(v).pc \in moving}}
    BY <2>1, FramesAt DEF InTurn
  <2>3. Frames(moving) = {}
    BY DEF Stop
  <2>4. QED BY <2>2, <2>3
<1>3. Nested' /\ Sole'
  BY <1>1 DEF InTurn, Nested, Sole, Live, Top
<1>4. Turned'
  <2>1. Len(steps) \in Nat /\ Len(queue') = 0
    BY <1>1, StepList DEF TypeOK
  <2>2. QED BY <1>1, <2>1 DEF InTurn, Turned
<1>5. ASSUME NEW u \in Threads, Live(u)' PROVE Bears(Top(u))'
  <2>1. Bears(Top(u)) /\ Top(u)' = Top(u) /\ stack[u] # <<>>
    BY <1>1, <1>5 DEF InTurn, Moves, Live, Top
  <2>2. Top(u).pc \notin moving
    BY <1>2, <2>1
  <2>3. QED BY <1>1, <2>1, <2>2 DEF Bears, Active
<1>6. Moves'
  BY <1>1, <1>5 DEF Moves
<1>7. QED BY <1>3, <1>4, <1>6 DEF InTurn

\* A call that moves the run on gives way to another.
LEMMA Onward ==
  ASSUME Owned, InTurn, NEW t \in Threads, Live(t), NEW f \in OwnFrames, Becomes(t, <<f>>),
         posted' = posted, awaiting' = awaiting, Turned',
         f.pc \in LiveCode => Bears(f)', Active' => f.pc \in LiveCode,
         Active' /\ ~ failed' => lastResult'.kind # "fail"
  PROVE  InTurn'
<1>1. posted = <<>> /\ awaiting = {} /\ \A u \in Threads \ {t} : ~ Live(u)
  BY OnlyLive DEF InTurn
<1>2. Nested' /\ stack'[t] # <<>> /\ Top(t)' = f /\ \A u \in Threads \ {t} : stack'[u] = stack[u]
  BY Replaced DEF InTurn, Live
<1>3. \A u \in Threads \ {t} : ~ Live(u)'
  BY <1>1, <1>2 DEF Live, Top
<1>4. Live(t)' <=> f.pc \in LiveCode
  BY <1>2 DEF Live
<1>5. Live(t)' => Bears(Top(t))'
  BY <1>2, <1>4 DEF Bears
<1>6. Sole' /\ Moves'
  BY <1>1, <1>3, <1>4, <1>5, OnlyThread
<1>7. QED BY <1>2, <1>6 DEF InTurn

\* The next step is the one after those that succeeded.
LEMMA TakesItsTurn ==
  ASSUME TypeOK, Turned, Between, queue # <<>>, NEW job, job.step = Head(queue),
         queue' = Tail(queue), UNCHANGED <<steps, state, stepIndex, succeeded, failed>>
  PROVE  During(job)' /\ Turned'
<1>1. Len(steps) \in Nat /\ DOMAIN steps \subseteq Nat
  BY StepList DEF TypeOK
<1>2. queue \in Seq(Nat) /\ Len(succeeded) \in Nat
  BY <1>1, Wider DEF TypeOK
<1>3. /\ Head(queue) = queue[1] /\ Len(queue) \in Nat \ {0} /\ Len(Tail(queue)) = Len(queue) - 1
      /\ \A i \in 1 .. Len(queue) - 1 : Tail(queue)[i] = queue[i + 1] /\ i + 1 \in 1 .. Len(queue)
  BY <1>2
<1>4. Head(queue) = Len(succeeded) + 1
  <2>1. queue[1] = Len(steps) - Len(queue) + 1
    BY <1>3 DEF Turned
  <2>2. Len(succeeded) + Len(queue) = Len(steps)
    BY DEF Between
  <2>3. QED BY <1>1, <1>2, <1>3, <2>1, <2>2
<1>5. During(job)'
  <2>1. Len(queue') = Len(queue) - 1 /\ Len(steps) = Len(succeeded) + Len(queue) /\ ~ failed' /\ stepIndex' = Len(succeeded')
    BY <1>3 DEF Between
  <2>2. Len(succeeded') + 1 + Len(queue') = Len(steps')
    BY <1>1, <1>2, <1>3, <2>1
  <2>3. QED BY <1>4, <2>1, <2>2 DEF During
<1>6. \A i \in 1 .. Len(queue') : queue'[i] = Len(steps) - Len(queue') + i
  <2>1. \A i \in 1 .. Len(queue) - 1 : queue[i + 1] = Len(steps) - Len(queue) + (i + 1)
    BY <1>2, <1>3 DEF Turned
  <2>2. queue' = Tail(queue) /\ Len(queue') = Len(queue) - 1
    BY <1>3
  <2> SUFFICES ASSUME NEW i \in 1 .. Len(queue) - 1 PROVE Tail(queue)[i] = Len(steps) - (Len(queue) - 1) + i
    BY <2>2
  <2>3. Tail(queue)[i] = Len(steps) - Len(queue) + (i + 1)
    BY <1>3, <2>1
  <2>4. QED BY <1>1, <1>3, <2>3
<1>7. Turned'
  BY <1>6 DEF Turned
<1>8. QED BY <1>5, <1>7

LEMMA RunNextInTurn ==
  ASSUME TypeOK, Owned, InTurn, NEW t \in Threads, RunNext(t)
  PROVE  InTurn'
<1>0. PICK job : job = [step |-> Head(queue), run |-> run]
  OBVIOUS
<1>1. Live(t) /\ stack[t] # <<>> /\ Top(t).pc = "next" /\ run # 0
  BY TopOwned DEF RunNext, Live, LiveCode
<1>2. Active /\ Between /\ Active' /\ lastResult.kind # "fail"
      /\ UNCHANGED <<steps, state, stepIndex, lastResult, succeeded, failed, awaiting>>
  <2>1. Active /\ Between
    BY <1>1 DEF InTurn, Moves, Bears
  <2>2. UNCHANGED <<steps, state, stepIndex, lastResult, succeeded, failed, awaiting>>
    BY DEF RunNext
  <2>3. Active' /\ lastResult.kind # "fail"
    BY <2>1, <2>2 DEF Active, Between, InTurn, Moves
  <2>4. QED BY <2>1, <2>2, <2>3
<1>3. posted = <<>> /\ awaiting = {} /\ \A u \in Threads \ {t} : ~ Live(u)
  BY <1>1, OnlyLive DEF InTurn
<1>4. ASSUME queue # <<>>, queue' = TakeStep(queue) PROVE During(job)' /\ Turned' /\ job \in OwnJobs
  <2>1. job.step = Head(queue)
    BY <1>0
  <2>2. During(job)' /\ Turned'
    BY <1>2, <1>4, <2>1, TakesItsTurn DEF InTurn, TakeStep
  <2>3. Head(queue) \in DOMAIN steps
    BY <1>4, HeadTyped DEF TypeOK
  <2>4. PICK n \in 0 .. MaxSteps : steps \in [1 .. n -> StepKinds]
    BY StepList DEF TypeOK
  <2>5. Head(queue) \in 1 .. MaxSteps /\ run \in 1 .. MaxRuns
    BY <1>1, <2>3, <2>4, RunTyped, PipelineAssumption
  <2>6. job \in OwnJobs
    BY <1>0, <2>3, <2>5 DEF OwnJobs, Jobs
  <2>7. QED BY <2>2, <2>6
<1>5. CASE queue # <<>> /\ queue' = TakeStep(queue) /\ posted' = Append(posted, job) /\ Becomes(t, AfterPost)
  <2>1. During(job)' /\ Turned'
    BY <1>4, <1>5
  <2>2. posted' = <<job>>
    BY <1>3, <1>5
  <2>3. Nested' /\ ~ Live(t)' /\ \A u \in Threads \ {t} : stack'[u] = stack[u]
    BY <1>1, <1>5, Over DEF InTurn, AfterPost
  <2>4. \A u \in Threads : ~ Live(u)'
    BY <1>3, <2>3 DEF Live, Top
  <2>5. Len(posted') = 1 /\ posted' # <<>> /\ Head(posted') = job /\ awaiting' = {}
    BY <1>2, <1>3, <2>2
  <2>6. Sole'
    BY <2>4, <2>5 DEF Sole
  <2>7. During(Head(posted))'
    BY <2>1, <2>5 DEF During
  <2>8. Moves'
    BY <1>2, <2>4, <2>5, <2>7 DEF Moves
  <2>9. QED BY <2>1, <2>3, <2>6, <2>8 DEF InTurn
<1>6. CASE queue # <<>> /\ queue' = TakeStep(queue) /\ Becomes(t, <<Frame("step", job, "IDLE", Ok)>>) /\ UNCHANGED posted
  <2>0. PICK f : f = Frame("step", job, "IDLE", Ok)
    OBVIOUS
  <2>1. During(job)' /\ Turned' /\ job \in OwnJobs
    BY <1>4, <1>6
  <2>2. f \in OwnFrames /\ f.pc = "step" /\ f.job = job
    BY <2>0, <2>1, NewFrames DEF StepCode, Frame
  <2>3. f.pc \in LiveCode /\ f.pc \in StepCode
    BY <2>2 DEF LiveCode, StepCode
  <2>4. Bears(f)'
    BY <1>2, <2>1, <2>2 DEF Bears, During
  <2>5. Active' /\ ~ failed' => lastResult'.kind # "fail"
    BY <1>2
  <2>6. Becomes(t, <<f>>)
    BY <1>6, <2>0
  <2>7. QED BY <1>1, <1>2, <1>6, <2>1, <2>2, <2>3, <2>4, <2>5, <2>6, Onward
<1>7. CASE /\ ~ (state = "RUNNING" /\ queue # <<>>)
           /\ Becomes(t, IF state = "RUNNING" THEN <<Completing("DONE", lastResult)>> ELSE <<>>)
           /\ UNCHANGED <<queue, posted>>
  <2>1. Turned'
    BY <1>2, <1>7 DEF InTurn, Turned
  <2>2. Between'
    BY <1>2, <1>7 DEF Between
  <2>3. CASE state = "RUNNING"
    <3>0. PICK f : f = Completing("DONE", lastResult)
      OBVIOUS
    <3>1. f \in OwnFrames /\ f.pc = "state" /\ f.to = "DONE" /\ f.res = lastResult
      BY <3>0, NewFrames DEF TypeOK, Completing, Frame
    <3>2. f.pc \in LiveCode
      BY <3>1 DEF LiveCode
    <3>3. Bears(f)'
      BY <1>2, <1>7, <2>2, <2>3, <3>1 DEF Bears, Between
    <3>4. Becomes(t, <<f>>)
      BY <1>7, <2>3, <3>0
    <3>5. QED BY <1>1, <1>2, <1>7, <2>1, <3>1, <3>2, <3>3, <3>4, Onward
  <2>4. CASE state # "RUNNING"
    <3>1. Nested' /\ ~ Live(t)' /\ \A u \in Threads \ {t} : stack'[u] = stack[u]
      BY <1>1, <1>7, <2>4, Over DEF InTurn
    <3>2. \A u \in Threads \ {t} : ~ Live(u)'
      BY <1>3, <3>1 DEF Live, Top
    <3>3. posted' = <<>> /\ awaiting' = {}
      BY <1>2, <1>3, <1>7
    <3>4. Sole' /\ Moves'
      BY <1>2, <2>2, <3>1, <3>2, <3>3, OnlyThread
    <3>5. QED BY <2>1, <3>1, <3>4 DEF InTurn
  <2>5. QED BY <2>3, <2>4
<1>8. QED BY <1>0, <1>5, <1>6, <1>7 DEF RunNext

LEMMA StepReturnsInTurn ==
  ASSUME TypeOK, Owned, InTurn, NEW t \in Threads, NEW kind \in Kinds, StepReturns(t, kind)
  PROVE  InTurn'
<1>0. PICK job, res : job = Top(t).job /\ res = Result(kind, job.step)
  OBVIOUS
<1>1. Live(t) /\ stack[t] # <<>> /\ Top(t).pc = "step"
  BY DEF StepReturns, Live, LiveCode, StepCode
<1>2. Active /\ During(job) /\ lastResult.kind # "fail"
  BY <1>0, <1>1 DEF InTurn, Moves, Bears, During
<1>3. UNCHANGED <<steps, queue, state, posted>> /\ Active'
  BY <1>2 DEF StepReturns, Active
<1>4. posted = <<>> /\ awaiting = {} /\ \A u \in Threads \ {t} : ~ Live(u)
  BY <1>1, OnlyLive DEF InTurn
<1>5. job \in OwnJobs /\ res \in Results /\ res.kind = kind
  <2>1. job \in OwnJobs
    BY <1>0, <1>1, TopOwned DEF OwnFrames, StepCode
  <2>2. QED BY <1>0, <2>1, PipelineAssumption DEF Result, Results, OwnJobs, Jobs
<1>6. CASE awaiting' = awaiting \cup {job} /\ Becomes(t, <<>>) /\ UNCHANGED <<lastResult, stepIndex, succeeded, failed>>
  <2>1. Nested' /\ ~ Live(t)' /\ \A u \in Threads \ {t} : stack'[u] = stack[u]
    BY <1>1, <1>6, Over DEF InTurn
  <2>2. \A u \in Threads : ~ Live(u)'
    BY <1>4, <2>1 DEF Live, Top
  <2>3. awaiting' = {job} /\ posted' = <<>>
    BY <1>3, <1>4, <1>6
  <2>4. Sole'
    BY <2>2, <2>3 DEF Sole
  <2>5. Turned'
    BY <1>3, <1>6 DEF InTurn, Turned
  <2>6. \A j \in awaiting' : During(j)'
    BY <1>2, <1>3, <1>6, <2>3 DEF During
  <2>7. Moves'
    BY <1>2, <1>3, <1>6, <2>2, <2>3, <2>6 DEF Moves
  <2>8. QED BY <2>1, <2>4, <2>5, <2>7 DEF InTurn
<1>7. CASE /\ kind = "fail" /\ failed' = TRUE /\ Becomes(t, <<Completing("ERRORED", res)>>)
           /\ UNCHANGED <<awaiting, lastResult, stepIndex, succeeded>>
  <2>0. PICK f : f = Completing("ERRORED", res)
    OBVIOUS
  <2>1. f \in OwnFrames
    BY <1>5, <2>0, NewFrames
  <2>2. f.pc = "state" /\ f.to = "ERRORED" /\ f.res = res
    BY <2>0 DEF Completing, Frame
  <2>3. Bears(f)' /\ f.pc \in LiveCode
    BY <1>3, <1>5, <1>7, <2>2 DEF Bears, LiveCode
  <2>4. Turned'
    BY <1>3, <1>7 DEF InTurn, Turned
  <2>5. Becomes(t, <<f>>)
    BY <1>7, <2>0
  <2>6. QED BY <1>1, <1>3, <1>7, <2>1, <2>3, <2>4, <2>5, Onward
<1>8. CASE kind = "ok" /\ TakeIn(job, res) /\ Becomes(t, <<NextRound>>) /\ UNCHANGED <<awaiting, failed>>
  <2>1. res.kind # "fail"
    BY <1>5, <1>8
  <2>2. Between' /\ Turned' /\ lastResult'.kind # "fail"
    BY <1>2, <1>3, <1>5, <1>8, <2>1, TakenIn DEF InTurn
  <2>3. NextRound \in OwnFrames /\ NextRound.pc = "next" /\ NextRound.pc \in LiveCode
    BY NewFrames DEF NextRound, Frame, LiveCode
  <2>4. Bears(NextRound)'
    BY <1>3, <2>2, <2>3 DEF Bears
  <2>5. QED BY <1>1, <1>3, <1>8, <2>2, <2>3, <2>4, Onward
<1>9. QED BY <1>0, <1>6, <1>7, <1>8 DEF StepReturns

\* The calls left below a frame that is taken off.
LEMMA Below ==
  ASSUME Owned, Nested, NEW t \in Threads, stack[t] # <<>>
  PROVE  Tail(stack[t]) \in Seq(OwnFrames) /\ \A i \in DOMAIN Tail(stack[t]) : Tail(stack[t])[i].pc \notin LiveCode
<1>1. Tail(stack[t]) \in Seq(OwnFrames) /\ stack[t] \in Seq(OwnFrames)
  BY TopOwned
<1>2. QED BY <1>1, Beneath DEF Nested

LEMMA RunPostedInTurn ==
  ASSUME TypeOK, Owned, InTurn, RunPosted
  PROVE  InTurn'
<1>0. PICK f : f = Frame("posted", Head(posted), "IDLE", Ok)
  OBVIOUS
<1>1. LoopThread \in Threads /\ posted # <<>> /\ stack[LoopThread] = <<>>
  BY PipelineAssumption DEF RunPosted
<1>2. Len(posted) = 1 /\ awaiting = {} /\ posted \in Seq(OwnJobs) /\ \A u \in Threads : ~ Live(u)
  BY <1>1 DEF InTurn, Sole, Owned
<1>3. Head(posted) \in OwnJobs /\ posted' = <<>> /\ awaiting' = {}
  BY <1>1, <1>2 DEF RunPosted
<1>4. UNCHANGED <<steps, queue, state, stepIndex, lastResult, succeeded, failed>> /\ Active' = Active
  BY DEF RunPosted, engine, Active
<1>5. f \in OwnFrames /\ f.pc = "posted" /\ f.job = Head(posted) /\ f.pc \in LiveCode
  BY <1>0, <1>3, NewFrames DEF Frame, StepCode, LiveCode
<1>6. /\ <<>> \in Seq(OwnFrames) /\ \A i \in DOMAIN <<>> : <<>>[i].pc \notin LiveCode
      /\ stack' = [stack EXCEPT ![LoopThread] = <<f>> \o <<>>]
  <2>1. <<>> \in Seq(OwnFrames) /\ DOMAIN <<>> = {}
    OBVIOUS
  <2>2. stack' = [stack EXCEPT ![LoopThread] = <<f>> \o <<>>]
    BY <1>0, <1>1 DEF RunPosted, Pushes
  <2>3. QED BY <2>1, <2>2
<1>7. Nested' /\ stack'[LoopThread] # <<>> /\ Top(LoopThread)' = f /\ \A u \in Threads \ {LoopThread} : stack'[u] = stack[u]
  BY <1>1, <1>5, <1>6, Called DEF InTurn
<1>8. \A u \in Threads \ {LoopThread} : ~ Live(u)'
  BY <1>2, <1>7 DEF Live, Top
<1>9. Bears(Top(LoopThread))' /\ Live(LoopThread)'
  <2>1. Active => During(Head(posted))
    BY <1>1 DEF InTurn, Moves
  <2>2. Bears(Top(LoopThread))'
    BY <1>4, <1>5, <1>7, <2>1 DEF Bears, During
  <2>3. QED BY <1>5, <1>7, <2>2 DEF Live
<1>10. Turned' /\ (Active' /\ ~ failed' => lastResult'.kind # "fail")
  BY <1>4 DEF InTurn, Turned, Moves
<1>11. Sole' /\ Moves'
  BY <1>1, <1>3, <1>8, <1>9, <1>10, OnlyThread
<1>12. QED BY <1>7, <1>10, <1>11 DEF InTurn

LEMMA PostedReturnsInTurn ==
  ASSUME TypeOK, Owned, InTurn, NEW kind \in Kinds, PostedReturns(kind)
  PROVE  InTurn'
<1> DEFINE job == Top(LoopThread).job
           below == Tail(stack[LoopThread])
<1>1. LoopThread \in Threads /\ stack[LoopThread] # <<>> /\ Top(LoopThread).pc = "posted"
  BY PipelineAssumption DEF PostedReturns
<1>2. Live(LoopThread)
  BY <1>1 DEF Live, LiveCode, StepCode
<1>3. posted' = <<>> /\ awaiting' = {} /\ \A u \in Threads \ {LoopThread} : ~ Live(u)
  BY <1>1, <1>2, OnlyLive DEF InTurn, PostedReturns
<1>4. job \in OwnJobs /\ (Active => During(job)) /\ (Active /\ ~ failed => lastResult.kind # "fail")
  <2>1. job \in OwnJobs
    BY <1>1, TopOwned DEF OwnFrames, StepCode
  <2>2. Bears(Top(LoopThread))
    BY <1>1, <1>2 DEF InTurn, Moves
  <2>3. QED BY <1>1, <2>1, <2>2 DEF Bears, InTurn, Moves
<1>5. below \in Seq(OwnFrames) /\ \A i \in DOMAIN below : below[i].pc \notin LiveCode
  BY <1>1, Below DEF InTurn
<1>6. HandleResult(LoopThread, below, job, Result(kind, job.step))
  BY DEF PostedReturns
<1>7. QED BY <1>1, <1>3, <1>4, <1>5, <1>6, HandleResultInv DEF InTurn

LEMMA FinishInTurn ==
  ASSUME TypeOK, Owned, InTurn, NEW t \in Threads, NEW job \in awaiting, NEW kind \in Kinds, Finish(t, job, kind)
  PROVE  InTurn'
<1>1. posted = <<>> /\ awaiting = {job} /\ \A u \in Threads : ~ Live(u)
  BY DEF InTurn, Sole
<1>2. posted' = <<>> /\ awaiting' = {}
  BY <1>1 DEF Finish
<1>3. stack[t] \in Seq(OwnFrames) /\ \A i \in DOMAIN stack[t] : stack[t][i].pc \notin LiveCode
  BY <1>1, NotLive DEF InTurn
<1>4. job \in OwnJobs /\ (Active => During(job)) /\ (Active /\ ~ failed => lastResult.kind # "fail")
  BY DEF Owned, InTurn, Moves
<1>5. HandleResult(t, stack[t], job, Result(kind, job.step))
  BY DEF Finish
<1>6. QED BY <1>1, <1>2, <1>3, <1>4, <1>5, HandleResultInv DEF InTurn

LEMMA SetStateInTurn ==
  ASSUME TypeOK, Owned, InTurn, NEW t \in Threads, SetState(t)
  PROVE  InTurn'
<1>0. PICK f : f = [Top(t) EXCEPT !.pc = "result"]
  OBVIOUS
<1>1. Live(t) /\ Top(t) \in OwnFrames /\ Top(t).pc = "state" /\ Bears(Top(t))
  BY TopOwned DEF SetState, Live, LiveCode, InTurn, Moves
<1>2. f \in OwnFrames /\ f.pc = "result" /\ f.res = Top(t).res /\ f.pc \in LiveCode
  BY <1>0, <1>1 DEF OwnFrames, AnyFrame, StepCode, UserCode, LiveCode
<1>3. UNCHANGED <<steps, queue, stepIndex, lastResult, succeeded, failed, posted, awaiting>>
      /\ state' = Top(t).to /\ Becomes(t, <<f>>)
  BY <1>0 DEF SetState
<1>4. ~ Active'
  BY <1>1, <1>3 DEF Active, OwnFrames
<1>5. Turned'
  <2>1. Len(steps) \in Nat /\ Len(succeeded) \in Nat /\ Len(<<>>) = 0
    BY StepList DEF TypeOK
  <2>2. state' = "DONE" => Len(succeeded) = Len(steps)
    BY <1>1, <1>3, <2>1 DEF Bears, Between
  <2>3. QED BY <1>3, <2>2 DEF InTurn, Turned
<1>6. Bears(f)'
  BY <1>1, <1>2, <1>3, <1>4 DEF Bears
<1>7. QED BY <1>1, <1>2, <1>3, <1>4, <1>5, <1>6, Onward

LEMMA SetResultInTurn ==
  ASSUME TypeOK, Owned, InTurn, NEW t \in Threads, SetResult(t)
  PROVE  InTurn'
<1>0. PICK f : f = [Top(t) EXCEPT !.pc = "signal"]
  OBVIOUS
<1>1. Live(t) /\ Top(t) \in OwnFrames /\ Top(t).pc = "result" /\ Bears(Top(t))
  BY TopOwned DEF SetResult, Live, LiveCode, InTurn, Moves
<1>2. f \in OwnFrames /\ f.pc = "signal" /\ f.pc \in LiveCode
  BY <1>0, <1>1 DEF OwnFrames, AnyFrame, StepCode, UserCode, LiveCode
<1>3. UNCHANGED <<steps, state, stepIndex, succeeded, failed, posted, awaiting>>
      /\ lastResult' = Top(t).res /\ queue' = <<>> /\ Becomes(t, <<f>>)
  BY <1>0 DEF SetResult
<1>4. ~ Active'
  BY <1>1, <1>3 DEF Active, Bears
<1>5. Turned'
  <2>1. Len(<<>>) = 0 /\ \A i \in 1 .. 0 : FALSE
    OBVIOUS
  <2>2. QED BY <1>3, <2>1 DEF InTurn, Turned
<1>6. Bears(f)'
  BY <1>1, <1>2, <1>3, <1>4 DEF Bears
<1>7. QED BY <1>1, <1>2, <1>3, <1>4, <1>5, <1>6, Onward

LEMMA SignalInTurn ==
  ASSUME TypeOK, Owned, InTurn, NEW t \in Threads, Signal(t)
  PROVE  InTurn'
<1>0. PICK f : f = [Top(t) EXCEPT !.pc = IF @ = "signal" THEN "signalled" ELSE "handler"]
  OBVIOUS
<1>1. Live(t) /\ Top(t) \in OwnFrames /\ Top(t).pc \in {"signal", "signalled"} /\ Bears(Top(t))
  BY TopOwned DEF Signal, Live, LiveCode, InTurn, Moves
<1>2. f \in OwnFrames /\ f.pc \in {"signalled", "handler"} /\ f.pc \in LiveCode
  BY <1>0, <1>1 DEF OwnFrames, AnyFrame, StepCode, UserCode, LiveCode
<1>3. UNCHANGED <<steps, queue, state, stepIndex, lastResult, succeeded, failed, posted, awaiting>> /\ Becomes(t, <<f>>)
  BY <1>0 DEF Signal, engine
<1>4. ~ Active'
  BY <1>1, <1>3 DEF Active, Bears
<1>5. Turned'
  BY <1>3 DEF InTurn, Turned
<1>6. Bears(f)'
  BY <1>1, <1>2, <1>3, <1>4 DEF Bears
<1>7. QED BY <1>1, <1>2, <1>3, <1>4, <1>5, <1>6, Onward

LEMMA CallHandlerInTurn ==
  ASSUME TypeOK, Owned, InTurn, NEW t \in Threads, CallHandler(t)
  PROVE  InTurn'
<1>1. Live(t) /\ stack[t] # <<>> /\ Top(t) \in OwnFrames /\ Top(t).pc = "handler" /\ Bears(Top(t))
  BY TopOwned DEF CallHandler, Live, LiveCode, InTurn, Moves
<1>2. UNCHANGED <<steps, queue, state, stepIndex, lastResult, succeeded, failed, posted, awaiting>>
  BY DEF CallHandler
<1>3. ~ Active' /\ Turned'
  BY <1>1, <1>2 DEF Active, Bears, InTurn, Turned
<1>4. CASE handler
  <2>0. PICK f : f = [Top(t) EXCEPT !.pc = "handling", !.res = lastResult]
    OBVIOUS
  <2>1. f \in OwnFrames /\ f.pc = "handling"
    BY <1>1, <2>0 DEF OwnFrames, AnyFrame, StepCode, UserCode, TypeOK
  <2>2. f.pc \notin LiveCode
    BY <2>1 DEF LiveCode, StepCode
  <2>3. Becomes(t, <<f>>)
    BY <1>4, <2>0 DEF CallHandler
  <2>4. QED BY <1>1, <1>2, <1>3, <2>1, <2>2, <2>3, Onward
<1>5. CASE ~ handler
  <2>1. Nested' /\ ~ Live(t)' /\ \A u \in Threads \ {t} : stack'[u] = stack[u]
    BY <1>1, <1>5, Over DEF InTurn, CallHandler
  <2>2. posted = <<>> /\ awaiting = {} /\ \A u \in Threads \ {t} : ~ Live(u)
    BY <1>1, OnlyLive DEF InTurn
  <2>3. \A u \in Threads \ {t} : ~ Live(u)'
    BY <2>1, <2>2 DEF Live, Top
  <2>4. Sole' /\ Moves'
    BY <1>2, <1>3, <2>1, <2>2, <2>3, OnlyThread
  <2>5. QED BY <1>3, <2>1, <2>4 DEF InTurn
<1>6. QED BY <1>4, <1>5

LEMMA NextInTurn ==
  ASSUME TypeOK, Owned, InTurn, Settled, [Next]_vars
  PROVE  InTurn'
<1>1. ASSUME NEW t \in Threads, Progress(t) PROVE InTurn'
  <2>1. CASE StartReturns(t)
    <3>1. stack[t] # <<>> /\ ~ Live(t)
      BY <2>1 DEF StartReturns, Live, LiveCode, StepCode
    <3>2. QED BY <2>1, <3>1, Aside DEF StartReturns, engine
  <2>2. CASE HandlerReturns(t)
    <3>1. stack[t] # <<>> /\ ~ Live(t)
      BY <2>2 DEF HandlerReturns, Live, LiveCode, StepCode
    <3>2. QED BY <2>2, <3>1, Aside DEF HandlerReturns, engine
  <2>3. QED BY <1>1, <2>1, <2>2, RunNextInTurn, StepReturnsInTurn, SetStateInTurn, SetResultInTurn,
               SignalInTurn, CallHandlerInTurn DEF Progress
<1>2. ASSUME NEW t \in Threads, Start(t) \/ Pause(t) \/ Resume(t) \/ Stop(t) PROVE InTurn'
  BY <1>2, StartInTurn, PauseInTurn, ResumeInTurn, StopInTurn
<1>3. CASE Answers
  BY <1>3, FinishInTurn DEF Answers, Kinds
<1>4. CASE UNCHANGED vars
  BY <1>4 DEF vars, engine, InTurn, Nested, Sole, Turned, Moves, Bears, Between, During, Live, Top, Active
<1>5. QED BY <1>1, <1>2, <1>3, <1>4, RunPostedInTurn, PostedReturnsInTurn DEF Next

\* When start, resume and stop are called only when nothing is under way, the
\* steps of a run are run one at a time and in order, whichever threads they
\* are run on; none is lost or run twice, and DONE comes after all of them
\* (runNext, handleResult).
THEOREM StepsRunInTurn == Settled => (Spec => []RunsInTurn)
<1> SUFFICES ASSUME Settled PROVE Spec => []RunsInTurn
  OBVIOUS
<1>1. Init => TypeOK /\ Owned /\ InTurn
  BY InitTyped, InitInTurn
<1>2. TypeOK /\ Owned /\ InTurn /\ [Next]_vars => TypeOK' /\ Owned' /\ InTurn'
  BY TypeInv, NextInTurn
<1>3. TypeOK /\ Owned /\ InTurn => RunsInTurn
  BY InTurnRuns
<1>4. QED BY <1>1, <1>2, <1>3, PTL DEF Spec

\* The handler is called with what has become of the run: an error exactly
\* when a step of it failed (complete).
THEOREM HandlerIsTold == Settled => (Spec => HandlerHearsOutcome)
<1> SUFFICES ASSUME Settled PROVE Spec => HandlerHearsOutcome
  OBVIOUS
<1>1. Init => TypeOK /\ Owned /\ InTurn
  BY InitTyped, InitInTurn
<1>2. TypeOK /\ Owned /\ InTurn /\ [Next]_vars => TypeOK' /\ Owned' /\ InTurn'
  BY TypeInv, NextInTurn
<1>3. ASSUME InTurn, NEW t \in Threads, CallHandler(t) PROVE lastResult.kind = "fail" <=> failed
  <2>1. Live(t) /\ Top(t).pc = "handler"
    BY <1>3 DEF CallHandler, Live, LiveCode
  <2>2. QED BY <1>3, <2>1 DEF InTurn, Moves, Bears
<1>4. InTurn /\ [Next]_vars => [\A t \in Threads : handler /\ CallHandler(t) => (lastResult.kind = "fail" <=> failed)]_vars
  BY <1>3
<1>5. QED BY <1>1, <1>2, <1>4, PTL DEF Spec, HandlerHearsOutcome

-----------------------------------------------------------------------------
(* The abstract chain.                                                     *)

\* A step whose turn it is is one of those the chain has left.
LEMMA OneLeft ==
  ASSUME TypeOK, NEW job, During(job)
  PROVE  ~ failed /\ Len(succeeded) < Len(steps)
<1>1. Len(queue) \in Nat /\ Len(succeeded) \in Nat
  BY DEF TypeOK
<1>2. QED BY <1>1 DEF During

LEMMA TakeInSucceeds ==
  ASSUME TypeOK, NEW job \in OwnJobs, NEW res, TakeIn(job, res), During(job), Active,
         UNCHANGED <<steps, state, failed>>
  PROVE  Chain!StepSucceeds
<1>1. ~ failed /\ Len(succeeded) < Len(steps)
  BY OneLeft
<1>2. Len(succeeded') = Len(succeeded) + 1
  BY DEF TakeIn, TypeOK, OwnJobs
<1>3. QED BY <1>1, <1>2 DEF Chain!StepSucceeds, Chain!Active, Active

LEMMA HandleResultChain ==
  ASSUME TypeOK, NEW t \in Threads, NEW below, NEW job \in OwnJobs, NEW res,
         HandleResult(t, below, job, res), Active => During(job)
  PROVE  [Chain!Next]_Chain!vars
<1>1. UNCHANGED <<steps, state>>
  BY DEF HandleResult
<1>2. CASE UNCHANGED <<succeeded, failed>>
  BY <1>1, <1>2 DEF Chain!vars
<1>3. CASE Active /\ failed' = TRUE /\ UNCHANGED succeeded
  <2>1. ~ failed /\ Len(succeeded) < Len(steps)
    BY <1>3, OneLeft
  <2>2. Chain!StepFails
    BY <1>1, <1>3, <2>1 DEF Chain!StepFails, Chain!Active, Active
  <2>3. QED BY <2>2 DEF Chain!Next
<1>4. CASE Active /\ TakeIn(job, res) /\ UNCHANGED failed
  BY <1>1, <1>4, TakeInSucceeds DEF Chain!Next
<1>5. QED BY <1>2, <1>3, <1>4 DEF HandleResult

LEMMA NextChain ==
  ASSUME TypeOK, Owned, InTurn, Settled, [Next]_vars
  PROVE  [Chain!Next]_Chain!vars
<1> USE PipelineAssumption
<1>1. ASSUME UNCHANGED <<steps, state, succeeded, failed>> PROVE [Chain!Next]_Chain!vars
  BY <1>1 DEF Chain!vars
<1>2. ASSUME NEW t \in Threads, Start(t) PROVE [Chain!Next]_Chain!vars
  <2>1. Len(succeeded') = 0
    BY <1>2 DEF Start
  <2>2. Chain!Start
    BY <1>2, <2>1 DEF Start, Chain!Start
  <2>3. QED BY <2>2 DEF Chain!Next
<1>3. ASSUME NEW t \in Threads, Pause(t) \/ Resume(t) \/ Stop(t) PROVE [Chain!Next]_Chain!vars
  <2>1. CASE Pause(t)
    BY <2>1 DEF Pause, Chain!Pause, Chain!Next
  <2>2. CASE Resume(t)
    BY <2>2 DEF Resume, Chain!Resume, Chain!Next
  <2>3. CASE Stop(t)
    BY <2>3 DEF Stop, Chain!Stop, Chain!Next
  <2>4. QED BY <1>3, <2>1, <2>2, <2>3
<1>4. ASSUME NEW t \in Threads, NEW kind \in Kinds, StepReturns(t, kind) PROVE [Chain!Next]_Chain!vars
  <2>0. PICK job, res : job = Top(t).job /\ res = Result(kind, job.step)
    OBVIOUS
  <2>1. Live(t) /\ Top(t).pc = "step" /\ stack[t] # <<>>
    BY <1>4 DEF StepReturns, Live, LiveCode, StepCode
  <2>2. Active /\ During(job) /\ job \in OwnJobs
    <3>1. Active /\ During(job)
      BY <2>0, <2>1 DEF InTurn, Moves, Bears
    <3>2. job \in OwnJobs
      BY <2>0, <2>1, TopOwned DEF OwnFrames, StepCode
    <3>3. QED BY <3>1, <3>2
  <2>3. UNCHANGED <<steps, state>>
    BY <1>4 DEF StepReturns
  <2>4. CASE UNCHANGED <<succeeded, failed>>
    BY <1>1, <2>3, <2>4
  <2>5. CASE failed' = TRUE /\ UNCHANGED succeeded
    <3>1. ~ failed /\ Len(succeeded) < Len(steps)
      BY <2>2, OneLeft
    <3>2. Chain!StepFails
      BY <2>2, <2>3, <2>5, <3>1 DEF Chain!StepFails, Chain!Active, Active
    <3>3. QED BY <3>2 DEF Chain!Next
  <2>6. CASE TakeIn(job, res) /\ UNCHANGED failed
    BY <2>2, <2>3, <2>6, TakeInSucceeds DEF Chain!Next
  <2>7. QED BY <1>4, <2>0, <2>4, <2>5, <2>6 DEF StepReturns
<1>5. ASSUME NEW kind \in Kinds, PostedReturns(kind) PROVE [Chain!Next]_Chain!vars
  <2>1. LoopThread \in Threads /\ Live(LoopThread) /\ Top(LoopThread).pc = "posted" /\ stack[LoopThread] # <<>>
    BY <1>5 DEF PostedReturns, Live, LiveCode, StepCode
  <2>2. Top(LoopThread).job \in OwnJobs /\ (Active => During(Top(LoopThread).job))
    <3>1. Bears(Top(LoopThread)) /\ Top(LoopThread) \in OwnFrames
      BY <2>1, TopOwned DEF InTurn, Moves
    <3>2. QED BY <2>1, <3>1 DEF Bears, OwnFrames, StepCode
  <2>3. QED BY <1>5, <2>1, <2>2, HandleResultChain DEF PostedReturns
<1>6. ASSUME NEW t \in Threads, NEW job \in awaiting, NEW kind \in Kinds, Finish(t, job, kind)
      PROVE  [Chain!Next]_Chain!vars
  <2>1. job \in OwnJobs /\ (Active => During(job))
    BY DEF Owned, InTurn, Moves
  <2>2. QED BY <1>6, <2>1, HandleResultChain DEF Finish
<1>7. ASSUME NEW t \in Threads, SetState(t) PROVE [Chain!Next]_Chain!vars
  <2>1. Bears(Top(t)) /\ Top(t) \in OwnFrames /\ Top(t).pc = "state"
    BY <1>7, TopOwned DEF SetState, Live, LiveCode, InTurn, Moves
  <2>2. UNCHANGED <<steps, succeeded, failed>> /\ state' = Top(t).to /\ Active
    BY <1>7, <2>1 DEF SetState, Bears
  <2>3. CASE Top(t).to = "DONE"
    <3>1. ~ failed /\ Len(succeeded) = Len(steps)
      <4>1. Between /\ queue = <<>> /\ Len(succeeded) \in Nat
        BY <2>1, <2>3 DEF Bears, TypeOK
      <4>2. QED BY <4>1 DEF Between
    <3>2. Chain!Succeed
      BY <2>2, <2>3, <3>1 DEF Chain!Succeed, Chain!Active, Active
    <3>3. QED BY <3>2 DEF Chain!Next
  <2>4. CASE Top(t).to = "ERRORED"
    <3>1. Chain!Fail
      BY <2>1, <2>2, <2>4 DEF Bears, Chain!Fail, Chain!Active, Active
    <3>2. QED BY <3>1 DEF Chain!Next
  <2>5. QED BY <2>1, <2>3, <2>4 DEF OwnFrames
<1>8. ASSUME NEW t \in Threads, Progress(t) PROVE [Chain!Next]_Chain!vars
  <2>1. CASE RunNext(t)
    BY <1>1, <2>1 DEF RunNext
  <2>2. CASE SetResult(t) \/ Signal(t) \/ CallHandler(t) \/ HandlerReturns(t) \/ StartReturns(t)
    BY <1>1, <2>2 DEF SetResult, Signal, CallHandler, HandlerReturns, StartReturns, engine
  <2>3. QED BY <1>4, <1>7, <1>8, <2>1, <2>2 DEF Progress
<1>9. CASE RunPosted
  BY <1>1, <1>9 DEF RunPosted, engine
<1>10. CASE UNCHANGED vars
  BY <1>1, <1>10 DEF vars, engine
<1>11. CASE Answers
  BY <1>6, <1>11 DEF Answers, Kinds
<1>12. QED BY <1>2, <1>3, <1>5, <1>8, <1>9, <1>10, <1>11 DEF Next

LEMMA InitChain == Init => Chain!Init
<1> SUFFICES ASSUME Init PROVE Chain!Init
  OBVIOUS
<1>1. PICK n \in 0 .. MaxSteps : steps \in [1 .. n -> StepKinds]
  BY StepList DEF Init
<1>2. Len(steps) = n /\ Len(<<>>) = 0
  BY <1>1
<1>3. QED BY <1>1, <1>2 DEF Init, Chain!Init

\* A pipeline with settled callers is the state machine of its header: every
\* step of it, on whatever thread, is a step of the chain or leaves it alone
\* (start, pause, resume, stop, handleResult, complete).
THEOREM ChainImplemented == Settled => (Spec => ImplementsChain)
<1> SUFFICES ASSUME Settled PROVE Spec => ImplementsChain
  OBVIOUS
<1>1. Init => TypeOK /\ Owned /\ InTurn
  BY InitTyped, InitInTurn
<1>2. TypeOK /\ Owned /\ InTurn /\ [Next]_vars => TypeOK' /\ Owned' /\ InTurn'
  BY TypeInv, NextInTurn
<1>3. TypeOK /\ Owned /\ InTurn /\ [Next]_vars => [Chain!Next]_Chain!vars
  BY NextChain
<1>4. QED BY <1>1, <1>2, <1>3, InitChain, PTL DEF Spec, ImplementsChain, Chain!Spec

-----------------------------------------------------------------------------
(* One dispatch of a command.                                              *)

\* The phases of complete after the final state has been set.
Late == {"result", "signal", "signalled", "handler", "handling"}

\* A run that has reported anything of its end has ended.
LateIsEnded == \A t \in Threads : \A f \in Range(stack[t]) : f.pc \in Late => Ended

\* What start returns: not ACCEPT only when the run has ended.
Answering == answer \in Results /\ (answer.kind # "accept" => Ended)
StartsOf(t) == \E f \in Range(stack[t]) : f.pc = "start"

\* The caller, the task service and the run agree on how far the run has got.
CallInv ==
  /\ mode \in Modes
  /\ run = 0 <=> call = "none"
  /\ LateIsEnded
  /\ heard => call # "none" /\ Ended
  /\ call = "starting" => Answering \/ StartsOf(Caller)
  /\ call \in {"attaching", "checking"} => mode = "detach"
  /\ mode = "wait" /\ call \in {"reading", "returned"} => Ended
  /\ events = IF finalized THEN 1 ELSE 0

\* What a step of the pipeline, once it is started, keeps.
KeepsEnd ==
  /\ Ended => Ended'
  /\ LateIsEnded'
  /\ StartsOf(Caller) => StartsOf(Caller)' \/ Answering'
  /\ Answering => Answering'
  /\ run' = run

LEMMA RangeOnTop ==
  ASSUME NEW F, NEW s \in Seq(F), NEW f \in F
  PROVE  Range(<<f>> \o s) = {f} \cup Range(s)
<1>1. DOMAIN (<<f>> \o s) = 1 .. Len(s) + 1 /\ DOMAIN s = 1 .. Len(s) /\ Len(s) \in Nat
  OBVIOUS
<1>2. (<<f>> \o s)[1] = f /\ \A i \in 1 .. Len(s) : (<<f>> \o s)[i + 1] = s[i]
  OBVIOUS
<1>3. Range(<<f>> \o s) \subseteq {f} \cup Range(s)
  BY OnTop DEF Range
<1>4. f \in Range(<<f>> \o s)
  BY <1>1, <1>2 DEF Range
<1>5. ASSUME NEW i \in DOMAIN s PROVE s[i] \in Range(<<f>> \o s)
  <2>1. i + 1 \in DOMAIN (<<f>> \o s) /\ (<<f>> \o s)[i + 1] = s[i]
    BY <1>1, <1>2
  <2>2. QED BY <2>1 DEF Range
<1>6. QED BY <1>3, <1>4, <1>5 DEF Range

LEMMA RangeBeneath ==
  ASSUME NEW F, NEW s \in Seq(F), s # <<>>
  PROVE  Range(s) = {Head(s)} \cup Range(Tail(s))
<1>1. s = <<Head(s)>> \o Tail(s) /\ Head(s) \in F /\ Tail(s) \in Seq(F)
  OBVIOUS
<1>2. QED BY <1>1, RangeOnTop

\* The calls of t are those below it and the ones that take its place.
LEMMA Overtaken ==
  ASSUME Owned, NEW t \in Threads, stack[t] # <<>>, NEW s, s = <<>> \/ \E f \in OwnFrames : s = <<f>>,
         Becomes(t, s)
  PROVE  /\ \A u \in Threads : \A f \in Range(stack'[u]) : f \in Range(stack[u]) \/ s = <<f>>
         /\ \A u \in Threads : \A f \in Range(stack[u]) : f \in Range(stack'[u]) \/ (u = t /\ f = Top(t))
         /\ Top(t) \in Range(stack[t])
<1>1. Tail(stack[t]) \in Seq(OwnFrames) /\ stack[t] \in Seq(OwnFrames)
  BY TopOwned
<1>2. Range(stack[t]) = {Top(t)} \cup Range(Tail(stack[t]))
  BY <1>1, RangeBeneath DEF Top
<1>3. s \o Tail(stack[t]) \in Seq(OwnFrames)
  BY <1>1, OnTop, NoneOnTop
<1>4. stack'[t] = s \o Tail(stack[t]) /\ \A u \in Threads \ {t} : stack'[u] = stack[u]
  BY <1>3, StackKept DEF Becomes
<1>5. Range(stack'[t]) = Range(Tail(stack[t])) \cup {f \in OwnFrames : s = <<f>>}
  <2>1. CASE s = <<>>
    BY <1>1, <1>4, <2>1, NoneOnTop
  <2>2. ASSUME NEW f \in OwnFrames, s = <<f>> PROVE Range(stack'[t]) = Range(Tail(stack[t])) \cup {g \in OwnFrames : s = <<g>>}
    <3>1. \A g : s = <<g>> => g = f
      BY <2>2
    <3>2. Range(<<f>> \o Tail(stack[t])) = {f} \cup Range(Tail(stack[t]))
      BY <1>1, RangeOnTop
    <3>3. QED BY <1>4, <2>2, <3>1, <3>2
  <2>3. QED BY <2>1, <2>2
<1>6. QED BY <1>2, <1>4, <1>5

\* A call of t is made, or none, above those it has.
LEMMA OnTopOf ==
  ASSUME Owned, NEW t \in Threads, NEW s, s = <<>> \/ \E f \in OwnFrames : s = <<f>>,
         stack' = [stack EXCEPT ![t] = s \o stack[t]]
  PROVE  /\ \A u \in Threads : \A f \in Range(stack'[u]) : f \in Range(stack[u]) \/ s = <<f>>
         /\ \A u \in Threads : \A f \in Range(stack[u]) : f \in Range(stack'[u])
<1>1. stack[t] \in Seq(OwnFrames)
  BY DEF Owned
<1>2. s \o stack[t] \in Seq(OwnFrames)
  BY <1>1, OnTop, NoneOnTop
<1>3. stack'[t] = s \o stack[t] /\ \A u \in Threads \ {t} : stack'[u] = stack[u]
  BY <1>2, StackKept
<1>4. CASE s = <<>>
  BY <1>1, <1>3, <1>4, NoneOnTop
<1>5. ASSUME NEW f \in OwnFrames, s = <<f>> PROVE Range(stack'[t]) = {f} \cup Range(stack[t])
  BY <1>1, <1>3, <1>5, RangeOnTop
<1>6. QED BY <1>3, <1>4, <1>5

\* A step that changes the innermost call of t, or adds one.
LEMMA EndKept ==
  ASSUME Owned, LateIsEnded, NEW s, run' = run, answer' = answer, Ended => Ended',
         \A u \in Threads : \A f \in Range(stack'[u]) : f \in Range(stack[u]) \/ s = <<f>>,
         \A u \in Threads : \A f \in Range(stack[u]) : f.pc = "start" => f \in Range(stack'[u]),
         \A f : s = <<f>> /\ f.pc \in Late => Ended'
  PROVE  KeepsEnd
<1>1. ASSUME NEW u \in Threads, NEW f \in Range(stack'[u]), f.pc \in Late PROVE Ended'
  <2>1. CASE f \in Range(stack[u])
    BY <1>1, <2>1 DEF LateIsEnded
  <2>2. CASE s = <<f>>
    BY <1>1, <2>2
  <2>3. QED BY <1>1, <2>1, <2>2
<1>2. LateIsEnded'
  BY <1>1 DEF LateIsEnded
<1>3. StartsOf(Caller) => StartsOf(Caller)'
  BY PipelineAssumption, CommandRunAssumption DEF StartsOf
<1>4. Answering => Answering'
  BY DEF Answering
<1>5. QED BY <1>2, <1>3, <1>4 DEF KeepsEnd

\* The innermost call of t becomes s.
LEMMA EndKeptBecomes ==
  ASSUME Owned, LateIsEnded, NEW t \in Threads, stack[t] # <<>>, Top(t).pc # "start",
         NEW s, s = <<>> \/ \E f \in OwnFrames : s = <<f>>, Becomes(t, s),
         run' = run, answer' = answer, Ended => Ended', \A f : s = <<f>> /\ f.pc \in Late => Ended'
  PROVE  KeepsEnd
BY Overtaken, EndKept

LEMMA EndKeptOnTop ==
  ASSUME Owned, LateIsEnded, NEW t \in Threads,
         NEW s, s = <<>> \/ \E f \in OwnFrames : s = <<f>>, stack' = [stack EXCEPT ![t] = s \o stack[t]],
         run' = run, answer' = answer, Ended => Ended', \A f : s = <<f>> /\ f.pc \in Late => Ended'
  PROVE  KeepsEnd
BY OnTopOf, EndKept

\* What handleResult puts in place of a call, or on top of one.
LEMMA HandleResultCalls ==
  ASSUME TypeOK, Owned, NEW t \in Threads, NEW below \in Seq(OwnFrames), NEW job \in OwnJobs,
         NEW kind \in Kinds, HandleResult(t, below, job, Result(kind, job.step))
  PROVE  \E s : /\ s = <<>> \/ \E f \in OwnFrames : s = <<f>>
                /\ \A f : s = <<f>> => f.pc \notin Late
                /\ stack' = [stack EXCEPT ![t] = s \o below]
                /\ run' = run /\ answer' = answer /\ state' = state
<1>0. PICK res : res = Result(kind, job.step)
  OBVIOUS
<1>1. res \in Results
  BY <1>0, PipelineAssumption DEF Result, Results, OwnJobs, Jobs
<1>2. \A to \in {"DONE", "ERRORED"} : Completing(to, res) \in OwnFrames /\ Completing(to, res).pc = "state"
  BY <1>1, NewFrames DEF Completing, Frame
<1>3. NextRound \in OwnFrames /\ NextRound.pc = "next"
  BY NewFrames DEF NextRound, Frame
<1>4. "state" \notin Late /\ "next" \notin Late
  BY DEF Late
<1>5. run' = run /\ answer' = answer /\ state' = state
  BY DEF HandleResult
<1>6. CASE stack' = [stack EXCEPT ![t] = below]
  <2>1. stack' = [stack EXCEPT ![t] = <<>> \o below] /\ \A f : <<>> # <<f>>
    BY <1>6, NoneOnTop
  <2>2. QED BY <1>5, <2>1
<1>7. CASE stack' = [stack EXCEPT ![t] = <<Completing("ERRORED", res)>> \o below]
  <2>1. PICK g : g = Completing("ERRORED", res)
    OBVIOUS
  <2>2. \A f : <<g>> = <<f>> => f = g
    OBVIOUS
  <2>3. g \in OwnFrames /\ g.pc \notin Late
    BY <1>2, <1>4, <2>1
  <2>4. QED BY <1>5, <1>7, <2>1, <2>2, <2>3
<1>8. CASE stack' = [stack EXCEPT ![t] = GoesOn(res) \o below]
  <2>1. PICK g, s : g = (IF queue = <<>> THEN Completing("DONE", res) ELSE NextRound) /\ s = GoesOn(res)
    OBVIOUS
  <2>2. s = <<>> \/ s = <<g>>
    BY <2>1 DEF GoesOn
  <2>3. g \in OwnFrames /\ g.pc \notin Late
    BY <1>2, <1>3, <1>4, <2>1
  <2>4. \A f : (<<g>> = <<f>> => f = g) /\ <<>> # <<f>>
    OBVIOUS
  <2>5. QED BY <1>5, <1>8, <2>1, <2>2, <2>3, <2>4
<1>9. QED BY <1>0, <1>6, <1>7, <1>8 DEF HandleResult

LEMMA AdvanceKeepsEnd ==
  ASSUME TypeOK, Owned, LateIsEnded, Advance \/ Answers \/ \E t \in Threads : HandlerReturns(t)
  PROVE  KeepsEnd
<1> USE PipelineAssumption
<1>1. \A f, g : <<f>> = <<g>> => f = g
  OBVIOUS
<1>2. \A f : <<>> # <<f>>
  OBVIOUS
<1>3. "state" \notin Late /\ "next" \notin Late /\ "step" \notin Late /\ "posted" \notin Late
  BY DEF Late
<1>4. ASSUME NEW t \in Threads, RunNext(t) PROVE KeepsEnd
  <2>0. PICK g, h : g = Frame("step", [step |-> Head(queue), run |-> run], "IDLE", Ok)
                    /\ h = Completing("DONE", lastResult)
    OBVIOUS
  <2>1. g.pc = "step" /\ h.pc = "state"
    BY <2>0 DEF Frame, Completing
  <2>2. stack[t] # <<>> /\ Top(t).pc = "next" /\ run' = run /\ answer' = answer /\ (Ended => Ended')
    BY <1>4 DEF RunNext, Ended
  <2>3. h \in OwnFrames
    BY <2>0, NewFrames DEF TypeOK
  <2>4. queue # <<>> => g \in OwnFrames
    <3>1. SUFFICES ASSUME queue # <<>> PROVE [step |-> Head(queue), run |-> run] \in OwnJobs
      BY <2>0, NewFrames DEF StepCode
    <3>2. Head(queue) \in DOMAIN steps
      BY <3>1, HeadTyped DEF TypeOK
    <3>3. PICK n \in 0 .. MaxSteps : steps \in [1 .. n -> StepKinds]
      BY StepList DEF TypeOK
    <3>4. run \in 1 .. MaxRuns
      BY <2>2, TopOwned, RunTyped
    <3>5. Head(queue) \in 1 .. MaxSteps
      BY <3>2, <3>3
    <3>6. QED BY <3>2, <3>4, <3>5 DEF OwnJobs, Jobs
  <2>5. Becomes(t, <<>>) \/ (queue # <<>> /\ Becomes(t, <<g>>)) \/ Becomes(t, <<h>>)
    BY <1>4, <2>0 DEF RunNext, AfterPost
  <2>6. CASE Becomes(t, <<>>)
    BY <1>2, <2>2, <2>6, EndKeptBecomes
  <2>7. CASE queue # <<>> /\ Becomes(t, <<g>>)
    <3>1. \A f : <<g>> = <<f>> /\ f.pc \in Late => Ended'
      BY <1>1, <1>3, <2>1
    <3>2. QED BY <2>2, <2>4, <2>7, <3>1, EndKeptBecomes
  <2>8. CASE Becomes(t, <<h>>)
    <3>1. \A f : <<h>> = <<f>> /\ f.pc \in Late => Ended'
      BY <1>1, <1>3, <2>1
    <3>2. QED BY <2>2, <2>3, <2>8, <3>1, EndKeptBecomes
  <2>9. QED BY <2>5, <2>6, <2>7, <2>8
<1>5. ASSUME NEW t \in Threads, NEW kind \in Kinds, StepReturns(t, kind) PROVE KeepsEnd
  <2>0. PICK h : h = Completing("ERRORED", Result(kind, Top(t).job.step))
    OBVIOUS
  <2>1. h.pc = "state" /\ NextRound.pc = "next"
    BY <2>0 DEF Frame, Completing, NextRound
  <2>2. stack[t] # <<>> /\ Top(t).pc = "step" /\ run' = run /\ answer' = answer /\ (Ended => Ended')
    BY <1>5 DEF StepReturns, Ended
  <2>3. h \in OwnFrames /\ NextRound \in OwnFrames
    <3>1. Top(t).job \in OwnJobs
      BY <2>2, TopOwned DEF OwnFrames, StepCode
    <3>2. Result(kind, Top(t).job.step) \in Results
      BY <3>1 DEF OwnJobs, Jobs, Result, Results
    <3>3. QED BY <2>0, <3>2, NewFrames
  <2>4. Becomes(t, <<>>) \/ Becomes(t, <<NextRound>>) \/ Becomes(t, <<h>>)
    BY <1>5, <2>0 DEF StepReturns
  <2>5. CASE Becomes(t, <<>>)
    BY <1>2, <2>2, <2>5, EndKeptBecomes
  <2>6. CASE Becomes(t, <<NextRound>>)
    <3>1. \A f : <<NextRound>> = <<f>> /\ f.pc \in Late => Ended'
      BY <1>1, <1>3, <2>1
    <3>2. QED BY <2>2, <2>3, <2>6, <3>1, EndKeptBecomes
  <2>7. CASE Becomes(t, <<h>>)
    <3>1. \A f : <<h>> = <<f>> /\ f.pc \in Late => Ended'
      BY <1>1, <1>3, <2>1
    <3>2. QED BY <2>2, <2>3, <2>7, <3>1, EndKeptBecomes
  <2>8. QED BY <2>4, <2>5, <2>6, <2>7
<1>6. ASSUME RunPosted PROVE KeepsEnd
  <2>0. PICK g : g = Frame("posted", Head(posted), "IDLE", Ok)
    OBVIOUS
  <2>1. g \in OwnFrames /\ g.pc = "posted"
    <3>1. Head(posted) \in OwnJobs
      BY <1>6 DEF RunPosted, Owned
    <3>2. QED BY <2>0, <3>1, NewFrames DEF StepCode, Frame
  <2>2. LoopThread \in Threads /\ stack' = [stack EXCEPT ![LoopThread] = <<g>> \o stack[LoopThread]]
    BY <1>6, <2>0 DEF RunPosted, Pushes
  <2>3. run' = run /\ answer' = answer /\ (Ended => Ended')
    BY <1>6 DEF RunPosted, engine, Ended
  <2>4. \A f : <<g>> = <<f>> /\ f.pc \in Late => Ended'
    BY <1>1, <1>3, <2>1
  <2>5. QED BY <2>1, <2>2, <2>3, <2>4, EndKeptOnTop
<1>7. ASSUME NEW kind \in Kinds, PostedReturns(kind) PROVE KeepsEnd
  <2>1. /\ LoopThread \in Threads /\ stack[LoopThread] # <<>> /\ Top(LoopThread).pc = "posted"
        /\ Top(LoopThread).job \in OwnJobs /\ Tail(stack[LoopThread]) \in Seq(OwnFrames)
    BY <1>7, TopOwned DEF PostedReturns, OwnFrames, StepCode
  <2>2. PICK s : /\ s = <<>> \/ \E f \in OwnFrames : s = <<f>>
                 /\ \A f : s = <<f>> => f.pc \notin Late
                 /\ stack' = [stack EXCEPT ![LoopThread] = s \o Tail(stack[LoopThread])]
                 /\ run' = run /\ answer' = answer /\ state' = state
    BY <1>7, <2>1, HandleResultCalls DEF PostedReturns
  <2>3. Becomes(LoopThread, s)
    BY <2>2 DEF Becomes
  <2>4. Ended => Ended'
    BY <2>2 DEF Ended
  <2>5. QED BY <2>1, <2>2, <2>3, <2>4, EndKeptBecomes
<1>8. ASSUME NEW t \in Threads, NEW job \in awaiting, NEW kind \in Kinds, Finish(t, job, kind) PROVE KeepsEnd
  <2>1. job \in OwnJobs /\ stack[t] \in Seq(OwnFrames)
    BY DEF Owned
  <2>2. PICK s : /\ s = <<>> \/ \E f \in OwnFrames : s = <<f>>
                 /\ \A f : s = <<f>> => f.pc \notin Late
                 /\ stack' = [stack EXCEPT ![t] = s \o stack[t]]
                 /\ run' = run /\ answer' = answer /\ state' = state
    BY <1>8, <2>1, HandleResultCalls DEF Finish
  <2>3. Ended => Ended'
    BY <2>2 DEF Ended
  <2>4. QED BY <2>2, <2>3, EndKeptOnTop
<1>9. ASSUME NEW t \in Threads, stack[t] # <<>>, NEW pc, [Top(t) EXCEPT !.pc = pc] \in OwnFrames,
             Top(t).pc # "start", Becomes(t, <<[Top(t) EXCEPT !.pc = pc]>>),
             run' = run, answer' = answer, Ended'
      PROVE  KeepsEnd
  <2>0. PICK g : g = [Top(t) EXCEPT !.pc = pc]
    OBVIOUS
  <2>1. QED BY <1>9, <2>0, EndKeptBecomes
<1>10. ASSUME NEW t \in Threads, stack[t] # <<>>, Top(t).pc \in Late PROVE Ended
  <2>1. Top(t) \in Range(stack[t])
    <3>1. stack[t] \in Seq(OwnFrames)
      BY DEF Owned
    <3>2. QED BY <1>10, <3>1, Beneath DEF Top, Range
  <2>2. QED BY <1>10, <2>1 DEF LateIsEnded
<1>11. ASSUME NEW t \in Threads, stack[t] # <<>>, Top(t).pc \in Late \cup {"state"} PROVE
         \A pc \in {"result", "signal", "signalled", "handler"} : [Top(t) EXCEPT !.pc = pc] \in OwnFrames
  BY <1>11, TopOwned DEF OwnFrames, AnyFrame, StepCode, UserCode, Late
<1>12. ASSUME NEW t \in Threads, SetState(t) PROVE KeepsEnd
  <2>1. stack[t] # <<>> /\ Top(t).pc = "state" /\ Top(t).to \in {"DONE", "ERRORED"}
    BY <1>12, TopOwned DEF SetState, OwnFrames
  <2>2. Ended' /\ run' = run /\ answer' = answer /\ Becomes(t, <<[Top(t) EXCEPT !.pc = "result"]>>)
    BY <1>12, <2>1 DEF SetState, Ended
  <2>3. QED BY <1>9, <1>11, <2>1, <2>2
<1>13. ASSUME NEW t \in Threads, SetResult(t) PROVE KeepsEnd
  <2>1. stack[t] # <<>> /\ Top(t).pc = "result" /\ Top(t).pc \in Late
    BY <1>13 DEF SetResult, Late
  <2>2. Ended' /\ run' = run /\ answer' = answer /\ Becomes(t, <<[Top(t) EXCEPT !.pc = "signal"]>>)
    BY <1>10, <1>13, <2>1 DEF SetResult, Ended
  <2>3. QED BY <1>9, <1>11, <2>1, <2>2
<1>14. ASSUME NEW t \in Threads, Signal(t) PROVE KeepsEnd
  <2>0. PICK pc : pc = IF Top(t).pc = "signal" THEN "signalled" ELSE "handler"
    OBVIOUS
  <2>1. stack[t] # <<>> /\ Top(t).pc \in Late /\ Top(t).pc # "start" /\ pc \in {"signalled", "handler"}
    BY <1>14, <2>0 DEF Signal, Late
  <2>2. Top(t) \in OwnFrames
    BY <2>1, TopOwned
  <2>3. [Top(t) EXCEPT !.pc = IF @ = "signal" THEN "signalled" ELSE "handler"] = [Top(t) EXCEPT !.pc = pc]
    BY <2>0, <2>2 DEF OwnFrames, AnyFrame
  <2>4. Ended' /\ run' = run /\ answer' = answer /\ Becomes(t, <<[Top(t) EXCEPT !.pc = pc]>>)
    BY <1>10, <1>14, <2>1, <2>3 DEF Signal, engine, Ended
  <2>5. QED BY <1>9, <1>11, <2>1, <2>4
<1>15. ASSUME NEW t \in Threads, CallHandler(t) PROVE KeepsEnd
  <2>0. PICK g : g = [Top(t) EXCEPT !.pc = "handling", !.res = lastResult]
    OBVIOUS
  <2>1. stack[t] # <<>> /\ Top(t).pc = "handler" /\ Top(t).pc \in Late
    BY <1>15 DEF CallHandler, Late
  <2>2. g \in OwnFrames
    BY <2>0, <2>1, TopOwned DEF OwnFrames, AnyFrame, StepCode, UserCode, TypeOK
  <2>3. Ended' /\ run' = run /\ answer' = answer
    BY <1>10, <1>15, <2>1 DEF CallHandler, Ended
  <2>4. CASE Becomes(t, <<g>>)
    BY <2>1, <2>2, <2>3, <2>4, EndKeptBecomes
  <2>5. CASE Becomes(t, <<>>)
    BY <2>1, <2>3, <2>5, EndKeptBecomes
  <2>6. QED BY <1>15, <2>0, <2>4, <2>5 DEF CallHandler
<1>16. ASSUME NEW t \in Threads, HandlerReturns(t) PROVE KeepsEnd
  <2>1. stack[t] # <<>> /\ Top(t).pc = "handling" /\ Top(t).pc \in Late
    BY <1>16 DEF HandlerReturns, Late
  <2>2. Ended' /\ run' = run /\ answer' = answer /\ Becomes(t, <<>>)
    BY <1>10, <1>16, <2>1 DEF HandlerReturns, engine, Ended
  <2>3. QED BY <2>1, <2>2, EndKeptBecomes
<1>17. ASSUME NEW t \in Threads, StartReturns(t) PROVE KeepsEnd
  <2>1. stack[t] # <<>> /\ Becomes(t, <<>>) /\ run' = run /\ state' = state
    BY <1>17 DEF StartReturns, engine
  <2>2. \A u \in Threads : \A f \in Range(stack'[u]) : f \in Range(stack[u])
    BY <1>2, <2>1, Overtaken
  <2>3. LateIsEnded' /\ (Ended => Ended')
    BY <2>1, <2>2 DEF LateIsEnded, Ended
  <2>4. Answering'
    <3>1. CASE Active
      BY <1>17, <3>1, NewFrames DEF StartReturns, Answering, Result
    <3>2. CASE ~ Active
      <4>1. Ended' /\ answer' = lastResult
        BY <1>17, <2>1, <3>2 DEF StartReturns, Ended, Active, TypeOK, States
      <4>2. QED BY <4>1 DEF Answering, TypeOK
    <3>3. QED BY <3>1, <3>2
  <2>5. QED BY <2>1, <2>3, <2>4 DEF KeepsEnd
<1>18. QED BY <1>4, <1>5, <1>6, <1>7, <1>8, <1>12, <1>13, <1>14, <1>15, <1>16, <1>17 DEF Advance, Answers, Kinds

\* The pipeline of a command moves as any pipeline does, but for the stop of
\* one that is dropped and the handler that attach sets.
LEMMA CallTypes ==
  ASSUME TypeOK, Owned, CallInv, [CallNext]_cvars
  PROVE  TypeOK' /\ Owned'
<1>1. CASE Advance \/ Answered
  <2>1. Next
    BY <1>1 DEF Advance, Answered, Next, Progress
  <2>2. QED BY <2>1, TypeInv
<1>2. ASSUME NEW t \in Threads, Handle(t) PROVE TypeOK' /\ Owned'
  <2>1. Next
    BY <1>2 DEF Handle, Next, Progress
  <2>2. QED BY <2>1, TypeInv
<1>3. CASE Dispatch
  <2>1. Next
    BY <1>3, PipelineAssumption, CommandRunAssumption DEF Dispatch, Next
  <2>2. QED BY <2>1, TypeInv
<1>4. CASE Started
  <2>1. run # 0
    BY <1>4 DEF Started, CallInv
  <2>2. queue' \in Seq(DOMAIN steps) /\ state' \in States /\ stepIndex' \in Int
    <3>1. <<>> \in Seq(DOMAIN steps) /\ -1 \in Int /\ "IDLE" \in States
      BY DEF States
    <3>2. QED BY <1>4, <3>1 DEF Started, TypeOK
  <2>3. KeepsTypes
    BY <1>4, <2>1, <2>2, RunTyped DEF Started, KeepsTypes
  <2>4. QED BY <2>3, TypesKept
<1>5. CASE Attach
  <2>1. run # 0
    BY <1>5 DEF Attach, CallInv
  <2>2. handler' \in BOOLEAN
    BY <1>5, Zenon DEF Attach
  <2>3. KeepsTypes
    BY <1>5, <2>1, <2>2, RunTyped DEF Attach, KeepsTypes
  <2>4. QED BY <2>3, TypesKept
<1>6. CASE Wake \/ Read \/ Check \/ UNCHANGED cvars
  <2>1. UNCHANGED vars
    BY <1>6 DEF Wake, Read, Check, cvars
  <2>2. QED BY <2>1, TypeInv
<1>7. QED BY <1>1, <1>2, <1>3, <1>4, <1>5, <1>6 DEF CallNext, CallerStep

LEMMA CallInitInv == CallInit => TypeOK /\ Owned /\ CallInv
<1> SUFFICES ASSUME CallInit PROVE TypeOK /\ Owned /\ CallInv
  OBVIOUS
<1>1. Init
  BY DEF CallInit
<1>2. LateIsEnded
  <2>1. \A t \in Threads : Range(stack[t]) = {}
    BY <1>1 DEF Init, Range
  <2>2. QED BY <2>1 DEF LateIsEnded
<1>3. mode \in Modes /\ run = 0 /\ call = "none" /\ ~ heard /\ ~ finalized /\ events = 0
  BY <1>1 DEF CallInit, Init
<1>4. QED BY <1>1, <1>2, <1>3, InitTyped DEF CallInv

\* A task is finalized once, and says so once.
LEMMA Tallied ==
  ASSUME CallInv, NEW res, Finalize(res) \/ UNCHANGED <<finalized, task, events, deleted>>
  PROVE  events' = IF finalized' THEN 1 ELSE 0
<1>1. events = IF finalized THEN 1 ELSE 0
  BY DEF CallInv
<1>2. QED BY <1>1 DEF Finalize

\* What the caller does leaves the calls of the pipeline alone.
LEMMA CallerAside ==
  ASSUME CallInv, UNCHANGED <<stack, answer, run>>, Ended => Ended'
  PROVE  LateIsEnded' /\ (Answering \/ StartsOf(Caller) => Answering' \/ StartsOf(Caller)')
<1>1. LateIsEnded'
  BY DEF CallInv, LateIsEnded
<1>2. Answering => Answering'
  BY DEF Answering
<1>3. StartsOf(Caller) => StartsOf(Caller)'
  BY DEF StartsOf
<1>4. QED BY <1>1, <1>2, <1>3

LEMMA CallNextInv ==
  ASSUME TypeOK, Owned, CallInv, [CallNext]_cvars
  PROVE  CallInv'
<1> USE PipelineAssumption, CommandRunAssumption
<1>1. CASE Advance \/ Answered
  <2>1. KeepsEnd
    BY <1>1, AdvanceKeepsEnd DEF Answered, CallInv
  <2>2. UNCHANGED <<mode, call, heard, finalized, events>>
    BY <1>1 DEF Advance, Answered, calling
  <2>3. call = "starting" => Answering' \/ StartsOf(Caller)'
    BY <2>1 DEF CallInv, KeepsEnd
  <2>4. QED BY <2>1, <2>2, <2>3 DEF CallInv, KeepsEnd
<1>2. ASSUME NEW t \in Threads, Handle(t) PROVE CallInv'
  <2>1. KeepsEnd
    BY <1>2, AdvanceKeepsEnd DEF Handle, CallInv
  <2>2. UNCHANGED <<mode, call>>
    BY <1>2 DEF Handle
  <2>3. Ended' /\ call # "none"
    <3>1. Top(t) \in Range(stack[t]) /\ Top(t).pc \in Late /\ run # 0
      <4>1. stack[t] \in Seq(OwnFrames) /\ stack[t] # <<>> /\ Top(t).pc = "handling" /\ run # 0
        BY <1>2, TopOwned DEF Handle
      <4>2. QED BY <4>1, Beneath DEF Top, Range, Late
    <3>2. QED BY <2>1, <3>1 DEF CallInv, LateIsEnded, KeepsEnd
  <2>4. events' = IF finalized' THEN 1 ELSE 0
    BY <1>2, Tallied DEF Handle
  <2>5. call = "starting" => Answering' \/ StartsOf(Caller)'
    BY <2>1 DEF CallInv, KeepsEnd
  <2>6. LateIsEnded' /\ run' = run
    BY <2>1 DEF KeepsEnd
  <2>7. QED BY <2>2, <2>3, <2>4, <2>5, <2>6 DEF CallInv
<1>3. CASE Dispatch
  <2>1. /\ call = "none" /\ call' = "starting" /\ run = 0 /\ run' = run + 1 /\ run \in Nat
        /\ UNCHANGED <<mode, heard, finalized, events>> /\ ~ heard
    BY <1>3 DEF Dispatch, Start, CallInv, TypeOK
  <2>2. \A u \in Threads : stack[u] = <<>>
    BY <2>1 DEF Owned
  <2>3. PICK f, g : /\ f = (IF steps = <<>> THEN Completing("DONE", Ok) ELSE NextRound) /\ g = Starting
                    /\ stack' = [stack EXCEPT ![Caller] = <<f, g>>]
    <3>1. <<>> \o <<>> = <<>> /\ \A f, g : <<f, g>> \o <<>> = <<f, g>>
      OBVIOUS
    <3>2. stack' = [stack EXCEPT ![Caller] = <<IF steps = <<>> THEN Completing("DONE", Ok) ELSE NextRound, Starting>> \o <<>>]
      BY <1>3, <2>2 DEF Dispatch, Start, Pushes
    <3>3. QED BY <3>1, <3>2
  <2>4. f.pc \in {"state", "next"} /\ g.pc = "start"
    BY <2>3 DEF Completing, NextRound, Starting, Frame
  <2>5. stack'[Caller] = <<f, g>> /\ \A u \in Threads \ {Caller} : stack'[u] = <<>>
    BY <2>2, <2>3 DEF Owned
  <2>6. Range(<<f, g>>) = {f, g} /\ Range(<<>>) = {}
    BY DEF Range
  <2>7. LateIsEnded' /\ StartsOf(Caller)'
    <3>1. \A u \in Threads : \A h \in Range(stack'[u]) : h.pc \notin Late
      BY <2>4, <2>5, <2>6 DEF Late
    <3>2. g \in Range(stack'[Caller])
      BY <2>5, <2>6
    <3>3. QED BY <2>4, <3>1, <3>2 DEF LateIsEnded, StartsOf
  <2>8. QED BY <2>1, <2>7 DEF CallInv
<1>4. CASE Started
  <2>1. /\ call = "starting" /\ stack[Caller] = <<>> /\ call' = AfterStart
        /\ UNCHANGED <<stack, answer, run, mode, heard, finalized, events>>
    BY <1>4 DEF Started
  <2>2. state' = "IDLE" \/ state' = state
    BY <1>4 DEF Started
  <2>3. Ended => Ended'
    BY <2>2 DEF Ended
  <2>4. Answering
    <3>1. Range(<<>>) = {}
      BY DEF Range
    <3>2. ~ StartsOf(Caller)
      BY <2>1, <3>1 DEF StartsOf
    <3>3. QED BY <2>1, <3>2 DEF CallInv
  <2>5. mode \in {"wait", "detach", "drop"}
    BY DEF CallInv
  <2>6. /\ call' \in {"reading", "waiting", "attaching"}
        /\ call' = "attaching" => mode = "detach"
        /\ mode = "wait" /\ call' = "reading" => answer.kind # "accept"
    BY <2>1, <2>5 DEF AfterStart
  <2>7. mode' = "wait" /\ call' = "reading" => Ended'
    BY <2>1, <2>3, <2>4, <2>6 DEF Answering
  <2>8. LateIsEnded'
    BY <2>1, <2>3, CallerAside
  <2>9. QED BY <2>1, <2>3, <2>6, <2>7, <2>8 DEF CallInv
<1>5. CASE Wake \/ Read \/ Attach \/ Check \/ UNCHANGED cvars
  <2>1. UNCHANGED <<stack, answer, run, state, mode, heard>>
    BY <1>5 DEF Wake, Read, Attach, Check, cvars, calling, vars, engine
  <2>2. Ended' = Ended
    BY <2>1 DEF Ended
  <2>3. LateIsEnded' /\ (Answering \/ StartsOf(Caller) => Answering' \/ StartsOf(Caller)')
    BY <2>1, <2>2, CallerAside
  <2>4. events' = IF finalized' THEN 1 ELSE 0
    <3>1. Finalize(lastResult) \/ UNCHANGED <<finalized, events>>
      BY <1>5 DEF Wake, Read, Attach, Check, cvars, calling
    <3>2. QED BY <3>1 DEF Finalize, CallInv
  <2>5. /\ call' # "starting" \/ call = "starting"
        /\ call' = "none" <=> call = "none"
        /\ call' \in {"attaching", "checking"} => mode = "detach"
        /\ mode = "wait" /\ call' \in {"reading", "returned"} => Ended
    <3>1. CASE Wake
      BY <3>1 DEF Wake, CallInv
    <3>2. CASE Read
      BY <3>2 DEF Read, CallInv
    <3>3. CASE Attach
      BY <3>3 DEF Attach, CallInv
    <3>4. CASE Check
      BY <3>4 DEF Check, CallInv
    <3>5. CASE UNCHANGED cvars
      BY <3>5 DEF cvars, calling, CallInv
    <3>6. QED BY <1>5, <3>1, <3>2, <3>3, <3>4, <3>5
  <2>6. QED BY <2>1, <2>2, <2>3, <2>4, <2>5 DEF CallInv
<1>6. QED BY <1>1, <1>2, <1>3, <1>4, <1>5 DEF CallNext, CallerStep

LEMMA CallInvariant == CallSpec => [](TypeOK /\ Owned /\ CallInv)
<1>1. TypeOK /\ Owned /\ CallInv /\ [CallNext]_cvars => TypeOK' /\ Owned' /\ CallInv'
  BY CallTypes, CallNextInv
<1>2. QED BY <1>1, CallInitInv, PTL DEF CallSpec

\* However the end of a run and attach interleave, a task is finalized once:
\* one task.result event at most, and one deletion of its pipeline
\* (NodeTaskService::finalize).
THEOREM TaskSettledOnce == CallSpec => []SettledOnce
<1>1. CallInv => SettledOnce
  BY DEF CallInv, SettledOnce
<1>2. QED BY <1>1, CallInvariant, PTL

\* A command that is waited for does not return before its run has ended,
\* whether the caller was woken by the handler, saw the final state on its
\* own, or had its answer from start (drivePipeline).
THEOREM WaiterWaits == CallSpec => []WaitsForTheEnd
<1>1. CallInv => WaitsForTheEnd
  BY DEF CallInv, WaitsForTheEnd
<1>2. QED BY <1>1, CallInvariant, PTL
=============================================================================
