----------------------------- MODULE StepChain ------------------------------
(***************************************************************************)
(* What a Pipeline promises (the state machine in the header of            *)
(* ve/include/ve/core/pipeline.h): a run goes through its steps one by     *)
(* one, is DONE exactly when all of them succeeded, ERRORED as soon as one *)
(* failed, and can be paused, resumed and stopped.                         *)
(***************************************************************************)
EXTENDS Naturals

CONSTANT MaxSteps

VARIABLES
  state,      \* IDLE, RUNNING, PAUSED, DONE, ERRORED
  length,     \* how many steps the chain has
  done,       \* how many steps of this run have succeeded
  failed      \* a step of this run has failed

vars == <<state, length, done, failed>>

Init ==
  /\ state = "IDLE"
  /\ length \in 0 .. MaxSteps
  /\ done = 0
  /\ failed = FALSE

Active == state \in {"RUNNING", "PAUSED"}

Start ==
  /\ state' = "RUNNING"
  /\ done' = 0
  /\ failed' = FALSE
  /\ UNCHANGED length

Pause == state = "RUNNING" /\ state' = "PAUSED" /\ UNCHANGED <<length, done, failed>>
Resume == state = "PAUSED" /\ state' = "RUNNING" /\ UNCHANGED <<length, done, failed>>
Stop == state' = "IDLE" /\ UNCHANGED <<length, done, failed>>

\* One step succeeds, after which the chain may be at its end; or it fails.
StepSucceeds ==
  /\ Active /\ ~ failed /\ done < length
  /\ done' = done + 1
  /\ UNCHANGED <<state, length, failed>>

StepFails ==
  /\ Active /\ ~ failed /\ done < length
  /\ failed' = TRUE
  /\ UNCHANGED <<state, length, done>>

\* The run ends.  A paused run whose last step answers late ends as well.
Succeed == Active /\ ~ failed /\ done = length /\ state' = "DONE" /\ UNCHANGED <<length, done, failed>>
Fail == Active /\ failed /\ state' = "ERRORED" /\ UNCHANGED <<length, done, failed>>

Next == Start \/ Pause \/ Resume \/ Stop \/ StepSucceeds \/ StepFails \/ Succeed \/ Fail

Spec == Init /\ [][Next]_vars
=============================================================================
