----------------------------- MODULE TaskQueue ------------------------------
(***************************************************************************)
(* What ve::Loop promises to whoever posts to it (ve/include/ve/core/      *)
(* loop.h): a task that has been accepted is begun once at most, in the    *)
(* order of the posts, at most Width of them at a time, and is not lost    *)
(* as long as the loop exists, stopped or not.                             *)
(***************************************************************************)
EXTENDS Naturals, Sequences, FiniteSets

CONSTANTS Tasks

VARIABLES
  width,    \* how many tasks may be under way at once
  waiting,  \* accepted and not begun, oldest first
  begun,    \* begun, in this order
  ended,    \* begun and ended
  open      \* the loop exists

qvars == <<width, waiting, begun, ended, open>>

Members(s) == {s[i] : i \in DOMAIN s}
UnderWay == Members(begun) \ ended

QInit ==
  /\ width \in Nat
  /\ waiting = <<>> /\ begun = <<>> /\ ended = {}
  /\ open = TRUE

Accept(t) ==
  /\ open = TRUE
  /\ t \notin Members(waiting) \cup Members(begun)
  /\ waiting' = Append(waiting, t)
  /\ UNCHANGED <<width, begun, ended, open>>

Begin ==
  /\ open /\ waiting # <<>>
  /\ Cardinality(UnderWay) < width
  /\ waiting' = Tail(waiting)
  /\ begun' = Append(begun, Head(waiting))
  /\ UNCHANGED <<width, ended, open>>

End(t) ==
  /\ t \in UnderWay
  /\ ended' = ended \cup {t}
  /\ UNCHANGED <<width, waiting, begun, open>>

\* The loop is destroyed: nothing is under way, what waits is dropped.
Close ==
  /\ open /\ UnderWay = {}
  /\ open' = FALSE
  /\ waiting' = <<>>
  /\ UNCHANGED <<width, begun, ended>>

QNext == (\E t \in Tasks : Accept(t) \/ End(t)) \/ Begin \/ Close

QSpec == QInit /\ [][QNext]_qvars
=============================================================================
