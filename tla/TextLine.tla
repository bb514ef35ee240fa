------------------------------ MODULE TextLine ------------------------------
(***************************************************************************)
(* What a line editor promises its user: a line of characters with a       *)
(* cursor between two of them, edited around the cursor, and a draft that  *)
(* comes back after a look at the history.  A completion, or a line of the *)
(* history, may leave half a character in the line; until that is gone     *)
(* nothing is promised.                                                    *)
(***************************************************************************)
EXTENDS Integers, Sequences, SequencesExt

CONSTANT Tab   \* the character that asks for a completion

VARIABLES
  text,     \* the line, as characters
  at,       \* characters before the cursor
  mine,     \* the line as its user last left it
  recalled, \* what is shown comes from the history
  whole     \* there is no half of a character, before the cursor or in the line

vars == <<text, at, mine, recalled, whole>>

Before(s, i) == SubSeq(s, 1, i)
After(s, i) == SubSeq(s, i + 1, Len(s))

Init == text = <<>> /\ at = 0 /\ mine = <<>> /\ ~ recalled /\ whole = TRUE

\* Characters appear before the cursor.
Insert ==
  /\ at' \in at .. Len(text')
  /\ Before(text', at) = Before(text, at)
  /\ After(text', at') = After(text, at)

\* One character goes, before or after the cursor, or all before it.
Erase ==
  \/ at > 0 /\ at' \in {at - 1, 0} /\ text' = Before(text, at') \o After(text, at)
  \/ at < Len(text) /\ at' = at /\ text' = Before(text, at) \o After(text, at + 1)

\* What is edited becomes the user's own.
Mine == mine' = text' /\ ~ recalled'

\* A recalled line may be completed without that.
Kept == recalled' /\ recalled /\ mine' = mine

Move ==
  /\ text' = text /\ at' \in {at - 1, at + 1, 0, Len(text)} \cap 0 .. Len(text)
  /\ UNCHANGED <<mine, recalled>>

TakeOver == UNCHANGED <<text, at>> /\ mine' = text /\ ~ recalled'

\* A line of the history, or the user's own again.
Recall == at' = Len(text') /\ mine' = mine /\ (recalled' \/ text' = mine)

\* Every tab is replaced, the other characters stay in their order.
Within(s, t) == FoldLeft(LAMBDA rest, c : IF rest # <<>> /\ rest[1] = c THEN Tail(rest) ELSE rest, s, t) = <<>>

Expand ==
  /\ Tab \in Range(text) /\ ~ recalled
  /\ Within(SelectSeq(text, LAMBDA c : c # Tab), text')
  /\ at' = Len(text') /\ mine' = text' /\ UNCHANGED recalled

Clear == text' = <<>> /\ at' = 0 /\ mine' = <<>> /\ ~ recalled'

Next ==
  \/ ~ whole
  \/ Insert /\ (Mine \/ Kept)
  \/ Recall \/ Expand
  \/ whole' /\ ((Erase /\ Mine) \/ Move \/ TakeOver \/ Clear)

Spec == Init /\ [][Next]_vars
=============================================================================
