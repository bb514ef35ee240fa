----------------------------- MODULE LineEditor -----------------------------
(***************************************************************************)
(* The line editor of the terminal (terminal_line_editor.h): a string of   *)
(* bytes and a byte position, edited by characters (terminal_utf8.h), with *)
(* completion and history from the session.                                *)
(***************************************************************************)
EXTENDS Integers, Sequences, SequencesExt, FiniteSets, FiniteSetsExt

CONSTANTS
  Chars,       \* characters that can be typed, each a sequence of bytes
  Words,       \* what session->complete can propose, sequences of bytes
  Modes,       \* of "cooked", "controlled": what a session begins with
  MaxLength,   \* bound on the line, in bytes, beyond which nothing is typed
  Submits,     \* bound on what is submitted: these lines and blank ones,
  MaxHistory   \* and this many

VARIABLES
  line,      \* line_
  cursor,    \* cursor_
  hindex,    \* history_index_
  draft,     \* history_draft_
  mode,      \* mode_
  history    \* the session's history

editor == <<line, cursor, hindex, draft, mode, history>>

Space == <<" ">>
Tab == <<"\t">>

\* Bytes by their class: "L" leads a character of two bytes, "x" and "y"
\* continue one, the others stand for themselves.
Continues(byte) == byte \in {"x", "y"}
LeadLen(byte) == IF byte = "L" THEN 2 ELSE IF Continues(byte) THEN 0 ELSE 1

CharByteLen(str, pos) == IF pos >= Len(str) THEN 0 ELSE LeadLen(str[pos + 1])

\* Where the character before pos begins; position 0 is not looked at.
ScanBack(str, pos) ==
  CHOOSE scan \in 0 .. pos - 1 :
    /\ \A i \in scan + 1 .. pos - 1 : Continues(str[i + 1])
    /\ scan = 0 \/ ~ Continues(str[scan + 1])

\* Mutant: one byte, whatever it belongs to.
PrevByteLen(str, pos) == IF pos = 0 \/ pos > Len(str) THEN 0 ELSE 1

PrevCharByteLen(str, pos) ==
  IF pos = 0 \/ pos > Len(str) THEN 0
  ELSE LET scan == ScanBack(str, pos)
           len == CharByteLen(str, scan)
       IN  IF scan + len = pos THEN len ELSE 0

AtLeastOne(len) == IF len = 0 THEN 1 ELSE len

\* string::erase stops at the end; string::insert throws when the position is
\* beyond it, which nobody catches: MayInsert.
MayInsert == cursor <= Len(line)
Without(str, pos, n) == SubSeq(str, 1, pos) \o SubSeq(str, pos + n + 1, Len(str))
With(str, pos, s) == SubSeq(str, 1, pos) \o s \o SubSeq(str, pos + 1, Len(str))

Init ==
  /\ line = <<>> /\ cursor = 0 /\ hindex = -1 /\ draft = <<>> /\ history = <<>>
  /\ mode \in Modes

Controlled == mode = "controlled"

\* Edits end the look at the history: resetHistoryBrowse.
Edited(newLine, newCursor) ==
  /\ line' = newLine /\ cursor' = newCursor
  /\ hindex' = -1 /\ draft' = <<>>
  /\ UNCHANGED <<mode, history>>

Shown(newLine, newCursor) ==
  line' = newLine /\ cursor' = newCursor /\ UNCHANGED <<hindex, draft, mode, history>>

Room(c) == Len(line) + Len(c) <= MaxLength

Character(c) == Room(c) /\ Controlled /\ MayInsert /\ Edited(With(line, cursor, c), cursor + Len(c))

\* A terminal that echoes by itself: characters go to the end.
AppendCooked(c) == Room(c) /\ ~ Controlled /\ Shown(line \o c, Len(line) + Len(c))

Backspace ==
  /\ cursor > 0
  /\ LET n == AtLeastOne(PrevCharByteLen(line, cursor))
     IN  Edited(Without(line, cursor - n, n), cursor - n)

Delete ==
  /\ Controlled /\ cursor < Len(line)
  /\ Edited(Without(line, cursor, AtLeastOne(CharByteLen(line, cursor))), cursor)

CtrlU == line # <<>> /\ Edited(Without(line, 0, cursor), 0)

CtrlC == Edited(<<>>, 0)

Moved(newCursor) == Shown(line, newCursor)

Left == Controlled /\ cursor > 0 /\ Moved(cursor - AtLeastOne(PrevCharByteLen(line, cursor)))

Right == Controlled /\ cursor < Len(line) /\ Moved(cursor + AtLeastOne(CharByteLen(line, cursor)))

Home == Controlled /\ cursor # 0 /\ Moved(0)

End == Controlled /\ cursor # Len(line) /\ Moved(Len(line))

-----------------------------------------------------------------------------
(* History.                                                                *)

Recalled(i) ==
  hindex' = i /\ line' = history[i + 1] /\ cursor' = Len(history[i + 1]) /\ UNCHANGED <<mode, history>>

Up ==
  /\ Controlled /\ history # <<>>
  /\ IF hindex < 0 THEN draft' = line /\ Recalled(Len(history) - 1)
     ELSE draft' = draft /\ Recalled(IF hindex > 0 THEN hindex - 1 ELSE 0)

Down ==
  /\ Controlled /\ history # <<>> /\ hindex >= 0
  /\ IF hindex + 1 < Len(history) THEN draft' = draft /\ Recalled(hindex + 1)
     ELSE /\ hindex' = -1 /\ line' = draft /\ cursor' = Len(draft) /\ draft' = <<>>
          /\ UNCHANGED <<mode, history>>

-----------------------------------------------------------------------------
(* Completion of the word before a position.                               *)

WordStart(head) == Max({0} \cup {i \in DOMAIN head : head[i] = " "})
Prefix(head) == SubSeq(head, WordStart(head) + 1, Len(head))
FirstWord(head) == WordStart(head) = 0

\* The session proposes what begins with the word typed so far.
Matches(head) == {w \in Words : IsPrefix(Prefix(head), w)}

CommonPrefix(items) == LongestCommonPrefix(items)

\* What is added to head: as far as the matches agree, byte by byte, and a
\* space after a first word that has one match only, which is no directory.
Suffix(head) ==
  LET common == CommonPrefix(Matches(head))
  IN  SubSeq(common, Len(Prefix(head)) + 1, Len(common))

OneFirst(head) ==
  /\ FirstWord(head) /\ Cardinality(Matches(head)) = 1
  /\ \A w \in Matches(head) : Last(w) # "/"

Complete ==
  LET head == SubSeq(line, 1, cursor)
      new == With(line, cursor, Suffix(head))
      end == cursor + Len(Suffix(head))
  IN  /\ Controlled /\ MayInsert /\ Room(<<>>) /\ Matches(head) # {}
      /\ IF OneFirst(head) /\ (end = Len(new) \/ new[end + 1] # " ")
         THEN Shown(With(new, end, Space), end + 1)
         ELSE Shown(new, end)

TabCooked == ~ Controlled /\ Room(Tab) /\ Shown(With(line, cursor, Tab), cursor + 1)

\* applySubmittedTabs: each tab completes what stands before it.
Expanded(current, byte) ==
  IF byte # "\t" THEN Append(current, byte)
  ELSE IF Matches(current) = {} THEN current
  ELSE current \o Suffix(current) \o (IF OneFirst(current) THEN Space ELSE <<>>)

WithTabsApplied(str) == FoldLeft(Expanded, <<>>, str)

Blank == Range(line) \subseteq {" ", "\t"}

Enter ==
  /\ line # <<>>
  /\ IF ~ Controlled /\ "\t" \in Range(line)
     THEN Shown(WithTabsApplied(line), Len(WithTabsApplied(line)))
     ELSE /\ Blank \/ (line \in Submits /\ Len(history) < MaxHistory)
          /\ line' = <<>> /\ cursor' = 0 /\ hindex' = -1 /\ draft' = <<>> /\ mode' = mode
          /\ history' = IF Blank THEN history ELSE Append(history, line)

\* The first telnet command from the other side takes over the echo.
SetMode == ~ Controlled /\ mode' = "controlled" /\ UNCHANGED <<line, cursor, hindex, draft, history>>

Next ==
  \/ \E c \in Chars : Character(c) \/ AppendCooked(c)
  \/ Backspace \/ Delete \/ CtrlU \/ CtrlC
  \/ Left \/ Right \/ Home \/ End \/ Up \/ Down
  \/ Complete \/ TabCooked \/ Enter \/ SetMode

Spec == Init /\ [][Next]_editor

-----------------------------------------------------------------------------

\* The characters a string of bytes stands for.
Joined(chars, byte) ==
  IF Continues(byte) /\ chars # <<>> THEN Append(Front(chars), Append(Last(chars), byte))
  ELSE Append(chars, <<byte>>)

Characters(str) == FoldLeft(Joined, <<>>, str)

Halves(str) == {c \in Range(Characters(str)) : Len(c) # LeadLen(c[1])}

\* Byte positions are character positions: the cursor never stands within a
\* character or beyond the line, each key changes one character, and a look at
\* the history gives the draft back (onKey, browseHistory).  A completion may
\* leave half of a character (commonPrefix compares bytes), typing and erasing
\* do not; what the keys do is promised only while the line is whole.
Between == cursor <= Len(line) /\ (cursor = Len(line) \/ ~ Continues(line[cursor + 1]))
Text == INSTANCE TextLine WITH
  text <- Characters(line),
  at <- IF Between THEN Len(Characters(SubSeq(line, 1, cursor))) ELSE -1,
  mine <- Characters(IF hindex = -1 THEN line ELSE draft),
  recalled <- hindex # -1,
  whole <- Between /\ Halves(line) = {}
ImplementsTextLine == Text!Spec
=============================================================================
