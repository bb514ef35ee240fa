-------------------------- MODULE TerminalService ---------------------------
(***************************************************************************)
(* A remote terminal and its decoder, and the shells on the tree, each on  *)
(* variables of its own.                                                   *)
(***************************************************************************)
EXTENDS Integers, Sequences, SequencesExt, FiniteSets

(***************************************************************************)
(* A remote terminal: TerminalTcpClient turns keys into bytes, the server  *)
(* turns bytes into keys (terminal_service.cpp), and the client's run ends *)
(* with its connection or at its owner's wish, unless it waits for its     *)
(* user: with a console that gives whole lines for the next line, with one *)
(* that gives keys for what follows an escape.                             *)
(*                                                                         *)
(* The socket is external: bytes in order, lost only with the connection,  *)
(* which may end at any time.                                              *)
(***************************************************************************)

CONSTANTS
  Keys,        \* keys that are pressed
  MaxKeys      \* bound on them

VARIABLES
  raw,         \* raw_console: the console gives keys, not lines
  phase,       \* of run(): idle, connecting, started, loop, reading, ended
  connected,   \* connected
  stopReq,     \* stop_requested
  link,        \* the connection: none, up, down
  reported,    \* its end has been told to the client
  wire,        \* bytes under way
  pressed,     \* keys sent, for the property
  received,    \* keys the editor got
  iac, esc, prevCR, utf8,   \* TcpDecodeState and the accumulator
  controlled   \* server_controls_input

client == <<raw, phase, connected, stopReq, link, reported>>
decode == <<iac, esc, prevCR, utf8, controlled>>
remote == <<client, decode, wire, pressed, received>>

LinkInit ==
  /\ raw \in BOOLEAN
  /\ phase = "idle" /\ connected = FALSE /\ stopReq = FALSE /\ link = "none" /\ reported = FALSE
  /\ wire = <<>> /\ pressed = <<>> /\ received = <<>>
  /\ iac = 0 /\ esc = <<>> /\ prevCR = FALSE /\ utf8 = <<>> /\ controlled = FALSE

-----------------------------------------------------------------------------
(* The client.                                                             *)

\* keyEventToBytes. "e" stands for a character of two bytes, L and x.
KeyEventToBytes(key) ==
  CASE key = "ENTER"     -> <<"\r">>
    [] key = "BACKSPACE" -> <<"BS">>
    [] key = "LEFT"      -> <<"ESC", "[", "D">>
    [] key = "HOME"      -> <<"ESC", "[", "H">>
    [] key = "DELETE"    -> <<"ESC", "[", "3", "~">>
    [] key = "e"         -> <<"L", "x">>
    [] OTHER             -> <<key>>

Run ==
  /\ phase = "idle"
  /\ phase' = "connecting" /\ stopReq' = FALSE /\ connected' = FALSE
  /\ UNCHANGED <<raw, link, reported, wire, pressed, received, decode>>

Start ==
  /\ phase = "connecting"
  /\ \/ phase' = "started" /\ link' = "up"
     \/ phase' = "ended" /\ link' = link
  /\ UNCHANGED <<raw, connected, stopReq, reported, wire, pressed, received, decode>>

\* The client says that it is connected, and asks the server to echo.
Greet ==
  /\ phase = "started"
  /\ phase' = "loop" /\ connected' = TRUE
  /\ wire' = IF link = "up" THEN wire \o <<"IAC", "DO", "ECHO">> ELSE wire
  /\ UNCHANGED <<raw, stopReq, link, reported, pressed, received, decode>>

\* Mutant: only the owner ends the loop.
GoesOn == ~ stopReq

Goes == ~ stopReq /\ connected

Send(keys) ==
  /\ Len(pressed) < MaxKeys
  /\ IF link = "up" THEN /\ wire' = wire \o FlattenSeq([i \in DOMAIN keys |-> KeyEventToBytes(keys[i])])
                         /\ pressed' = pressed \o keys
     ELSE UNCHANGED <<wire, pressed>>
  /\ UNCHANGED <<raw, connected, stopReq, link, reported, received, decode>>

Press(key) == raw /\ phase = "loop" /\ Goes /\ Send(<<key>>) /\ UNCHANGED phase

Waits(p, q) ==
  /\ phase = p /\ phase' = q
  /\ UNCHANGED <<raw, connected, stopReq, link, reported, wire, pressed, received, decode>>

\* An escape by itself: readStdioKey reads on until more is typed, which is lost.
Escaped == raw /\ Goes /\ Waits("loop", "reading")
Swallow == raw /\ Waits("reading", "loop")

\* getline, and the line.
GetLine == ~ raw /\ Goes /\ Waits("loop", "reading")
Line(key) == ~ raw /\ phase = "reading" /\ phase' = "loop" /\ Send(<<key, "ENTER">>)

Ended(from) ==
  /\ phase = from /\ phase' = "ended" /\ connected' = FALSE
  /\ link' = IF link = "up" THEN "down" ELSE link
  /\ UNCHANGED <<raw, stopReq, reported, wire, pressed, received, decode>>

\* The poll of 50 ms comes round; there is no further line.
Leave == ~ Goes /\ Ended("loop")
Eof == ~ raw /\ Ended("reading")

RequestStop ==
  /\ phase # "ended" /\ ~ stopReq
  /\ stopReq' = TRUE
  /\ link' = IF link = "up" THEN "down" ELSE link
  /\ UNCHANGED <<raw, phase, connected, reported, wire, pressed, received, decode>>

Break ==
  /\ link = "up"
  /\ link' = "down"
  /\ UNCHANGED <<raw, phase, connected, stopReq, reported, wire, pressed, received, decode>>

OnDisconnect ==
  /\ link = "down" /\ ~ reported
  /\ reported' = TRUE /\ connected' = FALSE
  /\ UNCHANGED <<raw, phase, stopReq, link, wire, pressed, received, decode>>

-----------------------------------------------------------------------------
(* The server, a byte at a time.                                           *)

Commands == {"WILL", "DO"}

\* consumeTelnetByte.
Telnet(b) ==
  /\ iac # 0 \/ b = "IAC"
  /\ iac' = IF iac = 0 THEN 1 ELSE IF iac = 1 /\ b \in Commands THEN 2 ELSE 0
  /\ controlled' = TRUE
  /\ UNCHANGED <<esc, prevCR, utf8, received>>

Plain(b) == iac = 0 /\ b # "IAC"

\* A line feed right after a return.
Skip(b) ==
  /\ Plain(b) /\ b = "\n" /\ prevCR
  /\ prevCR' = FALSE
  /\ UNCHANGED <<iac, esc, utf8, controlled, received>>

Kept(b) == Plain(b) /\ ~ (b = "\n" /\ prevCR)

Got(key) == received' = Append(received, key)

\* What an escape sequence stands for, if it stands for something.
Meaning(seq) ==
  CASE seq = <<"ESC", "[", "D">>      -> "LEFT"
    [] seq = <<"ESC", "[", "H">>      -> "HOME"
    [] seq = <<"ESC", "O", "H">>      -> "HOME"
    [] seq = <<"ESC", "[", "3", "~">> -> "DELETE"
    [] OTHER                          -> "NONE"

\* Mutant: a sequence is a single byte more.
UnfinishedShort(seq) == seq = <<"ESC">>

Unfinished(seq) == seq \in {<<"ESC">>, <<"ESC", "[">>, <<"ESC", "O">>}

\* decodeEscapedTcpKey.
Escape(b) ==
  /\ Kept(b) /\ (esc # <<>> \/ b = "ESC")
  /\ prevCR' = (b = "\r")
  /\ LET seq == Append(esc, b)
     IN  IF Unfinished(seq) THEN esc' = seq /\ UNCHANGED received
         ELSE /\ esc' = <<>>
              /\ IF controlled /\ Meaning(seq) # "NONE" THEN Got(Meaning(seq)) ELSE UNCHANGED received
  /\ UNCHANGED <<iac, utf8, controlled>>

Simple(b) == Kept(b) /\ esc = <<>> /\ b # "ESC"

\* A byte of a longer character. The accumulator is left as it is by every
\* other byte.
Wide(b) ==
  /\ Simple(b) /\ b \in {"L", "x"}
  /\ prevCR' = FALSE
  /\ \/ utf8 = <<>> /\ utf8' = (IF b = "L" THEN <<b>> ELSE <<>>) /\ UNCHANGED received
     \/ utf8 # <<>> /\ utf8' = <<>> /\ (IF b = "x" THEN Got("e") ELSE UNCHANGED received)
  /\ UNCHANGED <<iac, esc, controlled>>

Single(b) ==
  /\ Simple(b) /\ b \notin {"L", "x"}
  /\ prevCR' = (b = "\r")
  /\ Got(CASE b \in {"\r", "\n"} -> "ENTER" [] b = "BS" -> "BACKSPACE" [] OTHER -> b)
  /\ UNCHANGED <<iac, esc, utf8, controlled>>

Recv ==
  /\ wire # <<>>
  /\ wire' = Tail(wire)
  /\ LET b == Head(wire) IN Telnet(b) \/ Skip(b) \/ Escape(b) \/ Wide(b) \/ Single(b)
  /\ UNCHANGED <<client, pressed>>

LinkNext ==
  \/ Run \/ Start \/ Greet \/ Leave \/ RequestStop \/ Break \/ OnDisconnect
  \/ Escaped \/ Swallow \/ GetLine \/ Eof
  \/ \E key \in Keys : Press(key) \/ Line(key)
  \/ Recv

LinkSpec == LinkInit /\ [][LinkNext]_remote

-----------------------------------------------------------------------------

\* decodeEscapedTcpKey gives up at the third byte of the sequence for DELETE,
\* so that its last one arrives.
ArrivesAs(key) == IF key = "DELETE" THEN "~" ELSE key

\* The editor gets what was pressed, in its order and once: what is taken for
\* a command of telnet, for an escape sequence or for part of a character is
\* just that, and of DELETE comes a "~" (keyEventToBytes, consumeTelnetByte,
\* decodeEscapedTcpKey).
KeysArrive ==
  LET expected == [i \in DOMAIN pressed |-> ArrivesAs(pressed[i])]
  IN  IsPrefix(received, expected) /\ (wire = <<>> => received = expected)

\* The connection's end was told before connected was set.
Missed == reported /\ connected

\* "block until disconnect / EOF / requestStop" (terminal_service.h): the
\* client's run ends once its owner has asked or its connection has ended, if
\* that was not told too early, and as long as it does not wait for its user
\* (TerminalTcpClient::run, readStdioKey).
RunReturns ==
  LET Over == phase \in {"ended", "idle", "reading"}
  IN  (stopReq ~> Over) /\ (link = "down" ~> (Over \/ Missed))

-----------------------------------------------------------------------------
(***************************************************************************)
(* Command shells over one node tree (terminal_session.cpp).  Each has a   *)
(* current node and a pool of nodes it has taken out of the tree; nothing  *)
(* tells one shell what another does.                                      *)
(*                                                                         *)
(* The tree is what NodeTree says of it, without names and positions: a    *)
(* path is any node that can be found from where it starts.                *)
(***************************************************************************)

CONSTANTS
  Shells,
  Nodes,
  Root,      \* the tree's root, one of Nodes
  None,      \* no node
  Careful    \* nobody removes a node that a shell stands in or that is someone's
             \* shadow, or moves the root, or a node below itself: the code
             \* checks none of this

VARIABLES
  live,      \* nodes that exist
  parent,    \* Node::parent
  shadow,    \* Node::shadow
  cur,       \* per shell: cur
  pool,      \* per shell: orphans, as sets
  lost,      \* nodes that a failed move has left with nobody, for the property
  open       \* shells that have not ended

shell == <<live, parent, shadow, cur, pool, lost, open>>

\* Only the root is there, and every shell stands at it.
ShellInit ==
  /\ live = {Root}
  /\ parent = [n \in Nodes |-> None]
  /\ shadow = [n \in Nodes |-> None]
  /\ cur = [s \in Shells |-> Root]
  /\ pool = [s \in Shells |-> {}]
  /\ lost = {}
  /\ open = Shells

Children(n) == {c \in live : parent[c] = n}

\* isAncestorOf walks up; with a cycle it does not come back, which is not
\* modelled: here the walk ends where it has been.
Above(n) ==
  LET up[i \in 0 .. Cardinality(Nodes)] ==
        IF i = 0 THEN {parent[n]} \ {None} ELSE up[i - 1] \cup ({parent[m] : m \in up[i - 1]} \ {None})
  IN  up[Cardinality(Nodes)]

Subtree(n) == {m \in live : m = n \/ n \in Above(m)}

\* What find(path) may come to: children, and where a child is missing those
\* of the shadow.
Found(base) ==
  LET more(S) == S \cup UNION {Children(m) : m \in S} \cup ({shadow[m] : m \in S} \ {None})
      at[i \in 0 .. Cardinality(Nodes)] == IF i = 0 THEN {base} ELSE more(at[i - 1])
  IN  at[Cardinality(Nodes)]

\* resolve(path): "/" from the root, ".." the parent, else from cur.
Resolve(s) == Found(Root) \cup Found(cur[s]) \cup ({parent[cur[s]]} \ {None})

Stood == {cur[s] : s \in open}
Shadows == {shadow[n] : n \in live}
MayRemove(n) == Careful => Subtree(n) \cap (Stood \cup Shadows) = {}

-----------------------------------------------------------------------------
(* Navigation.                                                             *)

Go(s, n) == cur' = [cur EXCEPT ![s] = n] /\ UNCHANGED <<live, parent, shadow, pool, lost, open>>

\* cd, root, up; first and last; prev, next and sibling.
Cd(s) == \E n \in Found(cur[s]) \cup ({parent[cur[s]]} \ {None}) : Go(s, n)
ToRoot(s) == Go(s, Root)
Up(s) == \E n \in Above(cur[s]) : Go(s, n)
Down(s) == \E n \in Children(cur[s]) : Go(s, n)
Sibling(s) == parent[cur[s]] # None /\ \E n \in Children(parent[cur[s]]) : Go(s, n)

-----------------------------------------------------------------------------
(* The tree.                                                               *)

Delete(S) ==
  /\ live' = live \ S
  /\ parent' = [n \in Nodes |-> IF n \in S THEN None ELSE parent[n]]
  /\ shadow' = [n \in Nodes |-> IF n \in S THEN None ELSE shadow[n]]
  /\ lost' = lost \ S

\* insert: a node that has a parent is taken from it first.
Place(n, p) == parent' = [parent EXCEPT ![n] = p] /\ lost' = lost \ {n}

\* An index out of range: the node has been taken all the same.
Misplace(n) ==
  /\ parent' = [parent EXCEPT ![n] = None]
  /\ lost' = IF parent[n] = None THEN lost ELSE lost \cup {n}

\* take <index|path>: a direct child goes into the pool.
Take(s) ==
  \E n \in Children(cur[s]) :
    /\ MayRemove(n)
    /\ parent' = [parent EXCEPT ![n] = None]
    /\ pool' = [pool EXCEPT ![s] = @ \cup {n}]
    /\ UNCHANGED <<live, shadow, cur, lost, open>>

Adopted(s, n) == [pool EXCEPT ![s] = @ \ {n}]

MayPut(n, p) == Careful => n # Root /\ p \notin Subtree(n)

Adopt(s) ==
  \E n \in pool[s] :
    /\ MayPut(n, cur[s])
    /\ pool' = Adopted(s, n)
    /\ Place(n, cur[s])
    /\ UNCHANGED <<live, shadow, cur, open>>

\* mk, by name below a target or by path.
Make(s) ==
  \E n \in Nodes \ live, p \in Resolve(s) :
    /\ live' = live \cup {n}
    /\ Place(n, p)
    /\ UNCHANGED <<shadow, cur, pool, open>>

\* rm, by index, name or path: whatever it is, it has a parent.
RemoveHere(s) ==
  \E n \in Resolve(s) :
    /\ parent[n] # None /\ MayRemove(n)
    /\ Delete(Subtree(n))
    /\ UNCHANGED <<cur, pool, open>>

\* rm -c: all children.
Clear(s) ==
  \E p \in Resolve(s) :
    /\ \A n \in Children(p) : MayRemove(n)
    /\ Delete(UNION {Subtree(n) : n \in Children(p)})
    /\ UNCHANGED <<cur, pool, open>>

\* mv, with or without an index: only a move of a node to itself is refused.
Move(s) ==
  \E n, p \in Resolve(s) :
    /\ n # p /\ MayPut(n, p)
    /\ Place(n, p) \/ Misplace(n)
    /\ UNCHANGED <<live, shadow, cur, pool, open>>

SetShadow(s) ==
  \E n \in Resolve(s), m \in Resolve(s) \cup {None} :
    /\ shadow' = [shadow EXCEPT ![n] = m]
    /\ UNCHANGED <<live, parent, cur, pool, lost, open>>

\* The connection ends: what the pool still holds is deleted.
Close(s) ==
  /\ \A n \in pool[s] : MayRemove(n)
  /\ Delete(UNION {Subtree(n) : n \in pool[s]})
  /\ pool' = [pool EXCEPT ![s] = {}]
  /\ open' = open \ {s}
  /\ UNCHANGED <<cur>>

ShellNext ==
  \E s \in open :
    \/ Cd(s) \/ ToRoot(s) \/ Up(s) \/ Down(s) \/ Sibling(s)
    \/ Take(s) \/ Adopt(s) \/ Make(s) \/ RemoveHere(s) \/ Clear(s) \/ Move(s)
    \/ SetShadow(s) \/ Close(s)

ShellSpec == ShellInit /\ [][ShellNext]_shell

-----------------------------------------------------------------------------

Pools(n) == {<<s, m>> \in Shells \X Nodes : m \in pool[s] /\ n \in Subtree(m)}

Lost(n) == {m \in lost : n \in Subtree(m)}

\* Whatever the shells take, adopt, move and remove, each node is in one
\* place, below the root, below one node of one pool or below one that a
\* failed move has lost, and every shell stands in the tree or with what is
\* lost (cmds of terminal_session.cpp).
OnePlace ==
  /\ \A n \in live : Cardinality(Pools(n)) + Cardinality(Lost(n)) + (IF n \in Subtree(Root) THEN 1 ELSE 0) = 1
  /\ \A s \in open : cur[s] \in Subtree(Root) \/ Lost(cur[s]) # {}

-----------------------------------------------------------------------------
(***************************************************************************)
(* The terminal as a whole, one part at a time: its line editor, a remote  *)
(* client with the server's decoder, and the shells over one tree.         *)
(***************************************************************************)

VARIABLES which, line, cursor, hindex, draft, mode, history

editor == <<line, cursor, hindex, draft, mode, history>>
all == <<which, editor, remote, shell>>

\* A character of two bytes among the others; completions that share a letter
\* and half of another.
Ed == INSTANCE LineEditor WITH
  Chars <- {<<"a">>, <<"L", "x">>}, Words <- {<<"a", "L", "x">>, <<"a", "L", "y">>, <<"L", "x", "/">>},
  Modes <- {"cooked"}, MaxLength <- 3, Submits <- {<<"L", "x">>, <<"a", "L">>}, MaxHistory <- 2

Init == which \in {"editor", "link", "shells"} /\ Ed!Init /\ LinkInit /\ ShellInit

Of(part) == which = part /\ UNCHANGED which

Next ==
  \/ Of("editor") /\ Ed!Next /\ UNCHANGED <<remote, shell>>
  \/ Of("link") /\ LinkNext /\ UNCHANGED <<editor, shell>>
  \/ Of("shells") /\ ShellNext /\ UNCHANGED <<editor, remote>>

Linked(A) == Of("link") /\ A /\ UNCHANGED <<editor, shell>>

\* The threads of the client and of its socket run on; nobody need press a
\* key, end a line, break the connection or ask to stop.
Spec ==
  /\ Init /\ [][Next]_all
  /\ WF_all(Linked(Run)) /\ WF_all(Linked(Start)) /\ WF_all(Linked(Greet))
  /\ WF_all(Linked(GetLine)) /\ WF_all(Linked(Leave)) /\ WF_all(Linked(OnDisconnect))

-----------------------------------------------------------------------------

\* Byte positions are character positions, each key changes one character, and
\* a look at the history gives the draft back (terminal_line_editor.h).
ImplementsTextLine == Ed!ImplementsTextLine

\* The editor gets what was pressed, in its order (keyEventToBytes,
\* decodeEscapedTcpKey in terminal_service.cpp), and each node is in one place,
\* with every shell in the tree or with what a failed move has lost (take,
\* adopt, mv, rm of terminal_session.cpp).
KeysArriveAndNodesStay == KeysArrive /\ OnePlace
=============================================================================
