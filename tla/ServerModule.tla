---------------------------- MODULE ServerModule ----------------------------
(***************************************************************************)
(* The servers that the module runs: their ports, and the static one's     *)
(* mounts and rules, each on variables of its own.                         *)
(***************************************************************************)
EXTENDS Integers, Sequences, FiniteSets, SequencesExt, FiniteSetsExt

(***************************************************************************)
(* ServerModule (server_module.cpp): which servers are opened, on which    *)
(* ports, and what the node tree says of them.  Others on the machine take *)
(* and give back ports at any time.                                        *)
(***************************************************************************)

CONSTANTS
  Order,         \* the servers in the order they are opened
  Closing,       \* and in the order they are closed
  Ai, Static,    \* the one that takes its port or none, and the one with mounts
  Off,           \* the servers a configuration may switch off
  Port, Retry,   \* configured, per server; Retry is -1 if it is not
  Hundred, Ten,  \* the ranges servers fall back in: 100, and 10 for the static one
  Width,         \* of a port: 65536
  Others,        \* ports others want
  MaxRounds

VARIABLES
  stage,         \* "down", "opening", "up" or "closing"
  at,            \* the server whose turn it is, and the port it is to try
  trying,
  enabled,
  client,        \* a terminal client is configured to run in this process
  open,          \* per server, the ports it listens on: one or none
  foreign,       \* ports others listen on
  listening, port,  \* the runtime nodes
  rounds

ports == <<stage, at, trying, enabled, client, open, foreign, listening, port, rounds>>

Servers == {Order[i] : i \in DOMAIN Order}
Repl == Order[1]

PortInit ==
  /\ stage = "down" /\ at = 1 /\ trying = 0
  /\ enabled \in {Servers \ off : off \in SUBSET Off}
  /\ client \in BOOLEAN
  /\ open = [s \in Servers |-> {}] /\ foreign = {}
  /\ listening = [s \in Servers |-> FALSE] /\ port = [s \in Servers |-> 0]
  /\ rounds = 0

Taken == foreign \cup UNION {open[s] : s \in Servers}

\* endPort.
LastPort(s) ==
  LET many == IF s = Static THEN Ten ELSE Hundred
  IN  CASE s = Ai -> Port[s]
        [] s # Ai /\ Retry[s] >= 0 -> Port[s] + Retry[s]
        [] s # Ai /\ Retry[s] < 0 /\ Port[s] % many = 0 -> Port[s] + many - 1
        [] OTHER -> Port[s]

\* init: a terminal client replaces the server of its kind.
InitModule ==
  /\ stage = "down" /\ rounds < MaxRounds
  /\ stage' = "opening" /\ at' = 1 /\ trying' = Port[Order[1]]
  /\ enabled' = IF client THEN enabled \ {Repl} ELSE enabled
  /\ rounds' = rounds + 1
  /\ UNCHANGED <<client, open, foreign, listening, port>>

Turn == Order[at]

\* On to the next server, or up.
Onwards ==
  IF at = Len(Order) THEN stage' = "up" /\ at' = 1 /\ trying' = 0
  ELSE at' = at + 1 /\ trying' = Port[Order[at + 1]] /\ UNCHANGED stage

Skip ==
  /\ stage = "opening" /\ Turn \notin enabled
  /\ Onwards
  /\ UNCHANGED <<enabled, client, open, foreign, listening, port, rounds>>

\* The number given to the server is of sixteen bits.
Bound(p) == p % Width

\* openServer, one port: start succeeds if nobody listens there.
Opens ==
  /\ stage = "opening" /\ Turn \in enabled
  /\ trying <= LastPort(Turn) /\ Bound(trying) \notin Taken
  /\ open' = [open EXCEPT ![Turn] = {Bound(trying)}]
  /\ listening' = [listening EXCEPT ![Turn] = TRUE] /\ port' = [port EXCEPT ![Turn] = trying]
  /\ Onwards
  /\ UNCHANGED <<enabled, client, foreign, rounds>>

Fails ==
  /\ stage = "opening" /\ Turn \in enabled
  /\ trying <= LastPort(Turn) /\ Bound(trying) \in Taken
  /\ trying' = trying + 1
  /\ UNCHANGED <<stage, at, enabled, client, open, foreign, listening, port, rounds>>

\* No port of the range was free; of the second terminal nothing is said.
GivesUp ==
  /\ stage = "opening" /\ Turn \in enabled /\ trying > LastPort(Turn)
  /\ listening' = IF Turn = Ai THEN listening ELSE [listening EXCEPT ![Turn] = FALSE]
  /\ Onwards
  /\ UNCHANGED <<enabled, client, open, foreign, port, rounds>>

Deinit ==
  /\ stage = "up" /\ stage' = "closing" /\ at' = 1
  /\ UNCHANGED <<trying, enabled, client, open, foreign, listening, port, rounds>>

\* Mutant: the second terminal is forgotten.
ClosedButAi == {Closing[at]} \ {Ai}

\* closeServer, for whichever server there is.
Closed == {Closing[at]}

Close ==
  /\ stage = "closing"
  /\ open' = [s \in Servers |-> IF s \in Closed THEN {} ELSE open[s]]
  /\ listening' = [s \in Servers |-> IF s \in Closed THEN FALSE ELSE listening[s]]
  /\ IF at = Len(Closing) THEN stage' = "down" /\ at' = 1 ELSE stage' = stage /\ at' = at + 1
  /\ UNCHANGED <<trying, enabled, client, foreign, port, rounds>>

\* Someone else opens or closes a port.
Grab(p) ==
  /\ p \notin Taken /\ foreign' = foreign \cup {p}
  /\ UNCHANGED <<stage, at, trying, enabled, client, open, listening, port, rounds>>
Free(p) ==
  /\ p \in foreign /\ foreign' = foreign \ {p}
  /\ UNCHANGED <<stage, at, trying, enabled, client, open, listening, port, rounds>>

PortNext ==
  \/ InitModule \/ Skip \/ Opens \/ Fails \/ GivesUp \/ Deinit \/ Close
  \/ \E p \in Others : Grab(p) \/ Free(p)

PortSpec == PortInit /\ [][PortNext]_ports

-----------------------------------------------------------------------------

\* The runtime nodes say which servers can be reached and where, at every
\* moment of every round; a server keeps to its own range and none is left
\* open when the module is down (openServer, closeServer).
ListensWhereSaid ==
  /\ \A s \in Servers : /\ listening[s] <=> open[s] # {}
                        /\ listening[s] => open[s] = {port[s]} /\ port[s] \in Port[s] .. LastPort(s)
  /\ stage = "down" => \A s \in Servers : open[s] = {}
  /\ client /\ rounds > 0 => open[Repl] = {}

-----------------------------------------------------------------------------
(***************************************************************************)
(* StaticServer (static_http_server.cpp) as ServerModule runs it           *)
(* (server_module.cpp): mounts by prefix, files below them, and rules that *)
(* forward a request to a target that can be changed while the server      *)
(* runs.  Prefixes and paths are sequences of segments, the root mount's   *)
(* is empty; a target is an address, of which the table keeps host, port   *)
(* and path.                                                               *)
(***************************************************************************)

CONSTANTS
  Mounts,             \* as configured: [prefix, files, spa, rules]; files is a set of one set or none
  Targets, NoTarget,  \* what a rule's target may be set to
  Paths,              \* that are asked for
  Setters, Clients,   \* threads that set targets and that serve requests
  Resting,
  MaxSets

VARIABLES
  value,     \* the target nodes, by mount and rule
  table,     \* mounts, with their rules [prefix, host, port, path]
  running,
  setting,   \* per setter, the update under way: [rule, to, field]
  asking,    \* per client, the request under way: [path, slot, base], and whether
             \* its rule was being set meanwhile
  answer,    \* to the last request, unless one has been taken since
  sets

site == <<value, table, running, setting, asking, answer, sets>>

Rules == {<<m, r>> : m \in DOMAIN Mounts, r \in 1 .. 3} \cap UNION {{<<m, r>> : r \in DOMAIN Mounts[m].rules} : m \in DOMAIN Mounts}
Rule(prefix, to) == [prefix |-> prefix, host |-> to, port |-> to, path |-> to]
FirstAt(s, P(_)) == {i \in DOMAIN s : P(s[i]) /\ \A j \in 1 .. i - 1 : ~ P(s[j])}

-----------------------------------------------------------------------------
(* The table.                                                              *)

\* The order stable_sort keeps: the longest prefix first, the root last.
Before(a, b) == a.prefix # <<>> /\ (b.prefix = <<>> \/ Len(a.prefix) > Len(b.prefix))


\* addMount, for a mount that has a root.
AddMount(t, m) ==
  LET mount == [prefix |-> m.prefix, files |-> m.files, spa |-> m.spa, rules |-> <<>>]
      later == {i \in DOMAIN t : Before(mount, t[i])}
  IN  IF m.files = {} THEN t
      ELSE IF later = {} THEN Append(t, mount) ELSE InsertAt(t, Min(later), mount)

\* addMountProxy, for a rule that has a target.
AddMountProxy(t, prefix, rule, to) ==
  LET found == FirstAt(t, LAMBDA m : m.prefix = prefix)
  IN  IF to = NoTarget \/ found = {} THEN t
      ELSE [t EXCEPT ![Min(found)].rules = Append(@, Rule(rule, to))]

Configured(values) ==
  FoldLeft(LAMBDA t, m :
             FoldLeft(LAMBDA u, r : AddMountProxy(u, Mounts[m].prefix, Mounts[m].rules[r], values[<<m, r>>]),
                      AddMount(t, Mounts[m]), [r \in DOMAIN Mounts[m].rules |-> r]),
           <<>>, [m \in DOMAIN Mounts |-> m])

\* Where updateMountProxy finds the rule of a target node, if it does.
Slot(t, node) ==
  LET mounts == FirstAt(t, LAMBDA m : m.prefix = Mounts[node[1]].prefix)
  IN  UNION {{<<m, r>> : r \in FirstAt(t[m].rules, LAMBDA x : x.prefix = Mounts[node[1]].rules[node[2]])} : m \in mounts}

Starts(path, prefix) == Len(path) >= Len(prefix) /\ SubSeq(path, 1, Len(prefix)) = prefix
Beyond(path, prefix) == SubSeq(path, Len(prefix) + 1, Len(path))

\* findMount: the first that fits, and a root only if no other does.
FindMount(t, path) ==
  LET named == FirstAt(t, LAMBDA m : m.prefix # <<>> /\ Starts(path, m.prefix))
  IN  IF named # {} THEN named ELSE FirstAt(t, LAMBDA m : m.prefix = <<>>)

\* The rule of tryProxy: the first that fits and has a target.
FindRule(mount, rest) == FirstAt(mount.rules, LAMBDA r : Starts(rest, r.prefix) /\ r.host # NoTarget)

Answer(how, path, detail) == [how |-> how, path |-> path, detail |-> detail, meanwhile |-> FALSE]

\* tryServeFile, then the fallback.
FileOr(mount, path) ==
  LET rest == Beyond(path, mount.prefix)
      rel == IF rest = <<>> THEN <<"index">> ELSE rest
      files == UNION mount.files
  IN  IF rel \in files THEN Answer("file", path, rel)
      ELSE IF mount.spa /\ <<"index">> \in files THEN Answer("file", path, <<"index">>)
      ELSE Answer("missing", path, <<>>)

-----------------------------------------------------------------------------

SiteInit ==
  /\ value \in [Rules -> Targets \cup {NoTarget}]
  /\ table = <<>> /\ running = FALSE
  /\ setting = [s \in Setters |-> Resting] /\ asking = [c \in Clients |-> Resting]
  /\ answer = Answer("none", <<>>, <<>>) /\ sets = 0

\* openServer and bindStaticProxyTargets.
Start ==
  /\ ~ running /\ running' = TRUE
  /\ table' = Configured(value)
  /\ UNCHANGED <<value, setting, asking, answer, sets>>

Quiet == \A t \in Setters : setting[t] = Resting

\* The target node is set, and its change reported on the same thread.
SetTarget(s, node, to) ==
  /\ setting[s] = Resting /\ sets < MaxSets
  /\ sets' = sets + 1
  /\ value' = [value EXCEPT ![node] = to]
  /\ setting' = [setting EXCEPT ![s] =
       IF running /\ Slot(table, node) # {}
       THEN [slot |-> CHOOSE x \in Slot(table, node) : TRUE, to |-> to, field |-> "host"] ELSE Resting]
  /\ UNCHANGED <<table, running, asking, answer>>

After(field) == IF field = "host" THEN "port" ELSE "path"

\* updateMountProxy, field by field.
Update(s) ==
  /\ setting[s] # Resting
  /\ LET u == setting[s]
     IN  /\ table' = [table EXCEPT ![u.slot[1]].rules[u.slot[2]][u.field] = u.to]
         /\ setting' = [setting EXCEPT ![s] = IF u.field = "path" THEN Resting ELSE [u EXCEPT !.field = After(@)]]
         /\ asking' = [c \in Clients |->
              IF asking[c] # Resting /\ asking[c].slot = u.slot THEN [asking[c] EXCEPT !.meanwhile = TRUE] ELSE asking[c]]
  /\ UNCHANGED <<value, running, answer, sets>>

\* A request finds its mount; a rule that fits and has a target takes it.
Ask(c, path) ==
  /\ running /\ asking[c] = Resting
  /\ LET mounts == FindMount(table, path)
         mount == table[Min(mounts)]
         rules == FindRule(mount, Beyond(path, mount.prefix))
     IN  \/ /\ mounts = {}
            /\ answer' = Answer("missing", path, <<>>)
            /\ UNCHANGED asking
         \/ /\ mounts # {} /\ rules = {}
            /\ answer' = FileOr(mount, path)
            /\ UNCHANGED asking
         \/ /\ mounts # {} /\ rules # {}
            /\ asking' = [asking EXCEPT ![c] =
                 [path |-> path, slot |-> <<Min(mounts), Min(rules)>>, base |-> {},
                  meanwhile |-> \E s \in Setters : setting[s] # Resting /\ setting[s].slot = <<Min(mounts), Min(rules)>>]]
            /\ answer' = Answer("none", path, <<>>)
  /\ UNCHANGED <<value, table, running, setting, sets>>

RuleOf(slot) == table[slot[1]].rules[slot[2]]

\* The path is put together first, host and port are read when it is sent.
ReadPath(c) ==
  /\ asking[c] # Resting /\ asking[c].base = {}
  /\ asking' = [asking EXCEPT ![c].base = {RuleOf(asking[c].slot).path}]
  /\ UNCHANGED <<value, table, running, setting, answer, sets>>

Forward(c) ==
  /\ asking[c] # Resting /\ asking[c].base # {}
  /\ LET a == asking[c]
         rule == RuleOf(a.slot)
         below == Beyond(a.path, table[a.slot[1]].prefix)
     IN  answer' = [Answer("forwarded", a.path,
                           <<rule.host, rule.port, CHOOSE b \in a.base : TRUE, Beyond(below, rule.prefix)>>)
                    EXCEPT !.meanwhile = a.meanwhile]
  /\ asking' = [asking EXCEPT ![c] = Resting]
  /\ UNCHANGED <<value, table, running, setting, sets>>

SiteNext ==
  \/ Start
  \/ \E s \in Setters : Update(s) \/ \E node \in Rules, to \in Targets \cup {NoTarget} : SetTarget(s, node, to)
  \/ \E c \in Clients : ReadPath(c) \/ Forward(c) \/ \E path \in Paths : Ask(c, path)

SiteSpec == SiteInit /\ [][SiteNext]_site

-----------------------------------------------------------------------------

\* The mount of a path as it is documented: "longest prefix" (static_service.h),
\* from the configuration alone.
Longest(path) ==
  LET fits == {m \in DOMAIN Mounts : Mounts[m].files # {} /\ Starts(path, Mounts[m].prefix)}
  IN  {m \in fits : \A n \in fits : Len(Mounts[n].prefix) <= Len(Mounts[m].prefix)}


\* Once no update is under way, a rule of the table has the target its node
\* has (bindStaticProxyTargets).
RulesFollow ==
  running /\ Quiet =>
    \A node \in Rules : \A slot \in Slot(table, node) :
      RuleOf(slot) = Rule(RuleOf(slot).prefix, value[node])

\* "Changing the target value at runtime updates the cached proxy destination
\* immediately" (docs/SERVICE.md): also of a rule that had none at the start.
TargetsFollow ==
  running /\ Quiet =>
    \A node \in Rules : Mounts[node[1]].files # {} /\ value[node] # NoTarget =>
      \E slot \in Slot(table, node) : RuleOf(slot).host = value[node]
=============================================================================
