\* Three threads on one node; three writers and one client whose address comes
\* back; a thread that sets targets and one that serves requests.
SPECIFICATION MCSpec
CONSTANTS
  Careful = TRUE
  Nobody = Nobody
  Threads = {t1, t2, t3}
  Calls = {"at", "take", "clear"}
  MaxOverlap = 2
  ShadowCount = 1
  MaxNodes = 4
  NULL = NULL
  Nodes = {"p", "d"}
  Parent <- MCParent
  Later = {"d"}
  Wanted <- MCWanted
  Listeners = {"client"}
  Writers = {t1, t2, t3}
  Addresses = {1}
  MaxWrites = 2
  MaxConnects = 2
  MaxSubscriptions = 2
  Mounts <- MCMounts
  Targets = {"t1", "t2"}
  NoTarget = ""
  Paths <- MCPaths
  Setters = {s1}
  Visitors = {v1}
  MaxSets = 2
  Order <- MCOrder
  Closing <- MCClosing
  Ai = "ai"
  Static = "static"
  Off = {"http", "static"}
  Port <- MCPort
  Retry <- MCRetry
  Hundred = 4
  Ten = 2
  Width = 8
  Others = {1, 2, 4, 6, 7}
  MaxRounds = 2
  Workers = {k1, k2}
  Tasks = {"t", "u"}
  MaxStarts = 2
  Clients = {"c1", "c2"}
  Templates <- MCTemplates
  Cips <- MCCips
  Requests <- MCRequests
  Values <- MCValues
  Accepts <- MCAccepts
  Lines <- MCLines
  Queries <- MCQueries
  MaxObjects = 2
  MaxMessages = 1
  Objects = {o1, o2}
  Names = {"a", "b", "c"}
  Connections = {"c", "d"}
  Messages <- MCMessages
  MaxCache = 4
SYMMETRY Symmetry
INVARIANTS ChildrenAgree SessionsHear ServersListen  ToolkitKeeps
CHECK_DEADLOCK FALSE
