SPECIFICATION Spec
CONSTANTS
  Parts = {"sessions", "pipeline", "whatsapp", "discord", "rest", "calls", "mcp", "idle", "memory", "sandbox"}
  Files = {f1, f2}
  Tracked = {f1}
  Editable = {f1, f2}
  Sessions = {s1, s2}
  NoSession = noSession
  MaxEdits = 1
  MaxSessCrashes = 1
  Calls = {"a1", "a2", "b"}
  ToolOf <- MCToolOf
  SafeTools = {"read"}
  Responses <- MCResponses
  Notices = {n1}
  MaxCalls = 1
  MaxRounds = 2
  Threshold = 2
  MaxAttempts = 2
  MaxRuns = 2
  Incoming = {"m1", "m2", "m3"}
  Chats = {"chat1", "chat2"}
  ChatOf <- MCChatOf
  Window = 2
  NoMsg = noMsg
  MaxCloses = 1
  Posts = {d1, d2}
  NoPost = noPost
  MaxCuts = 1
  Requests = {"r1", "r2", "r3"}
  Threads = {"thread1", "thread2"}
  ThreadOf <- MCThreadOf
  NoRequest = noRequest
  Actions = {x1, x2}
  Pushes = {p1}
  MaxLinks = 2
  McpCalls = {k1, k2}
  NoAnswer = noAnswer
  Stray = stray
  MaxConnects = 2
  MaxStrays = 1
  Topics = {t1, t2}
  RetryLimit = 2
  DailyCap = 1
  DiscoveryMax = 2
  MaxIdleCrashes = 1
  MaxDbErrors = 1
  Memories = {"n1", "n2", "n3"}
  Subjects = {"tea", "work"}
  TypeOf <- MCTypeOf
  MinCluster = 2
  Commands = {j1, j2}
INVARIANTS
  ServicesTypeOK NoStrayEdits HistoryIsPaired ToldAtMostOnce EntryIsCurrent EntryIsWatched OwnAnswer ResultIsOwn ResponseIsOwn
  ClaimsHaveSession LossNeedsOverlap NoJobLost
PROPERTIES
  GivesReplies RunsMoveOn PushReachesLink EveryRunEnds EveryMessageIsDone DeadServerLeaves RetriesComeBack
CHECK_DEADLOCK FALSE
