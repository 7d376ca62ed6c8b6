\* The parts of a chat, one in each behaviour.
SPECIFICATION Spec
CONSTANTS
  Parts = {"locks", "asks", "roll", "sub", "loop", "plan", "bash", "mcp", "model", "talk", "check", "gate", "edit", "permit", "run", "hook", "cmd", "index", "panel", "claude", "tools", "share"}
  Sessions = {k1, k2}
  Requests = {r1, r2, r3}
  MaxTable = 1
  Calls = {c1, c2, c3}
  Previews = {p1}
  Nobody = nobody
  Editors = {e1, e2}
  MaxRuns = 2
  Slots = 2
  MaxSpend = 2
  Batches <- Rounds
  MaxEdits = 2
  MaxNudges = 2
  RepeatLimit = 1
  ReplanLimit = 1
  RetryLimit = 1
  ProtocolLimit = 1
  SearchLimit = 1
  PlanSize = 3
  ChatRetries = 1
  MaxRetries = 1
  MaxDepth = 3
  Concurrency = 2
  MaxShells = 2
  MaxOutput = 3
  MaxRunning = 1
  MaxKept = 0
  Ring = 2
  HeadChars = 1
  TailChars = 0
  Pipes = {1, 2}
  MaxWritten = 2
  Cap = 1
  Paths = {1}
  Guidance = {}
  MaxFiles = 2
  MaxAge = 2
  MaxBody = 2
  MaxClock = 2
  Tracked = {2}
  Ignored = {1}
  Commits <- Revisions
  MaxShown = 1
  MaxSaves = 2
  MaxMoves = 1
  Chats = {t1, t2}
  MaxRequests = 3
  Letters = {1, 2}
  MaxText = 3
  Levels = 2
  Streak = 2
  CallIds = {1, 2}
  MaxLength = 6
  KeepRecent = 2
  Files = {1, 2}
  Changed = {2}
  MaxContent = 2
  MaxCalls = 2
  Checks = {p, q}
  NoCheck = none
  MaxEarly = 1
  MaxPacket = 2
  Fitting = 1
  MaxTrail = 3
  MaxContents = 4
  MaxCopies = 1
  MaxEditions = 4
  Processes = {m1, m2}
  MaxItems = 2
  MaxWrites = 3
  MaxTimes = 1
  MaxAsked = 2
  Targets <- CallTargets
  RuleFiles <- Policies
  Unset = "-"
  Hooks <- HookEntries
  ToolNames = {"a", "b"}
  NoTool = "-"
  Budget = 2
  Grace = 1
  MaxHooks = 2
  MaxEvents = 3
  Configs <- Deployments
  DefaultModel = "a"
  Registered = {"b", "c", "d", "e"}
  Keyed = {"b", "c"}
  Price <- Prices
  MaxTurns = 5
  MaxRecoveries = 2
  MaxRepairs = 1
  MaxContinues = 1
  MaxHistory = 4
  MaxRound = 2
  MaxPieces = 2
  MaxBlocks = 3
  GivenIds <- ToolIds
  NoId <- NoToolId
  WireRetries = 1
  ServerCount = 2
  LocalServers = {1}
  ServedTools = {"t", "u", "l"}
  FullName <- FullNames
  Folded <- FoldedNames
  Cut <- CutNames
  MaxRedirects = 2
  MaxServed = 2
  MaxRounds = 2
\* Every part comes to an end.
CHECK_DEADLOCK FALSE
INVARIANTS PartsInv IdleIsEvictable AnswerIsKept UserWorkKept SpendFolded PermittedIsGranted AnswerIsVerified OnlyOnCompleted OutputIsTold AnswerIsOwn TalkIsWhole EntriesKept PassIsCurrent CertifiedIsProven ServedAndCounted ToldIsCurrent
PROPERTIES NoBlindEdit CutBack
