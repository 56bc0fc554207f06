SPECIFICATION Spec
CONSTANTS
  VMs = {a, b}
  MaxRuns = 3
  maxLogBytes = 13
  MaxListed = 2
  maxWindowRuns = 2
  Jobs = {1, 2, 3}
  Names = {"n", "m"}
  Messages = {"e"}
  MaxSessions = 4
  Hour = 3
  DayHours = 2
  Days = 2
  envMinDataRuns = 3
  envMinStageRuns = 2
  Builds = {c, d}
  Hosts = {"h", "g"}
  Appliances = {"h"}
  Sizes = {"small", "large"}
  Runs <- JobRuns
  Sites <- JobSites
  Sessions <- EnvSessions
  RepoStates <- ListedStates
  DownLists <- ListedServers
  ProxyRows <- SizingRows
  ProxyHosts <- HostOrder
  NumProxies = 3
  SlotCounts <- TwoSlotsOrUnknown
  MaxJobs = 3
  MaxPin = 1
INVARIANT
  RecoveredIsNotFailing
CHECK_DEADLOCK FALSE
