SPECIFICATION WarmSpec
CONSTANTS
  a1 = a1
  a2 = a2
  junk = junk
  blank = blank
  x = x
  y = y
  z = z
  None = None
  IPv4 = {a1, a2}
  IPv6 = {}
  BadIps = {}
  Ports = {80, 90}
  Names = {"web.edge.local", "old.edge.local", "web.dev", "old.dev", blank}
  Blank = blank
  MaxRegs = 4
  Deadlines = {1}
  Containers = {"web", "old"}
  Tags = {"web:latest"}
  Bases = {"web"}
  Generated = {"web"}
  Suffixes = {"edge.local", "dev"}
  DefaultSuffix = "edge.local"
  UrlSafe = {"web", "app", "edge.local", "dev"}
  MaxFaults = 0
  MaxOutages = 1
  Clis = {x}
  DiscoverPort = 80
  Platform = {}
  Norm <- NormDef
  Hostname <- HostnameDef
  Lower <- LowerDef
  InstanceName <- InstanceNameDef
  LatestTag <- LatestTagDef
  ListensOn <- AllOn80
  Answers <- Answering
  PartOf <- Nested
  Deployments <- OneApp
  Evictions <- NoEvicting
  Commands <- OnlyDeploys
PROPERTIES
  WatcherEvicts
CHECK_DEADLOCK FALSE
