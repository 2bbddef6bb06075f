SPECIFICATION WarmFairSpec
CONSTANTS
  a1 = a1
  a2 = a2
  junk = junk
  blank = blank
  x = x
  y = y
  z = z
  None = None
  IPv4 = {a1, a2}
  IPv6 = {}
  BadIps = {junk}
  Ports = {80, 90}
  Names = {"app-1.edge.local", "app-2.edge.local", "app-1.dev", "app-2.dev", blank}
  Blank = blank
  MaxRegs = 4
  Deadlines = {1}
  Containers = {"app-1", "app-2"}
  Tags = {"app:latest"}
  Bases = {"app"}
  Generated = {"app"}
  Suffixes = {"edge.local", "dev"}
  DefaultSuffix = "edge.local"
  UrlSafe = {"web", "app", "edge.local", "dev"}
  MaxFaults = 1
  MaxOutages = 0
  Clis = {x, y, z}
  DiscoverPort = 80
  Platform = {}
  Norm <- NormDef
  Hostname <- HostnameDef
  Lower <- LowerDef
  InstanceName <- InstanceNameDef
  LatestTag <- LatestTagDef
  ListensOn <- AllOn80
  Answers <- Answering
  PartOf <- Nested
  Deployments <- TwoReplicas
  Evictions <- TwoEvictions
  Commands <- DeployAndEvict
INVARIANTS
  NoDeadUpstream
PROPERTIES
  CommandsEndUnlessRevived
CHECK_DEADLOCK FALSE
