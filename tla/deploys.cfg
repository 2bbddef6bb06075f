SPECIFICATION FreshSpec
CONSTANTS
  a1 = a1
  a2 = a2
  junk = junk
  blank = blank
  x = x
  y = y
  z = z
  None = None
  IPv4 = {a1, a2}
  IPv6 = {}
  BadIps = {}
  Ports = {80, 90}
  Names = {"app-1.edge.local", "app-1.dev", "app-2.edge.local", "app-2.dev", "pingora-lb-ui.edge.local", "pingora-lb-ui.dev", blank}
  Blank = blank
  MaxRegs = 4
  Deadlines = {1}
  Containers = {"app-1", "app-2", "pingora-lb-ui"}
  Tags = {"app:latest", "pingora-lb-ui:latest"}
  Bases = {"app", "pingora-lb-ui"}
  Generated = {"pingora-lb-ui"}
  Suffixes = {"edge.local", "dev"}
  DefaultSuffix = "edge.local"
  UrlSafe = {"pingora-lb-ui", "app", "edge.local", "dev"}
  MaxFaults = 1
  MaxOutages = 1
  Clis = {x, y}
  DiscoverPort = 80
  Platform = {"pingora-lb-ui"}
  Norm <- NormDef
  Hostname <- HostnameDef
  Lower <- LowerDef
  InstanceName <- InstanceNameDef
  LatestTag <- LatestTagDef
  ListensOn <- AllOn80
  Answers <- Answering
  PartOf <- Apart
  Deployments <- TwoApps
  Evictions <- NoEvicting
  Commands <- DeployDiscover
INVARIANTS
  ClusterTypeOK
  DeployedServes
  DiscoveryRegistersAll
PROPERTIES
  FailedDeployCleansUp
  RemovesOnlyItsOwn
SYMMETRY IpSymmetry
CHECK_DEADLOCK FALSE
