SPECIFICATION Spec
CONSTANTS
  ip1 = ip1
  ip2 = ip2
  v6 = v6
  junk = junk
  app = app
  APP = APP
  app2 = app2
  blank = blank
  t1 = t1
  r1 = r1
  r2 = r2
  None = None
  IPv4 = {ip1, ip2}
  IPv6 = {}
  BadIps = {}
  Ports = {80}
  Names = {app, blank}
  Blank = blank
  MaxRegs = 2
  MaxNow = 1
  ApiTasks = {t1}
  Timeouts = {1}
  DefaultTimeout = 1
  MaxCalls = 3
  MaxFlips = 1
  Requests = {r1}
  MaxAttempts = 1
  Services = {"health", "drain"}
  Norm <- NormDef
INVARIANTS
  TypeOK
  UniqueAddrs
  CountersExact
  CountedAtItsBackend
SYMMETRY IpSymmetry
