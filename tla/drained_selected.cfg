SPECIFICATION Spec
CONSTANTS
  ip1 = ip1
  ip2 = ip2
  v6 = v6
  junk = junk
  app = app
  APP = APP
  app2 = app2
  blank = blank
  t1 = t1
  r1 = r1
  r2 = r2
  None = None
  IPv4 = {ip1, ip2}
  IPv6 = {}
  BadIps = {}
  Ports = {80}
  Names = {app, blank}
  Blank = blank
  MaxRegs = 1
  MaxNow = 1
  ApiTasks = {t1}
  Timeouts = {1}
  DefaultTimeout = 1
  MaxCalls = 2
  MaxFlips = 0
  Requests = {}
  MaxAttempts = 1
  Services = {"health"}
  Norm <- NormDef
INVARIANTS
  DrainedNotSelected
CHECK_DEADLOCK FALSE
