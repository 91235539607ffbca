SPECIFICATION FairSpec
CONSTANTS
  Clients = {c1, c2, c3}
  None = None
  Servers = {s1, s2}
  Conns = {k1}
  Procs = {p1, p2}
  NoProc = NoProc
  Runs = {r1, r2}
  Configs <- MCConfigs
  Events = {"toggle", "sysproxy", "noconfig", "dialfail", "authfail", "bindfail", "vpnfail", "procdies", "connection", "proxyfail"}
  Budget = 3
INVARIANTS
  TypeOK
  SoleListener
  NoneSurvivesClose
  OrphansAreLate
  CalmStopCleans
PROPERTIES
  StopReturns
  CancelledRunEnds
  ConnsEnd
CHECK_DEADLOCK FALSE
