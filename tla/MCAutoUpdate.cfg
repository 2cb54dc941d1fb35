SPECIFICATION Spec
CONSTANTS
  Versions = {"v1", "v2", "v3"}
  BackendText <- MCBackendText
  Template <- MCTemplate
  InitialInis <- MCInitialInis
  Platforms = {"nt", "posix"}
  MayFail = {"version", "read", "backend", "write", "net_stop", "sc_stop", "sc_disable", "taskkill", "move", "icacls", "sc_demand", "sc_start"}
  MaxFaults = 3
  MaxUpdates = 2
INVARIANTS
  TypeOK
  QuietWhileMoving
  NeverInstallsError
  NeverServesPartial
PROPERTIES
  AppliedIsLive
  SuccessMeansCovered
