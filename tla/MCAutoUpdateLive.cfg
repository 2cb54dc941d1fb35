SPECIFICATION FairSpec
CONSTANTS
  Versions = {"v1", "v4"}
  BackendText <- MCBackendText
  Template <- MCTemplate
  InitialInis <- MCInitialInis
  Platforms = {"nt"}
  MayFail = {"version", "read", "backend", "write", "net_stop", "sc_stop", "sc_disable", "taskkill", "move", "icacls", "sc_demand", "sc_start"}
  MaxFaults = 2
  MaxUpdates = 1
PROPERTY
  Converges
