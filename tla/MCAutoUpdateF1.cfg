SPECIFICATION Spec
CONSTANTS
  Versions = {"v1"}
  BackendText <- MCBackendText
  Template <- MCTemplate
  InitialInis <- MCInitialInis
  Platforms = {"nt"}
  MayFail = {"version", "read", "backend", "write", "net_stop", "sc_stop", "sc_disable", "taskkill", "move", "icacls", "sc_demand", "sc_start"}
  MaxFaults = 1
  MaxUpdates = 0
PROPERTY
  UpToDateMeansWorking
