SPECIFICATION Spec
CONSTANTS
  VariableNames <- MCVariableNames
  FileVersions <- MCFileVersions
INVARIANTS TypeOK TextIsASnippet BackendsAgree
PROPERTY ExitZeroMeansWhole
