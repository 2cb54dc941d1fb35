SPECIFICATION Spec
CONSTANTS
  VariableNames <- MCVariableNames
  FileVersions <- MCFileVersions
PROPERTY SymbolsForOlderBuilds
