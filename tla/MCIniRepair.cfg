SPECIFICATION RepairSpec
CONSTANTS
  MaxLines = 4
  InstalledTexts <- MCInstalled
  BackendTexts <- MCTexts
  TemplateText <- MCTemplate
INVARIANTS
  RepairTypeOK
  NoRunOnLines
  InstalledLinesKept
  RepairIsIdempotent
  RenderNeedsNoRepair
PROPERTY
  ImplementsKeyStore
CHECK_DEADLOCK FALSE
