CONSTANTS
  f1 = f1
  f2 = f2
  l = l
  Formatters <- MCFormatters
  Linters <- MCLinters
  Saves <- MCSaves
  MaxSaves = 1
  MAX_FILE_BYTES = 17
SYMMETRY Symmetry
SPECIFICATION ToolsSpec
INVARIANTS ToolsTypeOK TextSurvives ReportsTheAuthors CopyWhole
PROPERTIES ReadsGuarded
CHECK_DEADLOCK FALSE
