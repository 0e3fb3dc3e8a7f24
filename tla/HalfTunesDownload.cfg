CONSTANTS
  MaxTasks = 3
  Size = 2
SPECIFICATION DownloadSpec
CHECK_DEADLOCK FALSE
INVARIANTS CellTruthful
PROPERTIES TableTruthful ResumeGoesOn
