\* What the app promises and does not keep. Each line ends in a violation of its
\* own: leave one of them in.
CONSTANTS
  MaxTasks = 3
  Size = 2
SPECIFICATION DownloadSpec
CHECK_DEADLOCK FALSE
INVARIANTS NoOrphanTask
\* INVARIANTS FinishedLeaves
\* INVARIANTS InProgress
\* INVARIANTS RowAnswered
\* INVARIANTS PlaysWhatItDownloaded
\* PROPERTIES ResumeKeepsData
