SPECIFICATION FairSpec
CONSTANTS
  Rows <- SmallRows
  Modifiers = {"shift"}
  MaxKeys = 1
  PollRounds = 1
  Mods = {0, 2}
  Codes = {0, 1}
INVARIANTS
  TypeOK
PROPERTIES
  PendingIsStable
  LastReportWins
  ReportReachesHost
  MatrixIsReported
