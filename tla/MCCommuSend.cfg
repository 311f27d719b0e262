SPECIFICATION FairSpec
CONSTANTS
  Reports = {r1, r2}
  Sectors = {"s1", "s2", "s3"}
  Counts = {1, 2}
  MbSize = 2
  AnswerSize = 3
  NBlocks = 3
  Garbage = Garbage
INVARIANTS TypeOK LastReportWins
PROPERTIES ReportReachesWire ReadsAskedSector
