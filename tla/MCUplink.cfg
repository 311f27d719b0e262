SPECIFICATION FairSpec
CONSTANTS
  HeadByte = 3
  Radix = 4
  BufSize = 7
  KeyType = 1
  FlashType = 2
  KeyLen = 2
  FlashLen = 4
  Reports <- SomeReports
  Sectors <- SomeSectors
  QueueSize = 1
  MaxPreemptions = 1
INVARIANTS TypeOK HandedIsSent
PROPERTIES UncutPackagesAreFrames Resync
