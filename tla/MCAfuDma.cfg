SPECIFICATION Spec
CONSTANTS
  Threads = {t1, t2}
  Privileged = {t2}
  MaxPage = 3
  MaxLen = 2
  MaxRegions = 2
  NumUmsgs = 1
  LockLimit = 3
  MaxLocked = 5
  MaxLost = 1
  Iommu = TRUE
INVARIANTS TypeOK BuffersAccounted UmsgBacked FindComplete
