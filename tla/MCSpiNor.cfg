CONSTANTS
  Tasks = {t1, t2}
  NoTask = NoTask
  SizeLog = 8
  PageSize = 2
  EraseSize = 64
  FifoDepth = 4
  Chips <- MCChips
  Data <- MCData
  Writes <- MCWrites
  Reads <- MCReads
  Erases <- MCErases
  Locks <- MCLocks
  MaxOps = 2
  MaxTimeouts = 1
SPECIFICATION Spec
INVARIANTS
  TypeOK
  Lands
PROPERTIES
  Confined
  NorReturns
