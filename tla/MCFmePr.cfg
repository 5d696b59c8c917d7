CONSTANTS
  None = None
  Threads = {t1, t2}
  Ports = {p1, p2}
  Bandwidth = 2
  Width = 6
  Credits = 2
  MaxDelay = 1
SPECIFICATION Spec
INVARIANTS
  TypeOK
  StatusIsOwn
PROPERTIES
  LoadComplete
  PrReturns
