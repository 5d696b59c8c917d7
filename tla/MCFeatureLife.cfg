CONSTANTS
  Threads = {t1, t2}
  Present <- MCPresent
SPECIFICATION Spec
INVARIANTS
  TypeOK
  ReadyWhenUsed
  NothingLeft
PROPERTIES
  RemovalEnds
