CONSTANTS
  Tasks = {t1, t2}
  NoTask = NoTask
  Remover = Remover
  MaxOps = 2
  Events <- MCEvents
  Errors = {e1, e2, e3}
  Maskable = {e1, e2}
  DefaultMasked = {e2}
  MaxErrors <- MCMaxErrors
  Slices <- MCSlices
SPECIFICATION Spec
INVARIANTS
  TypeOK
  StoresKept
  CountsAsked
  ErrorsConsistent
  AttrsBacked
PROPERTIES
  TeardownEnds
CHECK_DEADLOCK FALSE
