CONSTANTS
  MaxSeen = 5
  MaxPorts = 2
  Features = {"err"}
SPECIFICATION Spec
INVARIANTS
  TypeOK
  IdsBalanced
  DevicesMatchList
CHECK_DEADLOCK FALSE
