CONSTANTS
  MaxSeen = 3
  MaxPorts = 2
  Features = {"err"}
SPECIFICATION Spec
INVARIANT PrFindsPort
CHECK_DEADLOCK FALSE
