CONSTANTS
  p1 = p1
  p2 = p2
  p3 = p3
  t1 = t1
  t2 = t2
  Admin = Admin
  NoThread = NoThread
  NoPort = NoPort
  Ports <- MCPorts
  Threads <- MCThreads
  MaxFds = 2
  UnbindWhileOpen = TRUE
SPECIFICATION Spec
PROPERTY UnregisteredFirst
CHECK_DEADLOCK FALSE
