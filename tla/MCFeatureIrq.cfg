CONSTANTS
  EventFds = {e1, e2}
  None = None
  CtxNum = 3
  Width = 5
  MaxOpen = 2
SPECIFICATION Spec
SYMMETRY Symmetry
INVARIANTS
  TypeOK
  EventfdsHeld
  AllOrNothing
  QuietWhenClosed
