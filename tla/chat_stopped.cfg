CONSTANTS
  c1 = c1
  r1 = r1
  r2 = r2
  r3 = r3
  None = None
  Conversations <- const_Conversations
  Requests <- const_Requests

SPECIFICATION Spec
SYMMETRY Symmetry

PROPERTY StopSettles

CHECK_DEADLOCK FALSE
