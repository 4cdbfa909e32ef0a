CONSTANTS
  c1 = c1
  c2 = c2
  k1 = k1
  k2 = k2
  k0 = k0
  None = None
  Conversations <- two_Conversations
  Calls <- and_Past
  Past <- one_Past
  MaxLoads = 3

SPECIFICATION Spec
SYMMETRY Symmetry

INVARIANTS
  TypeOK
  QuietViewShowsServer
  
  OwnTokens

CHECK_DEADLOCK FALSE
