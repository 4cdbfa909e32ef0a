CONSTANTS
  c1 = c1
  r1 = r1
  r2 = r2
  r3 = r3
  None = None
  Conversations <- const_Conversations
  Requests <- two_Requests

SPECIFICATION FairSpec

PROPERTIES
  StreamsSettle

CHECK_DEADLOCK FALSE
