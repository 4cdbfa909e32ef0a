CONSTANTS
  a1 = a1
  a2 = a2
  e1 = e1
  e2 = e2
  s1 = s1
  s2 = s2
  r1 = r1
  r2 = r2
  r3 = r3
  r4 = r4
  ip = ip
  None = None
  Accounts <- two_Accounts
  Emails <- two_Emails
  Tokens <- two_Tokens
  Calls <- four_Calls
  Clients <- one_Client
  Limit = 2
  FAIL_CLOSED = TRUE

SPECIFICATION Spec
SYMMETRY Symmetry

INVARIANTS
  TypeOK
  EmailLeadsToAccount
  HintIsOfSecret
  LimitHolds

CHECK_DEADLOCK FALSE
