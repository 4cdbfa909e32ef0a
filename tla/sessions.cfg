CONSTANTS
  u1 = u1
  u2 = u2
  k1 = k1
  k2 = k2
  k3 = k3
  k4 = k4
  None = None
  Users <- two_Users
  Calls <- four_Calls

SPECIFICATION Spec
SYMMETRY Symmetry

INVARIANTS
  TypeOK
  ExchangedIsDead
  SecondTokenWasRaced
  FamilyHasOneOwner

PROPERTIES
  QuietSignOutIsFinal
  CallerKeepsSession

CHECK_DEADLOCK FALSE
