CONSTANTS
  f1 = f1
  f2 = f2
  v0 = v0
  v1 = v1
  m1 = m1
  m2 = m2
  t1 = t1
  k1 = k1
  k2 = k2
  k3 = k3
  None = None
  Fields <- two_Fields
  Values <- two_Values
  Default = v0
  Texts <- two_Texts
  Patches <- some_Patches
  MAX_MEMORIES = 2
  Tabs <- one_Tab
  Calls <- two_Calls

SPECIFICATION Spec

PROPERTY
  OmittedArePreserved

CHECK_DEADLOCK FALSE
