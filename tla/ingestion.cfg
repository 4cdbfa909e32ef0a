CONSTANTS
  b1 = b1
  d1 = d1
  d2 = d2
  text = text
  scan = scan
  w1 = w1
  w2 = w2
  None = None
  Bases <- one_Base
  Documents <- two_Documents
  Contents <- two_Contents
  Parseable <- one_Parseable
  Workers <- two_Workers

SPECIFICATION FairSpec

INVARIANTS
  TypeOK
  IndexIsOfOneRun
  ContentIsRegisteredOnce
  JobsSeeRegistration
  FailureIsExplained

PROPERTIES
  TerminalIsFinal
  KeepsPromise
  QueuedSettles

CHECK_DEADLOCK FALSE
