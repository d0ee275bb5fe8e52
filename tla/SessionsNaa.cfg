CONSTANTS
  Clients <- MCClients
  NoClient = NoClient
  Loop = "naa"
  Cap = 1
  MayPanic = TRUE
  c1 = c1
  c2 = c2
SPECIFICATION FairSpec
CHECK_DEADLOCK FALSE
INVARIANTS
  TypeOK
  OneUpstream
  NoStrays
PROPERTIES
  NotCutShort
  SessionEnds
