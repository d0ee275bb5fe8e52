CONSTANTS
  Clients <- MCClients
  NoClient = NoClient
  Loop = "status"
  Cap = 1
  MayPanic = FALSE
  c1 = c1
  c2 = c2
SPECIFICATION FairSpec
CHECK_DEADLOCK FALSE
PROPERTIES
  SessionEnds
  StraysEnd
