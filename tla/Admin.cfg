CONSTANTS
  Devices <- MCDevices
  NameOf <- MCNameOf
  PROXY_NAME = "proxy"
  Hosts <- MCHosts
  Addresses <- MCAddresses
  Configs <- MCConfigs
  None = None
  Torn = Torn
  MaxEvents = 4
  MaxQueue = 1
  d1 = d1
  d2 = d2
  p = p
  text = text
SPECIFICATION FairSpec
CHECK_DEADLOCK FALSE
INVARIANTS
  TypeOK
  BackupHolds
  OnlyWhatWasAsked
  ToggleTold
  EnabledIsInPlace
  ChosenIsUsed
PROPERTIES
  ComesUp
  Served
  ShutdownEnds
  ShutDownForGood
