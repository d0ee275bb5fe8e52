CONSTANTS
  Devices <- MCDevices
  NameOf <- MCNameOf
  PROXY_NAME = "proxy"
  Hosts <- MCHosts
  Addresses <- MCAddresses
  Configs <- MCConfigs
  None = None
  Torn = Torn
  MaxEvents = 4
  MaxQueue = 1
  d1 = d1
  d2 = d2
  p = p
  text = text
SPECIFICATION Spec
CHECK_DEADLOCK FALSE
PROPERTIES
  SaveKeepsTarget
