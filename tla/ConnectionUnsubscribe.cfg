\* A hub that shares the commands of its device with others.
SPECIFICATION Spec
CONSTANTS
  h1 = h1
  u1 = u1
  d1 = d1
  d2 = d2
  s1 = s1
  s2 = s2
  k1 = k1
  Clients = {h1}
  Hubs = {h1}
  Devices = {d1, d2}
  DevicesOf <- HubDevices
  Access <- UserDevices
  CheckHub = FALSE
  Topics <- SharedTopics
  Refused <- NoneRefused
  Calls = {k1}
  MaxSessions = 1
  MaxRequests = 2
  MaxTopics = 1
  MaxFaults = 0
PROPERTIES
  UnsubscribeLogsDisconnected
CHECK_DEADLOCK FALSE
