\* A hub with two devices, a client that is no hub, topics of which several speak
\* of one device and one of none, and a fault.
SPECIFICATION Spec
CONSTANTS
  h1 = h1
  u1 = u1
  d1 = d1
  d2 = d2
  s1 = s1
  s2 = s2
  k1 = k1
  k2 = k2
  Clients = {h1, u1}
  Hubs = {h1}
  Devices = {d1, d2}
  DevicesOf <- HubDevices
  Access <- UserDevices
  CheckHub = FALSE
  Topics <- CommandTopics
  Refused <- OwnerRefused
  Calls = {k1, k2}
  MaxSessions = 3
  MaxRequests = 3
  MaxTopics = 2
  MaxFaults = 1
SYMMETRY Symmetry
INVARIANTS
  LogMatchesBroker
PROPERTIES
  PlainUnsubscribed
CHECK_DEADLOCK FALSE
