\* A login with CheckHub, of a client that is a hub.
SPECIFICATION Spec
CONSTANTS
  h1 = h1
  h2 = h2
  own = own
  u1 = u1
  u2 = u2
  connector = connector
  d1 = d1
  NoUser = NoUser
  Placeholder = Placeholder
  Clients = {h1, h2, own}
  Users = {u1, u2, connector}
  UserOf <- LoginUsers
  OwnUser = connector
  Admins = {u2}
  Devices = {d1}
  Access <- UserDevices
  HubAccess <- UserHubs
  Published <- Messages
  Subscribed <- Lists
INVARIANT
  LoginIsAnswered
