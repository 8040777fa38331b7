\* Two overlapping handlers that do not record the receiver, one edit.
SPECIFICATION FairSpec
CONSTANTS
  h1 = h1
  h2 = h2
  Handlers = {h1, h2}
  none = none
  Nimbuses = {none}
  NoOrigin = none
  UserOrigins = {none}
  Connector = connector
  Default = default
  DefaultKeyOk = FALSE
  CacheKeyOk = TRUE
  MaxEdits = 1
PROPERTIES
  KeyOkSettles
