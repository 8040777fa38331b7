\* Two overlapping handlers, attributes of two origins besides the connector's,
\* a receiver with an id and one without, one edit of the owner.
SPECIFICATION Spec
CONSTANTS
  h1 = h1
  h2 = h2
  Handlers = {h1, h2}
  n1 = n1
  none = none
  tool = tool
  Nimbuses = {n1, none}
  NoOrigin = none
  UserOrigins = {none, tool}
  Connector = connector
  Default = default
  DefaultKeyOk = TRUE
  CacheKeyOk = TRUE
  MaxEdits = 1
SYMMETRY HandlerSymmetry
INVARIANTS
  TypeOK
PROPERTIES
  OwnersAttributesKept
  WrittenAttributesKept
  LegacyStaysGone
