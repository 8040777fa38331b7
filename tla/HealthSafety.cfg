\* Three reports of three users, one of two client ids names no hub: two
\* entries fit, so that a third key empties the cache while a renewed one must
\* not, and the clock passes two expiries.
SPECIFICATION Spec
CONSTANTS
  r1 = r1
  r2 = r2
  r3 = r3
  Requests = {r1, r2, r3}
  u1 = u1
  u2 = u2
  u3 = u3
  Users = {u1, u2, u3}
  h1 = h1
  h2 = h2
  Hubs = {h1, h2}
  BadHubs = {h2}
  Duration = 1
  MaxEntries = 2
  MaxClock = 3
SYMMETRY Symmetry
INVARIANTS
  CacheBounded
  EntriesWereConfirmed
  ForwardedOnlyIfConfirmed
  DeniedOnlyByAnswer
PROPERTIES
  EvictsOnlyForNewKey
CHECK_DEADLOCK FALSE
