\* No workers: two callers run the handler themselves, concurrently, and the
\* device may answer both copies of both commands.
SPECIFICATION RoundtripSpec
CONSTANTS
  c1 = c1
  c2 = c2
  Commands = {c1, c2}
  NoCommand = NoCommand
  CommandWorkerCount = 1
  ForceTopicsWithOwner = FALSE
  MqttVersion = "5"
  MaxLinkLosses = 1
INVARIANTS
  NilMeansDelivered
  MissedOnlyIfExpired
PROPERTIES
  HandledOnce
