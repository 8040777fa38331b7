\* Two workers, four commands, MQTT 4: a publish waits without a timeout.
SPECIFICATION FairSpec
CONSTANTS
  c1 = c1
  c2 = c2
  c3 = c3
  c4 = c4
  Commands = {c1, c2, c3, c4}
  NoCommand = NoCommand
  CommandWorkerCount = 2
  ForceTopicsWithOwner = TRUE
  MqttVersion = "4"
  MaxLinkLosses = 1
INVARIANTS
  TypeOK
  EachCommandInOnePlace
  BlockedOnlyWhileFull
PROPERTIES
  AcceptedIsHandled
  CallerIsAnswered
  ImplementsIntake
