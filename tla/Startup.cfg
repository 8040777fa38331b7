\* Two attempts, one client id for two users, one call of the command.
SPECIFICATION FairSpec
CONSTANTS
  Clients = {"own1", "own2", "c"}
  Users = {"connector", "alice", "bob"}
  NoUser = "nobody"
  Calls = {k1}
  WebhookTimeout = TRUE
  MaxSessions = 2
  OwnUser = "connector"
  OwnIds <- OwnIdList
INVARIANTS
  OkEndsSessions
  ConsumesBehindServer
  NoClientLeftBehind
PROPERTIES
  OthersAreSpared
  StartEnds
  PublisherReturns
