SPECIFICATION FairSpec
CONSTANTS
  Clients <- MCClients
  Sharers <- MCSharers
  Capacity = 1
  MaxMessages = 2
INVARIANT
  PresenceHasConnection
PROPERTIES
  ImplementsOrderedRelay
  EveryMessageIsHeard
  ActiveUsersStay
CHECK_DEADLOCK FALSE
