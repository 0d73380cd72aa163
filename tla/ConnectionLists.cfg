\* Three clients and two players; nobody is kicked for being alone.
SPECIFICATION Spec
CONSTANTS
  MAXCLIENTS = 3
  MAXPLAYERS = 2
  NO_CLIENT_KICK_TIME = 0
  KICK_TICKS = 1
  MaxElapsed = 0
  Losers = {}
INVARIANTS
  TypeOK
  ListsExact
  PointersValid
