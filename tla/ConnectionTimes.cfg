\* Two clients, one player that may stay alone for a second.
SPECIFICATION FairSpec
CONSTANTS
  MAXCLIENTS = 2
  MAXPLAYERS = 1
  NO_CLIENT_KICK_TIME = 1
  KICK_TICKS = 2
  MaxElapsed = 2
  Losers = {0}
PROPERTIES
  AudienceKept
  MarkedClientsGo
  AbandonedPlayersGo
