\* Two clients on sockets and a demo file, two creatures of two players.
SPECIFICATION Spec
CONSTANTS
  Players = {0, 1}
  Slots = {0, 1}
  Tiles = {0}
  Nobody = 255
  Types = {0, 1}
  States = {0, 1}
  Speeds = {0, 1}
  Names = {0, 1}
  Looks = {0, 1}
  Clients = {c1, c2, demo}
  FileClients = {demo}
  Positions = {0, 1}
  WALK = 1
  BirthSpeed = 1
  Residents = {0}
  MaxVmId = 1
  MaxChanges = 5
SYMMETRY Symmetry
INVARIANTS
  ViewExact
  InSync
  KingShown
  OwnersKnown
  NothingRefused
