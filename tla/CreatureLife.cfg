\* A big creature and the children it bears: they eat, walk, also over tiles
\* dug later, feed, convert, age, die of age or with their player, and are given back
\* by the rules, while slots are reused and food drops on the tiles.
SPECIFICATION Spec
CONSTANTS
  p1 = p1
  p2 = p2
  Players = {p1}
  NoPlayer = NoPlayer
  NoStart = NoStart
  MAXCREATURES = 2
  MaxVmId = 2
  WorldWidth = 4
  TileSize = 2
  KothTile = 2
  MAX_TILE_FOOD = 1
  BabyFood = 1
  Delta = 100
  max_health <- Alike
  max_food <- Lean
  aging <- Mortal
  base_speed <- BaseSpeed
  health_speed <- HealthSpeed
  heal_rate <- HealRate
  eat_rate <- EatRate
  hitpoints <- Hitpoints
  attack_distance <- AttackDist
  conversion_speed <- ConvertSpeed
  conversion_food_needed <- ConvertNeeded
  spawn_type <- SpawnType
  spawn_food <- SpawnFood
  spawn_speed <- SpawnSpeed
  spawn_health <- SpawnHealth
  feed_distance <- FeedDist
  feed_speed <- FeedSpeed
  Population <- BigTraveller
  PlainAtStart = {1}
  TileFoodAtStart <- FullTiles
  Requests = {"WALK","FEED","CONVERT","EAT","SPAWN"}
  Goals = {5}
  Conversions = {"FLYER","BIG"}
  Drops = {1}
  Enabled = {"set_state","set_path","set_target","set_convert","dig","food","destroy","respawn"}
INVARIANTS
  TypeOK
  Bounds
  Invested
  GroundWalksOnPlain
PROPERTIES
  FoodConserved
