\* A flyer with a path over solid tiles that converts to a ground creature.
SPECIFICATION Spec
CONSTANTS
  p1 = p1
  p2 = p2
  Players = {p1}
  NoPlayer = NoPlayer
  NoStart = NoStart
  MAXCREATURES = 1
  MaxVmId = 0
  WorldWidth = 4
  TileSize = 2
  KothTile = 1
  MAX_TILE_FOOD = 2
  BabyFood = 1
  Delta = 100
  max_health <- MaxHealth
  max_food <- MaxFood
  aging <- Ageless
  base_speed <- BaseSpeed
  health_speed <- HealthSpeed
  heal_rate <- HealRate
  eat_rate <- EatRate
  hitpoints <- Hitpoints
  attack_distance <- AttackDist
  conversion_speed <- ConvertSpeed
  conversion_food_needed <- ConvertNeeded
  spawn_type <- SpawnType
  spawn_food <- SpawnFood
  spawn_speed <- SpawnSpeed
  spawn_health <- SpawnHealth
  feed_distance <- FeedDist
  feed_speed <- FeedSpeed
  Population <- OneFlyer
  PlainAtStart = {1}
  TileFoodAtStart <- BareTiles
  Requests = {"CONVERT","WALK"}
  Goals = {3, 5}
  Conversions = {"SMALL"}
  Drops = {}
  Enabled = {"set_state","set_path","set_convert"}
INVARIANTS
  GroundWalksOnPlain
