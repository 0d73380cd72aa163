\* A rival that is killed on the hill in slot 0, then a birth that takes slot 0.
SPECIFICATION Spec
CONSTANTS
  p1 = p1
  p2 = p2
  Players = {p1, p2}
  NoPlayer = NoPlayer
  NoStart = NoStart
  MAXCREATURES = 3
  MaxVmId = 3
  WorldWidth = 4
  TileSize = 1
  KothTile = 1
  MAX_TILE_FOOD = 2
  BabyFood = 1
  Delta = 100
  max_health <- MaxHealth
  max_food <- MaxFood
  aging <- Ageless
  base_speed <- BaseSpeed
  health_speed <- HealthSpeed
  heal_rate <- HealRate
  eat_rate <- EatRate
  hitpoints <- Hitpoints
  attack_distance <- AttackDist
  conversion_speed <- ConvertSpeed
  conversion_food_needed <- ConvertNeeded
  spawn_type <- SpawnType
  spawn_food <- SpawnFood
  spawn_speed <- SpawnSpeed
  spawn_health <- SpawnHealth
  feed_distance <- FeedDist
  feed_speed <- FeedSpeed
  Population <- StaleHill
  PlainAtStart = {1, 2}
  TileFoodAtStart <- BareTiles
  Requests = {"SPAWN","ATTACK"}
  Goals = {1}
  Conversions = {}
  Drops = {}
  Enabled = {"set_state","set_target"}
PROPERTIES
  KingHoldsHill
