\* A big and a small creature of two players on the hill, commanded by programs that
\* wait for a creature to be idle before they command it again.
SPECIFICATION FairSpec
CONSTANTS
  p1 = p1
  p2 = p2
  Players = {p1, p2}
  NoPlayer = NoPlayer
  NoStart = NoStart
  MAXCREATURES = 2
  MaxVmId = 2
  WorldWidth = 4
  TileSize = 1
  KothTile = 1
  MAX_TILE_FOOD = 1
  BabyFood = 1
  Delta = 100
  max_health <- MaxHealth
  max_food <- Lean
  aging <- Ageless
  base_speed <- BaseSpeed
  health_speed <- HealthSpeed
  heal_rate <- HealRate
  eat_rate <- EatRate
  hitpoints <- Hitpoints
  attack_distance <- AttackDist
  conversion_speed <- ConvertSpeed
  conversion_food_needed <- ConvertNeeded
  spawn_type <- SpawnTypeOfAll
  spawn_food <- SpawnFoodOfAll
  spawn_speed <- SpawnSpeed
  spawn_health <- SpawnHealth
  feed_distance <- FeedDist
  feed_speed <- FeedSpeed
  Population <- BigAndSmall
  PlainAtStart = {1, 2}
  TileFoodAtStart <- BareTiles
  Requests = {"HEAL","EAT","ATTACK","CONVERT","SPAWN"}
  Goals = {1}
  Conversions = {"SMALL"}
  Drops = {1}
  Enabled = {"blocking","suicide","set_state","set_target","set_convert","food"}
PROPERTIES
  HillRule
  NoFriendlyFire
  BusyEnds
