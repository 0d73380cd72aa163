---------------------------- MODULE MCCreatureRound ----------------------------
(***************************************************************************)
(* Small instances of CreatureRound: the tables of creature.c scaled so    *)
(* that a round of 100 ms moves one or two units, keeping which entries    *)
(* are zero and which of two is larger.                                    *)
(***************************************************************************)
EXTENDS CreatureRound

CONSTANTS p1, p2

Table(small, big, flyer) ==
  [t \in Types |-> CASE t = "SMALL" -> small [] t = "BIG" -> big [] t = "FLYER" -> flyer]

MaxHealth     == Table(2, 3, 1)
Alike         == Table(2, 2, 2)
MaxFood       == Table(2, 3, 1)
Lean          == Table(1, 2, 1)
Ageless       == Table(0, 0, 0)
Mortal        == Table(0, 0, 1)
BaseSpeed     == Table(10, 10, 20)
HealthSpeed   == Table(10, 0, 0)
HealRate      == Table(10, 10, 10)
EatRate       == Table(20, 10, 10)
Hitpoints     == Table(Table(0, 0, 10), Table(20, 20, 20), Table(0, 0, 0))
AttackDist    == Table(Table(0, 0, 2), Table(1, 1, 1), Table(0, 0, 0))
ConvertSpeed  == Table(10, 10, 10)
ConvertNeeded == Table(Table(0, 2, 1), Table(2, 0, 0), Table(1, 0, 0))
SpawnType     == Table("NONE", "SMALL", "NONE")
SpawnFood     == Table(0, 2, 0)
SpawnSpeed    == Table(0, 10, 0)
SpawnHealth   == Table(0, 1, 0)
\* An operator lets runners give birth, for food, and leaves their spawn_speed at 0.
SpawnTypeOfAll == Table("SMALL", "SMALL", "NONE")
SpawnFoodOfAll == Table(1, 2, 0)
FeedDist      == Table(1, 0, 1)
FeedSpeed     == Table(10, 0, 10)

Start(p, type, x, food) == [player |-> p, type |-> type, x |-> x, food |-> food]

FullTiles == [t \in Tiles |-> IF t \in PlainAtStart THEN MAX_TILE_FOOD ELSE 0]
BareTiles == [t \in Tiles |-> 0]

StaleHill == [s \in Slots |-> CASE s = 0 -> Start(p1, "SMALL", 1, 0)
                               [] s = 1 -> Start(p2, "BIG", 2, 0)
                               [] s = 2 -> Start(p2, "BIG", 2, 2)
                               [] OTHER -> NoStart]

OneFlyer == [s \in Slots |-> IF s = 0 THEN Start(p1, "FLYER", 2, 1) ELSE NoStart]
BigTraveller == [s \in Slots |-> IF s = 0 THEN Start(p1, "BIG", 2, 1) ELSE NoStart]
BigAndSmall == [s \in Slots |-> CASE s = 0 -> Start(p1, "BIG", 1, 2)
                               [] s = 1 -> Start(p2, "SMALL", 1, 1)
                               [] OTHER -> NoStart]

================================================================================
