----------------------------- MODULE CreatureRound -----------------------------
(***************************************************************************)
(* The life of creatures, round by round (creature.c, with the parts of    *)
(* world.c, player.c and rules/default.lua its handlers call).             *)
(*                                                                         *)
(* Between rounds the players' Lua programs command their creatures and    *)
(* the world and the rules act (turn = Thinking).  Then creature_moveall   *)
(* visits the slots in order (turn = the slot), each creature ages and     *)
(* acts, and at the end the king of the hill is decided.                   *)
(*                                                                         *)
(* The world is a row of tiles, each TileSize positions wide; a walk goes  *)
(* straight to its goal.  Ids are looked up by value: module CreatureTable *)
(* shows that creature_by_id does exactly that.                            *)
(***************************************************************************)
EXTENDS Integers, FiniteSets

CONSTANTS
  Players, NoPlayer,
  MAXCREATURES,     \* number of slots
  MaxVmId,          \* bound: no creature is born once the ids 0 .. MaxVmId are used
  WorldWidth,       \* number of tiles
  TileSize,         \* positions on a tile
  KothTile,         \* the hill
  MAX_TILE_FOOD,
  BabyFood,         \* food the rules give to a new born creature
  Delta,            \* milliseconds of a round
  Population,       \* Population[s]: the creature in slot s at the start, or NoStart
  NoStart,
  PlainAtStart,     \* the tiles dug at the start
  TileFoodAtStart   \* food on each tile at the start

\* The creature types and the tables that creature_config.gperf exposes.
CONSTANTS
  max_health, max_food, aging, base_speed, health_speed, heal_rate, eat_rate,
  hitpoints, attack_distance, conversion_speed, conversion_food_needed,
  spawn_type, spawn_food, spawn_speed, spawn_health, feed_distance, feed_speed

\* What the programs may do in a model: the states they ask for, the goals they
\* walk to, the types they convert to, the food a level drops, and which actions
\* exist at all.  "blocking" programs command a creature only when it is idle, as
\* those written with api/oo.lua and api/state.lua do.
CONSTANTS Requests, Goals, Conversions, Drops, Enabled

\* The fourth type of creature.h is unused: its max_health is 0, so nothing is
\* spawned as one or converts to it.
Types  == {"SMALL", "BIG", "FLYER"}
States == {"IDLE", "WALK", "HEAL", "EAT", "ATTACK", "CONVERT", "SPAWN", "FEED"}

Slots     == 0 .. MAXCREATURES - 1
Tiles     == 0 .. WorldWidth - 1
Positions == 0 .. WorldWidth * TileSize - 1
Thinking  == -1
NoPath    == -1
NoSlot    == -1

\* The tables as creature.c has them and an operator may set them: nothing is
\* negative, and every type in use can live.
ASSUME TableAssumption ==
  /\ max_health \in [Types -> Nat \ {0}]
  /\ \A table \in {max_food, aging, base_speed, health_speed, heal_rate, eat_rate,
                   conversion_speed, spawn_food, spawn_speed, spawn_health,
                   feed_distance, feed_speed} : table \in [Types -> Nat]
  /\ \A table \in {hitpoints, attack_distance, conversion_food_needed} :
       table \in [Types -> [Types -> Nat]]

\* The world, what is in it at the start, and what the programs ask for.
ASSUME WorldAssumption ==
  /\ NoPlayer \notin Players
  /\ MAXCREATURES \in Nat \ {0} /\ MaxVmId \in Nat
  /\ WorldWidth \in Nat \ {0} /\ TileSize \in Nat \ {0}
  /\ MAX_TILE_FOOD \in Nat /\ BabyFood \in Nat /\ Delta \in Nat
  /\ \A s \in Slots : Population[s] # NoStart =>
       /\ Population[s].player \in Players /\ Population[s].type \in Types
       /\ Population[s].x \in Positions
       /\ Population[s].food \in 0 .. max_food[Population[s].type]
  /\ PlainAtStart \subseteq Tiles
  /\ TileFoodAtStart \in [Tiles -> 0 .. MAX_TILE_FOOD]
  /\ Requests \subseteq States /\ Goals \subseteq Positions
  /\ Conversions \subseteq Types /\ Drops \subseteq Nat

VARIABLES
  creature,      \* creature[s]: the record in slot s; its player is NoPlayer if unused
  next_free_vm_id,
  plain,         \* the tiles that are TILE_PLAIN
  tile_food,
  doomed,        \* slots player_destroy has still to empty
  turn,          \* the slot creature_moveall is at, MAXCREATURES after the last
  on_koth,       \* creature_on_koth, a pointer to a slot
  koth_score,
  king,          \* king_player
  round_vm_id,   \* history: next_free_vm_id when the round began
  round_alive    \* history: the slots in use when the round began

vars == <<creature, next_free_vm_id, plain, tile_food, doomed, turn, on_koth,
          koth_score, king, round_vm_id, round_alive>>
round == <<turn, on_koth, koth_score, king, round_vm_id, round_alive>>

Creature ==
  [player : Players \cup {NoPlayer}, vm_id : Nat, type : Types, x : Positions,
   health : Int, food : Int, path : Positions \cup {NoPath}, target_id : Nat,
   state : States, convert_food : Int, convert_type : Types, spawn_food : Int,
   suicide : BOOLEAN, age : Nat]

TypeOK ==
  /\ creature \in [Slots -> Creature]
  /\ next_free_vm_id \in Nat
  /\ plain \in SUBSET Tiles
  /\ tile_food \in [Tiles -> 0 .. MAX_TILE_FOOD]
  /\ doomed \in SUBSET Slots
  /\ turn \in Thinking .. MAXCREATURES
  /\ on_koth \in Slots \cup {NoSlot}
  /\ koth_score \in BOOLEAN
  /\ king \in Players \cup {NoPlayer}
  /\ round_vm_id \in Nat
  /\ round_alive \in SUBSET Slots

--------------------------------------------------------------------------------
(***************************************************************************)
(* Creatures and the world                                                 *)
(***************************************************************************)
Used(s)        == creature[s].player # NoPlayer
UsedSlots      == {s \in Slots : Used(s)}
With(id)       == {s \in UsedSlots : creature[s].vm_id = id}
Tile(x)        == x \div TileSize
Dist(a, b)     == IF a > b THEN a - b ELSE b - a
Least(a, b)    == IF a < b THEN a ELSE b
PerRound(rate) == (rate * Delta) \div 1000
Ground(c)      == c.type # "FLYER"

world_walkable(x) == Tile(x) \in plain
within_border(x)  == Tile(x) \in 1 .. WorldWidth - 2
FoodOn(x)         == tile_food[Tile(x)]
\* A ground path along the row needs every tile on the way dug.
PathExists(x, y) ==
  \A t \in Tiles :
    (Tile(x) <= t /\ t <= Tile(y)) \/ (Tile(y) <= t /\ t <= Tile(x)) => t \in plain

\* Mutant of add_food: a tile holds any amount.
UncappedFood(t, amount) ==
  IF t \in plain THEN [tile_food EXCEPT ![t] = @ + amount] ELSE tile_food

\* world_add_food: only plain tiles hold food, and no more than MAX_TILE_FOOD.
add_food(t, amount) ==
  IF t \in plain THEN [tile_food EXCEPT ![t] = Least(@ + amount, MAX_TILE_FOOD)]
                 ELSE tile_food

\* Mutant of food_left: what is eaten stays on the tile.
FoodRegrows(t, amount) == tile_food

\* world_food_eat takes what is eaten from the tile.
food_left(t, amount) == [tile_food EXCEPT ![t] = @ - amount]

\* The limit is what one byte of the network protocol can say.
SpeedLimit         == 250 * 4
creature_speed(c)  ==
  Least(base_speed[c.type] + (health_speed[c.type] * c.health) \div max_health[c.type], SpeedLimit)
conversion_food(c) == conversion_food_needed[c.type][c.convert_type]

\* A free slot; nothing but its player is read until it is reused.
Nobody ==
  [player |-> NoPlayer, vm_id |-> 0, type |-> "SMALL", x |-> 0, health |-> 0,
   food |-> 0, path |-> NoPath, target_id |-> 0, state |-> "IDLE",
   convert_food |-> 0, convert_type |-> "SMALL", spawn_food |-> 0,
   suicide |-> FALSE, age |-> 0]

\* What creature_spawn makes of a slot; the target is the creature itself.
NewCreature(p, id, type, x, food) ==
  [player |-> p, vm_id |-> id, type |-> type, x |-> x, health |-> max_health[type],
   food |-> food, path |-> NoPath, target_id |-> id, state |-> "IDLE",
   convert_food |-> 0, convert_type |-> type, spawn_food |-> 0,
   suicide |-> FALSE, age |-> 0]

(***************************************************************************)
(* creature_set_state                                                      *)
(***************************************************************************)
can_heal(c) == c.health < max_health[c.type] /\ c.food > 0
can_eat(c) == FoodOn(c.x) > 0 /\ c.food < max_food[c.type]
can_convert(c) == conversion_food(c) # 0 /\ world_walkable(c.x)
can_spawn(c) == spawn_type[c.type] \in Types /\ c.health > spawn_health[c.type]
can_feed(c) == feed_distance[c.type] > 0 /\ c.food > 0

CanEnter(c, state) ==
  /\ state = "WALK" => c.path # NoPath /\ creature_speed(c) > 0
  /\ state = "HEAL" => can_heal(c)
  /\ state = "EAT" => can_eat(c)
  /\ state = "CONVERT" => can_convert(c)
  /\ state = "SPAWN" => can_spawn(c)
  /\ state = "FEED" => can_feed(c)

\* Mutant of Enter: invested food is kept.
EnterKeeping(c, state) ==
  [c EXCEPT !.health = IF state = "SPAWN" THEN @ - spawn_health[c.type] ELSE @, !.state = state]

\* Spawning costs health at once; food invested in the old state is lost.
Enter(c, state) ==
  [c EXCEPT !.health = IF state = "SPAWN" THEN @ - spawn_health[c.type] ELSE @,
            !.convert_food = IF c.state = "CONVERT" THEN 0 ELSE @,
            !.spawn_food = IF c.state = "SPAWN" THEN 0 ELSE @,
            !.state = state]

set_state(c, state) ==
  IF state # c.state /\ CanEnter(c, state) THEN Enter(c, state) ELSE c

\* creature_set_type clamps what the new type cannot hold; path and target stay.
set_type(c, type) ==
  IF type = c.type THEN c
  ELSE [c EXCEPT !.type = type, !.convert_type = type,
                 !.health = Least(@, max_health[type]),
                 !.food = Least(@, max_food[type])]

--------------------------------------------------------------------------------
(***************************************************************************)
(* creature_spawn for a small creature: it takes the lowest free slot of   *)
(* the table cr; the call fails without a slot or on a tile nobody can     *)
(* walk on.                                                                *)
(***************************************************************************)
FreeSlots(cr) == {s \in Slots : cr[s].player = NoPlayer}
FirstFree(cr) == CHOOSE s \in FreeSlots(cr) : \A t \in FreeSlots(cr) : s <= t

CanSpawn(cr, x) == FreeSlots(cr) # {} /\ world_walkable(x) /\ max_health["SMALL"] # 0

WithSpawned(cr, p, id, x, food) ==
  [cr EXCEPT ![FirstFree(cr)] = NewCreature(p, id, "SMALL", x, food)]

(***************************************************************************)
(* Commands of the players' programs, between rounds                       *)
(***************************************************************************)
Idle == turn = Thinking /\ doomed = {}

Command(s, kind) ==
  /\ Idle
  /\ kind \in Enabled
  /\ Used(s)
  /\ "blocking" \in Enabled => creature[s].state = "IDLE"

\* The call succeeds and changes the record of the creature in slot s.
Becomes(s, c) ==
  /\ creature' = [creature EXCEPT ![s] = c]
  /\ UNCHANGED <<next_free_vm_id, plain, tile_food, doomed, round>>

\* set_state.  Bound: a model starts no more births than it has ids for.
CmdSetState(s, state) ==
  /\ Command(s, "set_state")
  /\ state = "SPAWN" =>
       next_free_vm_id + Cardinality({t \in UsedSlots : creature[t].state = "SPAWN"}) <= MaxVmId
  /\ Becomes(s, set_state(creature[s], state))

\* Mutant of CanReach: ground creatures go wherever flyers go.
CanFlyTo(c, x) == within_border(x)

\* Ground creatures need a path, flyers only the border.
CanReach(c, x) ==
  IF Ground(c) THEN world_walkable(x) /\ PathExists(c.x, x) ELSE within_border(x)

\* set_path
CmdSetPath(s, x) ==
  /\ Command(s, "set_path")
  /\ CanReach(creature[s], x)
  /\ Becomes(s, [creature[s] EXCEPT !.path = x])

\* set_target: any other living creature, friend or enemy.
CmdSetTarget(s, id) ==
  /\ Command(s, "set_target")
  /\ id # creature[s].vm_id
  /\ With(id) # {}
  /\ Becomes(s, [creature[s] EXCEPT !.target_id = id])

\* set_convert: food invested in another type is lost.
CmdSetConvert(s, type) ==
  /\ Command(s, "set_convert")
  /\ conversion_food_needed[creature[s].type][type] # 0
  /\ max_health[type] # 0
  /\ Becomes(s, [creature[s] EXCEPT
                   !.convert_food = IF creature[s].convert_type = type THEN @ ELSE 0,
                   !.convert_type = type])

CmdSuicide(s) ==
  /\ Command(s, "suicide")
  /\ Becomes(s, [creature[s] EXCEPT !.suicide = TRUE])

(***************************************************************************)
(* The world, the rules and the server, between rounds                     *)
(***************************************************************************)
\* world_tick: the level puts food on a tile.
TickFood(t, amount) ==
  /\ Idle
  /\ "food" \in Enabled
  /\ tile_food' = add_food(t, amount)
  /\ UNCHANGED <<creature, next_free_vm_id, plain, doomed, round>>

\* world_set_type: a tile inside the border is dug; nothing fills it again.
Dig(t) ==
  /\ Idle
  /\ "dig" \in Enabled
  /\ t \in 1 .. WorldWidth - 2
  /\ plain' = plain \cup {t}
  /\ UNCHANGED <<creature, next_free_vm_id, tile_food, doomed, round>>

\* onPlayerCreated, onPlayerAllCreaturesDead: the rules give two small creatures
\* to a player that has none.
Respawn(p, x, y) ==
  /\ Idle
  /\ "respawn" \in Enabled
  /\ \A s \in Slots : creature[s].player # p
  /\ next_free_vm_id + 1 <= MaxVmId                               \* bound
  /\ CanSpawn(creature, x)
  /\ LET id    == next_free_vm_id
         first == WithSpawned(creature, p, id, x, 0)
     IN  IF CanSpawn(first, y)
         THEN /\ creature' = WithSpawned(first, p, id + 1, y, 0)
              /\ next_free_vm_id' = id + 2
         ELSE /\ creature' = first
              /\ next_free_vm_id' = id + 1
  /\ UNCHANGED <<plain, tile_food, doomed, round>>

\* player_destroy: the player's creatures are killed, slot by slot.  king_player
\* stays what it is.
DestroyPlayer(p) ==
  /\ Idle
  /\ "destroy" \in Enabled
  /\ doomed' = {s \in Slots : creature[s].player = p}
  /\ UNCHANGED <<creature, next_free_vm_id, plain, tile_food, round>>

(***************************************************************************)
(* creature_kill.  The rules leave the victim's food on its tile, a third  *)
(* of it when there is no killer.                                          *)
(***************************************************************************)
Remains(c, killed) == IF killed THEN c.food ELSE c.food \div 3

KillDoomed(s) ==
  /\ s \in doomed
  /\ \A t \in doomed : s <= t
  /\ creature' = [creature EXCEPT ![s] = Nobody]
  /\ tile_food' = add_food(Tile(creature[s].x), Remains(creature[s], FALSE))
  /\ doomed' = doomed \ {s}
  /\ UNCHANGED <<next_free_vm_id, plain, round>>

--------------------------------------------------------------------------------
(***************************************************************************)
(* creature_moveall: what the creature c of slot s does in its state.      *)
(***************************************************************************)
\* creature_do_walk_path: at least one position per round, no more than to the
\* end of the path, and there the walk ends.
Walked(c) ==
  LET travelled == IF PerRound(creature_speed(c)) = 0 THEN 1 ELSE PerRound(creature_speed(c))
  IN IF c.path = NoPath THEN set_state(c, "IDLE")
     ELSE IF travelled >= Dist(c.path, c.x)
     THEN set_state([c EXCEPT !.x = c.path, !.path = NoPath], "IDLE")
     ELSE [c EXCEPT !.x = IF c.path > c.x THEN @ + travelled ELSE @ - travelled]

\* Mutant of HealingDone: goes on without food.
Healthy(c) == c.health = max_health[c.type]

\* Healing is done when the creature is healthy or out of food.
HealingDone(c) == c.health = max_health[c.type] \/ c.food = 0

\* creature_do_heal turns food into health.
Healed(c) ==
  LET heal   == Least(PerRound(heal_rate[c.type]), Least(max_health[c.type] - c.health, c.food))
      healed == [c EXCEPT !.health = @ + heal, !.food = @ - heal]
  IN IF HealingDone(healed) THEN set_state(healed, "IDLE") ELSE healed

\* creature_do_convert: food is invested until the new type is paid for.
Converted(c) ==
  LET used     == Least(PerRound(conversion_speed[c.type]),
                        Least(conversion_food(c) - c.convert_food, c.food))
      investor == IF used = 0 THEN set_state(c, "IDLE") ELSE c
      invested == [investor EXCEPT !.convert_food = @ + used, !.food = @ - used]
  IN IF invested.convert_food = conversion_food(invested)
     THEN set_state(set_type(invested, invested.convert_type), "IDLE")
     ELSE invested

ActAlone(s, c) ==
  /\ c.state \in {"IDLE", "WALK", "HEAL", "CONVERT"}
  /\ creature' = [creature EXCEPT ![s] =
       CASE c.state = "IDLE"    -> c
         [] c.state = "WALK"    -> Walked(c)
         [] c.state = "HEAL"    -> Healed(c)
         [] c.state = "CONVERT" -> Converted(c)]
  /\ UNCHANGED <<next_free_vm_id, tile_food>>

\* creature_do_eat: done when the tile or the stomach has nothing left to give.
ActEat(s, c) ==
  LET eaten == Least(Least(PerRound(eat_rate[c.type]), max_food[c.type] - c.food),
                     IF world_walkable(c.x) THEN FoodOn(c.x) ELSE 0)
      fed   == [c EXCEPT !.food = @ + eaten]
  IN /\ c.state = "EAT"
     /\ creature' = [creature EXCEPT ![s] = IF eaten = 0 THEN set_state(fed, "IDLE") ELSE fed]
     /\ tile_food' = food_left(Tile(c.x), eaten)
     /\ UNCHANGED next_free_vm_id

\* Mutant of CanHit: friends are hit as well.
CanHitAnybody(c, t) ==
  /\ PerRound(hitpoints[c.type][creature[t].type]) # 0
  /\ Dist(c.x, creature[t].x) <= attack_distance[c.type][creature[t].type]

\* creature_do_attack: the target is looked up by id in every round; it may have
\* died, belong to a friend, or be out of reach.
CanHit(c, t) ==
  /\ creature[t].player # c.player
  /\ PerRound(hitpoints[c.type][creature[t].type]) # 0
  /\ Dist(c.x, creature[t].x) <= attack_distance[c.type][creature[t].type]

ActAttack(s, c) ==
  LET targets == {t \in With(c.target_id) : CanHit(c, t)}
      Hit(t)  == PerRound(hitpoints[c.type][creature[t].type])
  IN /\ c.state = "ATTACK"
     /\ \/ /\ targets = {}
           /\ creature' = [creature EXCEPT ![s] = set_state(c, "IDLE")]
           /\ UNCHANGED tile_food
        \/ \E t \in targets :
             /\ creature[t].health > Hit(t)
             /\ creature' = [creature EXCEPT ![s] = c, ![t].health = @ - Hit(t)]
             /\ UNCHANGED tile_food
        \/ \E t \in targets :
             /\ creature[t].health <= Hit(t)
             /\ creature' = [creature EXCEPT ![t] = Nobody, ![s] = set_state(c, "IDLE")]
             /\ tile_food' = add_food(Tile(creature[t].x), Remains(creature[t], TRUE))
     /\ UNCHANGED next_free_vm_id

\* creature_do_spawn: when the birth is paid for, the baby is born where its
\* parent stands; a birth that fails loses the food.
ActSpawn(s, c) ==
  LET used     == Least(PerRound(spawn_speed[c.type]),
                        Least(spawn_food[c.type] - c.spawn_food, c.food))
      investor == IF used = 0 THEN set_state(c, "IDLE") ELSE c
      parent   == [investor EXCEPT !.spawn_food = @ + used, !.food = @ - used]
      gift     == IF BabyFood <= max_food["SMALL"] THEN BabyFood ELSE 0
      table    == [creature EXCEPT ![s] = set_state(parent, "IDLE")]
  IN /\ c.state = "SPAWN"
     /\ \/ /\ parent.spawn_food # spawn_food[c.type]
           /\ creature' = [creature EXCEPT ![s] = parent]
           /\ UNCHANGED next_free_vm_id
        \/ /\ parent.spawn_food = spawn_food[c.type]
           /\ CanSpawn(creature, c.x)
           /\ creature' = WithSpawned(table, c.player, next_free_vm_id, c.x, gift)
           /\ next_free_vm_id' = next_free_vm_id + 1
        \/ /\ parent.spawn_food = spawn_food[c.type]
           /\ ~ CanSpawn(creature, c.x)
           /\ creature' = table
           /\ UNCHANGED next_free_vm_id
     /\ UNCHANGED tile_food

\* Mutant of Room: forgets what the target carries already.
EmptyRoom(t) == max_food[creature[t].type]

\* Room(t): what the creature in slot t can still hold.
Room(t) == max_food[creature[t].type] - creature[t].food

\* No more than the giver has and the target can hold.
Gift(c, t) == Least(PerRound(feed_speed[c.type]), Least(c.food, Room(t)))

\* Mutant of Giver: the giver keeps what it gives.
GiverKeeps(c, gift) == c

\* The giver without its gift.
Giver(c, gift) == [c EXCEPT !.food = @ - gift]

\* creature_do_feed: done when the giver is empty, the target full or gone.
ActFeed(s, c) ==
  LET targets == {t \in With(c.target_id) :
                    Dist(c.x, creature[t].x) <= feed_distance[c.type]}
      Done(t) == Gift(c, t) \in {0, c.food, Room(t)}
      giver(t) == Giver(c, Gift(c, t))
      given(t) == [creature EXCEPT
                     ![s] = IF Done(t) THEN set_state(giver(t), "IDLE") ELSE giver(t)]
  IN /\ c.state = "FEED"
     /\ \/ /\ targets = {}
           /\ creature' = [creature EXCEPT ![s] = set_state(c, "IDLE")]
        \/ \E t \in targets :
             creature' = [given(t) EXCEPT ![t].food = @ + Gift(c, t)]
     /\ UNCHANGED <<next_free_vm_id, tile_food>>

--------------------------------------------------------------------------------
(***************************************************************************)
(* creature_moveall: the rounds                                            *)
(***************************************************************************)
StartRound ==
  /\ Idle
  /\ turn' = 0
  /\ round_vm_id' = next_free_vm_id
  /\ round_alive' = UsedSlots
  /\ UNCHANGED <<creature, next_free_vm_id, plain, tile_food, doomed, on_koth, koth_score, king>>

\* The turn passes to the next slot.  Nothing but the two locals of the hill
\* watches what happened.
Pass ==
  /\ turn' = turn + 1
  /\ UNCHANGED <<plain, doomed, king, round_vm_id, round_alive>>

\* The creature has grown older by the round; it loses health every 100 ms.
Aged(c) ==
  [c EXCEPT !.age = (c.age + Delta) % 100,
            !.health = @ - aging[c.type] * ((c.age + Delta) \div 100)]

SkipFree(s) ==
  /\ ~ Used(s)
  /\ Pass
  /\ UNCHANGED <<creature, next_free_vm_id, tile_food, on_koth, koth_score>>

\* Suicide has the creature itself as killer; age has no killer.
Die(s) ==
  /\ Used(s)
  /\ creature[s].suicide \/ Aged(creature[s]).health <= 0
  /\ creature' = [creature EXCEPT ![s] = Nobody]
  /\ tile_food' = add_food(Tile(creature[s].x), Remains(creature[s], creature[s].suicide))
  /\ Pass
  /\ UNCHANGED <<next_free_vm_id, on_koth, koth_score>>

\* An idle creature on the hill meets the one the pointer remembers.
OnHill(c) == c.state = "IDLE" /\ Tile(c.x) = KothTile

\* Mutant of LookAtHill: does not look whom it meets.
LookPastRivals(s) ==
  /\ on_koth' = IF OnHill(creature'[s]) THEN s ELSE on_koth
  /\ UNCHANGED koth_score

LookAtHill(s) ==
  IF OnHill(creature'[s])
  THEN /\ on_koth' = s
       /\ koth_score' = /\ koth_score
                        /\ on_koth # NoSlot => creature'[on_koth].player = creature'[s].player
  ELSE UNCHANGED <<on_koth, koth_score>>

Act(s) ==
  LET c == Aged(creature[s]) IN
  /\ Used(s)
  /\ ~ c.suicide
  /\ c.health > 0
  /\ \/ ActAlone(s, c)
     \/ ActEat(s, c)
     \/ ActAttack(s, c)
     \/ ActSpawn(s, c)
     \/ ActFeed(s, c)
  /\ LookAtHill(s)
  /\ Pass

Move(s) == turn = s /\ (SkipFree(s) \/ Die(s) \/ Act(s))

\* Is there a king?  The pointer is used if the slot it points to is.
Crowned ==
  IF koth_score /\ on_koth # NoSlot /\ Used(on_koth) THEN creature[on_koth].player ELSE NoPlayer

EndRound ==
  /\ turn = MAXCREATURES
  /\ turn' = Thinking
  /\ king' = Crowned
  /\ on_koth' = NoSlot
  /\ koth_score' = TRUE
  /\ round_vm_id' = 0
  /\ round_alive' = {}
  /\ UNCHANGED <<creature, next_free_vm_id, plain, tile_food, doomed>>

--------------------------------------------------------------------------------
\* A model begins between two rounds with creatures that were spawned and have had
\* their first meals.
Init ==
  /\ creature = [s \in Slots |->
       IF Population[s] = NoStart THEN Nobody
       ELSE NewCreature(Population[s].player, s, Population[s].type,
                        Population[s].x, Population[s].food)]
  /\ next_free_vm_id = Cardinality({s \in Slots : Population[s] # NoStart})
  /\ plain = PlainAtStart
  /\ tile_food = TileFoodAtStart
  /\ doomed = {}
  /\ turn = Thinking
  /\ on_koth = NoSlot
  /\ koth_score = TRUE
  /\ king = NoPlayer
  /\ round_vm_id = 0
  /\ round_alive = {}

Commands ==
  \E s \in Slots :
    \/ \E state \in Requests : CmdSetState(s, state)
    \/ \E x \in Goals : CmdSetPath(s, x)
    \/ \E id \in 0 .. MaxVmId : CmdSetTarget(s, id)
    \/ \E type \in Conversions : CmdSetConvert(s, type)
    \/ CmdSuicide(s)

Surroundings ==
  \/ \E t \in Tiles, amount \in Drops : TickFood(t, amount)
  \/ \E t \in Tiles : Dig(t)
  \/ \E p \in Players, x, y \in Goals : Respawn(p, x, y)
  \/ \E p \in Players : DestroyPlayer(p)

\* What the game loop does by itself, whatever the programs do.
Engine ==
  \/ \E s \in Slots : KillDoomed(s)
  \/ StartRound
  \/ \E s \in Slots : Move(s)
  \/ EndRound

Next == Commands \/ Surroundings \/ Engine

Spec == Init /\ [][Next]_vars

\* The game loop always goes on: a program's cycles are limited, so its turn ends.
FairSpec == Spec /\ WF_vars(Engine)

--------------------------------------------------------------------------------
(***************************************************************************)
(* Properties                                                              *)
(***************************************************************************)

\* Every living creature has health, and no more health and food than its type
\* holds: through spawning costs, hits, gifts, gains and changes of type.
Bounds ==
  \A s \in UsedSlots :
    /\ creature[s].health \in 1 .. max_health[creature[s].type]
    /\ creature[s].food \in 0 .. max_food[creature[s].type]

\* Invested food belongs to a conversion or a birth under way and never pays for
\* more than it; a creature that converts stands where it may.
Invested ==
  \A s \in UsedSlots :
    LET c == creature[s] IN
    /\ c.convert_food # 0 => c.state = "CONVERT"
    /\ c.spawn_food # 0 => c.state = "SPAWN" /\ c.spawn_food < spawn_food[c.type]
    /\ c.convert_food >= 0 /\ c.spawn_food >= 0
    /\ c.state = "CONVERT" => c.convert_food < conversion_food(c) /\ world_walkable(c.x)

\* f[0] + ... + f[n - 1]
Total(f, n) ==
  LET sum[k \in 0 .. n] == IF k = 0 THEN 0 ELSE sum[k - 1] + f[k - 1] IN sum[n]

\* All the food there is: on tiles, in creatures, invested.
Carried(c) == c.food + c.convert_food + c.spawn_food
TotalFood  ==
  Total(tile_food, WorldWidth) + Total([s \in Slots |-> Carried(creature[s])], MAXCREATURES)

\* Whatever creatures do or suffer, food is moved or lost, never made, except
\* for the rules' gift to a new born creature.
FoodConserved ==
  [][creature' = creature
       \/ TotalFood' <= TotalFood + BabyFood * (next_free_vm_id' - next_free_vm_id)]_vars

\* A creature's turn never harms another creature of its player, whatever its
\* target id has come to mean.
NoFriendlyFire ==
  [][\A s, t \in Slots :
       turn = s /\ s # t /\ Used(t) /\ creature[t].player = creature[s].player =>
         /\ creature'[t].player = creature[t].player
         /\ creature'[t].vm_id = creature[t].vm_id
         /\ creature'[t].health >= creature[t].health
         /\ creature'[t].food >= creature[t].food]_vars

\* Who holds the hill with an idle creature.
Holders == {creature[s].player : s \in {t \in UsedSlots : OnHill(creature[t])}}

\* In a round without a birth only a player who alone holds the hill becomes
\* king; and if nobody died in it either, that player does.
HillRule ==
  [][EndRound /\ next_free_vm_id = round_vm_id =>
       /\ king' # NoPlayer => Holders = {king'}
       /\ UsedSlots = round_alive => \A p \in Players : Holders = {p} => king' = p]_vars

\* The same for every round: the king has an idle creature on the hill when the
\* round ends (creature.c:755 thinks of the one that was killed in the round).
KingHoldsHill == [][EndRound /\ king' # NoPlayer => king' \in Holders]_vars

\* A ground creature on its way stands on a plain tile (asserted at creature.c:222).
GroundWalksOnPlain ==
  \A s \in UsedSlots :
    Ground(creature[s]) /\ creature[s].state = "WALK" => world_walkable(creature[s].x)

\* Whatever a creature is busy with ends, so a program that waits for it goes on.
BusyEnds ==
  \A s \in Slots : \A state \in Requests \ {"IDLE"} :
    creature[s].state = state ~> creature[s].state # state
================================================================================
