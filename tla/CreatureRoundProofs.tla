-------------------------- MODULE CreatureRoundProofs --------------------------
(***************************************************************************)
(* The life of creatures for every table of rates and limits, every world  *)
(* and every number of players and slots.                                  *)
(*                                                                         *)
(* The argument is local to a creature: Sound says of one record that it   *)
(* is well typed, within its limits and owes no invested food.  Every      *)
(* helper of CreatureRound maps sound creatures to sound ones, and every   *)
(* action changes records only by those helpers.                           *)
(*                                                                         *)
(* What one creature does to another is local to a turn: lemmas on the     *)
(* others say whom an action or a walk may change.  Who becomes king is a  *)
(* matter of the whole round: Watched remembers the creatures that had     *)
(* their turn on the hill and who stands for them.                         *)
(*                                                                         *)
(* Food is an account: lemmas on sums say what one changed slot or tile    *)
(* does to the whole, and every helper is shown to give no more than it    *)
(* takes.  Paths are local again: Heading says that what is left of a      *)
(* ground creature's path is dug.                                          *)
(***************************************************************************)
EXTENDS CreatureRound, FiniteSetTheorems, WellFoundedInduction, TLAPS

\* Within the limits of its type.
Fits(c) ==
  /\ c.health \in 1 .. max_health[c.type]
  /\ c.food \in 0 .. max_food[c.type]

\* The food it invested belongs to what it is doing; Whole allows what is invested
\* to have just reached the price, Sound does not.  A creature is sound on a set of
\* dug tiles, because a conversion needs one.
Whole(c) ==
  /\ c \in Creature
  /\ Fits(c)
  /\ c.convert_food >= 0 /\ c.spawn_food >= 0
  /\ c.convert_food # 0 => c.state = "CONVERT"
  /\ c.spawn_food # 0 => c.state = "SPAWN"

SoundOn(c, dug) ==
  /\ Whole(c)
  /\ c.state = "CONVERT" => c.convert_food < conversion_food(c) /\ Tile(c.x) \in dug
  /\ c.spawn_food # 0 => c.spawn_food < spawn_food[c.type]

Sound(c) == SoundOn(c, plain)

\* A table of slots in which every used slot holds a sound creature.
Fine(cr, dug) ==
  /\ cr \in [Slots -> Creature]
  /\ \A s \in Slots : cr[s].player # NoPlayer => SoundOn(cr[s], dug)

Ind == TypeOK /\ Fine(creature, plain)

--------------------------------------------------------------------------------
(***************************************************************************)
(* Numbers                                                                 *)
(***************************************************************************)

\* A rate of a table moves a whole number of units in a round.
LEMMA PerRoundNat == ASSUME NEW rate \in Nat PROVE PerRound(rate) \in Nat
<1>1. rate * Delta \in Nat
  BY WorldAssumption
<1> QED
  BY <1>1 DEF PerRound

LEMMA LeastOf ==
  ASSUME NEW a \in Int, NEW b \in Int
  PROVE  Least(a, b) \in {a, b} /\ Least(a, b) <= a /\ Least(a, b) <= b
  BY DEF Least

\* The row of positions is an interval from 0.
LEMMA PositionsOf == \E m \in Nat : Positions = 0 .. m /\ m = WorldWidth * TileSize - 1
<1>1. WorldWidth * TileSize \in Nat /\ WorldWidth * TileSize >= 1
  BY WorldAssumption
<1> QED
  BY <1>1 DEF Positions

\* The entries of the tables, type by type.
LEMMA TableTypes ==
  ASSUME NEW t \in Types
  PROVE  /\ max_health[t] \in Nat /\ max_health[t] > 0 /\ max_food[t] \in Nat
         /\ aging[t] \in Nat /\ base_speed[t] \in Nat /\ health_speed[t] \in Nat
         /\ heal_rate[t] \in Nat /\ eat_rate[t] \in Nat /\ conversion_speed[t] \in Nat
         /\ spawn_food[t] \in Nat /\ spawn_speed[t] \in Nat /\ spawn_health[t] \in Nat
         /\ feed_distance[t] \in Nat /\ feed_speed[t] \in Nat
         /\ \A u \in Types : hitpoints[t][u] \in Nat /\ conversion_food_needed[t][u] \in Nat
  BY TableAssumption

--------------------------------------------------------------------------------
(***************************************************************************)
(* What the helpers make of a creature                                     *)
(***************************************************************************)

\* What entering a state changes, field by field.
LEMMA EnterFields ==
  ASSUME NEW c \in Creature, NEW state \in States
  PROVE  /\ Enter(c, state) \in Creature
         /\ Enter(c, state).player = c.player
         /\ Enter(c, state).type = c.type
         /\ Enter(c, state).x = c.x
         /\ Enter(c, state).convert_type = c.convert_type
         /\ Enter(c, state).food = c.food
         /\ Enter(c, state).health =
              IF state = "SPAWN" THEN c.health - spawn_health[c.type] ELSE c.health
         /\ Enter(c, state).convert_food = IF c.state = "CONVERT" THEN 0 ELSE c.convert_food
         /\ Enter(c, state).spawn_food = IF c.state = "SPAWN" THEN 0 ELSE c.spawn_food
         /\ Enter(c, state).state = state
<1>1. c.type \in Types
  BY DEF Creature
<1>2. (IF state = "SPAWN" THEN c.health - spawn_health[c.type] ELSE c.health) \in Int
  BY <1>1, TableTypes DEF Creature
<1>3. (IF c.state = "CONVERT" THEN 0 ELSE c.convert_food) \in Int
  BY DEF Creature
<1>4. (IF c.state = "SPAWN" THEN 0 ELSE c.spawn_food) \in Int
  BY DEF Creature
<1>5. Enter(c, state) \in Creature
  BY <1>2, <1>3, <1>4 DEF Enter, Creature
<1> QED
  BY <1>5 DEF Enter, Creature

\* A creature that turns idle forgets what it invested.
LEMMA IdleSound ==
  ASSUME NEW c, Whole(c)
  PROVE  /\ Sound(set_state(c, "IDLE"))
         /\ set_state(c, "IDLE").player = c.player
         /\ set_state(c, "IDLE").type = c.type
         /\ set_state(c, "IDLE").food = c.food
         /\ set_state(c, "IDLE").state = "IDLE"
         /\ set_state(c, "IDLE").convert_food = 0
         /\ set_state(c, "IDLE").spawn_food = 0
<1>1. c \in Creature /\ "IDLE" \in States
  BY DEF Whole, States
<1>2. CASE c.state = "IDLE"
  BY <1>2 DEF set_state, Sound, SoundOn, Whole
<1>3. CASE c.state # "IDLE"
  <2>1. set_state(c, "IDLE") = Enter(c, "IDLE")
    BY <1>3 DEF set_state, CanEnter
  <2>2. Sound(Enter(c, "IDLE"))
    BY <1>1, EnterFields DEF Sound, SoundOn, Whole, Fits
  <2> QED
    BY <1>1, <2>1, <2>2, EnterFields DEF Whole
<1> QED
  BY <1>2, <1>3

\* Whatever state is asked for, and whether it is granted or not.
LEMMA StateSound ==
  ASSUME NEW c, Sound(c), NEW state \in States
  PROVE  Sound(set_state(c, state)) /\ set_state(c, state).player = c.player
<1>1. c \in Creature /\ c.type \in Types /\ c.convert_type \in Types
  BY DEF Sound, SoundOn, Whole, Creature
<1>2. CASE state # c.state /\ CanEnter(c, state)
  <2>1. state = "SPAWN" => c.health > spawn_health[c.type]
    BY <1>2 DEF CanEnter, can_spawn
  <2>2. state = "CONVERT" => conversion_food(c) > 0 /\ world_walkable(c.x)
    BY <1>1, <1>2, TableTypes DEF CanEnter, can_convert, conversion_food
  <2>3. Fits(Enter(c, state))
    BY <1>1, <2>1, EnterFields, TableTypes DEF Sound, SoundOn, Whole, Fits, Creature
  <2>4. Whole(Enter(c, state))
    BY <1>1, <2>3, EnterFields DEF Sound, SoundOn, Whole
  <2>5. Sound(Enter(c, state))
    BY <1>1, <1>2, <2>1, <2>2, <2>4, EnterFields
       DEF Sound, SoundOn, Whole, conversion_food, world_walkable
  <2> QED
    BY <1>1, <1>2, <2>5, EnterFields DEF set_state
<1>3. CASE ~ (state # c.state /\ CanEnter(c, state))
  BY <1>3 DEF set_state
<1> QED
  BY <1>2, <1>3

\* A change of type keeps the creature within the limits of the new type.
LEMMA TypeWhole ==
  ASSUME NEW c, Whole(c), NEW type \in Types
  PROVE  Whole(set_type(c, type)) /\ set_type(c, type).player = c.player
<1> DEFINE h == Least(c.health, max_health[type])
           f == Least(c.food, max_food[type])
           d == [c EXCEPT !.type = type, !.convert_type = type, !.health = h, !.food = f]
<1>1. c \in Creature /\ c.type \in Types /\ c.health \in Int /\ c.food \in Int
  BY DEF Whole, Creature
<1>2. h \in 1 .. max_health[type] /\ f \in 0 .. max_food[type]
  BY <1>1, TableTypes DEF Whole, Fits, Least
<1>3. d \in Creature /\ h \in Int /\ f \in Int
  <2>1. h \in Int /\ f \in Int
    BY <1>2
  <2> HIDE DEF h, f
  <2> QED
    BY <1>1, <2>1 DEF Creature
<1>4. /\ d.player = c.player /\ d.type = type /\ d.health = h /\ d.food = f
      /\ d.convert_food = c.convert_food /\ d.spawn_food = c.spawn_food /\ d.state = c.state
  BY <1>1 DEF Creature
<1>5. Whole(d)
  <2> HIDE DEF d, h, f
  <2> QED
    BY <1>2, <1>3, <1>4 DEF Whole, Fits
<1> QED
  BY <1>4, <1>5 DEF set_type

\* Age takes health, and a creature whose health it does not exhaust stays sound.
LEMMA AgedSound ==
  ASSUME NEW c, Sound(c), Aged(c).health > 0
  PROVE  Sound(Aged(c)) /\ Aged(c).player = c.player /\ Aged(c).state = c.state
<1> DEFINE a == (c.age + Delta) % 100
           k == aging[c.type] * ((c.age + Delta) \div 100)
<1>1. c \in Creature /\ c.type \in Types /\ c.health \in Int
  BY DEF Sound, SoundOn, Whole, Creature
<1>2. a \in Nat /\ (c.age + Delta) \div 100 \in Nat
  <2>1. c.age + Delta \in Nat
    BY WorldAssumption DEF Sound, SoundOn, Whole, Creature
  <2> QED
    BY <2>1
<1>3. k \in Nat
  BY <1>1, <1>2, TableTypes
<1>4. Aged(c) = [c EXCEPT !.age = a, !.health = c.health - k]
  BY <1>1 DEF Aged, Creature
<1> HIDE DEF a, k
<1>5. /\ Aged(c) \in Creature
      /\ Aged(c).health = c.health - k
      /\ Aged(c).player = c.player /\ Aged(c).type = c.type /\ Aged(c).x = c.x
      /\ Aged(c).food = c.food /\ Aged(c).state = c.state
      /\ Aged(c).convert_type = c.convert_type
      /\ Aged(c).convert_food = c.convert_food /\ Aged(c).spawn_food = c.spawn_food
  <2>1. c.health - k \in Int
    BY <1>1, <1>3
  <2> HIDE <1>3
  <2> QED
    BY <1>1, <1>2, <1>4, <2>1 DEF Creature
<1>6. Fits(Aged(c))
  BY <1>1, <1>3, <1>5, TableTypes DEF Sound, SoundOn, Whole, Fits
<1> QED
  BY <1>5, <1>6 DEF Sound, SoundOn, Whole, conversion_food

\* A walking creature goes no further than its goal, wherever that is.
LEMMA WalkedSound ==
  ASSUME NEW c, Sound(c), c.state = "WALK"
  PROVE  Sound(Walked(c)) /\ Walked(c).player = c.player
<1> DEFINE n == IF PerRound(creature_speed(c)) = 0 THEN 1 ELSE PerRound(creature_speed(c))
<1>1. c \in Creature /\ c.type \in Types /\ c.x \in Positions /\ Whole(c)
  BY DEF Sound, SoundOn, Whole, Creature
<1>2. n \in Nat
  <2>1. c.health \in Nat
    BY <1>1 DEF Whole, Fits
  <2>2. health_speed[c.type] * c.health \in Nat
    BY <1>1, <2>1, TableTypes
  <2>3. (health_speed[c.type] * c.health) \div max_health[c.type] \in Nat
    BY <1>1, <2>2, TableTypes
  <2>4. creature_speed(c) \in Nat
    BY <1>1, <2>3, TableTypes DEF creature_speed, Least, SpeedLimit
  <2> QED
    BY <2>4, PerRoundNat
<1>3. CASE c.path = NoPath
  BY <1>1, <1>3, IdleSound DEF Walked
<1>4. CASE c.path # NoPath /\ n >= Dist(c.path, c.x)
  <2> DEFINE d == [c EXCEPT !.x = c.path, !.path = NoPath]
  <2>1. c.path \in Positions
    BY <1>1, <1>4 DEF Creature
  <2>2. Whole(d) /\ d.player = c.player
    BY <1>1, <2>1 DEF Whole, Fits, Creature
  <2> QED
    BY <1>4, <2>2, IdleSound DEF Walked
<1>5. CASE c.path # NoPath /\ ~ (n >= Dist(c.path, c.x))
  <2> DEFINE y == IF c.path > c.x THEN c.x + n ELSE c.x - n
             d == [c EXCEPT !.x = y]
  <2>1. c.path \in Positions
    BY <1>1, <1>5 DEF Creature
  <2>2. y \in Positions
    <3>1. PICK m \in Nat : Positions = 0 .. m
      BY PositionsOf
    <3>2. c.x \in 0 .. m /\ c.path \in 0 .. m /\ n < Dist(c.path, c.x)
      BY <1>1, <1>2, <1>5, <2>1, <3>1 DEF Dist
    <3> HIDE DEF n
    <3> QED
      BY <1>2, <3>1, <3>2 DEF Dist
  <2>3. Walked(c) = d
    BY <1>1, <1>5 DEF Walked, Creature
  <2> HIDE DEF y, n
  <2>4. Sound(d) /\ d.player = c.player
    BY <1>1, <2>2 DEF Sound, SoundOn, Whole, Fits, Creature, conversion_food
  <2> QED
    BY <2>3, <2>4
<1> QED
  BY <1>3, <1>4, <1>5

\* Healing takes no more food than there is and gives no more health than fits.
LEMMA HealedSound ==
  ASSUME NEW c, Sound(c), c.state = "HEAL"
  PROVE  Sound(Healed(c)) /\ Healed(c).player = c.player
<1> DEFINE n == Least(PerRound(heal_rate[c.type]), Least(max_health[c.type] - c.health, c.food))
           d == [c EXCEPT !.health = @ + n, !.food = @ - n]
<1>1. c \in Creature /\ c.type \in Types /\ Whole(c)
  BY DEF Sound, SoundOn, Whole, Creature
<1>2. n \in Nat /\ n <= max_health[c.type] - c.health /\ n <= c.food
  BY <1>1, TableTypes, PerRoundNat DEF Whole, Fits, Least
<1> HIDE DEF n
<1>3. /\ d \in Creature /\ d.health = c.health + n /\ d.food = c.food - n
      /\ d.player = c.player /\ d.type = c.type /\ d.state = c.state
      /\ d.convert_food = c.convert_food /\ d.spawn_food = c.spawn_food
  <2>1. c.health + n \in Int /\ c.food - n \in Int
    BY <1>1, <1>2 DEF Creature
  <2> QED
    BY <1>1, <2>1 DEF Creature
<1>4. Fits(d)
  BY <1>1, <1>2, <1>3, TableTypes DEF Whole, Fits
<1>5. Whole(d)
  BY <1>1, <1>3, <1>4 DEF Whole
<1>6. Healed(c) = IF HealingDone(d) THEN set_state(d, "IDLE") ELSE d
  BY DEF Healed, n
<1>7. Sound(d)
  BY <1>3, <1>5 DEF Sound, SoundOn
<1> HIDE DEF d
<1> QED
  BY <1>3, <1>5, <1>6, <1>7, IdleSound

\* Food moves into a conversion; at its price the type changes and nothing is owed.
LEMMA ConvertedSound ==
  ASSUME NEW c, Sound(c), c.state = "CONVERT"
  PROVE  Sound(Converted(c)) /\ Converted(c).player = c.player
<1> DEFINE price == conversion_food(c)
           n == Least(PerRound(conversion_speed[c.type]), Least(price - c.convert_food, c.food))
           i == IF n = 0 THEN set_state(c, "IDLE") ELSE c
           d == [i EXCEPT !.convert_food = @ + n, !.food = @ - n]
<1>1. c \in Creature /\ c.type \in Types /\ c.convert_type \in Types /\ Whole(c)
  BY DEF Sound, SoundOn, Whole, Creature
<1>2. /\ price \in Nat /\ c.convert_food \in Nat /\ c.convert_food < price
      /\ c.food \in Nat /\ world_walkable(c.x)
  BY <1>1, TableTypes
     DEF Sound, SoundOn, Whole, Fits, Creature, conversion_food, world_walkable
<1>3. n \in Nat /\ n <= price - c.convert_food /\ n <= c.food
  BY <1>1, <1>2, TableTypes, PerRoundNat DEF Least
<1>4. Converted(c) = IF d.convert_food = conversion_food(d)
                     THEN set_state(set_type(d, d.convert_type), "IDLE") ELSE d
  BY DEF Converted
<1> HIDE DEF n
<1>5. CASE n = 0
  <2>1. d = set_state(c, "IDLE")
    <3> DEFINE e == set_state(c, "IDLE")
    <3>1. e \in Creature
      BY <1>1, IdleSound DEF Sound, SoundOn, Whole
    <3>2. d = [e EXCEPT !.convert_food = @ + 0, !.food = @ - 0]
      BY <1>5
    <3> HIDE DEF d, e
    <3>3. e.convert_food + 0 = e.convert_food /\ e.food - 0 = e.food
      BY <3>1 DEF Creature
    <3>4. d = e
      BY <3>1, <3>2, <3>3 DEF Creature
    <3> QED
      BY <3>4 DEF e
  <2>2. Sound(d) /\ d.player = c.player /\ d.convert_food = 0
    BY <1>1, <2>1, IdleSound
  <2>3. conversion_food(d) = price
    <3>1. d.type = c.type /\ d.convert_type = c.convert_type
      BY <1>1, <2>1, EnterFields DEF set_state, States
    <3> QED
      BY <3>1 DEF conversion_food
  <2> QED
    BY <1>2, <1>4, <2>2, <2>3
<1>6. CASE n # 0
  <2>1. d = [c EXCEPT !.convert_food = @ + n, !.food = @ - n]
    BY <1>6
  <2> HIDE DEF d
  <2>2. /\ d \in Creature /\ d.convert_food = c.convert_food + n /\ d.food = c.food - n
        /\ d.player = c.player /\ d.type = c.type /\ d.convert_type = c.convert_type
        /\ d.health = c.health /\ d.state = c.state /\ d.spawn_food = c.spawn_food /\ d.x = c.x
    <3>1. c.convert_food + n \in Int /\ c.food - n \in Int
      BY <1>2, <1>3
    <3> QED
      BY <1>1, <2>1, <3>1 DEF Creature
  <2>3. Fits(d)
    BY <1>1, <1>3, <2>2, TableTypes DEF Whole, Fits
  <2>4. Whole(d)
    BY <1>1, <1>2, <1>3, <2>2, <2>3 DEF Whole
  <2>5. conversion_food(d) = price
    BY <2>2 DEF conversion_food
  <2>6. CASE d.convert_food = price
    BY <1>1, <1>4, <2>2, <2>4, <2>5, <2>6, TypeWhole, IdleSound
  <2>7. CASE d.convert_food # price
    <3>1. Sound(d)
      BY <1>2, <1>3, <2>2, <2>4, <2>5, <2>7 DEF Sound, SoundOn
    <3> QED
      BY <1>4, <2>2, <2>5, <2>7, <3>1
  <2> QED
    BY <2>6, <2>7
<1> QED
  BY <1>5, <1>6

\* A new born creature is healthy and owes nothing.
LEMMA NewSound ==
  ASSUME NEW p \in Players, NEW id \in Nat, NEW type \in Types, NEW x \in Positions,
         NEW food \in 0 .. max_food[type]
  PROVE  /\ Sound(NewCreature(p, id, type, x, food))
         /\ NewCreature(p, id, type, x, food).player = p
<1>1. max_health[type] \in Nat /\ max_health[type] > 0 /\ max_food[type] \in Nat
  BY TableTypes
<1>2. 0 \in Positions
  BY PositionsOf
<1>3. p # NoPlayer /\ food \in Int
  BY <1>1, WorldAssumption
<1> DEFINE c == NewCreature(p, id, type, x, food)
<1>4. /\ c \in Creature
      /\ c.player = p /\ c.type = type /\ c.health = max_health[type] /\ c.food = food
      /\ c.state = "IDLE" /\ c.convert_food = 0 /\ c.spawn_food = 0
  <2>1. max_health[type] \in Int /\ "IDLE" \in States
    BY <1>1 DEF States
  <2> QED
    BY <1>3, <2>1 DEF NewCreature, Creature
<1> HIDE DEF c
<1>5. Sound(c)
  BY <1>1, <1>4 DEF Sound, SoundOn, Whole, Fits
<1> QED
  BY <1>4, <1>5 DEF c

\* A hit that does not exhaust the health of a creature.
LEMMA HitSound ==
  ASSUME NEW c, Sound(c), NEW n \in Nat, n < c.health
  PROVE  /\ Sound([c EXCEPT !.health = @ - n])
         /\ [c EXCEPT !.health = @ - n].player = c.player
<1> DEFINE d == [c EXCEPT !.health = @ - n]
<1>1. c \in Creature /\ c.type \in Types /\ c.health - n \in Int
  BY DEF Sound, SoundOn, Whole, Creature
<1>2. /\ d \in Creature /\ d.health = c.health - n
      /\ d.player = c.player /\ d.type = c.type /\ d.x = c.x /\ d.food = c.food
      /\ d.state = c.state /\ d.convert_type = c.convert_type
      /\ d.convert_food = c.convert_food /\ d.spawn_food = c.spawn_food
  BY <1>1 DEF Creature
<1> HIDE DEF d
<1>3. Fits(d)
  BY <1>1, <1>2, TableTypes DEF Sound, SoundOn, Whole, Fits
<1>4. Sound(d)
  BY <1>2, <1>3 DEF Sound, SoundOn, Whole, conversion_food
<1> QED
  BY <1>2, <1>4 DEF d

\* Food changes by n, given or taken, and stays within the limits.
LEMMA MealSound ==
  ASSUME NEW c, Sound(c), NEW n \in Int, c.food + n \in 0 .. max_food[c.type]
  PROVE  /\ Sound([c EXCEPT !.food = @ + n])
         /\ [c EXCEPT !.food = @ + n].player = c.player
         /\ [c EXCEPT !.food = @ + n].type = c.type
         /\ [c EXCEPT !.food = @ + n].food = c.food + n
<1> DEFINE d == [c EXCEPT !.food = @ + n]
<1>1. c \in Creature /\ c.type \in Types /\ c.food + n \in Int
  BY DEF Sound, SoundOn, Whole, Creature
<1>2. /\ d \in Creature /\ d.food = c.food + n
      /\ d.player = c.player /\ d.type = c.type /\ d.x = c.x /\ d.health = c.health
      /\ d.state = c.state /\ d.convert_type = c.convert_type
      /\ d.convert_food = c.convert_food /\ d.spawn_food = c.spawn_food
  BY <1>1 DEF Creature
<1> HIDE DEF d
<1>3. Fits(d)
  BY <1>1, <1>2, TableTypes DEF Sound, SoundOn, Whole, Fits
<1>4. Sound(d)
  BY <1>2, <1>3 DEF Sound, SoundOn, Whole, conversion_food
<1> QED
  BY <1>2, <1>4 DEF d

--------------------------------------------------------------------------------
(***************************************************************************)
(* Tables of sound creatures                                               *)
(***************************************************************************)

\* Dug tiles stay dug, so nothing is lost when there are more of them.
LEMMA FineGrows ==
  ASSUME NEW cr, NEW dug, NEW more, Fine(cr, dug), dug \subseteq more
  PROVE  Fine(cr, more)
  BY DEF Fine, SoundOn

\* A slot gets a sound creature.
LEMMA FinePut ==
  ASSUME NEW cr, Fine(cr, plain), NEW s \in Slots, NEW c, Sound(c)
  PROVE  Fine([cr EXCEPT ![s] = c], plain)
<1>1. c \in Creature
  BY DEF Sound, SoundOn, Whole
<1> QED
  BY <1>1 DEF Fine, Sound

\* A slot is given up.
LEMMA FineDrop ==
  ASSUME NEW cr, NEW dug, Fine(cr, dug), NEW s \in Slots
  PROVE  Fine([cr EXCEPT ![s] = Nobody], dug)
<1>1. Nobody \in Creature
  <2>1. 0 \in Positions
    BY PositionsOf
  <2> QED
    BY <2>1 DEF Nobody, Creature, Types, States, NoPath
<1>2. Nobody.player = NoPlayer
  BY DEF Nobody
<1> QED
  BY <1>1, <1>2 DEF Fine

\* A creature is born; the table is fine whichever slot it gets.
LEMMA FineBorn ==
  ASSUME NEW cr, Fine(cr, plain), NEW p \in Players, NEW id \in Nat, NEW x \in Positions,
         NEW food \in 0 .. max_food["SMALL"]
  PROVE  Fine(WithSpawned(cr, p, id, x, food), plain)
<1> DEFINE c == NewCreature(p, id, "SMALL", x, food)
<1>1. Sound(c)
  BY NewSound DEF Types
<1>2. CASE FirstFree(cr) \in Slots
  BY <1>1, <1>2, FinePut DEF WithSpawned
<1>3. CASE FirstFree(cr) \notin Slots
  <2>1. WithSpawned(cr, p, id, x, food) = cr
    BY <1>3 DEF WithSpawned, Fine
  <2> QED
    BY <2>1
<1> QED
  BY <1>2, <1>3

\* Tiles never hold more than MAX_TILE_FOOD.
FoodType == [Tiles -> 0 .. MAX_TILE_FOOD]

LEMMA AddFoodType ==
  ASSUME tile_food \in FoodType, NEW t, NEW amount \in Nat
  PROVE  add_food(t, amount) \in FoodType
<1>1. CASE t \in Tiles
  <2>1. Least(tile_food[t] + amount, MAX_TILE_FOOD) \in 0 .. MAX_TILE_FOOD
    BY <1>1, WorldAssumption DEF FoodType, Least
  <2> QED
    BY <2>1 DEF FoodType, add_food
<1>2. CASE t \notin Tiles
  BY <1>2 DEF FoodType, add_food
<1> QED
  BY <1>1, <1>2

\* The rules never leave a negative amount of food.
LEMMA RemainsNat ==
  ASSUME NEW c, c.food \in Nat, NEW killed \in BOOLEAN
  PROVE  Remains(c, killed) \in Nat
  BY DEF Remains

--------------------------------------------------------------------------------
(***************************************************************************)
(* What a creature does in its turn keeps the table fine                   *)
(***************************************************************************)

\* What a turn must leave: a fine table, tiles within their limit, a number as the
\* next id.
Left == Fine(creature', plain) /\ tile_food' \in FoodType /\ next_free_vm_id' \in Nat

LEMMA AloneLeft ==
  ASSUME Ind, NEW s \in Slots, NEW c, Sound(c), ActAlone(s, c)
  PROVE  Left
<1>1. tile_food' \in FoodType /\ next_free_vm_id' \in Nat
  BY DEF Ind, TypeOK, FoodType, ActAlone
<1>2. PICK d : creature' = [creature EXCEPT ![s] = d] /\ Sound(d)
  <2>1. CASE c.state = "IDLE"
    BY <2>1 DEF ActAlone
  <2>2. CASE c.state = "WALK"
    BY <2>2, WalkedSound DEF ActAlone
  <2>3. CASE c.state = "HEAL"
    BY <2>3, HealedSound DEF ActAlone
  <2>4. CASE c.state = "CONVERT"
    BY <2>4, ConvertedSound DEF ActAlone
  <2> QED
    BY <2>1, <2>2, <2>3, <2>4 DEF ActAlone
<1> QED
  BY <1>1, <1>2, FinePut DEF Left, Ind

\* No more is eaten than the tile has and the creature can hold.
LEMMA EatLeft ==
  ASSUME Ind, NEW s \in Slots, NEW c, Sound(c), ActEat(s, c)
  PROVE  Left
<1> DEFINE onTile == IF world_walkable(c.x) THEN FoodOn(c.x) ELSE 0
           eaten  == Least(Least(PerRound(eat_rate[c.type]), max_food[c.type] - c.food), onTile)
           fed    == [c EXCEPT !.food = @ + eaten]
<1>1. c \in Creature /\ c.type \in Types /\ Whole(c) /\ Fits(c)
  BY DEF Sound, SoundOn, Whole, Creature
<1>2. onTile \in Nat /\ (Tile(c.x) \in Tiles => onTile <= tile_food[Tile(c.x)])
  BY DEF Ind, TypeOK, world_walkable, FoodOn
<1> HIDE DEF onTile
<1>3. /\ eaten \in Nat /\ eaten <= onTile
      /\ c.food + eaten \in 0 .. max_food[c.type]
  BY <1>1, <1>2, TableTypes, PerRoundNat DEF Fits, Least
<1>4. /\ creature' = [creature EXCEPT ![s] = IF eaten = 0 THEN set_state(fed, "IDLE") ELSE fed]
      /\ tile_food' = [tile_food EXCEPT ![Tile(c.x)] = @ - eaten]
      /\ next_free_vm_id' = next_free_vm_id
  BY DEF ActEat, food_left, onTile
<1> HIDE DEF eaten
<1>5. Sound(fed) /\ Whole(fed)
  BY <1>3, MealSound DEF Sound, SoundOn
<1>6. Fine(creature', plain)
  <2> HIDE DEF fed
  <2> QED
    BY <1>4, <1>5, IdleSound, FinePut DEF Ind
<1>7. tile_food' \in FoodType
  <2>1. CASE Tile(c.x) \in Tiles
    <3>1. tile_food[Tile(c.x)] - eaten \in 0 .. MAX_TILE_FOOD
      BY <1>2, <1>3, <2>1, WorldAssumption DEF Ind, TypeOK
    <3> QED
      BY <1>4, <3>1 DEF Ind, TypeOK, FoodType
  <2>2. CASE Tile(c.x) \notin Tiles
    BY <1>4, <2>2 DEF Ind, TypeOK, FoodType
  <2> QED
    BY <2>1, <2>2
<1> QED
  BY <1>4, <1>6, <1>7 DEF Left, Ind, TypeOK

\* The target loses health and lives, or dies and leaves its food.
LEMMA AttackLeft ==
  ASSUME Ind, NEW s \in Slots, NEW c, Sound(c), c.player = creature[s].player, ActAttack(s, c)
  PROVE  Left
<1> DEFINE Hit(t) == PerRound(hitpoints[c.type][creature[t].type])
<1>1. c.type \in Types /\ Whole(c) /\ Sound(set_state(c, "IDLE"))
  BY IdleSound DEF Sound, SoundOn, Whole, Creature
<1>2. next_free_vm_id' \in Nat /\ tile_food \in FoodType
  BY DEF Ind, TypeOK, ActAttack, FoodType
<1>3. CASE /\ creature' = [creature EXCEPT ![s] = set_state(c, "IDLE")]
           /\ UNCHANGED tile_food
  BY <1>1, <1>2, <1>3, FinePut DEF Left, Ind
<1>4. ASSUME NEW t \in With(c.target_id), CanHit(c, t), creature[t].health > Hit(t),
             creature' = [creature EXCEPT ![s] = c, ![t].health = @ - Hit(t)],
             UNCHANGED tile_food
      PROVE  Left
  <2>1. t \in Slots /\ t # s /\ Sound(creature[t]) /\ creature[t].type \in Types
    BY <1>4 DEF CanHit, With, UsedSlots, Used, Ind, Fine, Sound, Creature
  <2>2. Hit(t) \in Nat
    BY <1>1, <2>1, TableTypes, PerRoundNat
  <2> DEFINE d == [creature[t] EXCEPT !.health = @ - Hit(t)]
  <2>3. Sound(d)
    BY <1>4, <2>1, <2>2, HitSound
  <2>4. creature' = [[creature EXCEPT ![s] = c] EXCEPT ![t] = d]
    BY <1>4, <2>1 DEF Ind, TypeOK
  <2>5. Fine([creature EXCEPT ![s] = c], plain)
    BY FinePut DEF Ind
  <2> HIDE DEF d
  <2>6. Fine(creature', plain)
    BY <2>1, <2>3, <2>4, <2>5, FinePut
  <2> QED
    BY <1>2, <1>4, <2>6 DEF Left
<1>5. ASSUME NEW t \in With(c.target_id), CanHit(c, t),
             creature' = [creature EXCEPT ![t] = Nobody, ![s] = set_state(c, "IDLE")],
             tile_food' = add_food(Tile(creature[t].x), Remains(creature[t], TRUE))
      PROVE  Left
  <2>1. t \in Slots /\ Sound(creature[t])
    BY <1>5 DEF With, UsedSlots, Used, Ind, Fine, Sound
  <2>2. creature[t].food \in Nat
    BY <2>1, TableTypes DEF Sound, SoundOn, Whole, Fits, Creature
  <2>3. Fine([creature EXCEPT ![t] = Nobody], plain)
    BY <2>1, FineDrop DEF Ind
  <2>4. creature' = [[creature EXCEPT ![t] = Nobody] EXCEPT ![s] = set_state(c, "IDLE")]
    BY <1>5
  <2>5. Fine(creature', plain)
    BY <1>1, <2>3, <2>4, FinePut
  <2> QED
    BY <1>2, <1>5, <2>2, <2>5, AddFoodType, RemainsNat DEF Left
<1> QED
  BY <1>3, <1>4, <1>5 DEF ActAttack

\* Food moves into a birth; at its price a baby is born or the food is lost.
LEMMA SpawnLeft ==
  ASSUME Ind, NEW s \in Slots, NEW c, Sound(c), c.player \in Players, ActSpawn(s, c)
  PROVE  Left
<1> DEFINE n == Least(PerRound(spawn_speed[c.type]),
                      Least(spawn_food[c.type] - c.spawn_food, c.food))
           i == IF n = 0 THEN set_state(c, "IDLE") ELSE c
           d == [i EXCEPT !.spawn_food = @ + n, !.food = @ - n]
           gift == IF BabyFood <= max_food["SMALL"] THEN BabyFood ELSE 0
           table == [creature EXCEPT ![s] = set_state(d, "IDLE")]
<1>1. /\ c \in Creature /\ c.type \in Types /\ Whole(c) /\ c.state = "SPAWN" /\ c.x \in Positions
      /\ c.spawn_food \in Nat /\ c.spawn_food <= spawn_food[c.type] /\ c.food \in Nat
  BY TableTypes DEF ActSpawn, Sound, SoundOn, Whole, Fits, Creature
<1>2. n \in Nat /\ n <= spawn_food[c.type] - c.spawn_food /\ n <= c.food
  BY <1>1, TableTypes, PerRoundNat DEF Least
<1>3. tile_food' \in FoodType /\ next_free_vm_id' \in Nat
  BY DEF Ind, TypeOK, FoodType, ActSpawn
<1>4. \/ d.spawn_food # spawn_food[c.type] /\ creature' = [creature EXCEPT ![s] = d]
      \/ creature' = WithSpawned(table, c.player, next_free_vm_id, c.x, gift)
      \/ creature' = table
  BY DEF ActSpawn
<1> HIDE DEF n
<1>5. Whole(d) /\ (d.spawn_food # spawn_food[c.type] => Sound(d))
  <2>1. CASE n = 0
    <3> DEFINE e == set_state(c, "IDLE")
    <3>1. e \in Creature /\ Sound(e)
      BY <1>1, IdleSound DEF Sound, SoundOn, Whole
    <3>2. d = [e EXCEPT !.spawn_food = @ + 0, !.food = @ - 0]
      BY <2>1
    <3> HIDE DEF d, e
    <3>3. e.spawn_food + 0 = e.spawn_food /\ e.food - 0 = e.food
      BY <3>1 DEF Creature
    <3>4. d = e
      BY <3>1, <3>2, <3>3 DEF Creature
    <3> QED
      BY <3>1, <3>4 DEF Sound, SoundOn
  <2>2. CASE n # 0
    <3>1. d = [c EXCEPT !.spawn_food = @ + n, !.food = @ - n]
      BY <2>2
    <3> HIDE DEF d
    <3>2. c.spawn_food + n \in Int /\ c.food - n \in Int
      BY <1>1, <1>2
    <3>3. /\ d \in Creature /\ d.spawn_food = c.spawn_food + n /\ d.food = c.food - n
          /\ d.type = c.type /\ d.health = c.health /\ d.state = c.state
          /\ d.convert_food = c.convert_food
      BY <1>1, <3>1, <3>2 DEF Creature
    <3>4. Fits(d)
      BY <1>1, <1>2, <3>3, TableTypes DEF Whole, Fits
    <3>5. Whole(d)
      BY <1>1, <1>2, <3>3, <3>4 DEF Whole
    <3>6. c.spawn_food + n <= spawn_food[c.type]
      BY <1>1, <1>2, TableTypes
    <3> QED
      BY <1>1, <1>2, <3>3, <3>5, <3>6, TableTypes DEF Sound, SoundOn
  <2> QED
    BY <2>1, <2>2
<1> HIDE DEF d
<1>6. Fine(table, plain)
  BY <1>5, IdleSound, FinePut DEF Ind
<1>7. gift \in 0 .. max_food["SMALL"]
  <2>1. max_food["SMALL"] \in Nat
    BY TableTypes DEF Types
  <2> QED
    BY <2>1, WorldAssumption
<1>8. next_free_vm_id \in Nat
  BY DEF Ind, TypeOK
<1> HIDE DEF table, gift
<1>9. Fine(WithSpawned(table, c.player, next_free_vm_id, c.x, gift), plain)
  BY <1>1, <1>6, <1>7, <1>8, FineBorn
<1> QED
  BY <1>3, <1>4, <1>5, <1>6, <1>9, FinePut DEF Left, Ind

\* A gift is no more than the giver has and the target can hold, also when the
\* creature is its own target.
LEMMA FeedLeft ==
  ASSUME Ind, NEW s \in Slots, NEW c, Sound(c), c.player = creature[s].player,
         c.food = creature[s].food, c.type = creature[s].type, ActFeed(s, c)
  PROVE  Left
<1> DEFINE giver(t) == Giver(c, Gift(c, t))
           after(t) == IF Gift(c, t) \in {0, c.food, Room(t)}
                       THEN set_state(giver(t), "IDLE") ELSE giver(t)
<1>1. c \in Creature /\ c.type \in Types /\ Whole(c) /\ Fits(c) /\ c.food \in Nat
  BY TableTypes DEF Sound, SoundOn, Whole, Fits, Creature
<1>2. next_free_vm_id' \in Nat /\ tile_food' \in FoodType
  BY DEF Ind, TypeOK, ActFeed, FoodType
<1>3. CASE creature' = [creature EXCEPT ![s] = set_state(c, "IDLE")]
  BY <1>1, <1>2, <1>3, IdleSound, FinePut DEF Left, Ind
<1>4. ASSUME NEW t \in With(c.target_id),
             creature' = [[creature EXCEPT ![s] = after(t)] EXCEPT ![t].food = @ + Gift(c, t)]
      PROVE  Left
  <2> DEFINE n == Gift(c, t)
             a == after(t)
             first == [creature EXCEPT ![s] = a]
             d == [first[t] EXCEPT !.food = @ + n]
  <2>1. t \in Slots /\ Sound(creature[t]) /\ creature[t].type \in Types /\ Fits(creature[t])
    BY DEF With, UsedSlots, Used, Ind, Fine, Sound, SoundOn, Whole, Creature
  <2>2. /\ n \in Nat /\ n <= c.food
        /\ creature[t].food \in Nat /\ creature[t].food + n <= max_food[creature[t].type]
    BY <1>1, <2>1, TableTypes, PerRoundNat DEF Fits, Gift, Room, Least
  <2>3. /\ Sound(giver(t)) /\ Whole(giver(t))
        /\ giver(t).food = c.food - n /\ giver(t).type = c.type
    <3>1. giver(t) = [c EXCEPT !.food = @ + (0 - n)]
      BY <1>1, <2>2 DEF Giver, Creature
    <3>2. /\ c.food + (0 - n) \in 0 .. max_food[c.type] /\ 0 - n \in Int
          /\ c.food + (0 - n) = c.food - n
      BY <1>1, <2>2, TableTypes DEF Fits
    <3> HIDE DEF n, giver
    <3>3. /\ Sound(giver(t)) /\ giver(t).type = c.type
          /\ giver(t).food = c.food + (0 - n)
      BY <3>1, <3>2, MealSound
    <3> QED
      BY <3>2, <3>3 DEF Sound, SoundOn
  <2> HIDE DEF giver, n
  <2>4. Sound(a) /\ a.food = c.food - n /\ a.type = c.type
    BY <2>3, IdleSound
  <2> HIDE DEF after, a
  <2>5. Fine(first, plain)
    BY <2>4, FinePut DEF Ind
  <2>6. Sound(first[t]) /\ first[t].food + n \in 0 .. max_food[first[t].type]
    <3>1. CASE t = s
      <4>1. first[t] = a
        BY <3>1 DEF Ind, TypeOK
      <4> QED
        BY <1>1, <2>2, <2>4, <4>1, TableTypes DEF Fits
    <3>2. CASE t # s
      <4>1. first[t] = creature[t]
        BY <2>1, <3>2 DEF Ind, TypeOK
      <4> QED
        BY <2>1, <2>2, <4>1, TableTypes
    <3> QED
      BY <3>1, <3>2
  <2>7. creature' = [first EXCEPT ![t] = d]
    BY <1>4 DEF n, a
  <2> HIDE DEF first
  <2>8. Sound(d)
    <3>1. n \in Int
      BY <2>2
    <3> QED
      BY <2>6, <3>1, MealSound
  <2> HIDE DEF d
  <2>9. Fine(creature', plain)
    BY <2>1, <2>5, <2>7, <2>8, FinePut
  <2> QED
    BY <1>2, <2>9 DEF Left
<1> QED
  BY <1>3, <1>4 DEF ActFeed

--------------------------------------------------------------------------------
(***************************************************************************)
(* Every action keeps the invariant                                        *)
(***************************************************************************)

\* The types of everything but the creatures.
RoundTypes ==
  /\ turn \in Thinking .. MAXCREATURES
  /\ on_koth \in Slots \cup {NoSlot}
  /\ koth_score \in BOOLEAN
  /\ king \in Players \cup {NoPlayer}
  /\ round_vm_id \in Nat
  /\ round_alive \in SUBSET Slots

WorldTypes ==
  /\ next_free_vm_id \in Nat
  /\ plain \in SUBSET Tiles
  /\ tile_food \in FoodType
  /\ doomed \in SUBSET Slots

LEMMA IndParts == Ind <=> Fine(creature, plain) /\ WorldTypes /\ RoundTypes
  BY DEF Ind, TypeOK, Fine, WorldTypes, RoundTypes, FoodType

LEMMA IndPartsNext == Ind' <=> Fine(creature', plain') /\ WorldTypes' /\ RoundTypes'
  BY DEF Ind, TypeOK, Fine, WorldTypes, RoundTypes, FoodType

\* The slots that hold creatures hold sound ones.
LEMMA UsedSound ==
  ASSUME Ind, NEW s \in Slots, Used(s)
  PROVE  /\ Sound(creature[s]) /\ creature[s] \in Creature
         /\ creature[s].player \in Players /\ creature[s].food \in Nat
  BY TableTypes DEF Ind, Fine, Sound, SoundOn, Whole, Fits, Used, Creature

\* A command that leaves a sound creature.
LEMMA BecomesInd ==
  ASSUME Ind, NEW s \in Slots, NEW c, Sound(c), Becomes(s, c)
  PROVE  Ind'
<1>1. Fine(creature', plain')
  BY FinePut DEF Ind, Becomes
<1>2. WorldTypes' /\ RoundTypes'
  BY IndParts DEF Becomes, round, WorldTypes, RoundTypes
<1> QED
  BY <1>1, <1>2, IndPartsNext

LEMMA CommandsInd == Ind /\ Commands => Ind'
<1> SUFFICES ASSUME Ind, NEW s \in Slots,
                    \/ \E state \in Requests : CmdSetState(s, state)
                    \/ \E x \in Goals : CmdSetPath(s, x)
                    \/ \E id \in 0 .. MaxVmId : CmdSetTarget(s, id)
                    \/ \E type \in Conversions : CmdSetConvert(s, type)
                    \/ CmdSuicide(s)
             PROVE  Ind'
  BY DEF Commands
<1> DEFINE c == creature[s]
<1>1. Used(s)
  BY DEF CmdSetState, CmdSetPath, CmdSetTarget, CmdSetConvert, CmdSuicide, Command
<1>2. Sound(c) /\ c \in Creature /\ c.type \in Types
  BY <1>1, UsedSound DEF Creature
<1>3. ASSUME NEW state \in Requests, CmdSetState(s, state) PROVE Ind'
  BY <1>2, <1>3, StateSound, BecomesInd, WorldAssumption DEF CmdSetState
<1>4. ASSUME NEW x \in Goals, CmdSetPath(s, x) PROVE Ind'
  <2>1. x \in Positions
    BY WorldAssumption
  <2>2. Sound([c EXCEPT !.path = x])
    BY <1>2, <2>1 DEF Sound, SoundOn, Whole, Fits, Creature, conversion_food
  <2> QED
    BY <1>4, <2>2, BecomesInd DEF CmdSetPath
<1>5. ASSUME NEW id \in 0 .. MaxVmId, CmdSetTarget(s, id) PROVE Ind'
  <2>1. id \in Nat
    BY WorldAssumption
  <2>2. Sound([c EXCEPT !.target_id = id])
    BY <1>2, <2>1 DEF Sound, SoundOn, Whole, Fits, Creature, conversion_food
  <2> QED
    BY <1>5, <2>2, BecomesInd DEF CmdSetTarget
<1>6. ASSUME NEW type \in Conversions, CmdSetConvert(s, type) PROVE Ind'
  <2> DEFINE f == IF c.convert_type = type THEN c.convert_food ELSE 0
             d == [c EXCEPT !.convert_food = f, !.convert_type = type]
  <2>1. type \in Types /\ conversion_food_needed[c.type][type] # 0
    BY <1>6, WorldAssumption DEF CmdSetConvert
  <2>2. f \in Int /\ f >= 0 /\ (f # 0 => f = c.convert_food /\ c.convert_type = type)
    BY <1>2 DEF Sound, SoundOn, Whole, Creature
  <2>3. creature' = [creature EXCEPT ![s] = d] /\ Becomes(s, d)
    BY <1>6, <1>2 DEF CmdSetConvert, Becomes
  <2> HIDE DEF f
  <2>4. /\ d \in Creature /\ d.convert_food = f /\ d.convert_type = type
        /\ d.type = c.type /\ d.x = c.x /\ d.health = c.health /\ d.food = c.food
        /\ d.state = c.state /\ d.spawn_food = c.spawn_food
    BY <1>2, <2>1, <2>2 DEF Creature
  <2> HIDE DEF d
  <2>5. Whole(d)
    BY <1>2, <2>2, <2>4 DEF Sound, SoundOn, Whole, Fits
  <2>6. conversion_food(d) > 0 /\ (f # 0 => conversion_food(d) = conversion_food(c))
    BY <1>2, <2>1, <2>2, <2>4, TableTypes DEF conversion_food
  <2>7. Sound(d)
    BY <1>2, <2>2, <2>4, <2>5, <2>6 DEF Sound, SoundOn
  <2> QED
    BY <2>3, <2>7, BecomesInd
<1>7. CASE CmdSuicide(s)
  <2>1. Sound([c EXCEPT !.suicide = TRUE])
    BY <1>2 DEF Sound, SoundOn, Whole, Fits, Creature, conversion_food
  <2> QED
    BY <1>7, <2>1, BecomesInd DEF CmdSuicide
<1> QED
  BY <1>3, <1>4, <1>5, <1>6, <1>7

LEMMA SurroundingsInd == Ind /\ Surroundings => Ind'
<1> SUFFICES ASSUME Ind, Surroundings PROVE Ind'
  OBVIOUS
<1>1. ASSUME NEW t \in Tiles, NEW amount \in Drops, TickFood(t, amount) PROVE Ind'
  <2>1. add_food(t, amount) \in FoodType
    BY AddFoodType, IndParts, WorldAssumption DEF WorldTypes
  <2> QED
    BY <1>1, <2>1, IndParts, IndPartsNext DEF TickFood, round, WorldTypes, RoundTypes
<1>2. ASSUME NEW t \in Tiles, Dig(t) PROVE Ind'
  <2>1. Fine(creature', plain')
    BY <1>2, FineGrows, IndParts DEF Dig
  <2> QED
    BY <1>2, <2>1, IndParts, IndPartsNext DEF Dig, round, WorldTypes, RoundTypes
<1>3. ASSUME NEW p \in Players, NEW x \in Goals, NEW y \in Goals, Respawn(p, x, y) PROVE Ind'
  <2> DEFINE id == next_free_vm_id
             first == WithSpawned(creature, p, id, x, 0)
             second == WithSpawned(first, p, id + 1, y, 0)
  <2>1. x \in Positions /\ y \in Positions /\ id \in Nat /\ 0 \in 0 .. max_food["SMALL"]
    BY TableTypes, WorldAssumption, IndParts DEF WorldTypes, Types
  <2>2. Fine(first, plain)
    BY <2>1, FineBorn, IndParts
  <2> HIDE DEF first
  <2>3. Fine(second, plain)
    BY <2>1, <2>2, FineBorn
  <2> HIDE DEF second
  <2>4. Fine(creature', plain') /\ next_free_vm_id' \in Nat
    BY <1>3, <2>1, <2>2, <2>3 DEF Respawn, first, second
  <2> QED
    BY <1>3, <2>4, IndParts, IndPartsNext DEF Respawn, round, WorldTypes, RoundTypes
<1>4. ASSUME NEW p \in Players, DestroyPlayer(p) PROVE Ind'
  BY <1>4, IndParts, IndPartsNext DEF DestroyPlayer, round, WorldTypes, RoundTypes
<1> QED
  BY <1>1, <1>2, <1>3, <1>4 DEF Surroundings

\* player_destroy kills the creature of a used slot.
LEMMA KillDoomedInd == ASSUME Ind, NEW s \in Slots, KillDoomed(s), Used(s) PROVE Ind'
<1>1. Fine(creature', plain')
  BY FineDrop, IndParts DEF KillDoomed
<1>2. tile_food' \in FoodType
  BY UsedSound, RemainsNat, AddFoodType, IndParts DEF KillDoomed, WorldTypes
<1> QED
  BY <1>1, <1>2, IndParts, IndPartsNext DEF KillDoomed, round, WorldTypes, RoundTypes

\* A turn in which the creature acts.
LEMMA ActInd == ASSUME Ind, NEW s \in Slots, turn = s, Act(s) PROVE Ind'
<1> DEFINE c == Aged(creature[s])
<1>1. Sound(creature[s]) /\ creature[s] \in Creature /\ creature[s].player \in Players
  BY UsedSound DEF Act
<1>2. /\ Sound(c) /\ c.player = creature[s].player
      /\ c.food = creature[s].food /\ c.type = creature[s].type
  BY <1>1, AgedSound DEF Act, Aged, Creature
<1>3. ActAlone(s, c) \/ ActEat(s, c) \/ ActAttack(s, c) \/ ActSpawn(s, c) \/ ActFeed(s, c)
  BY DEF Act
<1>4. UNCHANGED <<plain, doomed, king, round_vm_id, round_alive>> /\ turn' = turn + 1
  BY DEF Act, Pass
<1>5. on_koth' \in Slots \cup {NoSlot} /\ koth_score' \in BOOLEAN
  BY IndParts DEF Act, LookAtHill, RoundTypes
<1> HIDE DEF c
<1>6. Left
  BY <1>1, <1>2, <1>3, AloneLeft, EatLeft, AttackLeft, SpawnLeft, FeedLeft
<1>7. turn' \in Thinking .. MAXCREATURES
  BY <1>4, WorldAssumption DEF Slots, Thinking
<1> QED
  BY <1>4, <1>5, <1>6, <1>7, IndParts, IndPartsNext DEF Left, WorldTypes, RoundTypes

LEMMA MoveInd == ASSUME Ind, NEW s \in Slots, Move(s) PROVE Ind'
<1>1. turn = s /\ turn + 1 \in Thinking .. MAXCREATURES
  BY WorldAssumption DEF Move, Slots, Thinking
<1>2. CASE SkipFree(s)
  BY <1>1, <1>2, IndParts, IndPartsNext DEF SkipFree, Pass, WorldTypes, RoundTypes
<1>3. CASE Die(s)
  <2>1. Fine(creature', plain')
    BY <1>3, FineDrop, IndParts DEF Die, Pass
  <2>2. creature[s].suicide \in BOOLEAN
    BY <1>3, UsedSound DEF Die, Creature
  <2>3. tile_food' \in FoodType
    BY <1>3, <2>2, UsedSound, RemainsNat, AddFoodType, IndParts DEF Die, WorldTypes
  <2> QED
    BY <1>1, <1>3, <2>1, <2>3, IndParts, IndPartsNext DEF Die, Pass, WorldTypes, RoundTypes
<1>4. CASE Act(s)
  BY <1>1, <1>4, ActInd
<1> QED
  BY <1>2, <1>3, <1>4 DEF Move

LEMMA RoundsInd == Ind /\ (StartRound \/ EndRound) => Ind'
<1> SUFFICES ASSUME Ind, StartRound \/ EndRound PROVE Ind'
  OBVIOUS
<1>1. UsedSlots \in SUBSET Slots /\ 0 \in Thinking .. MAXCREATURES
      /\ Thinking \in Thinking .. MAXCREATURES
  BY WorldAssumption DEF UsedSlots, Thinking
<1>2. Crowned \in Players \cup {NoPlayer}
  <2>1. on_koth # NoSlot => creature[on_koth] \in Creature
    BY IndParts DEF Fine, RoundTypes
  <2> QED
    BY <2>1 DEF Crowned, Creature
<1>3. CASE StartRound
  BY <1>1, <1>3, IndParts, IndPartsNext DEF StartRound, WorldTypes, RoundTypes
<1>4. CASE EndRound
  BY <1>1, <1>2, <1>4, IndParts, IndPartsNext DEF EndRound, WorldTypes, RoundTypes
<1> QED
  BY <1>3, <1>4

\* player_destroy empties used slots, and no round begins before it is done.
Dying == doomed \subseteq UsedSlots /\ (doomed # {} => turn = Thinking)

LEMMA DyingStep == Ind /\ Dying /\ [Next]_vars => Dying'
<1> SUFFICES ASSUME Ind, Dying, [Next]_vars PROVE Dying'
  OBVIOUS
<1>1. CASE Commands
  BY <1>1 DEF Commands, CmdSetState, CmdSetPath, CmdSetTarget, CmdSetConvert, CmdSuicide,
              Command, Idle, Becomes, Dying
<1>2. CASE Surroundings
  <2>1. \A p \in Players : {s \in Slots : creature[s].player = p} \subseteq UsedSlots
    BY WorldAssumption DEF UsedSlots, Used
  <2> QED
    BY <1>2, <2>1 DEF Surroundings, TickFood, Dig, Respawn, DestroyPlayer, Idle, Dying, round,
                      UsedSlots, Used
<1>3. ASSUME NEW s \in Slots, KillDoomed(s) PROVE Dying'
  <2>1. UsedSlots' = UsedSlots \ {s}
    BY <1>3 DEF KillDoomed, UsedSlots, Used, Nobody, Ind, TypeOK
  <2> QED
    BY <1>3, <2>1 DEF KillDoomed, Dying, round
<1>4. CASE StartRound \/ EndRound \/ \E s \in Slots : Move(s)
  <2>1. turn # Thinking => doomed = {}
    BY DEF Dying
  <2>2. doomed = {} /\ doomed' = doomed
    BY <1>4, <2>1, WorldAssumption
       DEF StartRound, Idle, EndRound, Move, SkipFree, Die, Act, Pass, Slots, Thinking
  <2> QED
    BY <2>2 DEF Dying
<1>5. CASE UNCHANGED vars
  BY <1>5 DEF vars, round, Dying, UsedSlots, Used
<1> QED
  BY <1>1, <1>2, <1>3, <1>4, <1>5 DEF Next, Engine

LEMMA StepInd == Ind /\ Dying /\ [Next]_vars => Ind'
<1> SUFFICES ASSUME Ind, Dying, [Next]_vars PROVE Ind'
  OBVIOUS
<1>1. ASSUME NEW s \in Slots, KillDoomed(s) PROVE Ind'
  BY <1>1, KillDoomedInd DEF KillDoomed, Dying, UsedSlots
<1>2. CASE UNCHANGED vars
  BY <1>2, IndParts, IndPartsNext DEF vars, round, WorldTypes, RoundTypes
<1> QED
  BY <1>1, <1>2, CommandsInd, SurroundingsInd, MoveInd, RoundsInd DEF Next, Engine

LEMMA InitInd == Init => Ind /\ Dying
<1> SUFFICES ASSUME Init PROVE Ind /\ Dying
  OBVIOUS
<1>1. Fine([s \in Slots |-> Nobody], plain)
  <2>1. 0 \in Positions
    BY PositionsOf
  <2> QED
    BY <2>1 DEF Fine, Nobody, Creature, Types, States, NoPath
<1>2. \A s \in Slots : creature[s].player # NoPlayer => SoundOn(creature[s], plain)
  <2> SUFFICES ASSUME NEW s \in Slots, creature[s].player # NoPlayer
               PROVE  SoundOn(creature[s], plain)
    OBVIOUS
  <2>1. CASE Population[s] = NoStart
    BY <1>1, <2>1 DEF Init, Nobody
  <2>2. CASE Population[s] # NoStart
    <3>1. s \in Nat
      BY WorldAssumption DEF Slots
    <3> QED
      BY <2>2, <3>1, NewSound, WorldAssumption DEF Init, Sound
  <2> QED
    BY <2>1, <2>2
<1>3. creature \in [Slots -> Creature]
  <2>1. \A s \in Slots : creature[s] \in Creature
    <3> SUFFICES ASSUME NEW s \in Slots PROVE creature[s] \in Creature
      OBVIOUS
    <3>1. CASE Population[s] = NoStart
      BY <1>1, <3>1 DEF Init, Fine
    <3>2. CASE Population[s] # NoStart
      <4>1. s \in Nat
        BY WorldAssumption DEF Slots
      <4> QED
        BY <3>2, <4>1, NewSound, WorldAssumption DEF Init, Sound, SoundOn, Whole
    <3> QED
      BY <3>1, <3>2
  <2> QED
    BY <2>1 DEF Init
<1>4. next_free_vm_id \in Nat
  <2>1. IsFiniteSet({s \in Slots : Population[s] # NoStart})
    <3>1. IsFiniteSet(Slots)
      BY FS_Interval, WorldAssumption DEF Slots
    <3> QED
      BY <3>1, FS_Subset
  <2> QED
    BY <2>1, FS_CardinalityType DEF Init
<1>5. WorldTypes /\ RoundTypes
  BY <1>4, WorldAssumption DEF Init, WorldTypes, RoundTypes, FoodType, Thinking
<1> QED
  BY <1>2, <1>3, <1>5, IndParts DEF Fine, Init, Dying

--------------------------------------------------------------------------------
(***************************************************************************)
(* What a turn does to the other creatures                                 *)
(***************************************************************************)

\* The creature of a slot is the same and no worse off.
Spared(t) ==
  /\ creature'[t].player = creature[t].player
  /\ creature'[t].vm_id = creature[t].vm_id
  /\ creature'[t].health >= creature[t].health
  /\ creature'[t].food >= creature[t].food

\* It is the same and does what it did, where it did.
Stays(t) ==
  /\ creature'[t].player = creature[t].player
  /\ creature'[t].state = creature[t].state
  /\ creature'[t].x = creature[t].x

\* A birth takes a slot that was free.
LEMMA FirstIsFree == ASSUME NEW cr, FreeSlots(cr) # {} PROVE FirstFree(cr) \in FreeSlots(cr)
<1>1. FreeSlots(cr) \subseteq Nat
  BY WorldAssumption DEF FreeSlots, Slots
<1>2. PICK s \in FreeSlots(cr) : \A t \in FreeSlots(cr) : ~ (<<t, s>> \in OpToRel(<, Nat))
  BY <1>1, NatLessThanWellFounded, WFMin
<1>3. ASSUME NEW t \in FreeSlots(cr) PROVE s <= t
  <2>1. s \in Nat /\ t \in Nat
    BY <1>1
  <2>2. ~ (t < s)
    BY <1>2, <2>1 DEF OpToRel
  <2> QED
    BY <2>1, <2>2
<1> QED
  BY <1>3 DEF FirstFree

\* Only a hit, a gift and a birth reach another slot: a hit is for enemies, a gift makes
\* nobody poorer, a birth takes a free slot.
LEMMA OthersAfterAct ==
  ASSUME Ind, NEW s \in Slots, NEW t \in Slots, s # t, Act(s)
  PROVE  /\ Used(t) /\ creature[t].player = creature[s].player => Spared(t)
         /\ next_free_vm_id' = next_free_vm_id /\ creature'[t].player # NoPlayer =>
              Used(t) /\ Stays(t)
<1> DEFINE c == Aged(creature[s])
           Calm == creature'[t] = creature[t]
<1>1. creature \in [Slots -> Creature] /\ creature[t] \in Creature
  BY DEF Ind, TypeOK
<1>2. creature[t].health \in Int /\ creature[t].food \in Int
  BY <1>1 DEF Creature
<1>3. Calm => Spared(t) /\ (creature'[t].player # NoPlayer => Used(t) /\ Stays(t))
  BY <1>2 DEF Spared, Stays, Used
<1>4. ActAlone(s, c) \/ ActEat(s, c) \/ ActAttack(s, c) \/ ActSpawn(s, c) \/ ActFeed(s, c)
  BY DEF Act
<1>5. c.player = creature[s].player
  BY <1>1 DEF Aged, Creature
<1>6. Used(s) /\ Sound(c) /\ Sound(creature[s])
  BY UsedSound, AgedSound DEF Act
<1>7. c.type \in Types
  BY <1>6 DEF Sound, SoundOn, Whole, Creature
<1>8. c.food \in Nat
  BY <1>6, <1>7, TableTypes DEF Sound, SoundOn, Whole, Fits
<1> HIDE DEF c
<1>9. CASE ActAlone(s, c) \/ ActEat(s, c)
  <2>1. Calm
    BY <1>1, <1>9 DEF ActAlone, ActEat
  <2> QED
    BY <1>3, <2>1
<1>10. CASE ActAttack(s, c)
  <2>1. CASE creature' = [creature EXCEPT ![s] = set_state(c, "IDLE")]
    <3>1. Calm
      BY <1>1, <2>1
    <3> QED
      BY <1>3, <3>1
  <2>2. ASSUME NEW u \in With(c.target_id), CanHit(c, u), NEW n,
               creature' = [creature EXCEPT ![s] = c, ![u].health = @ - n]
        PROVE  /\ Used(t) /\ creature[t].player = creature[s].player => Spared(t)
               /\ creature'[t].player # NoPlayer => Used(t) /\ Stays(t)
    <3>1. Used(u) /\ u \in Slots /\ creature[u].player # creature[s].player
      BY <1>5, <2>2 DEF With, UsedSlots, CanHit
    <3>2. CASE u = t
      <4>1. creature'[t] = [creature[t] EXCEPT !.health = @ - n]
        BY <1>1, <2>2, <3>2
      <4>2. Stays(t)
        BY <1>1, <4>1 DEF Stays, Creature
      <4> QED
        BY <3>1, <3>2, <4>2
    <3>3. CASE u # t
      <4>1. Calm
        BY <1>1, <2>2, <3>3
      <4> QED
        BY <1>3, <4>1
    <3> QED
      BY <3>2, <3>3
  <2>3. ASSUME NEW u \in With(c.target_id), CanHit(c, u),
               creature' = [creature EXCEPT ![u] = Nobody, ![s] = set_state(c, "IDLE")]
        PROVE  /\ Used(t) /\ creature[t].player = creature[s].player => Spared(t)
               /\ creature'[t].player # NoPlayer => Used(t) /\ Stays(t)
    <3>1. Used(u) /\ u \in Slots /\ creature[u].player # creature[s].player
      BY <1>5, <2>3 DEF With, UsedSlots, CanHit
    <3>2. CASE u = t
      <4>1. creature'[t] = Nobody
        BY <1>1, <2>3, <3>2
      <4>2. creature'[t].player = NoPlayer
        BY <4>1 DEF Nobody
      <4> QED
        BY <3>1, <3>2, <4>2
    <3>3. CASE u # t
      <4>1. Calm
        BY <1>1, <2>3, <3>3
      <4> QED
        BY <1>3, <4>1
    <3> QED
      BY <3>2, <3>3
  <2> QED
    BY <1>10, <2>1, <2>2, <2>3 DEF ActAttack
<1>11. CASE ActSpawn(s, c)
  <2>1. CASE \E d : creature' = [creature EXCEPT ![s] = d]
    <3>1. Calm
      BY <1>1, <2>1
    <3> QED
      BY <1>3, <3>1
  <2>2. ASSUME NEW d, d.player = creature[s].player, CanSpawn(creature, c.x),
               NEW baby, creature' = [[creature EXCEPT ![s] = d] EXCEPT
                                        ![FirstFree([creature EXCEPT ![s] = d])] = baby],
               next_free_vm_id' = next_free_vm_id + 1
        PROVE  /\ Used(t) /\ creature[t].player = creature[s].player => Spared(t)
               /\ next_free_vm_id' # next_free_vm_id
    <3> DEFINE table == [creature EXCEPT ![s] = d]
    <3>1. \A u \in Slots : table[u].player = creature[u].player
      BY <1>1, <2>2
    <3>2. FreeSlots(table) = FreeSlots(creature) /\ FreeSlots(table) # {}
      BY <2>2, <3>1 DEF FreeSlots, CanSpawn
    <3>3. FirstFree(table) \in FreeSlots(creature)
      BY <3>2, FirstIsFree
    <3>4. table[t] = creature[t] /\ table \in [Slots -> {table[u] : u \in Slots}]
      BY <1>1
    <3>5. creature' = [table EXCEPT ![FirstFree(table)] = baby]
      BY <2>2
    <3> HIDE DEF table
    <3>6. Used(t) => Calm
      BY <3>3, <3>4, <3>5 DEF FreeSlots, Used
    <3>7. next_free_vm_id \in Nat
      BY DEF Ind, TypeOK
    <3> QED
      BY <1>3, <2>2, <3>6, <3>7
  <2> DEFINE n == Least(PerRound(spawn_speed[c.type]),
                        Least(spawn_food[c.type] - c.spawn_food, c.food))
             i == IF n = 0 THEN set_state(c, "IDLE") ELSE c
             parent == [i EXCEPT !.spawn_food = @ + n, !.food = @ - n]
             after == set_state(parent, "IDLE")
  <2>3. after.player = creature[s].player
    <3>1. i.player = c.player
      BY <1>6, IdleSound DEF Sound, SoundOn
    <3>2. i \in Creature
      BY <1>6, IdleSound DEF Sound, SoundOn, Whole
    <3>3. n \in Int
      BY <1>6, <1>7, <1>8, TableTypes, PerRoundNat DEF Least, Sound, SoundOn, Whole, Creature
    <3> HIDE DEF i, n
    <3>4. i.spawn_food + n \in Int /\ i.food - n \in Int
      BY <3>2, <3>3 DEF Creature
    <3>5. parent \in Creature /\ parent.player = i.player
      BY <3>2, <3>4 DEF Creature
    <3> HIDE DEF parent
    <3>6. after.player = parent.player
      BY <3>5, EnterFields DEF set_state, States
    <3> QED
      BY <1>5, <3>1, <3>5, <3>6
  <2>4. \/ creature' = [creature EXCEPT ![s] = parent]
        \/ creature' = [creature EXCEPT ![s] = after]
        \/ /\ CanSpawn(creature, c.x) /\ next_free_vm_id' = next_free_vm_id + 1
           /\ \E gift : creature' = WithSpawned([creature EXCEPT ![s] = after], c.player,
                                                next_free_vm_id, c.x, gift)
    BY <1>11 DEF ActSpawn
  <2> HIDE DEF parent, after
  <2> QED
    BY <2>1, <2>2, <2>3, <2>4 DEF WithSpawned
<1>12. CASE ActFeed(s, c)
  <2>1. CASE creature' = [creature EXCEPT ![s] = set_state(c, "IDLE")]
    <3>1. Calm
      BY <1>1, <2>1
    <3> QED
      BY <1>3, <3>1
  <2>2. ASSUME NEW u \in With(c.target_id), NEW d,
               creature' = [[creature EXCEPT ![s] = d] EXCEPT ![u].food = @ + Gift(c, u)]
        PROVE  Spared(t) /\ (creature'[t].player # NoPlayer => Used(t) /\ Stays(t))
    <3>1. u \in Slots /\ Used(u)
      BY <2>2 DEF With, UsedSlots
    <3>2. CASE u = t
      <4>1. creature'[t] = [creature[t] EXCEPT !.food = @ + Gift(c, t)]
        BY <1>1, <2>2, <3>2
      <4>2. Gift(c, t) \in Nat
        <5>1. creature[t].type \in Types /\ Fits(creature[t])
          BY <1>1, <3>1, <3>2, UsedSound DEF Sound, SoundOn, Whole, Creature
        <5>2. Room(t) \in Nat
          BY <5>1, TableTypes DEF Room, Fits
        <5> QED
          BY <1>7, <1>8, <5>2, TableTypes, PerRoundNat DEF Gift, Least
      <4>3. /\ creature'[t].food = creature[t].food + Gift(c, t)
            /\ creature'[t].health = creature[t].health
            /\ creature'[t].vm_id = creature[t].vm_id
            /\ Stays(t)
        BY <1>1, <4>1 DEF Stays, Creature
      <4> QED
        BY <1>2, <3>1, <3>2, <4>2, <4>3 DEF Spared, Stays
    <3>3. CASE u # t
      <4>1. Calm
        BY <1>1, <2>2, <3>3
      <4> QED
        BY <1>3, <4>1
    <3> QED
      BY <3>2, <3>3
  <2> QED
    BY <1>12, <2>1, <2>2 DEF ActFeed
<1> QED
  BY <1>4, <1>9, <1>10, <1>11, <1>12

--------------------------------------------------------------------------------
(***************************************************************************)
(* The hill, in a round without a birth: those who had their turn and stay *)
(* there are remembered, and the last of them stands for all as long as    *)
(* they are friends.                                                       *)
(***************************************************************************)
Visitors == {s \in UsedSlots : s < turn /\ OnHill(creature[s])}
NoBirth == turn # Thinking /\ next_free_vm_id = round_vm_id

Remembered ==
  on_koth # NoSlot =>
    /\ on_koth \in round_alive /\ on_koth < turn
    /\ Used(on_koth) => OnHill(creature[on_koth])

Friends ==
  \A s \in Visitors :
    /\ on_koth # NoSlot
    /\ koth_score /\ Used(on_koth) => creature[on_koth].player = creature[s].player

Rivals ==
  UsedSlots = round_alive /\ ~ koth_score =>
    \E s, t \in Visitors : creature[s].player # creature[t].player

Watched ==
  /\ turn = Thinking => on_koth = NoSlot /\ koth_score
  /\ turn # Thinking => round_vm_id <= next_free_vm_id
  /\ NoBirth => UsedSlots \subseteq round_alive /\ Remembered /\ Friends /\ Rivals

\* A turn and the other creatures, whatever the turn is.
LEMMA OthersAfterMove ==
  ASSUME Ind, NEW s \in Slots, NEW t \in Slots, s # t, Move(s)
  PROVE  /\ Used(t) /\ creature[t].player = creature[s].player => Spared(t)
         /\ next_free_vm_id' = next_free_vm_id /\ creature'[t].player # NoPlayer =>
              Used(t) /\ Stays(t)
<1>1. creature \in [Slots -> Creature] /\ creature[t] \in Creature
  BY DEF Ind, TypeOK
<1>2. creature[t].health \in Int /\ creature[t].food \in Int
  BY <1>1 DEF Creature
<1>3. CASE SkipFree(s) \/ Die(s)
  <2>1. creature'[t] = creature[t]
    BY <1>1, <1>3 DEF SkipFree, Die
  <2> QED
    BY <1>2, <2>1 DEF Spared, Stays, Used
<1> QED
  BY <1>3, OthersAfterAct DEF Move

\* A turn and the creature itself.
LEMMA SelfAfterMove ==
  ASSUME Ind, NEW s \in Slots, Move(s)
  PROVE  /\ creature'[s].player # NoPlayer => Used(s)
         /\ turn = s /\ turn' = s + 1
         /\ UNCHANGED <<king, round_vm_id, round_alive>>
         /\ \/ LookAtHill(s) /\ Used(s)
            \/ creature'[s].player = NoPlayer /\ UNCHANGED <<on_koth, koth_score>>
         /\ next_free_vm_id' \in {next_free_vm_id, next_free_vm_id + 1}
<1>1. creature \in [Slots -> Creature]
  BY DEF Ind, TypeOK
<1>2. turn = s /\ turn' = s + 1 /\ UNCHANGED <<king, round_vm_id, round_alive>>
  BY DEF Move, SkipFree, Die, Act, Pass
<1>3. CASE SkipFree(s)
  BY <1>2, <1>3 DEF SkipFree, Used
<1>4. CASE Die(s)
  BY <1>1, <1>2, <1>4 DEF Die, Nobody
<1>5. CASE Act(s)
  <2>1. Used(s) /\ LookAtHill(s)
    BY <1>5 DEF Act
  <2>2. next_free_vm_id' \in {next_free_vm_id, next_free_vm_id + 1}
    BY <1>5 DEF Act, ActAlone, ActEat, ActAttack, ActSpawn, ActFeed
  <2> QED
    BY <1>2, <2>1, <2>2
<1> QED
  BY <1>3, <1>4, <1>5 DEF Move

LEMMA MoveWatched ==
  ASSUME Ind, Watched, NEW s \in Slots, Move(s)
  PROVE  Watched'
<1>1. /\ turn = s /\ turn' = s + 1 /\ s \in Nat /\ turn # Thinking /\ turn' # Thinking
      /\ UNCHANGED <<round_vm_id, round_alive>>
  BY SelfAfterMove, WorldAssumption DEF Slots, Thinking
<1>2. next_free_vm_id \in Nat /\ round_vm_id \in Nat
      /\ next_free_vm_id' \in {next_free_vm_id, next_free_vm_id + 1}
  BY SelfAfterMove DEF Ind, TypeOK
<1>3. round_vm_id' <= next_free_vm_id'
  BY <1>1, <1>2 DEF Watched
<1>4. SUFFICES ASSUME NoBirth'
               PROVE  (UsedSlots \subseteq round_alive /\ Remembered /\ Friends /\ Rivals)'
  BY <1>1, <1>3 DEF Watched
<1>5. next_free_vm_id' = next_free_vm_id /\ NoBirth
  BY <1>1, <1>2, <1>4 DEF NoBirth, Watched
<1>6. UsedSlots \subseteq round_alive /\ Remembered /\ Friends /\ Rivals
  BY <1>5 DEF Watched
<1>7. \A t \in Slots : creature'[t].player # NoPlayer => Used(t) /\ (t # s => Stays(t))
  BY <1>5, OthersAfterMove, SelfAfterMove
<1>8. (UsedSlots \subseteq round_alive)' /\ UsedSlots' \subseteq UsedSlots
  BY <1>1, <1>6, <1>7 DEF UsedSlots, Used
<1>9. \A t \in Slots : t < s => (t \in Visitors' <=> t \in Visitors /\ creature'[t].player # NoPlayer)
  BY <1>1, <1>7 DEF Visitors, UsedSlots, Used, Stays, OnHill, Slots
<1>10. \A t \in Visitors' : t < s \/ t = s
  BY <1>1 DEF Visitors, UsedSlots, Slots
<1>11. s \in Visitors' => LookAtHill(s) /\ OnHill(creature'[s])
  BY SelfAfterMove DEF Visitors, UsedSlots, Used
<1>12. on_koth \in Slots \cup {NoSlot} /\ (on_koth # NoSlot => on_koth < s)
  BY <1>1, <1>6 DEF Ind, TypeOK, Remembered
<1>13. on_koth # NoSlot => on_koth \in Slots /\ on_koth \in round_alive /\ on_koth < s
  BY <1>6, <1>12 DEF Remembered
<1>14. CASE /\ OnHill(creature'[s]) /\ LookAtHill(s) /\ Used(s)
  <2>1. /\ on_koth' = s
        /\ koth_score' <=> /\ koth_score
                           /\ on_koth # NoSlot => creature'[on_koth].player = creature'[s].player
    BY <1>14, <1>6 DEF LookAtHill, Ind, TypeOK
  <2>2. Remembered'
    BY <1>1, <1>6, <1>14, <2>1 DEF Remembered, UsedSlots
  <2>3. s # NoSlot
    BY <1>1 DEF NoSlot
  <2>4. Friends'
    <3> SUFFICES ASSUME NEW t \in Visitors', koth_score', Used(s)'
                 PROVE  creature'[s].player = creature'[t].player
      BY <2>1, <2>3 DEF Friends
    <3>1. CASE t = s
      BY <3>1
    <3>2. CASE t # s
      <4>1. t \in Slots /\ t < s /\ t \in Visitors /\ creature'[t].player # NoPlayer
        BY <1>9, <1>10, <3>2 DEF Visitors, UsedSlots
      <4>2. creature'[t].player = creature[t].player
        BY <1>7, <3>2, <4>1 DEF Stays
      <4>3. /\ on_koth # NoSlot /\ koth_score
            /\ creature'[on_koth].player = creature'[s].player
        BY <1>6, <2>1, <4>1 DEF Friends
      <4>4. Used(on_koth) /\ creature'[on_koth].player = creature[on_koth].player
        BY <1>1, <1>7, <1>13, <4>3 DEF Stays, Used, Slots
      <4> QED
        BY <1>6, <4>1, <4>2, <4>3, <4>4 DEF Friends
    <3> QED
      BY <3>1, <3>2
  <2>5. Rivals'
    <3> SUFFICES ASSUME (UsedSlots = round_alive)', ~ koth_score'
                 PROVE  \E t, u \in Visitors' : creature'[t].player # creature'[u].player
      BY DEF Rivals
    <3>1. UsedSlots = round_alive /\ UsedSlots' = UsedSlots
      BY <1>1, <1>6, <1>8
    <3>2. s \in Visitors'
      BY <1>1, <1>14, <3>1 DEF Visitors, UsedSlots
    <3>3. CASE koth_score
      <4>1. on_koth # NoSlot /\ creature'[on_koth].player # creature'[s].player
        BY <2>1, <3>3
      <4>2. on_koth \in UsedSlots /\ OnHill(creature[on_koth]) /\ on_koth < turn
        BY <1>6, <3>1, <4>1 DEF Remembered, UsedSlots
      <4>3. on_koth \in Visitors' /\ on_koth \in Slots
        BY <1>1, <1>9, <1>13, <3>1, <4>1, <4>2 DEF Visitors, UsedSlots, Used
      <4> QED
        BY <3>2, <4>1, <4>3
    <3>4. CASE ~ koth_score
      <4>1. PICK t \in Visitors, u \in Visitors : creature[t].player # creature[u].player
        BY <1>6, <3>1, <3>4 DEF Rivals
      <4>2. /\ t \in Slots /\ u \in Slots /\ t < s /\ u < s
            /\ creature'[t].player # NoPlayer /\ creature'[u].player # NoPlayer
        BY <1>1, <3>1 DEF Visitors, UsedSlots, Used
      <4>3. t # s /\ u # s
        BY <1>1, <4>2 DEF Slots
      <4>4. creature'[t].player = creature[t].player /\ creature'[u].player = creature[u].player
        BY <1>7, <4>2, <4>3 DEF Stays
      <4> QED
        BY <1>9, <4>1, <4>2, <4>4
    <3> QED
      BY <3>3, <3>4
  <2> QED
    BY <1>8, <2>2, <2>4, <2>5
<1>15. CASE s \notin Visitors' /\ UNCHANGED <<on_koth, koth_score>>
  <2>1. ASSUME NEW t \in Visitors'
        PROVE  t \in Slots /\ t < s /\ t \in Visitors /\ creature'[t].player = creature[t].player
    <3>1. t \in Slots /\ t < s /\ t # s
      BY <1>10, <1>15 DEF Visitors, UsedSlots
    <3>2. t \in Visitors /\ creature'[t].player # NoPlayer
      BY <1>9, <3>1
    <3> QED
      BY <1>7, <3>1, <3>2 DEF Stays
  <2>2. on_koth # NoSlot /\ Used(on_koth)' =>
          Used(on_koth) /\ Stays(on_koth)
    BY <1>1, <1>7, <1>13, <1>15 DEF Used, Slots
  <2>3. Remembered'
    <3> SUFFICES ASSUME on_koth # NoSlot
                 PROVE  /\ on_koth \in round_alive /\ on_koth < s + 1
                        /\ Used(on_koth)' => OnHill(creature'[on_koth])
      BY <1>1, <1>15 DEF Remembered, Used
    <3>1. on_koth < s + 1
      BY <1>1, <1>13 DEF Slots
    <3> QED
      BY <1>6, <1>13, <2>2, <3>1 DEF Remembered, Stays, OnHill
  <2>4. Friends'
    BY <1>6, <1>15, <2>1, <2>2 DEF Friends, Used, Stays
  <2>5. Rivals'
    <3> SUFFICES ASSUME (UsedSlots = round_alive)', ~ koth_score
                 PROVE  \E t, u \in Visitors' : creature'[t].player # creature'[u].player
      BY <1>15 DEF Rivals
    <3>1. UsedSlots = round_alive /\ UsedSlots' = UsedSlots
      BY <1>1, <1>6, <1>8
    <3>2. PICK t \in Visitors, u \in Visitors : creature[t].player # creature[u].player
      BY <1>6, <3>1 DEF Rivals
    <3>3. /\ t \in Slots /\ u \in Slots /\ t < s /\ u < s
          /\ creature'[t].player # NoPlayer /\ creature'[u].player # NoPlayer
      BY <1>1, <3>1 DEF Visitors, UsedSlots, Used
    <3>4. t \in Visitors' /\ u \in Visitors'
      BY <1>9, <3>2, <3>3
    <3> QED
      BY <2>1, <3>2, <3>4
  <2> QED
    BY <1>8, <2>3, <2>4, <2>5
<1>16. \/ OnHill(creature'[s]) /\ LookAtHill(s) /\ Used(s)
       \/ s \notin Visitors' /\ UNCHANGED <<on_koth, koth_score>>
  BY SelfAfterMove DEF LookAtHill, Visitors, UsedSlots, Used
<1> QED
  BY <1>14, <1>15, <1>16

LEMMA WatchedStep == Ind /\ Dying /\ Watched /\ [Next]_vars => Watched'
<1> SUFFICES ASSUME Ind, Dying, Watched, [Next]_vars PROVE Watched'
  OBVIOUS
<1>1. CASE Commands \/ Surroundings
  <2>1. turn = Thinking /\ UNCHANGED <<turn, on_koth, koth_score>>
    BY <1>1 DEF Commands, Surroundings, CmdSetState, CmdSetPath, CmdSetTarget, CmdSetConvert,
                CmdSuicide, Command, Becomes, TickFood, Dig, Respawn, DestroyPlayer, Idle, round
  <2> QED
    BY <2>1 DEF Watched, NoBirth
<1>2. ASSUME NEW s \in Slots, KillDoomed(s) PROVE Watched'
  <2>1. turn = Thinking /\ UNCHANGED <<turn, on_koth, koth_score>>
    BY <1>2 DEF KillDoomed, Dying, round
  <2> QED
    BY <2>1 DEF Watched, NoBirth
<1>3. CASE StartRound
  <2>1. /\ turn = Thinking /\ turn' = 0 /\ round_vm_id' = next_free_vm_id'
        /\ round_alive' = UsedSlots' /\ on_koth' = NoSlot /\ koth_score' = TRUE
    BY <1>3 DEF StartRound, Idle, Watched, UsedSlots, Used
  <2>2. Visitors' = {} /\ turn' # Thinking /\ next_free_vm_id' \in Nat
    BY <1>3, <2>1 DEF Visitors, UsedSlots, Slots, Thinking, StartRound, Ind, TypeOK
  <2> QED
    BY <2>1, <2>2 DEF Watched, Remembered, Friends, Rivals
<1>4. CASE EndRound
  BY <1>4 DEF EndRound, Watched, NoBirth
<1>5. CASE UNCHANGED vars
  BY <1>5 DEF vars, Watched, NoBirth, Remembered, Friends, Rivals, Visitors, UsedSlots, Used
<1> QED
  BY <1>1, <1>2, <1>3, <1>4, <1>5, MoveWatched DEF Next, Engine

LEMMA InitWatched == Init => Watched
  BY DEF Init, Watched, NoBirth

\* Who is crowned, when everybody had a turn.
LEMMA CrownedRightly ==
  ASSUME Ind, Watched, EndRound, next_free_vm_id = round_vm_id
  PROVE  /\ king' # NoPlayer => Holders = {king'}
         /\ UsedSlots = round_alive => \A p \in Players : Holders = {p} => king' = p
<1>1. turn = MAXCREATURES /\ turn # Thinking /\ king' = Crowned
  BY WorldAssumption DEF EndRound, Thinking
<1>2. Remembered /\ Friends /\ Rivals
  BY <1>1 DEF Watched, NoBirth
<1>3. Visitors = {s \in UsedSlots : OnHill(creature[s])}
  BY <1>1, WorldAssumption DEF Visitors, UsedSlots, Slots
<1>4. Holders = {creature[s].player : s \in Visitors}
  BY <1>3 DEF Holders
<1>5. on_koth # NoSlot => on_koth \in Slots
  BY DEF Ind, TypeOK
<1>6. on_koth # NoSlot /\ Used(on_koth) => on_koth \in Visitors
  BY <1>2, <1>3, <1>5 DEF Remembered, UsedSlots
<1>7. ASSUME king' # NoPlayer PROVE Holders = {king'}
  <2>1. /\ koth_score /\ on_koth # NoSlot /\ Used(on_koth)
        /\ king' = creature[on_koth].player
    BY <1>1, <1>7 DEF Crowned
  <2>2. \A s \in Visitors : creature[s].player = king'
    BY <1>2, <2>1 DEF Friends
  <2> QED
    BY <1>4, <1>6, <2>1, <2>2
<1>8. ASSUME UsedSlots = round_alive, NEW p \in Players, Holders = {p} PROVE king' = p
  <2>1. \A s \in Visitors : creature[s].player = p
    BY <1>4, <1>8
  <2>2. koth_score
    BY <1>2, <1>8, <2>1 DEF Rivals
  <2>3. Visitors # {}
    BY <1>4, <1>8
  <2>4. on_koth # NoSlot
    BY <1>2, <2>3 DEF Friends
  <2>5. Used(on_koth)
    BY <1>2, <1>8, <2>4 DEF Remembered, UsedSlots
  <2> QED
    BY <1>1, <1>6, <2>1, <2>2, <2>4, <2>5 DEF Crowned
<1> QED
  BY <1>7, <1>8

--------------------------------------------------------------------------------
(***************************************************************************)
(* The way of a ground creature: whatever it is busy with, the tiles from  *)
(* where it stands to the end of its path are dug.  A flyer's path is not  *)
(* like that, so the argument is for games in which flyers stay flyers;    *)
(* run CreatureFlyerPath shows what happens in others.                     *)
(***************************************************************************)
FlyersStay == \A type \in Conversions \ {"FLYER"} : conversion_food_needed["FLYER"][type] = 0

Heading(c) ==
  /\ c.state = "WALK" => c.path # NoPath
  /\ Ground(c) /\ c.path # NoPath => PathExists(c.x, c.path)
  /\ ~ Ground(c) => c.convert_type = "FLYER"

\* A position further on is not on an earlier tile.
LEMMA TileGrows ==
  ASSUME NEW x \in Nat, NEW y \in Nat, x <= y
  PROVE  Tile(x) \in Nat /\ Tile(y) \in Nat /\ Tile(x) <= Tile(y)
<1>1. TileSize \in Nat /\ TileSize > 0
  BY WorldAssumption
<1> DEFINE a == x \div TileSize
           b == y \div TileSize
<1>2. /\ a \in Int /\ b \in Int
      /\ TileSize * a <= x /\ x < TileSize * (a + 1)
      /\ TileSize * b <= y /\ y < TileSize * (b + 1)
  BY <1>1
<1> HIDE DEF a, b
<1>3. a <= b
  <2> SUFFICES ASSUME a > b PROVE FALSE
    BY <1>2
  <2>1. TileSize * a >= TileSize * (b + 1)
    BY <1>1, <1>2
  <2> QED
    BY <1>1, <1>2, <2>1
<1>4. a >= 0 /\ b >= 0
  BY <1>1, <1>2
<1> QED
  BY <1>2, <1>3, <1>4 DEF Tile, a, b

\* The rest of a path is dug if the path is.
LEMMA RestOfPath ==
  ASSUME NEW x \in Positions, NEW y \in Positions, NEW z \in Positions, PathExists(x, y),
         \/ x <= z /\ z <= y
         \/ y <= z /\ z <= x
  PROVE  PathExists(z, y)
<1>1. x \in Nat /\ y \in Nat /\ z \in Nat /\ Tiles \subseteq Int
  BY PositionsOf DEF Tiles
<1>2. /\ Tile(x) \in Nat /\ Tile(y) \in Nat /\ Tile(z) \in Nat
      /\ \/ Tile(x) <= Tile(z) /\ Tile(z) <= Tile(y)
         \/ Tile(y) <= Tile(z) /\ Tile(z) <= Tile(x)
  BY <1>1, TileGrows
<1> QED
  BY <1>1, <1>2 DEF PathExists

\* The tile it stands on is part of it.
LEMMA StartOfPath ==
  ASSUME NEW x \in Positions, NEW y \in Positions, PathExists(x, y)
  PROVE  world_walkable(x)
<1>1. PICK m \in Nat : Positions = 0 .. m /\ m = WorldWidth * TileSize - 1
  BY PositionsOf
<1>2. x \in Nat /\ y \in Nat /\ Tile(x) \in Nat /\ Tile(y) \in Nat
  BY <1>1, TileGrows
<1>3. Tile(x) \in Tiles
  <2>1. TileSize \in Nat /\ TileSize > 0 /\ WorldWidth \in Nat
    BY WorldAssumption
  <2>2. x < WorldWidth * TileSize
    BY <1>1, <2>1
  <2>3. TileSize * Tile(x) <= x
    BY <1>2, <2>1 DEF Tile
  <2>4. Tile(x) < WorldWidth
    <3> SUFFICES ASSUME Tile(x) >= WorldWidth PROVE FALSE
      BY <1>2, <2>1
    <3>1. TileSize * Tile(x) >= TileSize * WorldWidth
      BY <1>2, <2>1
    <3> QED
      BY <1>2, <2>1, <2>2, <2>3, <3>1
  <2> QED
    BY <1>2, <2>1, <2>4 DEF Tiles
<1> QED
  BY <1>2, <1>3 DEF PathExists, world_walkable

\* What is done on the spot does not touch the way.
LEMMA SameWay ==
  ASSUME NEW c, Heading(c), NEW d, d.type = c.type, d.x = c.x, d.path = c.path,
         d.convert_type = c.convert_type, d.state = "WALK" => c.state = "WALK"
  PROVE  Heading(d)
  BY DEF Heading, Ground

\* Changing the state.
LEMMA StateWay ==
  ASSUME NEW c \in Creature, Heading(c), NEW state \in States
  PROVE  /\ Heading(set_state(c, state))
         /\ set_state(c, state).type = c.type /\ set_state(c, state).x = c.x
         /\ set_state(c, state).path = c.path /\ set_state(c, state).player = c.player
<1>1. CASE state # c.state /\ CanEnter(c, state)
  <2>1. Enter(c, state).path = c.path
    BY DEF Enter, Creature
  <2> QED
    BY <1>1, <2>1, EnterFields DEF set_state, CanEnter, Heading, Ground
<1>2. CASE ~ (state # c.state /\ CanEnter(c, state))
  BY <1>2 DEF set_state
<1> QED
  BY <1>1, <1>2

\* A walking creature goes along its path.
LEMMA WalkedWay ==
  ASSUME NEW c, Sound(c), Heading(c), c.state = "WALK"
  PROVE  Heading(Walked(c))
<1> DEFINE n == IF PerRound(creature_speed(c)) = 0 THEN 1 ELSE PerRound(creature_speed(c))
<1>1. c \in Creature /\ c.type \in Types /\ c.x \in Positions /\ "IDLE" \in States
  BY DEF Sound, SoundOn, Whole, Creature, States
<1>2. c.path # NoPath /\ c.path \in Positions
  BY <1>1 DEF Heading, Creature
<1>3. CASE n >= Dist(c.path, c.x)
  <2> DEFINE d == [c EXCEPT !.x = c.path, !.path = NoPath]
  <2>1. /\ d \in Creature /\ d.path = NoPath /\ d.type = c.type
        /\ d.convert_type = c.convert_type
    BY <1>1, <1>2 DEF Creature
  <2> HIDE DEF d
  <2>2. set_state(d, "IDLE") = Enter(d, "IDLE")
    BY <1>1 DEF set_state, CanEnter, d
  <2>3. Enter(d, "IDLE").path = NoPath
    BY <1>1, <2>1 DEF Enter, Creature
  <2>4. Enter(d, "IDLE").type = c.type /\ Enter(d, "IDLE").convert_type = c.convert_type
        /\ Enter(d, "IDLE").state = "IDLE"
    BY <1>1, <2>1, EnterFields DEF Creature
  <2>5. Heading(set_state(d, "IDLE"))
    BY <2>2, <2>3, <2>4 DEF Heading, Ground
  <2> QED
    BY <1>2, <1>3, <2>5 DEF Walked, d
<1>4. CASE ~ (n >= Dist(c.path, c.x))
  <2> DEFINE y == IF c.path > c.x THEN c.x + n ELSE c.x - n
             d == [c EXCEPT !.x = y]
  <2>1. n \in Nat
    <3>1. c.health \in Nat
      BY <1>1 DEF Sound, SoundOn, Whole, Fits
    <3>2. health_speed[c.type] * c.health \in Nat
      BY <1>1, <3>1, TableTypes
    <3>3. (health_speed[c.type] * c.health) \div max_health[c.type] \in Nat
      BY <1>1, <3>2, TableTypes
    <3>4. creature_speed(c) \in Nat
      BY <1>1, <3>3, TableTypes DEF creature_speed, Least, SpeedLimit
    <3> QED
      BY <3>4, PerRoundNat
  <2>2. Walked(c) = d
    BY <1>1, <1>2, <1>4 DEF Walked, Creature
  <2> HIDE DEF n
  <2>3. /\ y \in Positions
        /\ \/ c.x <= y /\ y <= c.path
           \/ c.path <= y /\ y <= c.x
    <3>1. PICK m \in Nat : Positions = 0 .. m
      BY PositionsOf
    <3>2. c.x \in 0 .. m /\ c.path \in 0 .. m /\ n < Dist(c.path, c.x)
      BY <1>1, <1>2, <1>4, <2>1, <3>1 DEF Dist
    <3> QED
      BY <2>1, <3>1, <3>2 DEF Dist
  <2> HIDE DEF y
  <2>4. d.type = c.type /\ d.x = y /\ d.path = c.path /\ d.state = c.state
        /\ d.convert_type = c.convert_type
    BY <1>1 DEF Creature
  <2>5. Ground(c) => PathExists(y, c.path)
    BY <1>1, <1>2, <2>3, RestOfPath DEF Heading
  <2> QED
    BY <2>2, <2>4, <2>5 DEF Heading, Ground
<1> QED
  BY <1>3, <1>4

LEMMA HealedWay ==
  ASSUME NEW c, Sound(c), Heading(c)
  PROVE  Heading(Healed(c))
<1> DEFINE n == Least(PerRound(heal_rate[c.type]), Least(max_health[c.type] - c.health, c.food))
           d == [c EXCEPT !.health = @ + n, !.food = @ - n]
<1>1. c \in Creature /\ c.type \in Types /\ Whole(c) /\ "IDLE" \in States
  BY DEF Sound, SoundOn, Whole, Creature, States
<1>2. n \in Nat
  BY <1>1, TableTypes, PerRoundNat DEF Whole, Fits, Least
<1>3. Healed(c) = IF HealingDone(d) THEN set_state(d, "IDLE") ELSE d
  BY DEF Healed, n
<1> HIDE DEF n
<1>4. /\ d \in Creature /\ d.type = c.type /\ d.x = c.x /\ d.path = c.path
      /\ d.convert_type = c.convert_type /\ d.state = c.state
  <2>1. c.health + n \in Int /\ c.food - n \in Int
    BY <1>1, <1>2 DEF Creature
  <2> QED
    BY <1>1, <2>1 DEF Creature
<1> HIDE DEF d
<1>5. Heading(d)
  BY <1>4, SameWay
<1> QED
  BY <1>1, <1>3, <1>4, <1>5, StateWay

\* The only change of type, and the only place where a flyer could land with a path.
LEMMA ConvertedWay ==
  ASSUME NEW c, Sound(c), Heading(c), c.state = "CONVERT"
  PROVE  Heading(Converted(c))
<1> DEFINE n == Least(PerRound(conversion_speed[c.type]),
                      Least(conversion_food(c) - c.convert_food, c.food))
           i == IF n = 0 THEN set_state(c, "IDLE") ELSE c
           d == [i EXCEPT !.convert_food = @ + n, !.food = @ - n]
           e == set_type(d, d.convert_type)
<1>1. c \in Creature /\ c.type \in Types /\ Whole(c) /\ "IDLE" \in States
  BY DEF Sound, SoundOn, Whole, Creature, States
<1>2. n \in Int
  <2>1. conversion_food(c) \in Nat
    BY <1>1, TableTypes DEF conversion_food, Creature
  <2> QED
    BY <1>1, <2>1, TableTypes, PerRoundNat DEF Creature, Least
<1>3. Converted(c) = IF d.convert_food = conversion_food(d) THEN set_state(e, "IDLE") ELSE d
  BY DEF Converted
<1>4. i \in Creature /\ Heading(i) /\ i.state # "WALK"
  BY <1>1, StateWay, IdleSound DEF Sound, SoundOn, Whole
<1> HIDE DEF n, i
<1>5. /\ d \in Creature /\ d.type = i.type /\ d.x = i.x /\ d.path = i.path
      /\ d.convert_type = i.convert_type /\ d.state = i.state
  <2>1. i.convert_food + n \in Int /\ i.food - n \in Int
    BY <1>2, <1>4 DEF Creature
  <2> QED
    BY <1>4, <2>1 DEF Creature
<1> HIDE DEF d
<1>6. Heading(d) /\ d.state # "WALK" /\ d.convert_type \in Types
  BY <1>4, <1>5, SameWay DEF Creature
<1>7. e \in Creature /\ Heading(e)
  <2>1. CASE d.convert_type = d.type
    BY <1>5, <1>6, <2>1 DEF set_type
  <2>2. CASE d.convert_type # d.type
    <3> DEFINE h == Least(d.health, max_health[d.convert_type])
               f == Least(d.food, max_food[d.convert_type])
    <3>1. h \in Int /\ f \in Int
      BY <1>5, <1>6, TableTypes DEF Creature, Least
    <3>2. e = [d EXCEPT !.type = d.convert_type, !.convert_type = d.convert_type,
                        !.health = h, !.food = f]
      BY <2>2 DEF set_type
    <3> HIDE DEF h, f, e
    <3>3. /\ e \in Creature /\ e.type = d.convert_type /\ e.convert_type = d.convert_type
          /\ e.x = d.x /\ e.path = d.path /\ e.state = d.state
      BY <1>5, <1>6, <3>1, <3>2 DEF Creature
    <3> QED
      BY <1>6, <2>2, <3>3 DEF Heading, Ground
  <2> QED
    BY <2>1, <2>2
<1> HIDE DEF e
<1> QED
  BY <1>1, <1>3, <1>6, <1>7, StateWay

\* A slot gets a creature that is on its way, or none.
WaysOf(cr) == \A s \in Slots : cr[s].player # NoPlayer => Heading(cr[s])

LEMMA WaysPut ==
  ASSUME NEW cr \in [Slots -> Creature], WaysOf(cr), NEW s \in Slots, NEW c \in Creature,
         c.player # NoPlayer => Heading(c)
  PROVE  [cr EXCEPT ![s] = c] \in [Slots -> Creature] /\ WaysOf([cr EXCEPT ![s] = c])
  BY DEF WaysOf

LEMMA WaysBorn ==
  ASSUME NEW cr \in [Slots -> Creature], WaysOf(cr), NEW p \in Players, NEW id \in Nat,
         NEW x \in Positions, NEW food \in 0 .. max_food["SMALL"]
  PROVE  /\ WithSpawned(cr, p, id, x, food) \in [Slots -> Creature]
         /\ WaysOf(WithSpawned(cr, p, id, x, food))
<1> DEFINE c == NewCreature(p, id, "SMALL", x, food)
<1>1. c \in Creature
  BY NewSound DEF Types, Sound, SoundOn, Whole
<1>2. Heading(c)
  BY DEF Heading, NewCreature, Ground
<1> HIDE DEF c
<1>3. CASE FirstFree(cr) \in Slots
  BY <1>1, <1>2, <1>3, WaysPut DEF WithSpawned, c
<1>4. CASE FirstFree(cr) \notin Slots
  <2>1. WithSpawned(cr, p, id, x, food) = cr
    BY <1>4 DEF WithSpawned
  <2> QED
    BY <2>1
<1> QED
  BY <1>3, <1>4

\* A turn leads nobody off its way.
LEMMA ActWays ==
  ASSUME Ind, WaysOf(creature), NEW s \in Slots, Act(s)
  PROVE  WaysOf(creature')
<1> DEFINE c == Aged(creature[s])
<1>1. creature \in [Slots -> Creature] /\ Used(s) /\ creature[s] \in Creature
  BY DEF Ind, TypeOK, Act
<1>2. Sound(c) /\ Sound(creature[s])
  BY <1>1, UsedSound, AgedSound DEF Act
<1>3. Heading(c) /\ c.player = creature[s].player /\ c.player # NoPlayer
  <2>1. /\ c.type = creature[s].type /\ c.x = creature[s].x /\ c.path = creature[s].path
        /\ c.convert_type = creature[s].convert_type /\ c.state = creature[s].state
        /\ c.player = creature[s].player
    BY <1>1 DEF Aged, Creature
  <2> QED
    BY <1>1, <2>1, SameWay DEF WaysOf, Used
<1>4. ActAlone(s, c) \/ ActEat(s, c) \/ ActAttack(s, c) \/ ActSpawn(s, c) \/ ActFeed(s, c)
  BY DEF Act
<1> HIDE DEF c
<1>5. /\ c \in Creature /\ c.type \in Types /\ c.x \in Positions /\ c.food \in Int
      /\ Whole(c) /\ "IDLE" \in States
      /\ set_state(c, "IDLE") \in Creature /\ Heading(set_state(c, "IDLE"))
  BY <1>2, <1>3, IdleSound, StateWay DEF Sound, SoundOn, Whole, Creature, States
<1>6. ASSUME NEW t \in With(c.target_id), NEW d, d.type = creature[t].type, d.x = creature[t].x,
             d.path = creature[t].path, d.convert_type = creature[t].convert_type,
             d.state = creature[t].state
      PROVE  t \in Slots /\ Heading(d)
  BY <1>6, SameWay DEF With, UsedSlots, Used, WaysOf
<1>7. CASE ActAlone(s, c)
  <2>1. PICK d : creature' = [creature EXCEPT ![s] = d] /\ Sound(d) /\ Heading(d)
    <3>1. CASE c.state = "IDLE"
      BY <1>2, <1>3, <1>7, <3>1 DEF ActAlone
    <3>2. CASE c.state = "WALK"
      BY <1>2, <1>3, <1>7, <3>2, WalkedSound, WalkedWay DEF ActAlone
    <3>3. CASE c.state = "HEAL"
      BY <1>2, <1>3, <1>7, <3>3, HealedSound, HealedWay DEF ActAlone
    <3>4. CASE c.state = "CONVERT"
      BY <1>2, <1>3, <1>7, <3>4, ConvertedSound, ConvertedWay DEF ActAlone
    <3> QED
      BY <1>7, <3>1, <3>2, <3>3, <3>4 DEF ActAlone
  <2> QED
    BY <1>1, <2>1, WaysPut DEF Sound, SoundOn, Whole
<1>8. CASE ActEat(s, c)
  <2> DEFINE eaten == Least(Least(PerRound(eat_rate[c.type]), max_food[c.type] - c.food),
                            IF world_walkable(c.x) THEN FoodOn(c.x) ELSE 0)
             fed   == [c EXCEPT !.food = @ + eaten]
  <2>1. creature' = [creature EXCEPT ![s] = IF eaten = 0 THEN set_state(fed, "IDLE") ELSE fed]
    BY <1>8 DEF ActEat
  <2>2. eaten \in Int
    <3>1. world_walkable(c.x) => FoodOn(c.x) \in Nat
      BY DEF Ind, TypeOK, world_walkable, FoodOn
    <3> QED
      BY <1>5, <3>1, TableTypes, PerRoundNat DEF Least
  <2> HIDE DEF eaten
  <2>3. fed \in Creature /\ Heading(fed)
    <3>1. c.food + eaten \in Int
      BY <1>5, <2>2
    <3>2. /\ fed \in Creature /\ fed.type = c.type /\ fed.x = c.x /\ fed.path = c.path
          /\ fed.convert_type = c.convert_type /\ fed.state = c.state
      BY <1>5, <3>1 DEF Creature
    <3> HIDE DEF fed
    <3> QED
      BY <1>3, <3>2, SameWay
  <2> HIDE DEF fed
  <2>4. set_state(fed, "IDLE") \in Creature /\ Heading(set_state(fed, "IDLE"))
    BY <1>5, <2>3, StateWay, EnterFields DEF set_state
  <2> QED
    BY <1>1, <2>1, <2>3, <2>4, WaysPut
<1>9. CASE ActAttack(s, c)
  <2>1. CASE creature' = [creature EXCEPT ![s] = set_state(c, "IDLE")]
    BY <1>1, <1>5, <2>1, WaysPut
  <2>2. ASSUME NEW t \in With(c.target_id), CanHit(c, t), NEW n \in Nat,
               creature' = [creature EXCEPT ![s] = c, ![t].health = @ - n]
        PROVE  WaysOf(creature')
    <3> DEFINE first == [creature EXCEPT ![s] = c]
               d == [creature[t] EXCEPT !.health = @ - n]
    <3>1. t \in Slots /\ t # s /\ creature[t] \in Creature
      BY <1>1, <1>3, <2>2 DEF CanHit, With, UsedSlots
    <3>2. creature' = [first EXCEPT ![t] = d]
      BY <1>1, <2>2, <3>1
    <3>3. /\ d \in Creature /\ d.type = creature[t].type /\ d.x = creature[t].x
          /\ d.path = creature[t].path /\ d.convert_type = creature[t].convert_type
          /\ d.state = creature[t].state
      <4>1. creature[t].health - n \in Int
        BY <3>1 DEF Creature
      <4> QED
        BY <3>1, <4>1 DEF Creature
    <3> HIDE DEF d
    <3>4. Heading(d)
      BY <1>6, <2>2, <3>3
    <3>5. first \in [Slots -> Creature] /\ WaysOf(first)
      BY <1>1, <1>3, <1>5, WaysPut
    <3> HIDE DEF first
    <3> QED
      BY <3>1, <3>2, <3>3, <3>4, <3>5, WaysPut
  <2>3. ASSUME NEW t \in With(c.target_id),
               creature' = [creature EXCEPT ![t] = Nobody, ![s] = set_state(c, "IDLE")]
        PROVE  WaysOf(creature')
    <3> DEFINE first == [creature EXCEPT ![t] = Nobody]
    <3>1. t \in Slots /\ Nobody \in Creature /\ Nobody.player = NoPlayer
      <4>1. 0 \in Positions
        BY PositionsOf
      <4> QED
        BY <4>1 DEF Nobody, Creature, Types, States, NoPath, With, UsedSlots
    <3>2. first \in [Slots -> Creature] /\ WaysOf(first)
      BY <1>1, <3>1, WaysPut
    <3>3. creature' = [first EXCEPT ![s] = set_state(c, "IDLE")]
      BY <2>3
    <3> HIDE DEF first
    <3> QED
      BY <1>5, <3>2, <3>3, WaysPut
  <2>4. \A t \in With(c.target_id) : PerRound(hitpoints[c.type][creature[t].type]) \in Nat
    BY <1>1, <1>5, TableTypes, PerRoundNat DEF With, UsedSlots, Creature
  <2> QED
    BY <1>9, <2>1, <2>2, <2>3, <2>4 DEF ActAttack
<1>10. CASE ActSpawn(s, c)
  <2> DEFINE n == Least(PerRound(spawn_speed[c.type]),
                        Least(spawn_food[c.type] - c.spawn_food, c.food))
             i == IF n = 0 THEN set_state(c, "IDLE") ELSE c
             parent == [i EXCEPT !.spawn_food = @ + n, !.food = @ - n]
             gift == IF BabyFood <= max_food["SMALL"] THEN BabyFood ELSE 0
             table == [creature EXCEPT ![s] = set_state(parent, "IDLE")]
  <2>1. \/ creature' = [creature EXCEPT ![s] = parent]
        \/ creature' = WithSpawned(table, c.player, next_free_vm_id, c.x, gift)
        \/ creature' = table
    BY <1>10 DEF ActSpawn
  <2>2. n \in Int
    BY <1>5, TableTypes, PerRoundNat DEF Least, Creature
  <2>3. i \in Creature /\ Heading(i)
    BY <1>3, <1>5
  <2> HIDE DEF n, i
  <2>4. parent \in Creature /\ Heading(parent)
    <3>1. i.spawn_food + n \in Int /\ i.food - n \in Int
      BY <2>2, <2>3 DEF Creature
    <3>2. /\ parent \in Creature /\ parent.type = i.type /\ parent.x = i.x
          /\ parent.path = i.path /\ parent.convert_type = i.convert_type
          /\ parent.state = i.state
      BY <2>3, <3>1 DEF Creature
    <3> HIDE DEF parent
    <3> QED
      BY <2>3, <3>2, SameWay
  <2> HIDE DEF parent
  <2>5. set_state(parent, "IDLE") \in Creature /\ Heading(set_state(parent, "IDLE"))
    BY <1>5, <2>4, StateWay, EnterFields DEF set_state
  <2>6. table \in [Slots -> Creature] /\ WaysOf(table)
    BY <1>1, <2>5, WaysPut
  <2>7. gift \in 0 .. max_food["SMALL"] /\ next_free_vm_id \in Nat /\ c.player \in Players
    <3>1. max_food["SMALL"] \in Nat
      BY TableTypes DEF Types
    <3> QED
      BY <1>3, <1>5, <3>1, WorldAssumption DEF Ind, TypeOK, Creature
  <2> HIDE DEF table, gift
  <2> QED
    BY <1>1, <1>5, <2>1, <2>4, <2>6, <2>7, WaysPut, WaysBorn
<1>11. CASE ActFeed(s, c)
  <2> DEFINE giver(t) == Giver(c, Gift(c, t))
             after(t) == IF Gift(c, t) \in {0, c.food, Room(t)}
                         THEN set_state(giver(t), "IDLE") ELSE giver(t)
  <2>1. CASE creature' = [creature EXCEPT ![s] = set_state(c, "IDLE")]
    BY <1>1, <1>5, <2>1, WaysPut
  <2>2. ASSUME NEW t \in With(c.target_id),
               creature' = [[creature EXCEPT ![s] = after(t)] EXCEPT ![t].food = @ + Gift(c, t)]
        PROVE  WaysOf(creature')
    <3> DEFINE n == Gift(c, t)
               g == giver(t)
               a == after(t)
               first == [creature EXCEPT ![s] = a]
               d == [first[t] EXCEPT !.food = @ + n]
    <3>1. t \in Slots /\ creature[t] \in Creature /\ Used(t)
      BY <1>1, <2>2 DEF With, UsedSlots
    <3>2. n \in Int
      <4>1. creature[t].type \in Types /\ creature[t].food \in Int
        BY <3>1 DEF Creature
      <4> QED
        BY <1>5, <4>1, TableTypes, PerRoundNat DEF Gift, Room, Least
    <3> HIDE DEF n
    <3>3. g \in Creature /\ Heading(g) /\ g.player = c.player
      <4>1. c.food - n \in Int /\ g = [c EXCEPT !.food = @ - n]
        BY <1>5, <3>2 DEF Giver, n
      <4> HIDE DEF g
      <4>2. /\ g \in Creature /\ g.type = c.type /\ g.x = c.x /\ g.path = c.path
            /\ g.convert_type = c.convert_type /\ g.state = c.state /\ g.player = c.player
        BY <1>5, <4>1 DEF Creature
      <4> QED
        BY <1>3, <4>2, SameWay
    <3>4. a = set_state(g, "IDLE") \/ a = g
      OBVIOUS
    <3> HIDE DEF giver, g, after, a
    <3>5. a \in Creature /\ Heading(a) /\ a.player = c.player
      BY <1>5, <3>3, <3>4, StateWay, EnterFields DEF set_state
    <3>6. first \in [Slots -> Creature] /\ WaysOf(first)
      BY <1>1, <3>5, WaysPut
    <3>7. first[t] \in Creature /\ Heading(first[t])
      BY <1>1, <3>1, <3>5, <3>6 DEF WaysOf, Used
    <3>8. creature' = [first EXCEPT ![t] = d]
      BY <2>2, <3>1, <3>6 DEF a, n
    <3> HIDE DEF first
    <3>9. /\ d \in Creature /\ d.type = first[t].type /\ d.x = first[t].x
          /\ d.path = first[t].path /\ d.convert_type = first[t].convert_type
          /\ d.state = first[t].state
      <4>1. first[t].food + n \in Int
        BY <3>2, <3>7 DEF Creature
      <4> QED
        BY <3>7, <4>1 DEF Creature
    <3> HIDE DEF d
    <3>10. Heading(d)
      BY <3>7, <3>9, SameWay
    <3> QED
      BY <3>1, <3>6, <3>8, <3>9, <3>10, WaysPut
  <2> QED
    BY <1>11, <2>1, <2>2 DEF ActFeed
<1> QED
  BY <1>4, <1>7, <1>8, <1>9, <1>10, <1>11

LEMMA WaysStep == FlyersStay /\ Ind /\ WaysOf(creature) /\ [Next]_vars => WaysOf(creature)'
<1> SUFFICES ASSUME FlyersStay, Ind, WaysOf(creature), [Next]_vars PROVE WaysOf(creature)'
  OBVIOUS
<1>1. creature \in [Slots -> Creature]
  BY DEF Ind, TypeOK
<1>2. ASSUME WaysOf(creature'), plain \subseteq plain' PROVE WaysOf(creature)'
  BY <1>2 DEF WaysOf, Heading, PathExists
<1>3. Nobody \in Creature /\ Nobody.player = NoPlayer
  <2>1. 0 \in Positions
    BY PositionsOf
  <2> QED
    BY <2>1 DEF Nobody, Creature, Types, States, NoPath
<1>4. CASE Commands
  <2>1. PICK s \in Slots :
          \/ \E state \in Requests : CmdSetState(s, state)
          \/ \E x \in Goals : CmdSetPath(s, x)
          \/ \E id \in 0 .. MaxVmId : CmdSetTarget(s, id)
          \/ \E type \in Conversions : CmdSetConvert(s, type)
          \/ CmdSuicide(s)
    BY <1>4 DEF Commands
  <2> DEFINE c == creature[s]
  <2>2. c \in Creature /\ Heading(c) /\ plain' = plain
    BY <1>1, <2>1 DEF WaysOf, Used, CmdSetState, CmdSetPath, CmdSetTarget, CmdSetConvert,
                      CmdSuicide, Command, Becomes
  <2>3. PICK d \in Creature : Becomes(s, d) /\ Heading(d)
    <3>1. CASE \E state \in Requests : CmdSetState(s, state)
      <4>1. PICK state \in Requests : Becomes(s, set_state(c, state))
        BY <3>1 DEF CmdSetState
      <4>2. state \in States
        BY WorldAssumption
      <4> QED
        BY <2>2, <4>1, <4>2, StateWay, EnterFields DEF set_state
    <3>2. CASE \E x \in Goals : CmdSetPath(s, x)
      <4>1. PICK x \in Goals : CanReach(c, x) /\ Becomes(s, [c EXCEPT !.path = x])
        BY <3>2 DEF CmdSetPath
      <4> DEFINE d == [c EXCEPT !.path = x]
      <4>2. /\ d \in Creature /\ d.type = c.type /\ d.x = c.x /\ d.path = x
            /\ d.convert_type = c.convert_type
        BY <2>2, WorldAssumption DEF Creature
      <4>3. x # NoPath
        BY PositionsOf, WorldAssumption DEF NoPath
      <4> HIDE DEF d
      <4>4. Heading(d)
        BY <2>2, <4>1, <4>2, <4>3 DEF Heading, Ground, CanReach
      <4> QED
        BY <4>1, <4>2, <4>4 DEF d
    <3>3. CASE \E id \in 0 .. MaxVmId : CmdSetTarget(s, id)
      <4>1. PICK id \in 0 .. MaxVmId : Becomes(s, [c EXCEPT !.target_id = id])
        BY <3>3 DEF CmdSetTarget
      <4> DEFINE d == [c EXCEPT !.target_id = id]
      <4>2. /\ d \in Creature /\ d.type = c.type /\ d.x = c.x /\ d.path = c.path
            /\ d.convert_type = c.convert_type /\ d.state = c.state
        BY <2>2, WorldAssumption DEF Creature
      <4> HIDE DEF d
      <4> QED
        BY <2>2, <4>1, <4>2, SameWay DEF d
    <3>4. CASE \E type \in Conversions : CmdSetConvert(s, type)
      <4>1. PICK type \in Conversions :
              /\ conversion_food_needed[c.type][type] # 0
              /\ Becomes(s, [c EXCEPT !.convert_food = IF c.convert_type = type THEN @ ELSE 0,
                                      !.convert_type = type])
        BY <3>4 DEF CmdSetConvert
      <4> DEFINE f == IF c.convert_type = type THEN c.convert_food ELSE 0
                 d == [c EXCEPT !.convert_food = f, !.convert_type = type]
      <4>2. f \in Int /\ type \in Types
        BY <2>2, WorldAssumption DEF Creature
      <4>3. Becomes(s, d)
        BY <2>2, <4>1 DEF Creature
      <4> HIDE DEF f
      <4>4. /\ d \in Creature /\ d.type = c.type /\ d.x = c.x /\ d.path = c.path
            /\ d.convert_type = type /\ d.state = c.state
        BY <2>2, <4>2 DEF Creature
      <4>5. ~ Ground(c) => type = "FLYER"
        BY <4>1 DEF FlyersStay, Ground
      <4> HIDE DEF d
      <4> QED
        BY <2>2, <4>3, <4>4, <4>5 DEF Heading, Ground
    <3>5. CASE CmdSuicide(s)
      <4> DEFINE d == [c EXCEPT !.suicide = TRUE]
      <4>1. /\ d \in Creature /\ d.type = c.type /\ d.x = c.x /\ d.path = c.path
            /\ d.convert_type = c.convert_type /\ d.state = c.state /\ Becomes(s, d)
        BY <2>2, <3>5 DEF Creature, CmdSuicide
      <4> HIDE DEF d
      <4> QED
        BY <2>2, <4>1, SameWay
    <3> QED
      BY <2>1, <3>1, <3>2, <3>3, <3>4, <3>5
  <2> QED
    BY <1>1, <1>2, <2>2, <2>3, WaysPut DEF Becomes
<1>5. CASE Surroundings
  <2>1. CASE (\E t \in Tiles, amount \in Drops : TickFood(t, amount))
             \/ (\E t \in Tiles : Dig(t)) \/ (\E p \in Players : DestroyPlayer(p))
    BY <1>2, <2>1 DEF TickFood, Dig, DestroyPlayer
  <2>2. ASSUME NEW p \in Players, NEW x \in Goals, NEW y \in Goals, Respawn(p, x, y)
        PROVE  WaysOf(creature)'
    <3> DEFINE id == next_free_vm_id
               first == WithSpawned(creature, p, id, x, 0)
               second == WithSpawned(first, p, id + 1, y, 0)
    <3>1. x \in Positions /\ y \in Positions /\ id \in Nat /\ 0 \in 0 .. max_food["SMALL"]
      BY TableTypes, WorldAssumption DEF Ind, TypeOK, Types
    <3>2. first \in [Slots -> Creature] /\ WaysOf(first)
      BY <1>1, <3>1, WaysBorn
    <3> HIDE DEF first
    <3>3. WaysOf(second)
      BY <3>1, <3>2, WaysBorn
    <3> HIDE DEF second
    <3> QED
      BY <1>2, <2>2, <3>2, <3>3 DEF Respawn, first, second
  <2> QED
    BY <1>5, <2>1, <2>2 DEF Surroundings
<1>6. ASSUME NEW s \in Slots, KillDoomed(s) \/ Move(s) PROVE WaysOf(creature)'
  <2>1. plain' = plain
    BY <1>6 DEF KillDoomed, Move, SkipFree, Die, Act, Pass
  <2>2. CASE KillDoomed(s) \/ Die(s)
    <3>1. creature' = [creature EXCEPT ![s] = Nobody]
      BY <2>2 DEF KillDoomed, Die
    <3>2. WaysOf(creature')
      BY <1>1, <1>3, <3>1, WaysPut
    <3> QED
      BY <1>2, <2>1, <3>2
  <2>3. CASE SkipFree(s)
    BY <1>2, <2>1, <2>3 DEF SkipFree
  <2>4. CASE Act(s)
    BY <1>2, <2>1, <2>4, ActWays
  <2> QED
    BY <1>6, <2>2, <2>3, <2>4 DEF Move
<1>7. CASE StartRound \/ EndRound \/ UNCHANGED vars
  BY <1>2, <1>7 DEF StartRound, EndRound, vars
<1> QED
  BY <1>4, <1>5, <1>6, <1>7 DEF Next, Engine

LEMMA InitWays == Init => WaysOf(creature)
  BY DEF Init, WaysOf, Nobody, NewCreature, Heading, Ground, NoPath

--------------------------------------------------------------------------------
(***************************************************************************)
(* Sums                                                                    *)
(***************************************************************************)
IsSum(f, n, g) == g = [k \in 0 .. n |-> IF k = 0 THEN 0 ELSE g[k - 1] + f[k - 1]]

\* The partial sums of a function exist, so Total is the last of them.
LEMMA SumExists == ASSUME NEW f, NEW n \in Nat PROVE \E g : IsSum(f, n, g)
<1> DEFINE Bad == {m \in Nat : ~ \E g : IsSum(f, m, g)}
<1> SUFFICES ASSUME Bad # {} PROVE FALSE
  OBVIOUS
<1>1. PICK m \in Bad : \A k \in Bad : ~ (<<k, m>> \in OpToRel(<, Nat))
  <2>1. Bad \subseteq Nat
    OBVIOUS
  <2> QED
    BY <2>1, NatLessThanWellFounded, WFMin
<1>2. m \in Nat /\ ~ \E g : IsSum(f, m, g)
  OBVIOUS
<1>3. CASE m = 0
  <2> DEFINE g == [k \in 0 .. 0 |-> 0]
  <2>1. IsSum(f, 0, g)
    BY DEF IsSum
  <2> QED
    BY <1>2, <1>3, <2>1
<1>4. CASE m # 0
  <2>1. m - 1 \in Nat /\ m - 1 < m
    BY <1>2, <1>4
  <2>2. m - 1 \notin Bad
    BY <1>1, <1>2, <2>1 DEF OpToRel
  <2>3. PICK g : IsSum(f, m - 1, g)
    BY <2>1, <2>2
  <2> DEFINE h == [k \in 0 .. m |-> IF k = m THEN g[m - 1] + f[m - 1] ELSE g[k]]
  <2>4. ASSUME NEW k \in 0 .. m PROVE h[k] = IF k = 0 THEN 0 ELSE h[k - 1] + f[k - 1]
    <3>1. CASE k = m
      BY <1>2, <1>4, <3>1
    <3>2. CASE k # m
      <4>1. k \in 0 .. m - 1 /\ (k # 0 => k - 1 \in 0 .. m - 1 /\ k - 1 \in 0 .. m /\ k - 1 # m)
        BY <1>2, <3>2
      <4>2. g[k] = IF k = 0 THEN 0 ELSE g[k - 1] + f[k - 1]
        BY <2>3, <4>1 DEF IsSum
      <4> QED
        BY <3>2, <4>1, <4>2
    <3> QED
      BY <3>1, <3>2
  <2>5. IsSum(f, m, h)
    <3>1. h = [k \in 0 .. m |-> h[k]]
      OBVIOUS
    <3> HIDE DEF h
    <3> QED
      BY <2>4, <3>1 DEF IsSum
  <2> QED
    BY <1>2, <2>5
<1> QED
  BY <1>3, <1>4

LEMMA SumOf ==
  ASSUME NEW f, NEW n \in Nat
  PROVE  \E g : IsSum(f, n, g) /\ Total(f, n) = g[n]
<1> DEFINE g == CHOOSE g : IsSum(f, n, g)
<1>1. IsSum(f, n, g)
  BY SumExists
<1>2. Total(f, n) = g[n]
  BY DEF Total, IsSum
<1> QED
  BY <1>1, <1>2

\* One summand changes, and the sum by as much.
LEMMA SumChanges ==
  ASSUME NEW n \in Nat, NEW f \in [0 .. n - 1 -> Int], NEW j \in 0 .. n - 1, NEW v \in Int
  PROVE  /\ Total(f, n) \in Int
         /\ Total([f EXCEPT ![j] = v], n) = Total(f, n) + v - f[j]
<1> DEFINE e == [f EXCEPT ![j] = v]
<1>1. PICK g : IsSum(f, n, g) /\ Total(f, n) = g[n]
  BY SumOf
<1>2. PICK h : IsSum(e, n, h) /\ Total(e, n) = h[n]
  BY SumOf
<1> DEFINE Right(k) == g[k] \in Int /\ h[k] = IF k <= j THEN g[k] ELSE g[k] + v - f[j]
           Bad == {k \in Nat : k <= n /\ ~ Right(k)}
<1>3. Bad = {}
  <2> SUFFICES ASSUME Bad # {} PROVE FALSE
    OBVIOUS
  <2>1. PICK m \in Bad : \A k \in Bad : ~ (<<k, m>> \in OpToRel(<, Nat))
    <3>1. Bad \subseteq Nat
      OBVIOUS
    <3> QED
      BY <3>1, NatLessThanWellFounded, WFMin
  <2>2. m \in Nat /\ m <= n /\ ~ Right(m)
    OBVIOUS
  <2>3. CASE m = 0
    <3>1. g[0] = 0 /\ h[0] = 0
      BY <1>1, <1>2 DEF IsSum
    <3> QED
      BY <2>2, <2>3, <3>1
  <2>4. CASE m # 0
    <3>1. m - 1 \in Nat /\ m - 1 < m /\ m - 1 <= n /\ m - 1 \in 0 .. n - 1 /\ m \in 0 .. n
      BY <2>2, <2>4
    <3>2. m - 1 \notin Bad
      BY <2>1, <2>2, <3>1 DEF OpToRel
    <3>3. Right(m - 1)
      BY <3>1, <3>2
    <3>4. g[m] = g[m - 1] + f[m - 1] /\ h[m] = h[m - 1] + e[m - 1]
      BY <1>1, <1>2, <2>4, <3>1 DEF IsSum
    <3>5. f[m - 1] \in Int /\ f[j] \in Int /\ e[m - 1] = IF m - 1 = j THEN v ELSE f[m - 1]
      BY <3>1
    <3> HIDE DEF e
    <3>6. g[m] \in Int
      BY <3>3, <3>4, <3>5
    <3>7. j \in Int /\ g[m - 1] \in Int
      BY <3>3
    <3>8. CASE m - 1 < j
      <4>1. h[m - 1] = g[m - 1] /\ e[m - 1] = f[m - 1]
        BY <3>1, <3>3, <3>5, <3>7, <3>8
      <4>2. h[m] = g[m] /\ m <= j
        BY <2>2, <3>4, <3>7, <3>8, <4>1
      <4> QED
        BY <3>6, <4>2
    <3>9. CASE m - 1 = j
      <4>1. h[m - 1] = g[m - 1] /\ e[m - 1] = v /\ f[m - 1] = f[j]
        BY <3>1, <3>3, <3>5, <3>7, <3>9
      <4>2. h[m] = g[m] + v - f[j] /\ ~ (m <= j)
        BY <2>2, <3>4, <3>5, <3>7, <3>9, <4>1
      <4> QED
        BY <3>6, <4>2
    <3>10. CASE m - 1 > j
      <4>1. h[m - 1] = g[m - 1] + v - f[j] /\ e[m - 1] = f[m - 1]
        BY <3>1, <3>3, <3>5, <3>7, <3>10
      <4>2. h[m] = g[m] + v - f[j] /\ ~ (m <= j)
        BY <2>2, <3>4, <3>5, <3>7, <3>10, <4>1
      <4> QED
        BY <3>6, <4>2
    <3>11. Right(m)
      BY <2>2, <3>7, <3>8, <3>9, <3>10
    <3> QED
      BY <2>2, <3>11
  <2> QED
    BY <2>3, <2>4
<1>4. Right(n)
  BY <1>3
<1> HIDE DEF e
<1>5. ~ (n <= j) /\ f[j] \in Int
  OBVIOUS
<1> QED
  BY <1>1, <1>2, <1>4, <1>5 DEF e

--------------------------------------------------------------------------------
(***************************************************************************)
(* Food: no helper gives a creature more than it takes from somewhere.     *)
(***************************************************************************)
InCreatures(cr) == Total([s \in Slots |-> Carried(cr[s])], MAXCREATURES)
OnTiles(food)   == Total(food, WorldWidth)

\* Free slots hold no food: they are as creature_kill or the start left them.
Vacant(cr) == \A s \in Slots : cr[s].player = NoPlayer => cr[s] = Nobody

LEMMA NobodyType ==
  Nobody \in Creature /\ Nobody.player = NoPlayer /\ Carried(Nobody) = 0
<1>1. 0 \in Positions
  BY PositionsOf
<1> QED
  BY <1>1 DEF Nobody, Creature, Types, States, NoPath, Carried

LEMMA CarriedInt == ASSUME NEW c \in Creature PROVE Carried(c) \in Int
  BY DEF Carried, Creature

\* A slot gets another record.
LEMMA PutSum ==
  ASSUME NEW cr \in [Slots -> Creature], NEW s \in Slots, NEW d \in Creature
  PROVE  /\ InCreatures(cr) \in Int /\ Carried(cr[s]) \in Int /\ Carried(d) \in Int
         /\ [cr EXCEPT ![s] = d] \in [Slots -> Creature]
         /\ InCreatures([cr EXCEPT ![s] = d]) = InCreatures(cr) + Carried(d) - Carried(cr[s])
<1> DEFINE f == [u \in Slots |-> Carried(cr[u])]
           e == [cr EXCEPT ![s] = d]
<1>1. f \in [Slots -> Int] /\ Carried(d) \in Int /\ f[s] = Carried(cr[s])
  BY CarriedInt
<1>2. MAXCREATURES \in Nat /\ Slots = 0 .. MAXCREATURES - 1
  BY WorldAssumption DEF Slots
<1>3. [u \in Slots |-> Carried(e[u])] = [f EXCEPT ![s] = Carried(d)]
  OBVIOUS
<1> HIDE DEF f, e
<1>4. /\ Total(f, MAXCREATURES) \in Int
      /\ Total([f EXCEPT ![s] = Carried(d)], MAXCREATURES)
           = Total(f, MAXCREATURES) + Carried(d) - f[s]
  BY <1>1, <1>2, SumChanges
<1>5. InCreatures(cr) = Total(f, MAXCREATURES)
      /\ InCreatures(e) = Total([f EXCEPT ![s] = Carried(d)], MAXCREATURES)
  BY <1>3 DEF InCreatures, f
<1>6. Carried(cr[s]) \in Int
  BY CarriedInt
<1> QED
  BY <1>1, <1>4, <1>5, <1>6 DEF e

\* What is dropped on a tile, and what is eaten from it.
LEMMA TileSum ==
  ASSUME NEW food \in FoodType, NEW t \in Tiles, NEW v \in Int
  PROVE  /\ OnTiles(food) \in Int
         /\ OnTiles([food EXCEPT ![t] = v]) = OnTiles(food) + v - food[t]
<1>1. WorldWidth \in Nat /\ Tiles = 0 .. WorldWidth - 1 /\ food \in [Tiles -> Int]
  BY WorldAssumption DEF Tiles, FoodType
<1> QED
  BY <1>1, SumChanges DEF OnTiles

LEMMA DropSum ==
  ASSUME tile_food \in FoodType, plain \subseteq Tiles, NEW t, NEW amount \in Nat
  PROVE  /\ OnTiles(tile_food) \in Int /\ OnTiles(add_food(t, amount)) \in Int
         /\ OnTiles(add_food(t, amount)) <= OnTiles(tile_food) + amount
<1>1. OnTiles(tile_food) \in Int
  <2>1. 0 \in Tiles /\ 0 \in Int
    BY WorldAssumption DEF Tiles
  <2> QED
    BY <2>1, TileSum
<1>2. CASE t \in plain
  <2> DEFINE v == Least(tile_food[t] + amount, MAX_TILE_FOOD)
  <2>1. t \in Tiles /\ tile_food[t] \in Int
    BY <1>2 DEF FoodType
  <2>2. v \in Int /\ v <= tile_food[t] + amount
    BY <2>1, WorldAssumption DEF Least
  <2>3. add_food(t, amount) = [tile_food EXCEPT ![t] = v]
    BY <1>2, <2>1 DEF add_food, FoodType
  <2> HIDE DEF v
  <2>4. OnTiles(add_food(t, amount)) = OnTiles(tile_food) + v - tile_food[t]
    BY <2>1, <2>2, <2>3, TileSum
  <2> QED
    BY <1>1, <2>1, <2>2, <2>4
<1>3. CASE t \notin plain
  BY <1>1, <1>3 DEF add_food
<1> QED
  BY <1>2, <1>3

\* Changing the state gives up what was invested, or nothing.
LEMMA StateCost ==
  ASSUME NEW c, Whole(c), NEW state \in States
  PROVE  /\ set_state(c, state) \in Creature /\ set_state(c, state).player = c.player
         /\ Carried(set_state(c, state)) \in Int
         /\ Carried(set_state(c, state)) <= Carried(c)
<1>1. c \in Creature /\ c.convert_food >= 0 /\ c.spawn_food >= 0
  BY DEF Whole
<1>2. CASE state # c.state /\ CanEnter(c, state)
  <2>1. Enter(c, state) \in Creature
    BY <1>1, EnterFields
  <2>2. c.food \in Int /\ c.convert_food \in Int /\ c.spawn_food \in Int
    BY <1>1 DEF Creature
  <2> DEFINE a == Enter(c, state).convert_food
             b == Enter(c, state).spawn_food
  <2>3. /\ Enter(c, state).food = c.food
        /\ a \in Int /\ a <= c.convert_food /\ b \in Int /\ b <= c.spawn_food
    BY <1>1, <2>2, EnterFields
  <2>4. Carried(Enter(c, state)) = c.food + a + b
    BY <2>3 DEF Carried
  <2> HIDE DEF a, b
  <2> QED
    BY <1>1, <1>2, <2>1, <2>2, <2>3, <2>4, EnterFields DEF set_state, Carried
<1>3. CASE ~ (state # c.state /\ CanEnter(c, state))
  BY <1>1, <1>3, CarriedInt DEF set_state
<1> QED
  BY <1>2, <1>3

LEMMA IdleCost ==
  ASSUME NEW c, Whole(c)
  PROVE  /\ set_state(c, "IDLE") \in Creature /\ set_state(c, "IDLE").player = c.player
         /\ Carried(set_state(c, "IDLE")) <= Carried(c)
  BY StateCost DEF States

\* Clamping a creature to its new type makes no food either.
LEMMA TypeCost ==
  ASSUME NEW c, Whole(c), NEW type \in Types
  PROVE  Carried(set_type(c, type)) <= Carried(c)
<1> DEFINE h == Least(c.health, max_health[type])
           f == Least(c.food, max_food[type])
           d == [c EXCEPT !.type = type, !.convert_type = type, !.health = h, !.food = f]
<1>1. /\ c \in Creature /\ c.health \in Int /\ c.food \in Int /\ c.convert_food \in Int
      /\ c.spawn_food \in Int
  BY DEF Whole, Creature
<1>2. f \in Int /\ f <= c.food /\ h \in Int
  BY <1>1, TableTypes DEF Least
<1>3. CASE type = c.type
  BY <1>1, <1>3, CarriedInt DEF set_type
<1>4. CASE type # c.type
  <2>1. set_type(c, type) = d
    BY <1>4 DEF set_type
  <2> HIDE DEF h, f
  <2>2. d.food = f /\ d.convert_food = c.convert_food /\ d.spawn_food = c.spawn_food
    BY <1>1, <1>2 DEF Creature
  <2> HIDE DEF d
  <2> QED
    BY <1>1, <1>2, <2>1, <2>2 DEF Carried
<1> QED
  BY <1>3, <1>4

\* Walking carries everything along.
LEMMA WalkedCost ==
  ASSUME NEW c, Sound(c)
  PROVE  Carried(Walked(c)) <= Carried(c)
<1>1. c \in Creature /\ Whole(c)
  BY DEF Sound, SoundOn, Whole
<1>2. Carried(set_state(c, "IDLE")) <= Carried(c) /\ Carried(c) \in Int
  BY <1>1, IdleCost, CarriedInt
<1>3. CASE c.path = NoPath
  BY <1>2, <1>3 DEF Walked
<1>4. CASE c.path # NoPath
  <2> DEFINE d == [c EXCEPT !.x = c.path, !.path = NoPath]
  <2>1. c.path \in Positions
    BY <1>1, <1>4 DEF Creature
  <2>2. Whole(d) /\ Carried(d) = Carried(c)
    BY <1>1, <2>1 DEF Whole, Fits, Creature, Carried
  <2>3. Carried(set_state(d, "IDLE")) <= Carried(c)
    <3> HIDE DEF d
    <3> QED
      BY <2>2, IdleCost
  <2>4. \A y : Carried([c EXCEPT !.x = y]) = Carried(c)
    BY <1>1 DEF Creature, Carried
  <2> HIDE DEF d
  <2>5. Walked(c) = set_state(d, "IDLE") \/ \E y : Walked(c) = [c EXCEPT !.x = y]
    BY <1>4 DEF Walked, d
  <2> QED
    BY <1>2, <2>3, <2>4, <2>5
<1> QED
  BY <1>3, <1>4

\* Healing uses food up.
LEMMA HealedCost ==
  ASSUME NEW c, Sound(c), c.state = "HEAL"
  PROVE  Carried(Healed(c)) <= Carried(c)
<1> DEFINE n == Least(PerRound(heal_rate[c.type]), Least(max_health[c.type] - c.health, c.food))
           d == [c EXCEPT !.health = @ + n, !.food = @ - n]
<1>1. c \in Creature /\ c.type \in Types /\ Whole(c)
  BY DEF Sound, SoundOn, Whole, Creature
<1>2. n \in Nat /\ n <= max_health[c.type] - c.health /\ n <= c.food
  BY <1>1, TableTypes, PerRoundNat DEF Whole, Fits, Least
<1>3. Healed(c) = IF HealingDone(d) THEN set_state(d, "IDLE") ELSE d
  BY DEF Healed, n
<1> HIDE DEF n
<1>4. /\ d \in Creature /\ d.health = c.health + n /\ d.food = c.food - n
      /\ d.player = c.player /\ d.type = c.type /\ d.state = c.state
      /\ d.convert_food = c.convert_food /\ d.spawn_food = c.spawn_food
  <2>1. c.health + n \in Int /\ c.food - n \in Int
    BY <1>1, <1>2 DEF Creature
  <2> QED
    BY <1>1, <2>1 DEF Creature
<1> HIDE DEF d
<1>5. Whole(d)
  BY <1>1, <1>2, <1>4, TableTypes DEF Whole, Fits
<1>6. Carried(d) <= Carried(c) /\ Carried(d) \in Int /\ Carried(c) \in Int
  BY <1>1, <1>2, <1>4, CarriedInt DEF Carried, Creature
<1>7. Carried(set_state(d, "IDLE")) <= Carried(d) /\ Carried(set_state(d, "IDLE")) \in Int
  BY <1>5, IdleCost, CarriedInt
<1> QED
  BY <1>3, <1>6, <1>7

\* Food that moves from the stomach into a conversion is still there, and is gone when
\* the conversion is done.
LEMMA ConvertedCost ==
  ASSUME NEW c, Sound(c), c.state = "CONVERT"
  PROVE  Carried(Converted(c)) <= Carried(c)
<1> DEFINE n == Least(PerRound(conversion_speed[c.type]),
                      Least(conversion_food(c) - c.convert_food, c.food))
           i == IF n = 0 THEN set_state(c, "IDLE") ELSE c
           d == [i EXCEPT !.convert_food = @ + n, !.food = @ - n]
           e == set_type(d, d.convert_type)
<1>1. /\ c \in Creature /\ c.type \in Types /\ Whole(c) /\ c.convert_food < conversion_food(c)
      /\ c.food \in Nat
  BY TableTypes DEF Sound, SoundOn, Whole, Fits, Creature
<1>2. n \in Nat /\ n <= c.food
  <2>1. conversion_food(c) \in Nat
    BY <1>1, TableTypes DEF conversion_food, Creature
  <2> QED
    BY <1>1, <2>1, TableTypes, PerRoundNat DEF Creature, Least
<1>3. Converted(c) = IF d.convert_food = conversion_food(d) THEN set_state(e, "IDLE") ELSE d
  BY DEF Converted
<1>4. /\ i \in Creature /\ Whole(i) /\ Carried(i) <= Carried(c) /\ n <= i.food
      /\ n # 0 => i.state = "CONVERT"
  BY <1>1, <1>2, IdleCost, IdleSound, CarriedInt DEF Sound, SoundOn, Whole
<1> HIDE DEF n, i
<1>5. /\ d \in Creature /\ d.convert_food = i.convert_food + n /\ d.food = i.food - n
      /\ d.type = i.type /\ d.health = i.health /\ d.state = i.state
      /\ d.spawn_food = i.spawn_food
  <2>1. i.convert_food + n \in Int /\ i.food - n \in Int
    BY <1>2, <1>4 DEF Creature
  <2> QED
    BY <1>4, <2>1 DEF Creature
<1> HIDE DEF d
<1>6. Whole(d) /\ d.convert_type \in Types
  <2>1. i.convert_food \in Int /\ i.food \in Int /\ i.type \in Types
    BY <1>4 DEF Creature
  <2>2. Fits(d)
    BY <1>2, <1>4, <1>5, <2>1, TableTypes DEF Whole, Fits
  <2> QED
    BY <1>2, <1>4, <1>5, <2>1, <2>2 DEF Whole, Creature
<1>7. Carried(d) <= Carried(c) /\ Carried(d) \in Int /\ Carried(c) \in Int
  <2>1. Carried(d) = Carried(i)
    BY <1>2, <1>4, <1>5 DEF Carried, Creature
  <2> QED
    BY <1>1, <1>4, <2>1, CarriedInt
<1>8. Whole(e) /\ Carried(e) <= Carried(d)
  BY <1>6, TypeWhole, TypeCost
<1> HIDE DEF e
<1>9. /\ Carried(set_state(e, "IDLE")) <= Carried(e)
      /\ Carried(set_state(e, "IDLE")) \in Int /\ Carried(e) \in Int
  BY <1>8, IdleCost, CarriedInt DEF Whole
<1> QED
  BY <1>3, <1>7, <1>8, <1>9

\* A slot gets another record, or is emptied.
LEMMA VacantPut ==
  ASSUME NEW cr \in [Slots -> Creature], Vacant(cr), NEW s \in Slots, NEW d \in Creature,
         d.player # NoPlayer \/ d = Nobody
  PROVE  Vacant([cr EXCEPT ![s] = d])
  BY DEF Vacant

\* A birth adds the food the rules give.
LEMMA BornSum ==
  ASSUME NEW cr \in [Slots -> Creature], Vacant(cr), FreeSlots(cr) # {}, NEW p \in Players,
         NEW id \in Nat, NEW x \in Positions, NEW food \in 0 .. max_food["SMALL"]
  PROVE  /\ WithSpawned(cr, p, id, x, food) \in [Slots -> Creature]
         /\ Vacant(WithSpawned(cr, p, id, x, food))
         /\ InCreatures(WithSpawned(cr, p, id, x, food)) = InCreatures(cr) + food
<1> DEFINE c == NewCreature(p, id, "SMALL", x, food)
           s == FirstFree(cr)
<1>1. c \in Creature /\ c.player = p
  BY NewSound DEF Types, Sound, SoundOn, Whole
<1>2. food \in Int /\ p # NoPlayer
  BY TableTypes, WorldAssumption DEF Types
<1>3. Carried(c) = food
  BY <1>2 DEF Carried, NewCreature
<1>4. s \in Slots /\ cr[s].player = NoPlayer
  BY FirstIsFree DEF FreeSlots
<1>5. Carried(cr[s]) = 0
  BY <1>4, NobodyType DEF Vacant
<1>6. WithSpawned(cr, p, id, x, food) = [cr EXCEPT ![s] = c]
  BY DEF WithSpawned
<1> HIDE DEF c, s
<1>7. Vacant([cr EXCEPT ![s] = c])
  BY <1>1, <1>2, <1>4, VacantPut
<1>8. /\ [cr EXCEPT ![s] = c] \in [Slots -> Creature]
      /\ InCreatures(cr) \in Int
      /\ InCreatures([cr EXCEPT ![s] = c]) = InCreatures(cr) + food - 0
  BY <1>1, <1>3, <1>4, <1>5, PutSum
<1> QED
  BY <1>2, <1>6, <1>7, <1>8

\* What a step must leave: free slots without food, and no more food than before, but for
\* what the rules give to the new born.
Balanced ==
  InCreatures(creature') + OnTiles(tile_food')
    <= InCreatures(creature) + OnTiles(tile_food) + BabyFood * (next_free_vm_id' - next_free_vm_id)
Settled == Vacant(creature') /\ Balanced

\* The sums are numbers.
LEMMA Sums ==
  ASSUME Ind
  PROVE  /\ creature \in [Slots -> Creature] /\ tile_food \in FoodType /\ plain \subseteq Tiles
         /\ next_free_vm_id \in Nat /\ BabyFood \in Nat
         /\ InCreatures(creature) \in Int /\ OnTiles(tile_food) \in Int
<1>1. /\ creature \in [Slots -> Creature] /\ tile_food \in FoodType /\ plain \subseteq Tiles
      /\ next_free_vm_id \in Nat /\ BabyFood \in Nat
  BY WorldAssumption DEF Ind, TypeOK, FoodType
<1>2. 0 \in Slots /\ 0 \in Tiles /\ 0 \in Int
  BY WorldAssumption DEF Slots, Tiles
<1> QED
  BY <1>1, <1>2, PutSum, TileSum, NobodyType

\* A record is replaced by one of the same player that carries no more.
LEMMA PutSettled ==
  ASSUME Ind, Vacant(creature), NEW s \in Slots, NEW d \in Creature, d.player # NoPlayer,
         Carried(d) <= Carried(creature[s]), creature' = [creature EXCEPT ![s] = d],
         UNCHANGED <<next_free_vm_id, tile_food>>
  PROVE  Settled
<1>1. /\ InCreatures([creature EXCEPT ![s] = d])
           = InCreatures(creature) + Carried(d) - Carried(creature[s])
      /\ Carried(d) \in Int /\ Carried(creature[s]) \in Int
  BY Sums, PutSum
<1>2. BabyFood * (next_free_vm_id' - next_free_vm_id) = 0
  BY Sums
<1>3. Vacant(creature')
  BY Sums, VacantPut
<1>4. Balanced
  BY <1>1, <1>2, Sums DEF Balanced
<1> QED
  BY <1>3, <1>4 DEF Settled

\* A death: no more is left on the tile than the dead had.
LEMMA DropSettled ==
  ASSUME Ind, Vacant(creature), NEW s \in Slots, Used(s), NEW t, NEW amount \in Nat,
         amount <= creature[s].food,
         creature' = [creature EXCEPT ![s] = Nobody], tile_food' = add_food(t, amount),
         UNCHANGED next_free_vm_id
  PROVE  Settled
<1>1. /\ InCreatures([creature EXCEPT ![s] = Nobody])
           = InCreatures(creature) + 0 - Carried(creature[s])
      /\ Carried(creature[s]) \in Int
  BY Sums, PutSum, NobodyType
<1>2. BabyFood * (next_free_vm_id' - next_free_vm_id) = 0
  BY Sums
<1>3. Vacant(creature')
  BY Sums, VacantPut, NobodyType
<1>4. amount <= Carried(creature[s])
  BY UsedSound DEF Sound, SoundOn, Whole, Carried, Creature
<1>5. /\ OnTiles(tile_food') \in Int
      /\ OnTiles(tile_food') <= OnTiles(tile_food) + amount
  BY Sums, DropSum
<1>6. Balanced
  BY <1>1, <1>2, <1>4, <1>5, Sums DEF Balanced
<1> QED
  BY <1>3, <1>6 DEF Settled

LEMMA RemainsLess ==
  ASSUME NEW c, c.food \in Nat, NEW killed \in BOOLEAN
  PROVE  Remains(c, killed) \in Nat /\ Remains(c, killed) <= c.food
  BY DEF Remains

LEMMA AloneSettled ==
  ASSUME Ind, Vacant(creature), NEW s \in Slots, NEW c, Sound(c), c.player # NoPlayer,
         Carried(c) = Carried(creature[s]), ActAlone(s, c)
  PROVE  Settled
<1>1. PICK d : /\ creature' = [creature EXCEPT ![s] = d] /\ Sound(d) /\ d.player = c.player
               /\ Carried(d) <= Carried(c)
  <2>1. CASE c.state = "IDLE"
    <3>1. Carried(c) <= Carried(c)
      BY CarriedInt DEF Sound, SoundOn, Whole
    <3>2. creature' = [creature EXCEPT ![s] = c]
      BY <2>1 DEF ActAlone
    <3> QED
      BY <3>1, <3>2
  <2>2. CASE c.state = "WALK"
    <3>1. Sound(Walked(c)) /\ Walked(c).player = c.player /\ Carried(Walked(c)) <= Carried(c)
      BY <2>2, WalkedSound, WalkedCost
    <3> QED
      BY <2>2, <3>1 DEF ActAlone
  <2>3. CASE c.state = "HEAL"
    BY <2>3, HealedSound, HealedCost DEF ActAlone
  <2>4. CASE c.state = "CONVERT"
    BY <2>4, ConvertedSound, ConvertedCost DEF ActAlone
  <2> QED
    BY <2>1, <2>2, <2>3, <2>4 DEF ActAlone
<1>2. d \in Creature
  BY <1>1 DEF Sound, SoundOn, Whole
<1> QED
  BY <1>1, <1>2, PutSettled DEF ActAlone

\* What is eaten was on the tile.
LEMMA EatSettled ==
  ASSUME Ind, Vacant(creature), NEW s \in Slots, NEW c, Sound(c), c.player # NoPlayer,
         Carried(c) = Carried(creature[s]), ActEat(s, c)
  PROVE  Settled
<1> DEFINE onTile == IF world_walkable(c.x) THEN FoodOn(c.x) ELSE 0
           eaten  == Least(Least(PerRound(eat_rate[c.type]), max_food[c.type] - c.food), onTile)
           fed    == [c EXCEPT !.food = @ + eaten]
           d      == IF eaten = 0 THEN set_state(fed, "IDLE") ELSE fed
<1>1. c \in Creature /\ c.type \in Types /\ Whole(c) /\ Fits(c)
  BY DEF Sound, SoundOn, Whole, Creature
<1>2. onTile \in Nat /\ (Tile(c.x) \notin Tiles => onTile = 0)
  BY DEF Ind, TypeOK, world_walkable, FoodOn
<1> HIDE DEF onTile
<1>3. /\ eaten \in Nat /\ (Tile(c.x) \notin Tiles => eaten = 0)
      /\ c.food + eaten \in 0 .. max_food[c.type]
  BY <1>1, <1>2, TableTypes, PerRoundNat DEF Fits, Least
<1>4. /\ creature' = [creature EXCEPT ![s] = d]
      /\ tile_food' = [tile_food EXCEPT ![Tile(c.x)] = @ - eaten]
      /\ next_free_vm_id' = next_free_vm_id
  BY DEF ActEat, food_left, onTile
<1> HIDE DEF eaten
<1>5. Sound(fed) /\ fed.player = c.player /\ Carried(fed) = Carried(c) + eaten
  <2>1. Sound(fed) /\ fed.player = c.player /\ fed.food = c.food + eaten
    BY <1>3, MealSound
  <2>2. fed.convert_food = c.convert_food /\ fed.spawn_food = c.spawn_food
    BY <1>1 DEF Creature
  <2> HIDE DEF fed
  <2> QED
    BY <1>1, <1>3, <2>1, <2>2 DEF Carried, Creature
<1> HIDE DEF fed
<1>6. /\ d \in Creature /\ d.player = c.player /\ Carried(d) \in Int
      /\ Carried(d) <= Carried(c) + eaten
  BY <1>5, IdleCost, CarriedInt DEF Sound, SoundOn, Whole
<1> HIDE DEF d
<1>7. /\ InCreatures(creature') = InCreatures(creature) + Carried(d) - Carried(creature[s])
      /\ Carried(creature[s]) \in Int
  BY <1>4, <1>6, Sums, PutSum
<1>8. OnTiles(tile_food') = OnTiles(tile_food) - eaten
  <2>1. CASE Tile(c.x) \in Tiles
    <3> DEFINE t == Tile(c.x)
               v == tile_food[t] - eaten
    <3>1. tile_food[t] \in Int
      BY <2>1, Sums DEF FoodType
    <3>2. v \in Int /\ t \in Tiles /\ v - tile_food[t] = - eaten
      BY <1>3, <2>1, <3>1
    <3>3. tile_food' = [tile_food EXCEPT ![t] = v]
      BY <1>4, <2>1, Sums
    <3> HIDE DEF t, v
    <3>4. OnTiles([tile_food EXCEPT ![t] = v]) = OnTiles(tile_food) + v - tile_food[t]
      BY <3>2, Sums, TileSum
    <3> QED
      BY <1>3, <3>1, <3>2, <3>3, <3>4, Sums
  <2>2. CASE Tile(c.x) \notin Tiles
    <3>1. tile_food' = tile_food
      BY <1>4, <2>2, Sums DEF FoodType
    <3> QED
      BY <1>3, <2>2, <3>1, Sums
  <2> QED
    BY <2>1, <2>2
<1>9. BabyFood * (next_free_vm_id' - next_free_vm_id) = 0
  BY <1>4, Sums
<1>10. Balanced
  BY <1>3, <1>6, <1>7, <1>8, <1>9, Sums DEF Balanced
<1>11. Vacant(creature')
  BY <1>4, <1>6, Sums, VacantPut
<1> QED
  BY <1>10, <1>11 DEF Settled

LEMMA AttackSettled ==
  ASSUME Ind, Vacant(creature), NEW s \in Slots, NEW c, Sound(c), c.player # NoPlayer,
         c.player = creature[s].player, Carried(c) = Carried(creature[s]), ActAttack(s, c)
  PROVE  Settled
<1> DEFINE Hit(t) == PerRound(hitpoints[c.type][creature[t].type])
           idle == set_state(c, "IDLE")
<1>1. /\ c \in Creature /\ c.type \in Types /\ Whole(c) /\ idle \in Creature
      /\ idle.player = c.player /\ Carried(idle) <= Carried(c)
  BY IdleCost DEF Sound, SoundOn, Whole, Creature
<1>2. next_free_vm_id' = next_free_vm_id
  BY DEF ActAttack
<1> HIDE DEF idle
<1>3. CASE creature' = [creature EXCEPT ![s] = idle] /\ UNCHANGED tile_food
  BY <1>1, <1>2, <1>3, PutSettled
<1>4. ASSUME NEW t \in With(c.target_id), CanHit(c, t),
             creature' = [creature EXCEPT ![s] = c, ![t].health = @ - Hit(t)],
             UNCHANGED tile_food
      PROVE  Settled
  <2> DEFINE first == [creature EXCEPT ![s] = c]
             d == [creature[t] EXCEPT !.health = @ - Hit(t)]
  <2>1. t \in Slots /\ t # s /\ creature[t] \in Creature /\ creature[t].player # NoPlayer
    BY <1>4, Sums DEF CanHit, With, UsedSlots, Used
  <2>2. Hit(t) \in Nat
    BY <1>1, <2>1, TableTypes, PerRoundNat DEF Creature
  <2>3. creature' = [first EXCEPT ![t] = d]
    BY <1>4, <2>1, Sums
  <2> HIDE DEF Hit
  <2>4. d \in Creature /\ Carried(d) = Carried(creature[t]) /\ d.player # NoPlayer
    <3>1. creature[t].health - Hit(t) \in Int
      BY <2>1, <2>2 DEF Creature
    <3> QED
      BY <2>1, <3>1 DEF Creature, Carried
  <2> HIDE DEF d
  <2>5. /\ first \in [Slots -> Creature] /\ first[t] = creature[t] /\ Vacant(first)
        /\ InCreatures(first) = InCreatures(creature)
    <3>1. /\ first \in [Slots -> Creature] /\ first[t] = creature[t] /\ Vacant(first)
      BY <1>1, <2>1, Sums, VacantPut
    <3>2. /\ InCreatures(first) = InCreatures(creature) + Carried(c) - Carried(creature[s])
          /\ Carried(c) \in Int
      BY <1>1, Sums, PutSum
    <3> QED
      BY <3>1, <3>2, Sums
  <2> HIDE DEF first
  <2>6. /\ InCreatures(creature') = InCreatures(first) + Carried(d) - Carried(first[t])
        /\ Carried(d) \in Int
    BY <2>1, <2>3, <2>4, <2>5, PutSum
  <2>7. InCreatures(creature') = InCreatures(creature)
    BY <2>4, <2>5, <2>6, Sums
  <2>8. BabyFood * (next_free_vm_id' - next_free_vm_id) = 0
    BY <1>2, Sums
  <2>9. Vacant(creature')
    BY <2>1, <2>3, <2>4, <2>5, VacantPut
  <2> QED
    BY <1>4, <2>7, <2>8, <2>9, Sums DEF Settled, Balanced
<1>5. ASSUME NEW t \in With(c.target_id), CanHit(c, t),
             creature' = [creature EXCEPT ![t] = Nobody, ![s] = idle],
             tile_food' = add_food(Tile(creature[t].x), Remains(creature[t], TRUE))
      PROVE  Settled
  <2> DEFINE first == [creature EXCEPT ![t] = Nobody]
             left == Remains(creature[t], TRUE)
  <2>1. t \in Slots /\ t # s /\ Used(t)
    BY <1>5 DEF CanHit, With, UsedSlots
  <2>2. left \in Nat /\ left <= Carried(creature[t]) /\ Carried(creature[t]) \in Int
    <3>1. Sound(creature[t]) /\ creature[t] \in Creature /\ creature[t].food \in Nat
      BY <2>1, UsedSound
    <3>2. left \in Nat /\ left <= creature[t].food
      BY <3>1, RemainsLess
    <3> HIDE DEF left
    <3> QED
      BY <3>1, <3>2 DEF Sound, SoundOn, Whole, Carried, Creature
  <2>3. OnTiles(tile_food') \in Int /\ OnTiles(tile_food') <= OnTiles(tile_food) + left
    BY <1>5, <2>2, Sums, DropSum
  <2> HIDE DEF left
  <2>4. first \in [Slots -> Creature] /\ first[s] = creature[s] /\ Vacant(first)
    BY <2>1, Sums, VacantPut, NobodyType
  <2>5. InCreatures(first) = InCreatures(creature) + 0 - Carried(creature[t])
    BY <2>1, Sums, PutSum, NobodyType
  <2>6. creature' = [first EXCEPT ![s] = idle]
    BY <1>5
  <2> HIDE DEF first
  <2>7. /\ InCreatures(creature') = InCreatures(first) + Carried(idle) - Carried(first[s])
        /\ Carried(idle) \in Int /\ Carried(first[s]) \in Int
    BY <1>1, <2>4, <2>6, PutSum
  <2>8. Vacant(creature')
    BY <1>1, <2>4, <2>6, VacantPut
  <2>9. BabyFood * (next_free_vm_id' - next_free_vm_id) = 0
    BY <1>2, Sums
  <2>10. InCreatures(creature') <= InCreatures(creature) - Carried(creature[t])
         /\ InCreatures(creature') \in Int
    BY <1>1, <2>2, <2>4, <2>5, <2>7, Sums
  <2> QED
    BY <2>2, <2>3, <2>8, <2>9, <2>10, Sums DEF Settled, Balanced
<1> QED
  BY <1>3, <1>4, <1>5 DEF ActAttack, idle

\* A birth costs what was invested; the baby gets the rules' gift.
LEMMA SpawnSettled ==
  ASSUME Ind, Vacant(creature), NEW s \in Slots, NEW c, Sound(c), c.player \in Players,
         c.player = creature[s].player, Carried(c) = Carried(creature[s]), ActSpawn(s, c)
  PROVE  Settled
<1> DEFINE n == Least(PerRound(spawn_speed[c.type]),
                      Least(spawn_food[c.type] - c.spawn_food, c.food))
           i == IF n = 0 THEN set_state(c, "IDLE") ELSE c
           parent == [i EXCEPT !.spawn_food = @ + n, !.food = @ - n]
           gift == IF BabyFood <= max_food["SMALL"] THEN BabyFood ELSE 0
           idle == set_state(parent, "IDLE")
           table == [creature EXCEPT ![s] = idle]
<1>1. /\ c \in Creature /\ c.type \in Types /\ c.x \in Positions /\ Whole(c) /\ c.state = "SPAWN"
      /\ c.food \in Nat /\ c.spawn_food \in Nat /\ c.spawn_food <= spawn_food[c.type]
      /\ c.player # NoPlayer
  BY TableTypes, WorldAssumption DEF ActSpawn, Sound, SoundOn, Whole, Fits, Creature
<1>2. n \in Nat /\ n <= c.food
  BY <1>1, TableTypes, PerRoundNat DEF Least
<1>3. /\ tile_food' = tile_food
      /\ \/ creature' = [creature EXCEPT ![s] = parent] /\ next_free_vm_id' = next_free_vm_id
         \/ creature' = table /\ next_free_vm_id' = next_free_vm_id
         \/ /\ creature' = WithSpawned(table, c.player, next_free_vm_id, c.x, gift)
            /\ FreeSlots(creature) # {} /\ next_free_vm_id' = next_free_vm_id + 1
  BY DEF ActSpawn, CanSpawn
<1>4. /\ i \in Creature /\ Whole(i) /\ Carried(i) <= Carried(c) /\ n <= i.food
      /\ i.player = c.player /\ (n # 0 => i.state = "SPAWN")
  BY <1>1, <1>2, IdleCost, IdleSound, CarriedInt DEF Sound, SoundOn, Whole
<1> HIDE DEF n, i
<1>5. /\ parent \in Creature /\ parent.spawn_food = i.spawn_food + n
      /\ parent.food = i.food - n /\ parent.type = i.type /\ parent.health = i.health
      /\ parent.state = i.state /\ parent.convert_food = i.convert_food
      /\ parent.player = i.player
  <2>1. i.spawn_food + n \in Int /\ i.food - n \in Int
    BY <1>2, <1>4 DEF Creature
  <2> QED
    BY <1>4, <2>1 DEF Creature
<1> HIDE DEF parent
<1>6. Whole(parent)
  <2>1. i.spawn_food \in Int /\ i.food \in Int /\ i.type \in Types
    BY <1>4 DEF Creature
  <2>2. Fits(parent)
    BY <1>2, <1>4, <1>5, <2>1, TableTypes DEF Whole, Fits
  <2> QED
    BY <1>2, <1>4, <1>5, <2>1, <2>2 DEF Whole
<1>7. Carried(parent) <= Carried(c)
  <2>1. Carried(parent) = Carried(i)
    BY <1>2, <1>4, <1>5 DEF Carried, Creature
  <2> QED
    BY <1>4, <2>1
<1>8. idle \in Creature /\ idle.player = c.player /\ Carried(idle) <= Carried(c)
  <2>1. /\ idle \in Creature /\ idle.player = c.player /\ Carried(idle) <= Carried(parent)
    BY <1>4, <1>5, <1>6, IdleCost
  <2> HIDE DEF idle
  <2> QED
    BY <1>1, <1>5, <1>7, <2>1, CarriedInt
<1> HIDE DEF idle
<1>9. CASE \/ creature' = [creature EXCEPT ![s] = parent] /\ next_free_vm_id' = next_free_vm_id
           \/ creature' = table /\ next_free_vm_id' = next_free_vm_id
  BY <1>1, <1>3, <1>4, <1>5, <1>7, <1>8, <1>9, PutSettled
<1>10. CASE /\ creature' = WithSpawned(table, c.player, next_free_vm_id, c.x, gift)
            /\ FreeSlots(creature) # {} /\ next_free_vm_id' = next_free_vm_id + 1
  <2>1. gift \in 0 .. max_food["SMALL"] /\ gift <= BabyFood /\ gift \in Int
    <3>1. max_food["SMALL"] \in Nat
      BY TableTypes DEF Types
    <3> QED
      BY <3>1, WorldAssumption
  <2> HIDE DEF gift
  <2>2. table \in [Slots -> Creature] /\ Vacant(table)
    BY <1>1, <1>8, Sums, VacantPut
  <2>3. /\ InCreatures(table) = InCreatures(creature) + Carried(idle) - Carried(creature[s])
        /\ Carried(idle) \in Int /\ Carried(creature[s]) \in Int
    BY <1>8, Sums, PutSum
  <2>4. FreeSlots(table) # {}
    <3>1. \A u \in Slots : table[u].player = creature[u].player
      BY <1>8, Sums
    <3> QED
      BY <1>10, <3>1 DEF FreeSlots
  <2> HIDE DEF table
  <2>5. Vacant(creature') /\ InCreatures(creature') = InCreatures(table) + gift
    BY <1>1, <1>10, <2>1, <2>2, <2>4, Sums, BornSum
  <2>6. BabyFood * (next_free_vm_id' - next_free_vm_id) = BabyFood
    BY <1>10, Sums
  <2>7. InCreatures(table) <= InCreatures(creature) /\ InCreatures(table) \in Int
    BY <1>8, <2>3, Sums
  <2> QED
    BY <1>3, <2>1, <2>5, <2>6, <2>7, Sums DEF Settled, Balanced
<1> QED
  BY <1>3, <1>9, <1>10

\* What the target gets, the giver loses, also when they are the same creature.
LEMMA FeedSettled ==
  ASSUME Ind, Vacant(creature), NEW s \in Slots, NEW c, Sound(c), c.player # NoPlayer,
         c.player = creature[s].player, Carried(c) = Carried(creature[s]), ActFeed(s, c)
  PROVE  Settled
<1> DEFINE giver(t) == Giver(c, Gift(c, t))
           after(t) == IF Gift(c, t) \in {0, c.food, Room(t)}
                       THEN set_state(giver(t), "IDLE") ELSE giver(t)
<1>1. /\ c \in Creature /\ c.type \in Types /\ Whole(c) /\ Fits(c) /\ c.food \in Nat
      /\ set_state(c, "IDLE") \in Creature /\ set_state(c, "IDLE").player = c.player
      /\ Carried(set_state(c, "IDLE")) <= Carried(c)
  BY TableTypes, IdleCost DEF Sound, SoundOn, Whole, Fits, Creature
<1>2. next_free_vm_id' = next_free_vm_id /\ tile_food' = tile_food
  BY DEF ActFeed
<1>3. CASE creature' = [creature EXCEPT ![s] = set_state(c, "IDLE")]
  BY <1>1, <1>2, <1>3, PutSettled
<1>4. ASSUME NEW t \in With(c.target_id),
             creature' = [[creature EXCEPT ![s] = after(t)] EXCEPT ![t].food = @ + Gift(c, t)]
      PROVE  Settled
  <2> DEFINE n == Gift(c, t)
             g == giver(t)
             a == after(t)
             first == [creature EXCEPT ![s] = a]
             d == [first[t] EXCEPT !.food = @ + n]
  <2>1. /\ t \in Slots /\ creature[t] \in Creature /\ creature[t].type \in Types
        /\ Fits(creature[t]) /\ creature[t].player # NoPlayer
    BY UsedSound DEF With, UsedSlots, Used, Sound, SoundOn, Whole, Creature
  <2>2. n \in Nat /\ n <= c.food
    BY <1>1, <2>1, TableTypes, PerRoundNat DEF Fits, Gift, Room, Least
  <2> HIDE DEF n
  <2>3. /\ g \in Creature /\ Whole(g) /\ g.player = c.player
        /\ Carried(g) = Carried(c) - n /\ Carried(g) \in Int
    <3>1. g = [c EXCEPT !.food = @ + (0 - n)]
      BY <1>1, <2>2 DEF Giver, n, Creature
    <3>2. /\ c.food + (0 - n) \in 0 .. max_food[c.type] /\ 0 - n \in Int
          /\ c.food + (0 - n) = c.food - n
      BY <1>1, <2>2, TableTypes DEF Fits
    <3>3. g.convert_food = c.convert_food /\ g.spawn_food = c.spawn_food
      BY <1>1, <3>1 DEF Creature
    <3> HIDE DEF g
    <3>4. Sound(g) /\ g.player = c.player /\ g.food = c.food - n
      BY <3>1, <3>2, MealSound
    <3>5. Carried(g) = Carried(c) - n
      BY <1>1, <2>2, <3>3, <3>4 DEF Carried, Creature
    <3> QED
      BY <3>4, <3>5, CarriedInt DEF Sound, SoundOn, Whole
  <2>4. a = set_state(g, "IDLE") \/ a = g
    OBVIOUS
  <2> HIDE DEF giver, g, after, a
  <2>5. /\ a \in Creature /\ a.player = c.player /\ Carried(a) <= Carried(c) - n
        /\ Carried(a) \in Int
    BY <2>3, <2>4, IdleCost, CarriedInt
  <2>6. first \in [Slots -> Creature] /\ Vacant(first)
    BY <1>1, <2>5, Sums, VacantPut
  <2>7. /\ InCreatures(first) = InCreatures(creature) + Carried(a) - Carried(creature[s])
        /\ Carried(creature[s]) \in Int
    BY <2>5, Sums, PutSum
  <2>8. first[t] \in Creature /\ first[t].player # NoPlayer
    BY <2>1, <2>5, <2>6, Sums
  <2>9. creature' = [first EXCEPT ![t] = d]
    BY <1>4, <2>1, <2>6 DEF a, n
  <2> HIDE DEF first
  <2>10. d \in Creature /\ d.player # NoPlayer /\ Carried(d) = Carried(first[t]) + n
    <3>1. first[t].food + n \in Int
      BY <2>2, <2>8 DEF Creature
    <3>2. /\ d \in Creature /\ d.food = first[t].food + n /\ d.player = first[t].player
          /\ d.convert_food = first[t].convert_food /\ d.spawn_food = first[t].spawn_food
      BY <2>8, <3>1 DEF Creature
    <3> HIDE DEF d
    <3> QED
      BY <2>2, <2>8, <3>2 DEF Carried, Creature
  <2> HIDE DEF d
  <2>11. /\ InCreatures(creature') = InCreatures(first) + Carried(d) - Carried(first[t])
         /\ Carried(first[t]) \in Int /\ InCreatures(first) \in Int
    BY <2>1, <2>6, <2>9, <2>10, PutSum
  <2>12. Vacant(creature')
    BY <2>1, <2>6, <2>9, <2>10, VacantPut
  <2>13. InCreatures(creature') = InCreatures(creature) + Carried(a) - Carried(creature[s]) + n
    BY <2>2, <2>5, <2>7, <2>10, <2>11, Sums
  <2>14. InCreatures(creature') <= InCreatures(creature)
    BY <2>2, <2>5, <2>7, <2>13, Sums
  <2>15. BabyFood * (next_free_vm_id' - next_free_vm_id) = 0
    BY <1>2, Sums
  <2> QED
    BY <1>2, <2>2, <2>5, <2>7, <2>12, <2>13, <2>14, <2>15, Sums DEF Settled, Balanced
<1> QED
  BY <1>3, <1>4 DEF ActFeed

LEMMA MoveSettled ==
  ASSUME Ind, Vacant(creature), NEW s \in Slots, Move(s), ~ SkipFree(s)
  PROVE  Settled
<1>1. CASE Die(s)
  <2>1. /\ Used(s) /\ creature[s].food \in Nat /\ creature[s].suicide \in BOOLEAN
    BY <1>1, UsedSound DEF Die, Creature
  <2> QED
    BY <1>1, <2>1, RemainsLess, DropSettled DEF Die
<1>2. CASE Act(s)
  <2> DEFINE c == Aged(creature[s])
  <2>1. Sound(creature[s]) /\ creature[s] \in Creature /\ creature[s].player \in Players
    BY <1>2, UsedSound DEF Act
  <2>2. Sound(c) /\ c.player = creature[s].player /\ c.player # NoPlayer
    BY <1>2, <2>1, AgedSound, WorldAssumption DEF Act
  <2>3. Carried(c) = Carried(creature[s])
    BY <2>1 DEF Aged, Creature, Carried
  <2>4. ActAlone(s, c) \/ ActEat(s, c) \/ ActAttack(s, c) \/ ActSpawn(s, c) \/ ActFeed(s, c)
    BY <1>2 DEF Act
  <2> HIDE DEF c
  <2> QED
    BY <2>1, <2>2, <2>3, <2>4, AloneSettled, EatSettled, AttackSettled, SpawnSettled, FeedSettled
<1> QED
  BY <1>1, <1>2 DEF Move

LEMMA CommandsSettled == Ind /\ Vacant(creature) /\ Commands => Settled
<1> SUFFICES ASSUME Ind, Vacant(creature), NEW s \in Slots,
                    \/ \E state \in Requests : CmdSetState(s, state)
                    \/ \E x \in Goals : CmdSetPath(s, x)
                    \/ \E id \in 0 .. MaxVmId : CmdSetTarget(s, id)
                    \/ \E type \in Conversions : CmdSetConvert(s, type)
                    \/ CmdSuicide(s)
             PROVE  Settled
  BY DEF Commands
<1> DEFINE c == creature[s]
<1>1. Used(s) /\ Sound(c) /\ c \in Creature /\ c.player # NoPlayer
  BY UsedSound DEF CmdSetState, CmdSetPath, CmdSetTarget, CmdSetConvert, CmdSuicide, Command, Used
<1>2. SUFFICES \E d \in Creature : /\ Becomes(s, d) /\ d.player = c.player
                                  /\ Carried(d) <= Carried(c)
  BY <1>1, PutSettled DEF Becomes
<1>3. Carried(c) \in Int /\ c.food \in Int /\ c.convert_food \in Nat /\ c.spawn_food \in Int
  BY <1>1, CarriedInt DEF Creature, Sound, SoundOn, Whole
<1>4. ASSUME NEW state \in Requests, CmdSetState(s, state)
      PROVE  Becomes(s, set_state(c, state)) /\ state \in States
  BY <1>4, WorldAssumption DEF CmdSetState
<1>5. ASSUME NEW x \in Goals, CmdSetPath(s, x)
      PROVE  \E d \in Creature : Becomes(s, d) /\ d.player = c.player /\ Carried(d) <= Carried(c)
  <2> DEFINE d == [c EXCEPT !.path = x]
  <2>1. d \in Creature /\ d.player = c.player /\ Carried(d) <= Carried(c) /\ Becomes(s, d)
    BY <1>1, <1>3, <1>5, WorldAssumption DEF CmdSetPath, Creature, Carried
  <2> QED
    BY <2>1
<1>6. ASSUME NEW id \in 0 .. MaxVmId, CmdSetTarget(s, id)
      PROVE  \E d \in Creature : Becomes(s, d) /\ d.player = c.player /\ Carried(d) <= Carried(c)
  <2> DEFINE d == [c EXCEPT !.target_id = id]
  <2>1. d \in Creature /\ d.player = c.player /\ Carried(d) <= Carried(c) /\ Becomes(s, d)
    BY <1>1, <1>3, <1>6, WorldAssumption DEF CmdSetTarget, Creature, Carried
  <2> QED
    BY <2>1
<1>7. ASSUME NEW type \in Conversions, CmdSetConvert(s, type)
      PROVE  \E d \in Creature : Becomes(s, d) /\ d.player = c.player /\ Carried(d) <= Carried(c)
  <2> DEFINE f == IF c.convert_type = type THEN c.convert_food ELSE 0
             d == [c EXCEPT !.convert_food = f, !.convert_type = type]
  <2>1. f \in Int /\ f <= c.convert_food /\ type \in Types
    BY <1>3, WorldAssumption
  <2>2. Becomes(s, d)
    BY <1>1, <1>7 DEF CmdSetConvert, Creature
  <2> HIDE DEF f
  <2>3. /\ d \in Creature /\ d.player = c.player /\ d.food = c.food /\ d.convert_food = f
        /\ d.spawn_food = c.spawn_food
    BY <1>1, <2>1 DEF Creature
  <2> HIDE DEF d
  <2>4. Carried(d) <= Carried(c)
    BY <1>3, <2>1, <2>3 DEF Carried
  <2> QED
    BY <2>2, <2>3, <2>4
<1>8. CASE CmdSuicide(s)
  <2> DEFINE d == [c EXCEPT !.suicide = TRUE]
  <2>1. Becomes(s, d)
    BY <1>8 DEF CmdSuicide
  <2>2. /\ d \in Creature /\ d.player = c.player /\ d.food = c.food
        /\ d.convert_food = c.convert_food /\ d.spawn_food = c.spawn_food
    BY <1>1 DEF Creature
  <2> HIDE DEF d
  <2>3. Carried(d) <= Carried(c)
    BY <1>3, <2>2 DEF Carried
  <2> QED
    BY <2>1, <2>2, <2>3
<1>9. \A state \in States : /\ set_state(c, state) \in Creature
                            /\ set_state(c, state).player = c.player
                            /\ Carried(set_state(c, state)) <= Carried(c)
  BY <1>1, StateCost DEF Sound, SoundOn
<1> HIDE DEF c
<1> QED
  <2>1. CASE \E state \in Requests : CmdSetState(s, state)
    BY <1>4, <1>9, <2>1
  <2> QED
    BY <1>5, <1>6, <1>7, <1>8, <2>1

LEMMA RespawnSettled ==
  ASSUME Ind, Vacant(creature), NEW p \in Players, NEW x \in Goals, NEW y \in Goals,
         Respawn(p, x, y)
  PROVE  Settled
<1> DEFINE id == next_free_vm_id
           first == WithSpawned(creature, p, id, x, 0)
           second == WithSpawned(first, p, id + 1, y, 0)
<1>1. /\ x \in Positions /\ y \in Positions /\ id \in Nat /\ id + 1 \in Nat
      /\ 0 \in 0 .. max_food["SMALL"]
  BY TableTypes, WorldAssumption, Sums DEF Types
<1>2. /\ tile_food' = tile_food /\ FreeSlots(creature) # {}
      /\ \/ creature' = first /\ next_free_vm_id' = id + 1
         \/ FreeSlots(first) # {} /\ creature' = second /\ next_free_vm_id' = id + 2
  BY DEF Respawn, CanSpawn
<1>3. /\ first \in [Slots -> Creature] /\ Vacant(first)
      /\ InCreatures(first) = InCreatures(creature) + 0
  BY <1>1, <1>2, Sums, BornSum
<1> HIDE DEF first
<1>4. FreeSlots(first) # {} => Vacant(second) /\ InCreatures(second) = InCreatures(first) + 0
  BY <1>1, <1>3, BornSum
<1> HIDE DEF second
<1>5. Vacant(creature') /\ InCreatures(creature') = InCreatures(creature)
  BY <1>2, <1>3, <1>4, Sums
<1>6. BabyFood * (next_free_vm_id' - id) \in Nat
  <2>1. next_free_vm_id' - id \in Nat
    BY <1>1, <1>2
  <2> HIDE DEF id
  <2> QED
    BY <2>1, Sums
<1> QED
  BY <1>2, <1>5, <1>6, Sums DEF Settled, Balanced

\* A step of the world, the rules or the engine that touches no creature, or settles.
LEMMA NextSettled ==
  ASSUME Ind, Dying, Vacant(creature), [Next]_vars
  PROVE  creature' = creature \/ Settled
<1>1. CASE Surroundings
  BY <1>1, RespawnSettled DEF Surroundings, TickFood, Dig, DestroyPlayer
<1>2. ASSUME NEW s \in Slots, KillDoomed(s) PROVE Settled
  <2>1. Used(s) /\ creature[s].food \in Nat /\ FALSE \in BOOLEAN
    BY <1>2, UsedSound DEF KillDoomed, Dying, UsedSlots
  <2> QED
    BY <1>2, <2>1, RemainsLess, DropSettled DEF KillDoomed
<1>3. ASSUME NEW s \in Slots, Move(s) PROVE creature' = creature \/ Settled
  <2>1. SkipFree(s) => creature' = creature
    BY DEF SkipFree
  <2> QED
    BY <1>3, <2>1, MoveSettled
<1>4. CASE StartRound \/ EndRound \/ UNCHANGED vars
  BY <1>4 DEF StartRound, EndRound, vars
<1> QED
  BY <1>1, <1>2, <1>3, <1>4, CommandsSettled DEF Next, Engine

LEMMA InitVacant == Init => Vacant(creature)
<1> SUFFICES ASSUME Init, NEW s \in Slots, creature[s].player = NoPlayer
             PROVE  creature[s] = Nobody
  BY DEF Vacant
<1>1. Population[s] # NoStart => creature[s].player = Population[s].player
  BY DEF Init, NewCreature
<1> QED
  BY <1>1, WorldAssumption DEF Init

--------------------------------------------------------------------------------
(***************************************************************************)
(* Theorems                                                                *)
(***************************************************************************)

LEMMA Invariant == Spec => [](Ind /\ Dying)
  BY InitInd, StepInd, DyingStep, PTL DEF Spec

\* Everything keeps its type, whatever the tables, the world and the programs are:
\* no tile holds more than its limit, nothing walks off the map.
THEOREM TypeCorrect == Spec => []TypeOK
<1>1. Ind => TypeOK
  BY DEF Ind
<1> QED
  BY <1>1, Invariant, PTL

\* Health and food stay within the limits of a creature's type.
THEOREM BoundsHold == Spec => []Bounds
<1>1. Ind => Bounds
  BY DEF Ind, Fine, SoundOn, Whole, Fits, Bounds, UsedSlots, Used
<1> QED
  BY <1>1, Invariant, PTL

\* Invested food belongs to what the creature is doing, and pays for no more.
THEOREM InvestedHolds == Spec => []Invested
<1>1. Ind => Invested
  BY DEF Ind, Fine, SoundOn, Whole, Invested, UsedSlots, Used, world_walkable
<1> QED
  BY <1>1, Invariant, PTL

LEMMA Watching == Spec => [](Ind /\ Dying /\ Watched)
  BY InitInd, StepInd, DyingStep, InitWatched, WatchedStep, PTL DEF Spec

\* No turn harms another creature of the same player, although targets are ids that are
\* looked up again in each round.
THEOREM FriendsAreSafe == Spec => NoFriendlyFire
<1>1. Ind /\ Dying /\ [Next]_vars =>
        [\A s, t \in Slots :
           turn = s /\ s # t /\ Used(t) /\ creature[t].player = creature[s].player =>
             /\ creature'[t].player = creature[t].player
             /\ creature'[t].vm_id = creature[t].vm_id
             /\ creature'[t].health >= creature[t].health
             /\ creature'[t].food >= creature[t].food]_vars
  <2> SUFFICES ASSUME Ind, Dying, Next, NEW s \in Slots, NEW t \in Slots, turn = s, s # t,
                      Used(t), creature[t].player = creature[s].player
               PROVE  Spared(t)
    BY DEF Spared
  <2>1. turn # Thinking /\ turn # MAXCREATURES
    BY WorldAssumption DEF Slots, Thinking
  <2>2. doomed = {}
    BY <2>1 DEF Dying
  <2>3. Move(s)
    BY <2>1, <2>2 DEF Next, Commands, Surroundings, Engine, CmdSetState, CmdSetPath,
       CmdSetTarget, CmdSetConvert, CmdSuicide, Command, TickFood, Dig, Respawn, DestroyPlayer,
       KillDoomed, StartRound, EndRound, Idle, Move
  <2> QED
    BY <2>3, OthersAfterMove
<1> QED
  BY <1>1, Invariant, PTL DEF Spec, NoFriendlyFire

\* In a round without a birth a king holds the hill alone, and who holds it alone becomes
\* king if nobody died either, on every map and with any number of creatures.
THEOREM TheHillDecides == Spec => HillRule
<1>1. Ind /\ Dying /\ Watched /\ [Next]_vars =>
        [EndRound /\ next_free_vm_id = round_vm_id =>
           /\ king' # NoPlayer => Holders = {king'}
           /\ UsedSlots = round_alive => \A p \in Players : Holders = {p} => king' = p]_vars
  BY CrownedRightly
<1> QED
  BY <1>1, Watching, PTL DEF Spec, HillRule

\* Where flyers stay flyers, a ground creature that walks is on a dug tile in every round,
\* whatever it is told meanwhile: what creature.c:222 asserts.
THEOREM GroundStaysOnPlain ==
  ASSUME FlyersStay
  PROVE  Spec => []GroundWalksOnPlain
<1>1. Ind /\ WaysOf(creature) => GroundWalksOnPlain
  <2> SUFFICES ASSUME Ind, WaysOf(creature), NEW s \in UsedSlots, Ground(creature[s]),
                      creature[s].state = "WALK"
               PROVE  world_walkable(creature[s].x)
    BY DEF GroundWalksOnPlain
  <2>1. creature[s] \in Creature /\ Heading(creature[s])
    BY DEF WaysOf, UsedSlots, Used, Ind, TypeOK
  <2> QED
    BY <2>1, StartOfPath DEF Heading, Creature
<1>2. Ind /\ WaysOf(creature) /\ [Next]_vars => WaysOf(creature)'
  BY WaysStep
<1> QED
  BY <1>1, <1>2, InitWays, Invariant, PTL DEF Spec

\* Food is moved or lost, and made only by the level and the rules, whatever creatures do
\* to each other and themselves in whatever order.
THEOREM FoodIsConserved == Spec => FoodConserved
<1>1. Ind /\ Dying /\ Vacant(creature) /\ [Next]_vars => Vacant(creature)'
  BY NextSettled DEF Vacant, Settled
<1>2. Ind /\ Dying /\ Vacant(creature) /\ [Next]_vars =>
        [creature' = creature
           \/ TotalFood' <= TotalFood + BabyFood * (next_free_vm_id' - next_free_vm_id)]_vars
  <2> SUFFICES ASSUME Ind, Dying, Vacant(creature), [Next]_vars, Balanced
               PROVE  TotalFood' <= TotalFood + BabyFood * (next_free_vm_id' - next_free_vm_id)
    BY NextSettled DEF Settled
  <2>1. TotalFood' = OnTiles(tile_food') + InCreatures(creature')
    BY DEF TotalFood, OnTiles, InCreatures, Total
  <2>2. TotalFood = OnTiles(tile_food) + InCreatures(creature)
    BY DEF TotalFood, OnTiles, InCreatures
  <2>3. Ind'
    BY StepInd
  <2>4. InCreatures(creature') \in Int /\ OnTiles(tile_food') \in Int
    <3>1. /\ creature' \in [Slots -> Creature] /\ tile_food' \in FoodType
          /\ 0 \in Slots /\ 0 \in Tiles /\ 0 \in Int
      BY <2>3, WorldAssumption DEF Ind, TypeOK, FoodType, Slots, Tiles
    <3> QED
      BY <3>1, PutSum, TileSum, NobodyType
  <2> QED
    BY <2>1, <2>2, <2>4, Sums DEF Balanced
<1> QED
  BY <1>1, <1>2, InitVacant, Invariant, PTL DEF Spec, FoodConserved

================================================================================
