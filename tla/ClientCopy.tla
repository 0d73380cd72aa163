------------------------------- MODULE ClientCopy ------------------------------
(***************************************************************************)
(* What a GUI client keeps of the game (client_creature.c, client_player.c,*)
(* client_world.c) and what the packets of the server do to it.  A packet  *)
(* carries a mask of dirty fields and the values of just these fields: it  *)
(* is a function whose domain is the mask.                                 *)
(*                                                                         *)
(* CREATURE_DIRTY_FOOD_HEALTH is treated by the code as DIRTY_STATE is,    *)
(* DIRTY_MESSAGE as DIRTY_TYPE, and the fields of a player are alike.      *)
(***************************************************************************)
EXTENDS Integers

CONSTANTS
  Players,   \* player slots
  Slots,     \* creature slots
  Tiles,     \* tiles of the map
  Nobody,    \* 0xFF in place of a player number, and the NULL king
  Types,     \* creature types, with type 0 for zeroed memory
  States,    \* creature states, with CREATURE_IDLE = 0
  Speeds,    \* speeds at network resolution
  Names,     \* what is shown of a player: name, colour, score
  Looks      \* food level, type and graphics of a tile; 0 is solid and empty

ASSUME CopyAssumption ==
  /\ Nobody \notin Players
  /\ 0 \in Types /\ 0 \in States /\ 0 \in Speeds /\ 0 \in Names /\ 0 \in Looks

CopiedCreature == [used : BOOLEAN, player : Players \cup {Nobody}, vm_id : Int, x : Int,
                   type : Types, state : States, speed : Speeds]
CopiedPlayer == [used : BOOLEAN, name : Names]
Copy == [world : BOOLEAN, tile : [Tiles -> Looks], player : [Players -> CopiedPlayer],
         king : Players \cup {Nobody}, creature : [Slots -> CopiedCreature],
         refused : SUBSET {"tile", "player", "king", "creature"}]

UnusedCreature == [used |-> FALSE, player |-> Nobody, vm_id |-> 0, x |-> 0,
                   type |-> 0, state |-> 0, speed |-> 0]
UnusedPlayer == [used |-> FALSE, name |-> 0]

\* A client that has heard nothing yet.  refused is history: the kinds of packets
\* the client met with PROTOCOL_ERROR, which drops the packet.
EmptyCopy == [world |-> FALSE, tile |-> [t \in Tiles |-> 0],
              player |-> [p \in Players |-> UnusedPlayer], king |-> Nobody,
              creature |-> [s \in Slots |-> UnusedCreature], refused |-> {}]

Field(val, f, old) == IF f \in DOMAIN val THEN val[f] ELSE old

\* What CREATURE_DIRTY_ALIVE carries for a creature that is dead.
Gone == [player |-> Nobody, vm_id |-> 0, x |-> 0]

Births(val) == "alive" \in DOMAIN val /\ val["alive"].player # Nobody
Deaths(val) == "alive" \in DOMAIN val /\ val["alive"].player = Nobody

\* A birth needs an unused slot, everything else a used one.
RefusesCreature(c, val) == IF Births(val) THEN c.used ELSE ~c.used

\* The fields of an update, applied to the creature b.  Positions are differences.
Updated(b, val) ==
  [used |-> TRUE, player |-> b.player, vm_id |-> b.vm_id,
   x     |-> b.x + Field(val, "path", 0),
   type  |-> Field(val, "type", b.type),
   state |-> Field(val, "state", b.state),
   speed |-> Field(val, "speed", b.speed)]

Born(alive) == [used |-> TRUE, player |-> alive.player, vm_id |-> alive.vm_id, x |-> alive.x,
                type |-> 0, state |-> 0, speed |-> 0]

Freed(c) == [used |-> FALSE, player |-> c.player, vm_id |-> c.vm_id, x |-> c.x,
             type |-> c.type, state |-> c.state, speed |-> c.speed]

CreatureAfter(c, val) ==
  IF RefusesCreature(c, val) THEN c
  ELSE IF Deaths(val) THEN Freed(c)
  ELSE IF Births(val) THEN Updated(Born(val["alive"]), val)
  ELSE Updated(c, val)

\* Packets about creatures, at most one for each slot in DOMAIN vals.
HearCreatures(copy, vals) ==
  [copy EXCEPT
     !.creature = [s \in Slots |-> IF s \in DOMAIN vals THEN CreatureAfter(copy.creature[s], vals[s])
                                                        ELSE copy.creature[s]],
     !.refused = copy.refused \cup
        {k \in {"creature"} : \E s \in DOMAIN vals : RefusesCreature(copy.creature[s], vals[s])}]

\* PLAYER_DIRTY_ALIVE says whether the player is there; being there twice is no error.
RefusesPlayer(q, val) == "alive" \notin DOMAIN val /\ ~q.used

PlayerAfter(q, val) ==
  IF RefusesPlayer(q, val) THEN q
  ELSE IF ~Field(val, "alive", TRUE) THEN [used |-> FALSE, name |-> q.name]
  ELSE [used |-> TRUE, name |-> Field(val, "name", IF "alive" \in DOMAIN val THEN 0 ELSE q.name)]

HearPlayers(copy, vals) ==
  [copy EXCEPT
     !.player = [p \in Players |-> IF p \in DOMAIN vals THEN PlayerAfter(copy.player[p], vals[p])
                                                        ELSE copy.player[p]],
     !.refused = copy.refused \cup
        {k \in {"player"} : \E p \in DOMAIN vals : RefusesPlayer(copy.player[p], vals[p])}]

\* The king is a pointer to a player the client knows.
KnowsKing(copy, k) == k = Nobody \/ copy.player[k].used

HearKing(copy, k) ==
  [copy EXCEPT !.king    = IF KnowsKing(copy, k) THEN k ELSE copy.king,
               !.refused = IF KnowsKing(copy, k) THEN copy.refused ELSE copy.refused \cup {"king"}]

\* New world information makes every tile solid and empty.
HearWorld(copy) == [copy EXCEPT !.world = TRUE, !.tile = [t \in Tiles |-> 0]]

HearTile(copy, t, look) ==
  [copy EXCEPT !.tile    = IF copy.world THEN [copy.tile EXCEPT ![t] = look] ELSE copy.tile,
               !.refused = IF copy.world THEN copy.refused ELSE copy.refused \cup {"tile"}]
================================================================================
