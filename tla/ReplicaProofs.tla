------------------------------ MODULE ReplicaProofs ----------------------------
(***************************************************************************)
(* Proofs about Replica.  What a packet does to a copy is stated in lemmas *)
(* about values only; the actions then have to say who hears which packet. *)
(***************************************************************************)
EXTENDS Replica, TLAPS

-----------------------------------------------------------------------------
(* Packets about creatures *)

\* Values is a function on the mask.
LEMMA MaskOfValues ==
  ASSUME NEW cr, NEW mask
  PROVE  DOMAIN Values(cr, mask) = mask
  BY DEF Values

LEMMA ValueOf ==
  ASSUME NEW cr, NEW mask
  PROVE  /\ "alive" \in mask => Values(cr, mask)["alive"] =
              IF cr.player = Nobody THEN Gone
              ELSE [player |-> cr.player, vm_id |-> cr.vm_id, x |-> cr.net_x]
         /\ "type" \in mask => Values(cr, mask)["type"] = cr.type
         /\ "state" \in mask => Values(cr, mask)["state"] = cr.net_state
         /\ "path" \in mask => Values(cr, mask)["path"] =
              IF "alive" \in mask THEN 0 ELSE cr.net_x - cr.last_x
         /\ "speed" \in mask => Values(cr, mask)["speed"] = cr.net_speed
<1>1. \A f \in mask : Values(cr, mask)[f] = Everything(cr, mask)[f]
  BY DEF Values
<1>2. /\ Everything(cr, mask)["alive"] =
            IF cr.player = Nobody THEN Gone
            ELSE [player |-> cr.player, vm_id |-> cr.vm_id, x |-> cr.net_x]
      /\ Everything(cr, mask)["type"] = cr.type
      /\ Everything(cr, mask)["state"] = cr.net_state
      /\ Everything(cr, mask)["path"] = IF "alive" \in mask THEN 0 ELSE cr.net_x - cr.last_x
      /\ Everything(cr, mask)["speed"] = cr.net_speed
  BY DEF Everything
<1> QED BY <1>1, <1>2, Zenon

\* A packet with all fields makes a creature of an unused slot, as the network knows it.
LEMMA BirthHeard ==
  ASSUME NEW cr \in Creature, cr.player # Nobody, NEW c \in CopiedCreature
  PROVE  /\ RefusesCreature(c, Values(cr, Fields)) = c.used
         /\ ~c.used => CreatureAfter(c, Values(cr, Fields)) =
                         [used |-> TRUE, player |-> cr.player, vm_id |-> cr.vm_id, x |-> cr.net_x,
                          type |-> cr.type, state |-> cr.net_state, speed |-> cr.net_speed]
         /\ CreatureAfter(c, Values(cr, Fields)) \in CopiedCreature
<1> DEFINE val == Values(cr, Fields)
<1>1. DOMAIN val = Fields
  BY MaskOfValues
<1>2. val["alive"] = [player |-> cr.player, vm_id |-> cr.vm_id, x |-> cr.net_x]
  BY ValueOf DEF Fields
<1>3. /\ val["type"] = cr.type /\ val["state"] = cr.net_state
      /\ val["path"] = 0 /\ val["speed"] = cr.net_speed
  <2>1. "type" \in Fields /\ "state" \in Fields /\ "path" \in Fields /\ "speed" \in Fields
    BY DEF Fields
  <2>2. val["type"] = cr.type /\ val["state"] = cr.net_state
    BY <2>1, ValueOf
  <2>3. val["path"] = 0 /\ val["speed"] = cr.net_speed
    BY <2>1, ValueOf DEF Fields
  <2> QED BY <2>2, <2>3
<1> HIDE DEF val
<1>4. Births(val) /\ ~Deaths(val)
  <2>1. "alive" \in DOMAIN val /\ val["alive"].player # Nobody
    BY <1>1, <1>2 DEF Fields
  <2> QED BY <2>1 DEF Births, Deaths
<1>5. RefusesCreature(c, val) = c.used
  BY <1>4 DEF RefusesCreature
<1>6. cr.net_x \in Int
  BY ReplicaAssumption DEF Creature
<1>7. Updated(Born(val["alive"]), val) =
        [used |-> TRUE, player |-> cr.player, vm_id |-> cr.vm_id, x |-> cr.net_x,
         type |-> cr.type, state |-> cr.net_state, speed |-> cr.net_speed]
  <2>1. /\ Field(val, "path", 0) = 0 /\ Field(val, "type", 0) = cr.type
        /\ Field(val, "state", 0) = cr.net_state /\ Field(val, "speed", 0) = cr.net_speed
    BY <1>1, <1>3 DEF Field, Fields
  <2> DEFINE b == Born(val["alive"])
  <2>2. /\ b.player = cr.player /\ b.vm_id = cr.vm_id /\ b.x = cr.net_x
        /\ b.type = 0 /\ b.state = 0 /\ b.speed = 0
    BY <1>2 DEF Born
  <2> HIDE DEF b
  <2>3. b.x + Field(val, "path", 0) = cr.net_x
    BY <1>6, <2>1, <2>2
  <2> QED BY <2>1, <2>2, <2>3 DEF Updated, b
<1>8. CASE c.used
  <2>1. CreatureAfter(c, val) = c
    BY <1>5, <1>8 DEF CreatureAfter
  <2> QED BY <1>5, <1>8, <2>1 DEF val
<1>9. CASE ~c.used
  <2>1. CreatureAfter(c, val) = Updated(Born(val["alive"]), val)
    BY <1>4, <1>5, <1>9 DEF CreatureAfter
  <2>2. [used |-> TRUE, player |-> cr.player, vm_id |-> cr.vm_id, x |-> cr.net_x,
         type |-> cr.type, state |-> cr.net_state, speed |-> cr.net_speed] \in CopiedCreature
    BY <1>6 DEF CopiedCreature, Creature
  <2> QED BY <1>5, <1>7, <1>9, <2>1, <2>2 DEF val
<1> QED BY <1>8, <1>9 DEF CopiedCreature

\* A packet without ALIVE updates the fields of its mask in a used slot.
LEMMA UpdateHeard ==
  ASSUME NEW cr \in Creature, NEW mask \in SUBSET (Fields \ {"alive"}), NEW c \in CopiedCreature
  PROVE  /\ RefusesCreature(c, Values(cr, mask)) = ~c.used
         /\ c.used => CreatureAfter(c, Values(cr, mask)) =
              [used |-> TRUE, player |-> c.player, vm_id |-> c.vm_id,
               x     |-> IF "path" \in mask THEN c.x + (cr.net_x - cr.last_x) ELSE c.x,
               type  |-> IF "type" \in mask THEN cr.type ELSE c.type,
               state |-> IF "state" \in mask THEN cr.net_state ELSE c.state,
               speed |-> IF "speed" \in mask THEN cr.net_speed ELSE c.speed]
         /\ CreatureAfter(c, Values(cr, mask)) \in CopiedCreature
<1> DEFINE val == Values(cr, mask)
           upd == [used |-> TRUE, player |-> c.player, vm_id |-> c.vm_id,
                   x     |-> IF "path" \in mask THEN c.x + (cr.net_x - cr.last_x) ELSE c.x,
                   type  |-> IF "type" \in mask THEN cr.type ELSE c.type,
                   state |-> IF "state" \in mask THEN cr.net_state ELSE c.state,
                   speed |-> IF "speed" \in mask THEN cr.net_speed ELSE c.speed]
<1>0. "alive" \notin mask
  OBVIOUS
<1>1. DOMAIN val = mask
  BY MaskOfValues
<1>2. "type" \in mask => val["type"] = cr.type
  BY ValueOf
<1>3. "state" \in mask => val["state"] = cr.net_state
  BY ValueOf
<1>4. "path" \in mask => val["path"] = cr.net_x - cr.last_x
  BY ValueOf, <1>0
<1>5. "speed" \in mask => val["speed"] = cr.net_speed
  BY ValueOf
<1> HIDE DEF val
<1>6. ~Births(val) /\ ~Deaths(val)
  BY <1>0, <1>1 DEF Births, Deaths
<1>7. RefusesCreature(c, val) = ~c.used
  BY <1>6 DEF RefusesCreature, CopiedCreature
<1>8. cr.net_x \in Int /\ cr.last_x \in Int /\ c.x \in Int
  BY ReplicaAssumption DEF Creature, CopiedCreature
<1>9. Updated(c, val) = upd
  <2>1. c.x + Field(val, "path", 0) = IF "path" \in mask THEN c.x + (cr.net_x - cr.last_x) ELSE c.x
    BY <1>1, <1>4, <1>8 DEF Field
  <2>2. /\ Field(val, "type", c.type) = IF "type" \in mask THEN cr.type ELSE c.type
        /\ Field(val, "state", c.state) = IF "state" \in mask THEN cr.net_state ELSE c.state
        /\ Field(val, "speed", c.speed) = IF "speed" \in mask THEN cr.net_speed ELSE c.speed
    BY <1>1, <1>2, <1>3, <1>5 DEF Field
  <2> QED BY <2>1, <2>2 DEF Updated
<1>10. upd \in CopiedCreature
  BY <1>8 DEF CopiedCreature, Creature
<1> HIDE DEF upd
<1>11. CASE c.used
  <2>1. CreatureAfter(c, val) = Updated(c, val)
    BY <1>6, <1>7, <1>11 DEF CreatureAfter
  <2> QED BY <1>7, <1>9, <1>10, <1>11, <2>1 DEF val, upd
<1>12. CASE ~c.used
  <2>1. CreatureAfter(c, val) = c
    BY <1>7, <1>12 DEF CreatureAfter
  <2> QED BY <1>7, <1>12, <2>1 DEF val
<1> QED BY <1>11, <1>12 DEF CopiedCreature

\* The packet of a death frees a used slot.
LEMMA DeathHeard ==
  ASSUME NEW c \in CopiedCreature
  PROVE  LET val == [f \in {"alive"} |-> Gone] IN
         /\ RefusesCreature(c, val) = ~c.used
         /\ c.used => CreatureAfter(c, val) = Freed(c)
         /\ CreatureAfter(c, val) \in CopiedCreature
<1> DEFINE val == [f \in {"alive"} |-> Gone]
<1>1. DOMAIN val = {"alive"} /\ val["alive"].player = Nobody
  BY DEF Gone
<1> HIDE DEF val
<1>2. Deaths(val) /\ ~Births(val)
  BY <1>1 DEF Deaths, Births
<1>3. RefusesCreature(c, val) = ~c.used
  BY <1>2 DEF RefusesCreature, CopiedCreature
<1>4. CASE c.used
  <2>1. CreatureAfter(c, val) = Freed(c)
    BY <1>2, <1>3, <1>4 DEF CreatureAfter
  <2>2. Freed(c) \in CopiedCreature
    BY DEF CopiedCreature, Freed
  <2> QED BY <1>3, <1>4, <2>1, <2>2 DEF val
<1>5. CASE ~c.used
  <2>1. CreatureAfter(c, val) = c
    BY <1>3, <1>5 DEF CreatureAfter
  <2> QED BY <1>3, <1>5, <2>1 DEF val
<1> QED BY <1>4, <1>5 DEF CopiedCreature

-----------------------------------------------------------------------------
(* What hearing a packet changes in a copy, and what it leaves alone *)

LEMMA HearCreaturesIs ==
  ASSUME NEW copy \in Copy, NEW vals, DOMAIN vals \subseteq Slots,
         \A s \in DOMAIN vals : CreatureAfter(copy.creature[s], vals[s]) \in CopiedCreature
  PROVE  LET new == HearCreatures(copy, vals) IN
         /\ new \in Copy
         /\ new.world = copy.world /\ new.tile = copy.tile
         /\ new.player = copy.player /\ new.king = copy.king
         /\ \A s \in Slots : new.creature[s] =
              IF s \in DOMAIN vals THEN CreatureAfter(copy.creature[s], vals[s]) ELSE copy.creature[s]
         /\ (\A s \in DOMAIN vals : ~RefusesCreature(copy.creature[s], vals[s]))
              => new.refused = copy.refused
<1> DEFINE after == [s \in Slots |-> IF s \in DOMAIN vals THEN CreatureAfter(copy.creature[s], vals[s])
                                                        ELSE copy.creature[s]]
           refusals == copy.refused \cup
             {k \in {"creature"} : \E s \in DOMAIN vals : RefusesCreature(copy.creature[s], vals[s])}
           new == HearCreatures(copy, vals)
<1>1. after \in [Slots -> CopiedCreature]
  BY DEF Copy
<1>2. refusals \in SUBSET {"tile", "player", "king", "creature"}
  BY DEF Copy
<1>3. new = [copy EXCEPT !.creature = after, !.refused = refusals]
  BY DEF HearCreatures
<1>4. (\A s \in DOMAIN vals : ~RefusesCreature(copy.creature[s], vals[s])) => refusals = copy.refused
  OBVIOUS
<1>5. \A s \in Slots : after[s] =
        IF s \in DOMAIN vals THEN CreatureAfter(copy.creature[s], vals[s]) ELSE copy.creature[s]
  OBVIOUS
<1> HIDE DEF after, refusals, new
<1>6. /\ new \in Copy
      /\ new.world = copy.world /\ new.tile = copy.tile
      /\ new.player = copy.player /\ new.king = copy.king
      /\ new.creature = after /\ new.refused = refusals
  BY <1>1, <1>2, <1>3 DEF Copy
<1> QED BY <1>4, <1>5, <1>6 DEF new

\* Packets that say a player is there, that it left, or how it is called now.
Arrival(n) == [f \in {"alive", "name"} |-> IF f = "alive" THEN TRUE ELSE n]
Departure == [f \in {"alive"} |-> FALSE]
NewName(n) == [f \in {"name"} |-> n]

LEMMA PlayersHeard ==
  ASSUME NEW q \in CopiedPlayer, NEW n \in Names
  PROVE  /\ ~RefusesPlayer(q, Arrival(n)) /\ PlayerAfter(q, Arrival(n)) = [used |-> TRUE, name |-> n]
         /\ ~RefusesPlayer(q, Departure) /\ PlayerAfter(q, Departure) = [used |-> FALSE, name |-> q.name]
         /\ RefusesPlayer(q, NewName(n)) = ~q.used
         /\ q.used => PlayerAfter(q, NewName(n)) = [used |-> TRUE, name |-> n]
         /\ PlayerAfter(q, Arrival(n)) \in CopiedPlayer
         /\ PlayerAfter(q, Departure) \in CopiedPlayer
         /\ PlayerAfter(q, NewName(n)) \in CopiedPlayer
<1>1. /\ DOMAIN Arrival(n) = {"alive", "name"} /\ Arrival(n)["alive"] = TRUE /\ Arrival(n)["name"] = n
      /\ DOMAIN Departure = {"alive"} /\ Departure["alive"] = FALSE
      /\ DOMAIN NewName(n) = {"name"} /\ NewName(n)["name"] = n
  BY DEF Arrival, Departure, NewName
<1>2. ~RefusesPlayer(q, Arrival(n)) /\ ~RefusesPlayer(q, Departure)
  BY <1>1 DEF RefusesPlayer
<1>3. RefusesPlayer(q, NewName(n)) = ~q.used
  BY <1>1 DEF RefusesPlayer, CopiedPlayer
<1>4. PlayerAfter(q, Arrival(n)) = [used |-> TRUE, name |-> n]
  BY <1>1, <1>2 DEF PlayerAfter, Field
<1>5. PlayerAfter(q, Departure) = [used |-> FALSE, name |-> q.name]
  BY <1>1, <1>2 DEF PlayerAfter, Field
<1>6. PlayerAfter(q, NewName(n)) = IF q.used THEN [used |-> TRUE, name |-> n] ELSE q
  BY <1>1, <1>3 DEF PlayerAfter, Field, CopiedPlayer
<1> QED BY <1>2, <1>3, <1>4, <1>5, <1>6 DEF CopiedPlayer

LEMMA HearPlayersIs ==
  ASSUME NEW copy \in Copy, NEW vals, DOMAIN vals \subseteq Players,
         \A p \in DOMAIN vals : PlayerAfter(copy.player[p], vals[p]) \in CopiedPlayer
  PROVE  LET new == HearPlayers(copy, vals) IN
         /\ new \in Copy
         /\ new.world = copy.world /\ new.tile = copy.tile
         /\ new.creature = copy.creature /\ new.king = copy.king
         /\ \A p \in Players : new.player[p] =
              IF p \in DOMAIN vals THEN PlayerAfter(copy.player[p], vals[p]) ELSE copy.player[p]
         /\ (\A p \in DOMAIN vals : ~RefusesPlayer(copy.player[p], vals[p]))
              => new.refused = copy.refused
<1> DEFINE after == [p \in Players |-> IF p \in DOMAIN vals THEN PlayerAfter(copy.player[p], vals[p])
                                                        ELSE copy.player[p]]
           refusals == copy.refused \cup
             {k \in {"player"} : \E p \in DOMAIN vals : RefusesPlayer(copy.player[p], vals[p])}
           new == HearPlayers(copy, vals)
<1>1. after \in [Players -> CopiedPlayer]
  BY DEF Copy
<1>2. refusals \in SUBSET {"tile", "player", "king", "creature"}
  BY DEF Copy
<1>3. new = [copy EXCEPT !.player = after, !.refused = refusals]
  BY DEF HearPlayers
<1>4. (\A p \in DOMAIN vals : ~RefusesPlayer(copy.player[p], vals[p])) => refusals = copy.refused
  OBVIOUS
<1>5. \A p \in Players : after[p] =
        IF p \in DOMAIN vals THEN PlayerAfter(copy.player[p], vals[p]) ELSE copy.player[p]
  OBVIOUS
<1> HIDE DEF after, refusals, new
<1>6. /\ new \in Copy
      /\ new.world = copy.world /\ new.tile = copy.tile
      /\ new.creature = copy.creature /\ new.king = copy.king
      /\ new.player = after /\ new.refused = refusals
  BY <1>1, <1>2, <1>3 DEF Copy
<1> QED BY <1>4, <1>5, <1>6 DEF new

LEMMA HearKingIs ==
  ASSUME NEW copy \in Copy, NEW k \in Players \cup {Nobody}
  PROVE  LET new == HearKing(copy, k) IN
         /\ new \in Copy
         /\ new.world = copy.world /\ new.tile = copy.tile
         /\ new.creature = copy.creature /\ new.player = copy.player
         /\ KnowsKing(copy, k) => new.king = k
         /\ new.refused \subseteq copy.refused \cup {"king"}
<1> DEFINE known == IF KnowsKing(copy, k) THEN k ELSE copy.king
           refusals == IF KnowsKing(copy, k) THEN copy.refused ELSE copy.refused \cup {"king"}
           new == HearKing(copy, k)
<1>1. known \in Players \cup {Nobody} /\ (KnowsKing(copy, k) => known = k)
  BY DEF Copy
<1>2. /\ refusals \in SUBSET {"tile", "player", "king", "creature"}
      /\ refusals \subseteq copy.refused \cup {"king"}
  BY DEF Copy
<1>3. new = [copy EXCEPT !.king = known, !.refused = refusals]
  BY DEF HearKing
<1> HIDE DEF known, refusals, new
<1>4. /\ new \in Copy
      /\ new.world = copy.world /\ new.tile = copy.tile
      /\ new.creature = copy.creature /\ new.player = copy.player
      /\ new.king = known /\ new.refused = refusals
  BY <1>1, <1>2, <1>3 DEF Copy
<1> QED BY <1>1, <1>2, <1>4 DEF new

LEMMA HearTileIs ==
  ASSUME NEW copy \in Copy, NEW t \in Tiles, NEW look \in Looks
  PROVE  LET new == HearTile(copy, t, look) IN
         /\ new \in Copy /\ new.world = copy.world
         /\ new.creature = copy.creature /\ new.player = copy.player /\ new.king = copy.king
         /\ copy.world => new.tile = [copy.tile EXCEPT ![t] = look] /\ new.refused = copy.refused
  BY DEF HearTile, Copy

LEMMA HearWorldIs ==
  ASSUME NEW copy \in Copy
  PROVE  LET new == HearWorld(copy) IN
         /\ new \in Copy /\ new.world /\ new.tile = [u \in Tiles |-> 0]
         /\ new.creature = copy.creature /\ new.player = copy.player /\ new.king = copy.king
         /\ new.refused = copy.refused
  BY CopyAssumption DEF HearWorld, Copy

-----------------------------------------------------------------------------
(* The records of the server *)

Sound(cr) == cr \in Creature /\ cr.net_x = cr.last_x

LEMMA RefreshedIs ==
  ASSUME NEW cr \in Creature
  PROVE  LET new == Refreshed(cr) IN
         /\ new \in Creature
         /\ new.player = cr.player /\ new.vm_id = cr.vm_id /\ new.x = cr.x /\ new.type = cr.type
         /\ new.state = cr.state /\ new.speed = cr.speed /\ new.dirty = cr.dirty
         /\ new.net_x = cr.x /\ new.last_x = cr.last_x
         /\ new.net_state = cr.state /\ new.net_speed = NetSpeed(cr)
         /\ NetSpeed(cr) \in Speeds
<1>1. NetSpeed(cr) \in Speeds
  BY DEF NetSpeed, Creature
<1> QED BY <1>1 DEF Refreshed, Creature

LEMMA SyncedIs ==
  ASSUME NEW cr \in Creature, NEW mask,
         {"alive", "path"} \cap mask = {} => cr.x = cr.net_x, cr.net_x = cr.last_x
  PROVE  LET new == Synced(cr, mask) IN
         /\ Sound(new) /\ new.dirty = {}
         /\ new.player = cr.player /\ new.vm_id = cr.vm_id /\ new.x = cr.x /\ new.type = cr.type
         /\ new.state = cr.state /\ new.speed = cr.speed
         /\ new.net_x = cr.x /\ new.net_state = cr.state /\ new.net_speed = NetSpeed(cr)
<1> DEFINE mid == Refreshed(cr)
           x == LastX(mid, mask)
           new == Synced(cr, mask)
<1>1. /\ mid \in Creature
      /\ mid.player = cr.player /\ mid.vm_id = cr.vm_id /\ mid.x = cr.x /\ mid.type = cr.type
      /\ mid.state = cr.state /\ mid.speed = cr.speed
      /\ mid.net_x = cr.x /\ mid.last_x = cr.last_x
      /\ mid.net_state = cr.state /\ mid.net_speed = NetSpeed(cr)
  BY RefreshedIs
<1>2. x = cr.x
  BY <1>1 DEF LastX
<1>3. new = [mid EXCEPT !.dirty = {}, !.last_x = x]
  BY DEF Synced
<1> HIDE DEF mid, x, new
<1>4. x \in Positions
  BY <1>2 DEF Creature
<1>5. /\ new \in Creature
      /\ new.dirty = {} /\ new.last_x = x
      /\ new.player = mid.player /\ new.vm_id = mid.vm_id /\ new.x = mid.x /\ new.type = mid.type
      /\ new.state = mid.state /\ new.speed = mid.speed
      /\ new.net_x = mid.net_x /\ new.net_state = mid.net_state /\ new.net_speed = mid.net_speed
  BY <1>1, <1>3, <1>4 DEF Creature
<1> QED BY <1>1, <1>2, <1>5 DEF Sound, new

LEMMA MaskIs ==
  ASSUME NEW cr \in Creature
  PROVE  /\ DirtyMask(cr) \in SUBSET (Fields \ {"alive"})
         /\ "type" \in DirtyMask(cr) <=> "type" \in cr.dirty
         /\ "state" \in DirtyMask(cr) <=> cr.state # cr.net_state
         /\ "path" \in DirtyMask(cr) <=> cr.x # cr.net_x
         /\ "speed" \in DirtyMask(cr) <=> NetSpeed(cr) # cr.net_speed
  BY DEF DirtyMask, Creature, Fields

\* The sync loop keeps a copy exact, whatever became dirty.
LEMMA SyncShown ==
  ASSUME NEW cr, Sound(cr), cr.player # Nobody, NEW c \in CopiedCreature, Shows(c, cr)
  PROVE  LET mask == DirtyMask(cr)
             val == Values(Refreshed(cr), mask) IN
         /\ mask = {} => Shows(c, Synced(cr, mask))
         /\ ~RefusesCreature(c, val)
         /\ CreatureAfter(c, val) \in CopiedCreature
         /\ Shows(CreatureAfter(c, val), Synced(cr, mask))
<1> DEFINE mask == DirtyMask(cr)
           mid == Refreshed(cr)
           val == Values(mid, mask)
           new == Synced(cr, mask)
           after == CreatureAfter(c, val)
<1>0. cr \in Creature /\ cr.net_x = cr.last_x
  BY DEF Sound
<1>1. /\ mask \in SUBSET (Fields \ {"alive"})
      /\ "type" \in mask <=> "type" \in cr.dirty
      /\ "state" \in mask <=> cr.state # cr.net_state
      /\ "path" \in mask <=> cr.x # cr.net_x
      /\ "speed" \in mask <=> NetSpeed(cr) # cr.net_speed
  BY <1>0, MaskIs
<1>2. /\ mid \in Creature
      /\ mid.type = cr.type /\ mid.net_x = cr.x /\ mid.last_x = cr.last_x
      /\ mid.net_state = cr.state /\ mid.net_speed = NetSpeed(cr)
  BY <1>0, RefreshedIs
<1>3. /\ Sound(new) /\ new.dirty = {}
      /\ new.player = cr.player /\ new.vm_id = cr.vm_id /\ new.type = cr.type
      /\ new.net_x = cr.x /\ new.net_state = cr.state /\ new.net_speed = NetSpeed(cr)
  BY <1>0, <1>1, SyncedIs
<1>4. /\ c.used /\ c.player = cr.player /\ c.vm_id = cr.vm_id
      /\ c.x = cr.last_x /\ c.state = cr.net_state /\ c.speed = cr.net_speed
      /\ "type" \in cr.dirty \/ c.type = cr.type
  BY DEF Shows, CopiedCreature
<1> HIDE DEF mask, mid, new
<1>5. /\ RefusesCreature(c, val) = ~c.used
      /\ c.used => after =
              [used |-> TRUE, player |-> c.player, vm_id |-> c.vm_id,
               x     |-> IF "path" \in mask THEN c.x + (mid.net_x - mid.last_x) ELSE c.x,
               type  |-> IF "type" \in mask THEN mid.type ELSE c.type,
               state |-> IF "state" \in mask THEN mid.net_state ELSE c.state,
               speed |-> IF "speed" \in mask THEN mid.net_speed ELSE c.speed]
      /\ after \in CopiedCreature
  BY <1>1, <1>2, UpdateHeard
<1> HIDE DEF val, after
<1>6. cr.x \in Int /\ cr.last_x \in Int
  BY <1>0, ReplicaAssumption DEF Creature
<1>7. /\ after.used /\ after.player = cr.player /\ after.vm_id = cr.vm_id
      /\ after.x = cr.x /\ after.type = cr.type /\ after.state = cr.state
      /\ after.speed = NetSpeed(cr)
  BY <1>0, <1>1, <1>2, <1>4, <1>5, <1>6
<1>8. new.last_x = cr.x
  BY <1>3 DEF Sound
<1>9. Shows(after, new)
  BY <1>3, <1>7, <1>8 DEF Shows
<1>10. mask = {} => Shows(c, new)
  BY <1>0, <1>1, <1>3, <1>4, <1>8 DEF Shows
<1> QED BY <1>4, <1>5, <1>9, <1>10 DEF val, after, mask, mid, new

-----------------------------------------------------------------------------
(* Broadcasts about creatures keep a copy exact *)

ExactCreatures(copy, crs) == \A s \in Slots : Shows(copy.creature[s], crs[s])

\* Only the creatures of a copy change, and no packet is refused.
Alike(new, copy) ==
  /\ new.world = copy.world /\ new.tile = copy.tile
  /\ new.player = copy.player /\ new.king = copy.king

LEMMA BirthShown ==
  ASSUME NEW copy \in Copy, NEW crs \in [Slots -> Creature], NEW s \in Slots,
         NEW b \in Creature, b.player # Nobody, b.net_x = b.last_x
  PROVE  LET new == HearCreatures(copy, [r \in {s} |-> Values(Refreshed(b), Fields)]) IN
         /\ new \in Copy /\ Alike(new, copy)
         /\ crs[s].player = Nobody /\ ExactCreatures(copy, crs)
              => /\ new.refused = copy.refused
                 /\ ExactCreatures(new, [crs EXCEPT ![s] = Synced(b, Fields)])
<1> DEFINE mid == Refreshed(b)
           val == Values(mid, Fields)
           vals == [r \in {s} |-> val]
           c == copy.creature[s]
           new == HearCreatures(copy, vals)
           made == Synced(b, Fields)
<1>1. mid \in Creature /\ mid.player = b.player /\ mid.vm_id = b.vm_id /\ mid.type = b.type
      /\ mid.net_x = b.x /\ mid.net_state = b.state /\ mid.net_speed = NetSpeed(b)
  BY RefreshedIs
<1>2. /\ Sound(made) /\ made.dirty = {}
      /\ made.player = b.player /\ made.vm_id = b.vm_id /\ made.type = b.type
      /\ made.net_x = b.x /\ made.net_state = b.state /\ made.net_speed = NetSpeed(b)
  BY SyncedIs DEF Fields
<1>3. c \in CopiedCreature
  BY DEF Copy
<1> HIDE DEF mid, c, made
<1>4. /\ RefusesCreature(c, val) = c.used
      /\ ~c.used => CreatureAfter(c, val) =
                         [used |-> TRUE, player |-> mid.player, vm_id |-> mid.vm_id, x |-> mid.net_x,
                          type |-> mid.type, state |-> mid.net_state, speed |-> mid.net_speed]
      /\ CreatureAfter(c, val) \in CopiedCreature
  BY <1>1, <1>3, BirthHeard
<1> HIDE DEF val
<1>5. DOMAIN vals = {s} /\ vals[s] = val
  OBVIOUS
<1>6. /\ new \in Copy /\ Alike(new, copy)
      /\ \A r \in Slots : new.creature[r] = IF r = s THEN CreatureAfter(c, val) ELSE copy.creature[r]
      /\ ~RefusesCreature(c, val) => new.refused = copy.refused
  <2> HIDE DEF vals, new
  <2>1. \A r \in DOMAIN vals : CreatureAfter(copy.creature[r], vals[r]) \in CopiedCreature
    BY <1>4, <1>5 DEF c
  <2>2. DOMAIN vals \subseteq Slots
    BY <1>5
  <2>3. /\ new \in Copy /\ new.world = copy.world /\ new.tile = copy.tile
        /\ new.player = copy.player /\ new.king = copy.king
        /\ \A r \in Slots : new.creature[r] =
             IF r \in DOMAIN vals THEN CreatureAfter(copy.creature[r], vals[r]) ELSE copy.creature[r]
        /\ (\A r \in DOMAIN vals : ~RefusesCreature(copy.creature[r], vals[r]))
             => new.refused = copy.refused
    BY <2>1, <2>2, HearCreaturesIs DEF new
  <2>4. \A r \in DOMAIN vals : r = s /\ vals[r] = val /\ copy.creature[r] = c
    BY <1>5 DEF c
  <2> QED BY <1>5, <2>3, <2>4 DEF Alike
<1>7. ASSUME crs[s].player = Nobody, ExactCreatures(copy, crs)
      PROVE  /\ new.refused = copy.refused
             /\ ExactCreatures(new, [crs EXCEPT ![s] = made])
  <2>1. ~c.used
    BY <1>7 DEF ExactCreatures, Shows, c
  <2>2. Shows(CreatureAfter(c, val), made)
    <3> DEFINE after == CreatureAfter(c, val)
    <3>1. /\ after.used /\ after.player = mid.player /\ after.vm_id = mid.vm_id
          /\ after.x = mid.net_x /\ after.type = mid.type
          /\ after.state = mid.net_state /\ after.speed = mid.net_speed
          /\ after.used = TRUE
      BY <1>4, <2>1
    <3> HIDE DEF after
    <3>2. made.last_x = b.x
      BY <1>2 DEF Sound
    <3> QED BY <1>1, <1>2, <3>1, <3>2 DEF Shows, after
  <2> HIDE DEF new, vals
  <2>3. ASSUME NEW r \in Slots PROVE Shows(new.creature[r], [crs EXCEPT ![s] = made][r])
    BY <1>6, <1>7, <2>2 DEF ExactCreatures
  <2> QED BY <1>4, <1>6, <2>1, <2>3 DEF ExactCreatures
<1> HIDE DEF new
<1>8. QED BY <1>6, <1>7 DEF new, val, mid, made

LEMMA DeathShown ==
  ASSUME NEW copy \in Copy, NEW crs \in [Slots -> Creature], NEW s \in Slots
  PROVE  LET new == HearCreatures(copy, Obituaries(s)) IN
         /\ new \in Copy /\ Alike(new, copy)
         /\ crs[s].player # Nobody /\ ExactCreatures(copy, crs)
              => /\ new.refused = copy.refused
                 /\ ExactCreatures(new, [crs EXCEPT ![s].player = Nobody])
<1> DEFINE val == [f \in {"alive"} |-> Gone]
           vals == Obituaries(s)
           c == copy.creature[s]
           new == HearCreatures(copy, vals)
           dead == [crs[s] EXCEPT !.player = Nobody]
<1>1. c \in CopiedCreature
  BY DEF Copy
<1>2. DOMAIN vals = {s} /\ vals[s] = val
  BY DEF Obituaries
<1>3. dead.player = Nobody
  BY DEF Creature
<1> HIDE DEF c, dead
<1>4. /\ RefusesCreature(c, val) = ~c.used
      /\ c.used => CreatureAfter(c, val) = Freed(c)
      /\ CreatureAfter(c, val) \in CopiedCreature
  BY <1>1, DeathHeard
<1> HIDE DEF val
<1>5. /\ new \in Copy /\ Alike(new, copy)
      /\ \A r \in Slots : new.creature[r] = IF r = s THEN CreatureAfter(c, val) ELSE copy.creature[r]
      /\ ~RefusesCreature(c, val) => new.refused = copy.refused
  <2> HIDE DEF vals, new
  <2>1. \A r \in DOMAIN vals : CreatureAfter(copy.creature[r], vals[r]) \in CopiedCreature
    BY <1>2, <1>4 DEF c
  <2>2. DOMAIN vals \subseteq Slots
    BY <1>2
  <2>3. /\ new \in Copy /\ new.world = copy.world /\ new.tile = copy.tile
        /\ new.player = copy.player /\ new.king = copy.king
        /\ \A r \in Slots : new.creature[r] =
             IF r \in DOMAIN vals THEN CreatureAfter(copy.creature[r], vals[r]) ELSE copy.creature[r]
        /\ (\A r \in DOMAIN vals : ~RefusesCreature(copy.creature[r], vals[r]))
             => new.refused = copy.refused
    BY <2>1, <2>2, HearCreaturesIs DEF new
  <2>4. \A r \in DOMAIN vals : r = s /\ vals[r] = val /\ copy.creature[r] = c
    BY <1>2 DEF c
  <2> QED BY <1>2, <2>3, <2>4 DEF Alike
<1>6. ASSUME crs[s].player # Nobody, ExactCreatures(copy, crs)
      PROVE  /\ new.refused = copy.refused
             /\ ExactCreatures(new, [crs EXCEPT ![s].player = Nobody])
  <2>1. c.used
    BY <1>1, <1>6 DEF ExactCreatures, Shows, c
  <2>2. Shows(CreatureAfter(c, val), dead)
    <3> DEFINE after == CreatureAfter(c, val)
    <3>1. after.used = FALSE
      BY <1>4, <2>1 DEF Freed
    <3> HIDE DEF after
    <3> QED BY <1>3, <3>1 DEF Shows, after
  <2>3. [crs EXCEPT ![s].player = Nobody] = [crs EXCEPT ![s] = dead]
    BY DEF dead
  <2> HIDE DEF new, vals
  <2>4. ASSUME NEW r \in Slots PROVE Shows(new.creature[r], [crs EXCEPT ![s] = dead][r])
    BY <1>5, <1>6, <2>2 DEF ExactCreatures
  <2> QED BY <1>4, <1>5, <2>1, <2>3, <2>4 DEF ExactCreatures
<1> HIDE DEF new
<1>7. QED BY <1>5, <1>6 DEF new

-----------------------------------------------------------------------------
(* The inductive invariant *)

ExactPlayers(copy, pls) == \A p \in Players : ShowsPlayer(copy.player[p], pls[p])

Mirrors(copy, crs, pls, tls) ==
  /\ copy.world /\ copy.tile = tls
  /\ ExactCreatures(copy, crs) /\ ExactPlayers(copy, pls)

\* What the network knows of a position is what was last sent of it.
Positioned == \A s \in Slots : creature[s].net_x = creature[s].last_x

Owned == \A s \in Slots : Used(s) => player[creature[s].player].used

KingAlive == king # Nobody /\ ~orphan => player[king].used

\* The sync loop leaves nothing that differs.
Fresh(cr) ==
  /\ cr.x = cr.net_x /\ cr.state = cr.net_state /\ cr.dirty = {}
  /\ cr.state = WALK => cr.speed = cr.net_speed
AtCrown == phase = "crown" => \A s \in UsedSlots : Fresh(creature[s])

Following(c) ==
  /\ Mirrors(view[c], creature, player, tile)
  /\ orphan \/ view[c].king = king
  /\ view[c].refused \subseteq {"king"}

\* A client in the middle of its initial update hears nothing but that.
Greeted(copy) ==
  /\ copy.world /\ copy.tile = tile
  /\ copy.refused \subseteq {"king"}
  /\ \A s \in Slots : ~copy.creature[s].used
  /\ phase = "greet players" => \A p \in Players : ~copy.player[p].used
  /\ phase # "greet players" => ExactPlayers(copy, player)
  /\ phase = "greet creatures" => orphan \/ copy.king = king

Greeting ==
  /\ guest # Nobody <=> phase \in {"greet players", "greet king", "greet creatures"}
  /\ guest # Nobody => guest \in guiclients /\ (guest \in lossy \/ Greeted(view[guest]))

ServerInd == Positioned /\ Owned /\ KingAlive /\ AtCrown
Ind == TypeOK /\ ServerInd /\ (\A c \in Settled : Following(c)) /\ Greeting

-----------------------------------------------------------------------------
(* Broadcasts: who is still Settled has heard them *)

\* Whoever still has a whole stream after a packet has it, and heard the packet.
LEMMA SpoiltOnly ==
  ASSUME TypeOK, NEW C, C \subseteq Clients, Spoils(C)
  PROVE  /\ lossy' \in SUBSET Clients /\ lossy \subseteq lossy'
         /\ \A c \in C : c \notin lossy' => Hears(c, C)
<1>1. PICK hit \in SUBSET Clients : lossy' = lossy \cup (C \cap (slow \cup FileClients)) \cup hit
  BY DEF Spoils, Strays
<1>2. lossy \in SUBSET Clients
  BY DEF TypeOK
<1> QED BY <1>1, <1>2 DEF Hears

LEMMA SettledHears ==
  ASSUME Ind, UNCHANGED <<guest, guiclients, slow>>, Spoils(guiclients)
  PROVE  /\ lossy' \in SUBSET Clients
         /\ \A c \in Settled' : c \in Settled /\ c \in Clients /\ Hears(c, guiclients)
<1>1. TypeOK /\ guiclients \subseteq Clients
  BY DEF Ind, TypeOK
<1>2. /\ lossy' \in SUBSET Clients /\ lossy \subseteq lossy'
      /\ \A c \in guiclients : c \notin lossy' => Hears(c, guiclients)
  BY <1>1, SpoiltOnly
<1> QED BY <1>1, <1>2 DEF Settled

LEMMA CreaturesTold ==
  ASSUME Ind, NEW vals,
         UNCHANGED <<player, tile, king, orphan, guest, guiclients, slow>>,
         view' = [c \in Clients |-> IF Hears(c, guiclients) THEN HearCreatures(view[c], vals) ELSE view[c]],
         Spoils(guiclients),
         \A copy \in Copy : LET new == HearCreatures(copy, vals) IN
           /\ new \in Copy /\ Alike(new, copy)
           /\ ExactCreatures(copy, creature) => /\ new.refused = copy.refused
                                                /\ ExactCreatures(new, creature')
  PROVE  /\ view' \in [Clients -> Copy] /\ lossy' \in SUBSET Clients
         /\ \A c \in Settled' : Following(c)'
<1>1. view \in [Clients -> Copy]
  BY DEF Ind, TypeOK
<1>2. view' \in [Clients -> Copy]
  BY <1>1
<1>3. ASSUME NEW c \in Settled' PROVE Following(c)'
  <2>1. c \in Settled /\ c \in Clients /\ Hears(c, guiclients)
    BY <1>3, SettledHears
  <2> DEFINE new == HearCreatures(view[c], vals)
  <2>2. view'[c] = new /\ view[c] \in Copy
    BY <1>1, <2>1
  <2>3. /\ Mirrors(view[c], creature, player, tile)
        /\ orphan \/ view[c].king = king
        /\ view[c].refused \subseteq {"king"}
    BY <2>1 DEF Ind, Following
  <2>4. /\ Alike(new, view[c]) /\ new.refused = view[c].refused
        /\ ExactCreatures(new, creature')
    BY <2>2, <2>3 DEF Mirrors
  <2> HIDE DEF new
  <2>5. Mirrors(new, creature', player, tile)
    BY <2>3, <2>4 DEF Mirrors, Alike, ExactPlayers
  <2> QED BY <2>2, <2>3, <2>4, <2>5 DEF Following, Alike
<1> QED BY <1>2, <1>3, SettledHears

LEMMA PlayersTold ==
  ASSUME Ind, NEW vals,
         UNCHANGED <<creature, tile, king, guest, guiclients, slow>>, orphan => orphan',
         view' = [c \in Clients |-> IF Hears(c, guiclients) THEN HearPlayers(view[c], vals) ELSE view[c]],
         Spoils(guiclients),
         \A copy \in Copy : LET new == HearPlayers(copy, vals) IN
           /\ new \in Copy
           /\ new.world = copy.world /\ new.tile = copy.tile
           /\ new.creature = copy.creature /\ new.king = copy.king
           /\ ExactPlayers(copy, player) => /\ new.refused = copy.refused
                                            /\ ExactPlayers(new, player')
  PROVE  /\ view' \in [Clients -> Copy] /\ lossy' \in SUBSET Clients
         /\ \A c \in Settled' : Following(c)'
<1>1. view \in [Clients -> Copy]
  BY DEF Ind, TypeOK
<1>2. view' \in [Clients -> Copy]
  BY <1>1
<1>3. ASSUME NEW c \in Settled' PROVE Following(c)'
  <2>1. c \in Settled /\ c \in Clients /\ Hears(c, guiclients)
    BY <1>3, SettledHears
  <2> DEFINE new == HearPlayers(view[c], vals)
  <2>2. view'[c] = new /\ view[c] \in Copy
    BY <1>1, <2>1
  <2>3. /\ Mirrors(view[c], creature, player, tile)
        /\ orphan \/ view[c].king = king
        /\ view[c].refused \subseteq {"king"}
    BY <2>1 DEF Ind, Following
  <2>4. /\ new.world = view[c].world /\ new.tile = view[c].tile
        /\ new.creature = view[c].creature /\ new.king = view[c].king
        /\ new.refused = view[c].refused /\ ExactPlayers(new, player')
    BY <2>2, <2>3 DEF Mirrors
  <2> HIDE DEF new
  <2>5. Mirrors(new, creature, player', tile)
    BY <2>3, <2>4 DEF Mirrors, ExactCreatures
  <2> QED BY <2>2, <2>3, <2>4, <2>5 DEF Following
<1> QED BY <1>2, <1>3, SettledHears

-----------------------------------------------------------------------------
(* The actions *)

LEMMA BabyIs ==
  ASSUME TypeOK, NEW p \in Players, NEW x \in Positions, NEW t \in Types, next_free_vm_id <= MaxVmId
  PROVE  LET b == Baby(p, x, t) IN b \in Creature /\ b.player = p /\ b.net_x = b.last_x
<1> DEFINE x0 == CHOOSE y \in Positions : TRUE
<1>1. x0 \in Positions
  BY ReplicaAssumption
<1>2. next_free_vm_id \in 0 .. MaxVmId
  BY ReplicaAssumption DEF TypeOK
<1>3. 0 \in States /\ 0 \in Speeds /\ 0 \in Types /\ BirthSpeed \in Speeds
  BY CopyAssumption, ReplicaAssumption
<1> HIDE DEF x0
<1>4. /\ ZeroCreature \in Creature
      /\ ZeroCreature.net_x = ZeroCreature.last_x
  BY <1>1, <1>3, ReplicaAssumption DEF ZeroCreature, Creature, x0
<1> QED BY <1>2, <1>3, <1>4 DEF Baby, Creature

\* A birth: everybody who hears it had the slot unused.
LEMMA SpawnStep ==
  ASSUME Ind, NEW s \in Slots, NEW p \in Players, NEW x \in Positions, NEW t \in Types, Spawn(s, p, x, t)
  PROVE  Ind'
<1> DEFINE b == Baby(p, x, t)
           vals == [r \in {s} |-> Values(Refreshed(b), Fields)]
<1>0. TypeOK /\ ServerInd /\ Greeting
  BY DEF Ind
<1>1. /\ Playing /\ Change /\ player[p].used /\ ~Used(s) /\ next_free_vm_id <= MaxVmId
      /\ next_free_vm_id' = next_free_vm_id + 1
      /\ creature' = [creature EXCEPT ![s] = Synced(b, Fields)]
      /\ view' = [c \in Clients |-> IF Hears(c, guiclients) THEN HearCreatures(view[c], vals) ELSE view[c]]
      /\ Spoils(guiclients)
      /\ UNCHANGED <<player, tile, king, game_paused, orphan, phase, guest, leaving, guiclients, slow>>
  BY DEF Spawn, Send, FirstUnused
<1>2. b \in Creature /\ b.player = p /\ b.net_x = b.last_x /\ p # Nobody
  BY <1>0, <1>1, BabyIs, CopyAssumption
<1> HIDE DEF b
<1>3. Sound(Synced(b, Fields)) /\ Synced(b, Fields).player = p
  BY <1>2, SyncedIs DEF Fields
<1>4. creature \in [Slots -> Creature] /\ creature' \in [Slots -> Creature]
  BY <1>0, <1>1, <1>3 DEF TypeOK, Sound
<1>5. creature[s].player = Nobody
  BY <1>1 DEF Used
<1>6. ASSUME NEW copy \in Copy
      PROVE  LET new == HearCreatures(copy, vals) IN
             /\ new \in Copy /\ Alike(new, copy)
             /\ ExactCreatures(copy, creature) => /\ new.refused = copy.refused
                                                  /\ ExactCreatures(new, creature')
  <2> DEFINE new == HearCreatures(copy, vals)
  <2>1. /\ new \in Copy /\ Alike(new, copy)
        /\ ExactCreatures(copy, creature) =>
             /\ new.refused = copy.refused
             /\ ExactCreatures(new, [creature EXCEPT ![s] = Synced(b, Fields)])
    BY <1>2, <1>4, <1>5, BirthShown
  <2> QED BY <1>1, <2>1
<1> HIDE DEF vals
<1>7. /\ view' \in [Clients -> Copy] /\ lossy' \in SUBSET Clients
      /\ \A c \in Settled' : Following(c)'
  BY <1>1, <1>6, CreaturesTold
<1>8. TypeOK'
  BY <1>0, <1>1, <1>4, <1>7, ReplicaAssumption DEF TypeOK, Change
<1>9. ServerInd'
  <2>1. Positioned'
    BY <1>0, <1>1, <1>3, <1>4 DEF ServerInd, Positioned, Sound
  <2>2. Owned'
    BY <1>0, <1>1, <1>3, <1>4 DEF ServerInd, Owned, Used
  <2> QED BY <1>0, <1>1, <2>1, <2>2 DEF ServerInd, KingAlive, AtCrown, Playing
<1>10. Greeting'
  BY <1>0, <1>1 DEF Greeting, Playing
<1> QED BY <1>7, <1>8, <1>9, <1>10 DEF Ind

GreetPhases == {"greet players", "greet king", "greet creatures"}

\* A death, wherever it happens: everybody who hears it had the slot used.
LEMMA KillStep ==
  ASSUME Ind, NEW s \in Slots, Kill(s), UNCHANGED phase, phase \notin GreetPhases \cup {"crown"},
         leaving' \in Players \cup {Nobody}, changes' \in 0 .. MaxChanges
  PROVE  Ind'
<1> DEFINE vals == Obituaries(s)
<1>0. TypeOK /\ ServerInd /\ Greeting
  BY DEF Ind
<1>1. /\ creature[s].player # Nobody
      /\ creature' = [creature EXCEPT ![s].player = Nobody]
      /\ view' = [c \in Clients |-> IF Hears(c, guiclients) THEN HearCreatures(view[c], vals) ELSE view[c]]
      /\ Spoils(guiclients)
      /\ UNCHANGED <<player, tile, king, next_free_vm_id, game_paused, orphan, guest, guiclients, slow>>
  BY DEF Kill, Send, Used
<1>2. creature \in [Slots -> Creature]
  BY <1>0 DEF TypeOK
<1>3. creature' \in [Slots -> Creature]
  BY <1>1, <1>2 DEF Creature
<1>4. ASSUME NEW copy \in Copy
      PROVE  LET new == HearCreatures(copy, vals) IN
             /\ new \in Copy /\ Alike(new, copy)
             /\ ExactCreatures(copy, creature) => /\ new.refused = copy.refused
                                                  /\ ExactCreatures(new, creature')
  BY <1>1, <1>2, DeathShown
<1> HIDE DEF vals
<1>5. /\ view' \in [Clients -> Copy] /\ lossy' \in SUBSET Clients
      /\ \A c \in Settled' : Following(c)'
  BY <1>1, <1>4, CreaturesTold
<1>6. TypeOK'
  BY <1>0, <1>1, <1>3, <1>5 DEF TypeOK
<1>7. ServerInd'
  <2>1. Positioned'
    BY <1>0, <1>1, <1>2 DEF ServerInd, Positioned, Creature
  <2>2. Owned'
    BY <1>0, <1>1, <1>2 DEF ServerInd, Owned, Used, Creature
  <2> QED BY <1>0, <1>1, <2>1, <2>2 DEF ServerInd, KingAlive, AtCrown
<1>8. Greeting'
  BY <1>0, <1>1 DEF Greeting, GreetPhases
<1> QED BY <1>5, <1>6, <1>7, <1>8 DEF Ind

LEMMA DieStep ==
  ASSUME Ind, NEW s \in Slots, Die(s)
  PROVE  Ind'
  BY KillStep, ReplicaAssumption DEF Die, Change, GreetPhases, Ind, TypeOK

LEMMA KillCreatureOfStep ==
  ASSUME Ind, NEW s \in Slots, KillCreatureOf(s)
  PROVE  Ind'
  BY KillStep DEF KillCreatureOf, GreetPhases, Ind, TypeOK

LEMMA ShutdownKillStep ==
  ASSUME Ind, NEW s \in Slots, ShutdownKill(s)
  PROVE  Ind'
  BY KillStep DEF ShutdownKill, GreetPhases, Ind, TypeOK

\* What a creature does before the sync loop is not seen by the network.
LEMMA UnseenStep ==
  ASSUME Ind, NEW s \in Slots, NEW cr \in Creature,
         creature' = [creature EXCEPT ![s] = cr],
         cr.player = creature[s].player, cr.vm_id = creature[s].vm_id,
         cr.net_x = creature[s].net_x, cr.last_x = creature[s].last_x,
         cr.net_state = creature[s].net_state, cr.net_speed = creature[s].net_speed,
         "type" \in cr.dirty \/ (cr.dirty = creature[s].dirty /\ cr.type = creature[s].type),
         UNCHANGED <<player, tile, king, next_free_vm_id, game_paused, orphan, phase, guest, leaving,
                     guiclients, slow, view, lossy>>,
         Playing, Change
  PROVE  Ind'
<1>0. TypeOK /\ ServerInd /\ Greeting /\ \A c \in Settled : Following(c)
  BY DEF Ind
<1>1. creature \in [Slots -> Creature] /\ creature' \in [Slots -> Creature]
  BY <1>0 DEF TypeOK
<1>2. TypeOK'
  BY <1>0, <1>1, ReplicaAssumption DEF TypeOK, Change
<1>3. Positioned'
  BY <1>0, <1>1 DEF ServerInd, Positioned
<1>4. Owned'
  BY <1>0, <1>1 DEF ServerInd, Owned, Used
<1>5. ServerInd'
  BY <1>0, <1>3, <1>4 DEF ServerInd, KingAlive, AtCrown, Playing
<1>6. ASSUME NEW c \in Settled' PROVE Following(c)'
  <2>1. c \in Settled /\ Following(c)
    BY <1>0, <1>6 DEF Settled
  <2>2. ASSUME NEW r \in Slots, Shows(view[c].creature[r], creature[r])
        PROVE  Shows(view[c].creature[r], creature'[r])
    BY <1>1, <2>2 DEF Shows
  <2>3. ExactCreatures(view[c], creature')
    BY <2>1, <2>2 DEF Following, Mirrors, ExactCreatures
  <2> QED BY <2>1, <2>3 DEF Following, Mirrors
<1>7. Greeting'
  BY <1>0 DEF Greeting, Playing
<1> QED BY <1>2, <1>5, <1>6, <1>7 DEF Ind

LEMMA ActedIs ==
  ASSUME NEW old \in Creature, NEW x \in Positions, NEW t \in Types, NEW st \in States, NEW v \in Speeds
  PROVE  LET cr == Acted(old, x, t, st, v) IN
         /\ cr \in Creature
         /\ cr.player = old.player /\ cr.vm_id = old.vm_id
         /\ cr.net_x = old.net_x /\ cr.last_x = old.last_x
         /\ cr.net_state = old.net_state /\ cr.net_speed = old.net_speed
         /\ "type" \in cr.dirty \/ (cr.dirty = old.dirty /\ cr.type = old.type)
  BY DEF Acted, Creature

LEMMA ActStep ==
  ASSUME Ind, NEW s \in Slots, NEW x \in Positions, NEW t \in Types, NEW st \in States, NEW v \in Speeds,
         Act(s, x, t, st, v)
  PROVE  Ind'
<1>1. creature[s] \in Creature
  BY DEF Ind, TypeOK
<1>2. /\ creature' = [creature EXCEPT ![s] = Acted(creature[s], x, t, st, v)]
      /\ UNCHANGED <<player, tile, king, next_free_vm_id, game_paused, orphan, phase, guest, leaving,
                     guiclients, slow, view, lossy>>
      /\ Playing /\ Change
  BY DEF Act, SilentClients, Playing
<1> DEFINE cr == Acted(creature[s], x, t, st, v)
<1>3. /\ cr \in Creature
      /\ cr.player = creature[s].player /\ cr.vm_id = creature[s].vm_id
      /\ cr.net_x = creature[s].net_x /\ cr.last_x = creature[s].last_x
      /\ cr.net_state = creature[s].net_state /\ cr.net_speed = creature[s].net_speed
      /\ "type" \in cr.dirty \/ (cr.dirty = creature[s].dirty /\ cr.type = creature[s].type)
  BY <1>1, ActedIs
<1>4. creature' = [creature EXCEPT ![s] = cr]
  BY <1>2
<1> HIDE DEF cr
<1> QED BY <1>2, <1>3, <1>4, UnseenStep

LEMMA SetStateStep ==
  ASSUME Ind, NEW s \in Slots, NEW st \in States, SetState(s, st)
  PROVE  Ind'
<1> DEFINE cr == [creature[s] EXCEPT !.state = st]
<1>1. creature[s] \in Creature
  BY DEF Ind, TypeOK
<1>2. cr \in Creature
  BY <1>1 DEF Creature
<1>3. creature' = [creature EXCEPT ![s] = cr]
  BY DEF SetState, Ind, TypeOK
<1>4. /\ cr.player = creature[s].player /\ cr.vm_id = creature[s].vm_id
      /\ cr.net_x = creature[s].net_x /\ cr.last_x = creature[s].last_x
      /\ cr.net_state = creature[s].net_state /\ cr.net_speed = creature[s].net_speed
      /\ "type" \in cr.dirty \/ (cr.dirty = creature[s].dirty /\ cr.type = creature[s].type)
  BY <1>1 DEF Creature
<1> HIDE DEF cr
<1>5. /\ UNCHANGED <<player, tile, king, next_free_vm_id, game_paused, orphan, phase, guest, leaving,
                     guiclients, slow, view, lossy>>
      /\ Playing /\ Change
  BY DEF SetState, SilentClients, Playing
<1> QED BY <1>2, <1>3, <1>4, <1>5, UnseenStep

LEMMA SetTypeStep ==
  ASSUME Ind, NEW s \in Slots, NEW t \in Types, SetType(s, t)
  PROVE  Ind'
<1>1. creature[s] \in Creature
  BY DEF Ind, TypeOK
<1>2. /\ creature[s].x \in Positions /\ creature[s].state \in States /\ creature[s].speed \in Speeds
  BY <1>1 DEF Creature
<1>3. /\ creature' = [creature EXCEPT ![s] =
                        Acted(creature[s], creature[s].x, t, creature[s].state, creature[s].speed)]
      /\ UNCHANGED <<player, tile, king, next_free_vm_id, game_paused, orphan, phase, guest, leaving,
                     guiclients, slow, view, lossy>>
      /\ Playing /\ Change
  BY DEF SetType, Retyped, SilentClients, Playing
<1> DEFINE cr == Acted(creature[s], creature[s].x, t, creature[s].state, creature[s].speed)
<1>4. /\ cr \in Creature
      /\ cr.player = creature[s].player /\ cr.vm_id = creature[s].vm_id
      /\ cr.net_x = creature[s].net_x /\ cr.last_x = creature[s].last_x
      /\ cr.net_state = creature[s].net_state /\ cr.net_speed = creature[s].net_speed
      /\ "type" \in cr.dirty \/ (cr.dirty = creature[s].dirty /\ cr.type = creature[s].type)
  BY <1>1, <1>2, ActedIs
<1>5. creature' = [creature EXCEPT ![s] = cr]
  BY <1>3
<1> HIDE DEF cr
<1> QED BY <1>3, <1>4, <1>5, UnseenStep

\* Steps that move only the control of the loop, or what no client is told of.
LEMMA QuietStep ==
  ASSUME Ind,
         UNCHANGED <<creature, player, tile, king, next_free_vm_id, orphan, guest, guiclients, slow, view, lossy>>,
         game_paused' \in BOOLEAN, phase' \in Phases \ (GreetPhases \cup {"crown"}),
         phase \notin GreetPhases,
         leaving' \in Players \cup {Nobody}, changes' \in 0 .. MaxChanges
  PROVE  Ind'
<1>1. TypeOK'
  BY DEF Ind, TypeOK
<1>2. ServerInd'
  BY DEF Ind, ServerInd, Positioned, Owned, Used, KingAlive, AtCrown, GreetPhases
<1>3. \A c \in Settled' : Following(c)'
  BY DEF Ind, Settled, Following
<1>4. Greeting'
  BY DEF Ind, Greeting, GreetPhases
<1> QED BY <1>1, <1>2, <1>3, <1>4 DEF Ind

LEMMA ControlSteps ==
  ASSUME Ind,
         Pause \/ EndIO \/ EndRound \/ EndMoves \/ EndGame \/ \E p \in Players : DestroyPlayer(p)
  PROVE  Ind'
<1>0. changes \in 0 .. MaxChanges /\ leaving \in Players \cup {Nobody} /\ game_paused \in BOOLEAN
  BY DEF Ind, TypeOK
<1>1. /\ UNCHANGED <<creature, player, tile, king, next_free_vm_id, orphan, guest, guiclients, slow, view, lossy>>
      /\ game_paused' \in BOOLEAN /\ phase' \in Phases \ (GreetPhases \cup {"crown"})
      /\ phase \notin GreetPhases
      /\ leaving' \in Players \cup {Nobody}
  BY <1>0 DEF Pause, EndIO, EndRound, EndMoves, EndGame, DestroyPlayer, SilentClients, Phases, GreetPhases,
              serverVars, clientVars
<1>2. changes' \in 0 .. MaxChanges
  BY <1>0, ReplicaAssumption DEF Pause, EndIO, EndRound, EndMoves, EndGame, DestroyPlayer, Change
<1> QED BY <1>1, <1>2, QuietStep

Known == [used : BOOLEAN, name : Names, dirty : BOOLEAN]

\* A packet about one player that no copy refuses.
LEMMA PlayerShown ==
  ASSUME NEW copy \in Copy, NEW pls \in [Players -> Known], NEW p \in Players, NEW rec \in Known, NEW val,
         \A q \in CopiedPlayer : /\ PlayerAfter(q, val) \in CopiedPlayer /\ ~RefusesPlayer(q, val)
                                 /\ ShowsPlayer(PlayerAfter(q, val), rec)
  PROVE  LET new == HearPlayers(copy, [q \in {p} |-> val]) IN
         /\ new \in Copy
         /\ new.world = copy.world /\ new.tile = copy.tile
         /\ new.creature = copy.creature /\ new.king = copy.king
         /\ new.refused = copy.refused
         /\ ExactPlayers(copy, pls) => ExactPlayers(new, [pls EXCEPT ![p] = rec])
<1> DEFINE vals == [q \in {p} |-> val]
           new == HearPlayers(copy, vals)
<1>1. DOMAIN vals = {p} /\ vals[p] = val /\ copy.player[p] \in CopiedPlayer
  BY DEF Copy
<1> HIDE DEF vals, new
<1>2. /\ DOMAIN vals \subseteq Players
      /\ \A r \in DOMAIN vals : PlayerAfter(copy.player[r], vals[r]) \in CopiedPlayer
      /\ \A r \in DOMAIN vals : ~RefusesPlayer(copy.player[r], vals[r])
  BY <1>1
<1>3. /\ new \in Copy
      /\ new.world = copy.world /\ new.tile = copy.tile
      /\ new.creature = copy.creature /\ new.king = copy.king
      /\ \A r \in Players : new.player[r] =
           IF r \in DOMAIN vals THEN PlayerAfter(copy.player[r], vals[r]) ELSE copy.player[r]
      /\ (\A r \in DOMAIN vals : ~RefusesPlayer(copy.player[r], vals[r])) => new.refused = copy.refused
  BY <1>2, HearPlayersIs DEF new
<1>4. ASSUME ExactPlayers(copy, pls), NEW r \in Players
      PROVE  ShowsPlayer(new.player[r], [pls EXCEPT ![p] = rec][r])
  <2>1. CASE r = p
    BY <1>1, <1>3, <2>1
  <2>2. CASE r # p
    BY <1>1, <1>3, <1>4, <2>2 DEF ExactPlayers
  <2> QED BY <2>1, <2>2
<1> QED BY <1>2, <1>3, <1>4 DEF new, vals, ExactPlayers

LEMMA CreatePlayerStep ==
  ASSUME Ind, NEW p \in Players, NEW n \in Names, CreatePlayer(p, n)
  PROVE  Ind'
<1> DEFINE rec == [used |-> TRUE, name |-> n, dirty |-> TRUE]
           vals == [q \in {p} |-> Arrival(n)]
<1>0. TypeOK /\ ServerInd /\ Greeting
  BY DEF Ind
<1>1. /\ phase = "io" /\ Change /\ ~player[p].used
      /\ player' = [player EXCEPT ![p] = rec]
      /\ view' = [c \in Clients |-> IF Hears(c, guiclients) THEN HearPlayers(view[c], vals) ELSE view[c]]
      /\ Spoils(guiclients)
      /\ UNCHANGED <<creature, tile, king, next_free_vm_id, game_paused, orphan, phase, guest, leaving,
                     guiclients, slow>>
  BY DEF CreatePlayer, Send, Arrival
<1>2. rec \in Known /\ player \in [Players -> Known]
  BY <1>0 DEF TypeOK, Known
<1>3. ASSUME NEW q \in CopiedPlayer
      PROVE  /\ PlayerAfter(q, Arrival(n)) \in CopiedPlayer /\ ~RefusesPlayer(q, Arrival(n))
             /\ ShowsPlayer(PlayerAfter(q, Arrival(n)), rec)
  <2> DEFINE after == PlayerAfter(q, Arrival(n))
  <2>1. /\ after \in CopiedPlayer /\ ~RefusesPlayer(q, Arrival(n))
        /\ after = [used |-> TRUE, name |-> n]
    BY PlayersHeard
  <2> HIDE DEF after
  <2>2. after.used = TRUE /\ after.name = n
    BY <2>1
  <2>3. rec.used = TRUE /\ rec.name = n
    OBVIOUS
  <2> QED BY <2>1, <2>2, <2>3 DEF ShowsPlayer, after
<1> HIDE DEF rec
<1>4. ASSUME NEW copy \in Copy
      PROVE  LET new == HearPlayers(copy, vals) IN
             /\ new \in Copy
             /\ new.world = copy.world /\ new.tile = copy.tile
             /\ new.creature = copy.creature /\ new.king = copy.king
             /\ ExactPlayers(copy, player) => /\ new.refused = copy.refused
                                              /\ ExactPlayers(new, player')
  <2> DEFINE new == HearPlayers(copy, vals)
  <2>1. /\ new \in Copy
        /\ new.world = copy.world /\ new.tile = copy.tile
        /\ new.creature = copy.creature /\ new.king = copy.king
        /\ new.refused = copy.refused
        /\ ExactPlayers(copy, player) => ExactPlayers(new, [player EXCEPT ![p] = rec])
    <3> DEFINE val == Arrival(n)
    <3> HIDE DEF val
    <3>1. \A q \in CopiedPlayer : /\ PlayerAfter(q, val) \in CopiedPlayer /\ ~RefusesPlayer(q, val)
                                  /\ ShowsPlayer(PlayerAfter(q, val), rec)
      BY <1>3 DEF val
    <3>2. vals = [q \in {p} |-> val]
      BY DEF val
    <3> HIDE DEF vals
    <3>3. LET said == HearPlayers(copy, [q \in {p} |-> val]) IN
            /\ said \in Copy
            /\ said.world = copy.world /\ said.tile = copy.tile
            /\ said.creature = copy.creature /\ said.king = copy.king
            /\ said.refused = copy.refused
            /\ ExactPlayers(copy, player) => ExactPlayers(said, [player EXCEPT ![p] = rec])
      BY <1>2, <3>1, PlayerShown
    <3> QED BY <3>2, <3>3
  <2> HIDE DEF new
  <2> QED BY <1>1, <2>1 DEF new
<1> HIDE DEF vals
<1>5. /\ view' \in [Clients -> Copy] /\ lossy' \in SUBSET Clients
      /\ \A c \in Settled' : Following(c)'
  BY <1>1, <1>4, PlayersTold
<1>6. player' \in [Players -> Known] /\ \A q \in Players : player[q].used => player'[q].used
  BY <1>1, <1>2
<1>7. TypeOK'
  BY <1>0, <1>1, <1>5, <1>6, ReplicaAssumption DEF TypeOK, Change, Known
<1>8. ServerInd'
  <2>1. Owned'
    BY <1>0, <1>1, <1>6 DEF ServerInd, Owned, Used, TypeOK, Creature
  <2>2. KingAlive'
    BY <1>0, <1>1, <1>6 DEF ServerInd, KingAlive, TypeOK
  <2> QED BY <1>0, <1>1, <2>1, <2>2 DEF ServerInd, Positioned, AtCrown
<1>9. Greeting'
  BY <1>0, <1>1 DEF Greeting
<1> QED BY <1>5, <1>7, <1>8, <1>9 DEF Ind

LEMMA SetNameStep ==
  ASSUME Ind, NEW p \in Players, NEW n \in Names, SetName(p, n)
  PROVE  Ind'
<1>0. TypeOK /\ ServerInd /\ Greeting /\ \A c \in Settled : Following(c)
  BY DEF Ind
<1>1. /\ Playing /\ Change
      /\ player' = [player EXCEPT ![p].name = n, ![p].dirty = TRUE]
      /\ UNCHANGED <<creature, tile, king, next_free_vm_id, game_paused, orphan, phase, guest, leaving,
                     guiclients, slow, view, lossy>>
  BY DEF SetName, SilentClients
<1>2. player \in [Players -> Known]
  BY <1>0 DEF TypeOK, Known
<1>3. player' \in [Players -> Known]
  BY <1>1, <1>2 DEF Known
<1>4. \A q \in Players : player'[q].used = player[q].used /\ (player'[q].dirty \/ player'[q] = player[q])
  BY <1>1, <1>2 DEF Known
<1>5. TypeOK'
  BY <1>0, <1>1, <1>3, ReplicaAssumption DEF TypeOK, Change, Known
<1>6. ServerInd'
  <2>1. Owned'
    BY <1>0, <1>1, <1>4 DEF ServerInd, Owned, Used, TypeOK, Creature
  <2>2. KingAlive'
    BY <1>0, <1>1, <1>4 DEF ServerInd, KingAlive, TypeOK
  <2> QED BY <1>0, <1>1, <2>1, <2>2 DEF ServerInd, Positioned, AtCrown, Playing
<1>7. ASSUME NEW c \in Settled' PROVE Following(c)'
  <2>1. Following(c)
    BY <1>0, <1>1, <1>7 DEF Settled
  <2>2. ASSUME NEW q \in Players, ShowsPlayer(view[c].player[q], player[q])
        PROVE  ShowsPlayer(view[c].player[q], player'[q])
    BY <1>4, <2>2 DEF ShowsPlayer
  <2>3. ExactPlayers(view[c], player')
    BY <2>1, <2>2 DEF Following, Mirrors, ExactPlayers
  <2> QED BY <1>1, <2>1, <2>3 DEF Following, Mirrors
<1>8. Greeting'
  BY <1>0, <1>1 DEF Greeting, Playing
<1> QED BY <1>5, <1>6, <1>7, <1>8 DEF Ind

LEMMA PlayerLeftStep ==
  ASSUME Ind, NEW p \in Players, PlayerLeft(p)
  PROVE  Ind'
<1> DEFINE rec == [player[p] EXCEPT !.used = FALSE]
           vals == [q \in {p} |-> Departure]
<1>0. TypeOK /\ ServerInd /\ Greeting
  BY DEF Ind
<1>1. /\ phase = "kill" /\ CreaturesOf(p) = {} /\ phase' = "round" /\ leaving' = Nobody
      /\ orphan' = (orphan \/ king = p)
      /\ view' = [c \in Clients |-> IF Hears(c, guiclients) THEN HearPlayers(view[c], vals) ELSE view[c]]
      /\ Spoils(guiclients)
      /\ UNCHANGED <<creature, tile, king, next_free_vm_id, game_paused, guest, guiclients, slow, changes>>
  BY DEF PlayerLeft, Send, Departure
<1>2. player \in [Players -> Known] /\ player[p] \in Known
  BY <1>0 DEF TypeOK, Known
<1>3. rec \in Known /\ rec.used = FALSE
  BY <1>2 DEF Known
<1>4. player' = [player EXCEPT ![p] = rec]
  BY <1>2 DEF PlayerLeft, Known
<1>5. ASSUME NEW q \in CopiedPlayer
      PROVE  /\ PlayerAfter(q, Departure) \in CopiedPlayer /\ ~RefusesPlayer(q, Departure)
             /\ ShowsPlayer(PlayerAfter(q, Departure), rec)
  <2> DEFINE after == PlayerAfter(q, Departure)
  <2>1. /\ after \in CopiedPlayer /\ ~RefusesPlayer(q, Departure)
        /\ after = [used |-> FALSE, name |-> q.name]
    BY PlayersHeard, CopyAssumption
  <2> HIDE DEF after, rec
  <2>2. after.used = FALSE
    BY <2>1
  <2> QED BY <1>3, <2>1, <2>2 DEF ShowsPlayer, after
<1> HIDE DEF rec
<1>6. ASSUME NEW copy \in Copy
      PROVE  LET new == HearPlayers(copy, vals) IN
             /\ new \in Copy
             /\ new.world = copy.world /\ new.tile = copy.tile
             /\ new.creature = copy.creature /\ new.king = copy.king
             /\ ExactPlayers(copy, player) => /\ new.refused = copy.refused
                                              /\ ExactPlayers(new, player')
  <2> DEFINE val == Departure
  <2> HIDE DEF val
  <2>1. \A q \in CopiedPlayer : /\ PlayerAfter(q, val) \in CopiedPlayer /\ ~RefusesPlayer(q, val)
                                /\ ShowsPlayer(PlayerAfter(q, val), rec)
    BY <1>5 DEF val
  <2>2. LET said == HearPlayers(copy, [q \in {p} |-> val]) IN
          /\ said \in Copy
          /\ said.world = copy.world /\ said.tile = copy.tile
          /\ said.creature = copy.creature /\ said.king = copy.king
          /\ said.refused = copy.refused
          /\ ExactPlayers(copy, player) => ExactPlayers(said, [player EXCEPT ![p] = rec])
    BY <1>2, <1>3, <2>1, PlayerShown
  <2>3. vals = [q \in {p} |-> val]
    BY DEF val
  <2> HIDE DEF vals
  <2> QED BY <1>4, <2>2, <2>3
<1> HIDE DEF vals
<1>7. /\ view' \in [Clients -> Copy] /\ lossy' \in SUBSET Clients
      /\ \A c \in Settled' : Following(c)'
  BY <1>1, <1>6, PlayersTold
<1>8. player' \in [Players -> Known] /\ \A q \in Players \ {p} : player'[q] = player[q]
  BY <1>2, <1>3, <1>4
<1>9. TypeOK'
  BY <1>0, <1>1, <1>7, <1>8 DEF TypeOK, Known, Phases
<1>10. ServerInd'
  <2>1. ASSUME NEW s \in Slots, Used(s) PROVE player'[creature[s].player].used
    <3>1. creature[s].player \in Players \ {p} /\ player[creature[s].player].used
      BY <1>0, <1>1, <2>1 DEF ServerInd, Owned, Used, TypeOK, Creature, CreaturesOf
    <3> QED BY <1>8, <3>1
  <2>2. Owned'
    BY <1>1, <2>1 DEF Owned, Used
  <2>3. KingAlive'
    BY <1>0, <1>1, <1>8 DEF ServerInd, KingAlive, TypeOK
  <2> QED BY <1>0, <1>1, <2>2, <2>3 DEF ServerInd, Positioned, AtCrown
<1>11. Greeting'
  BY <1>0, <1>1 DEF Greeting
<1> QED BY <1>7, <1>9, <1>10, <1>11 DEF Ind

-----------------------------------------------------------------------------
(* Clients *)

LEMMA EmptyCopyIs ==
  LET new == [HearWorld(EmptyCopy) EXCEPT !.tile = tile] IN
  tile \in [Tiles -> Looks] =>
    /\ EmptyCopy \in Copy /\ new \in Copy /\ new.world /\ new.tile = tile /\ new.refused = {}
    /\ \A s \in Slots : ~new.creature[s].used
    /\ \A p \in Players : ~new.player[p].used
<1>1. EmptyCopy \in Copy
  BY CopyAssumption DEF EmptyCopy, Copy, CopiedCreature, CopiedPlayer, UnusedCreature, UnusedPlayer
<1>2. /\ \A s \in Slots : ~EmptyCopy.creature[s].used
      /\ \A p \in Players : ~EmptyCopy.player[p].used
      /\ EmptyCopy.refused = {}
  BY DEF EmptyCopy, UnusedCreature, UnusedPlayer
<1> DEFINE mid == HearWorld(EmptyCopy)
<1>3. /\ mid \in Copy /\ mid.world
      /\ mid.creature = EmptyCopy.creature /\ mid.player = EmptyCopy.player
      /\ mid.refused = EmptyCopy.refused
  BY <1>1, HearWorldIs
<1> HIDE DEF mid
<1> QED BY <1>1, <1>2, <1>3 DEF Copy, mid

LEMMA JoinStep ==
  ASSUME Ind, NEW c \in Clients, Join(c)
  PROVE  Ind'
<1> DEFINE new == [HearWorld(EmptyCopy) EXCEPT !.tile = tile]
<1>0. TypeOK /\ ServerInd /\ Greeting /\ \A d \in Settled : Following(d)
  BY DEF Ind
<1>1. /\ phase = "io" /\ Change /\ phase' = "greet players" /\ guest' = c
      /\ guiclients' = guiclients \cup {c}
      /\ view' = [view EXCEPT ![c] = IF Hears(c, {c}) THEN new ELSE EmptyCopy]
      /\ Spoils({c})
      /\ UNCHANGED <<creature, player, tile, king, next_free_vm_id, game_paused, orphan, leaving, slow>>
  BY DEF Join, serverVars
<1>2. /\ EmptyCopy \in Copy /\ new \in Copy /\ new.world /\ new.tile = tile /\ new.refused = {}
      /\ \A s \in Slots : ~new.creature[s].used
      /\ \A p \in Players : ~new.player[p].used
  BY <1>0, EmptyCopyIs DEF TypeOK
<1> HIDE DEF new
<1>3. /\ view \in [Clients -> Copy] /\ view' \in [Clients -> Copy]
      /\ Hears(c, {c}) => view'[c] = new
  BY <1>0, <1>1, <1>2 DEF TypeOK
<1>4. /\ lossy' \in SUBSET Clients /\ lossy \subseteq lossy'
      /\ c \notin lossy' => Hears(c, {c})
  BY <1>0, <1>1, SpoiltOnly
<1>5. TypeOK'
  <2>1. changes' \in 0 .. MaxChanges /\ phase' \in Phases
    <3>1. changes \in 0 .. MaxChanges
      BY <1>0 DEF TypeOK
    <3>2. changes < MaxChanges /\ changes' = changes + 1
      BY <1>1 DEF Change
    <3>3. phase' \in Phases
      BY <1>1 DEF Phases
    <3> QED BY <3>1, <3>2, <3>3, ReplicaAssumption
  <2>2. /\ guiclients' \in SUBSET Clients /\ slow' \in SUBSET Clients /\ lossy' \in SUBSET Clients
        /\ guest' \in Clients \cup {Nobody}
    BY <1>0, <1>1, <1>4 DEF TypeOK
  <2> QED BY <1>0, <1>1, <1>3, <2>1, <2>2 DEF TypeOK
<1>6. ServerInd'
  BY <1>0, <1>1 DEF ServerInd, Positioned, Owned, Used, KingAlive, AtCrown
<1>7. ASSUME NEW d \in Settled' PROVE Following(d)'
  <2>1. d \in guiclients \ lossy /\ d # c /\ d \in Clients
    BY <1>0, <1>1, <1>7, <1>4 DEF Settled, TypeOK
  <2>2. guest = Nobody
    BY <1>0, <1>1 DEF Greeting
  <2>3. d \in Settled
    BY <2>1, <2>2, ReplicaAssumption DEF Settled
  <2>4. Following(d) /\ view'[d] = view[d]
    BY <1>0, <1>1, <1>3, <2>1, <2>3
  <2> QED BY <1>1, <2>4 DEF Following
<1>8. c \notin lossy' => Greeted(view[guest])'
  BY <1>1, <1>2, <1>3, <1>4 DEF Greeted
<1>9. guest' \in guiclients'
  BY <1>1
<1>10. Greeting'
  BY <1>1, <1>8, <1>9, ReplicaAssumption DEF Greeting
<1> QED BY <1>5, <1>6, <1>7, <1>10 DEF Ind

LEMMA LeaveStallDrainStep ==
  ASSUME Ind, NEW c \in Clients, Leave(c) \/ Stall(c) \/ Drain(c)
  PROVE  Ind'
<1>0. TypeOK /\ ServerInd /\ Greeting /\ \A d \in Settled : Following(d)
  BY DEF Ind
<1>1. /\ Playing /\ Change
      /\ guiclients' \in SUBSET guiclients /\ slow' \in SUBSET Clients
      /\ lossy' \in SUBSET Clients /\ guiclients' \ lossy' \subseteq guiclients \ lossy
      /\ UNCHANGED <<creature, player, tile, king, next_free_vm_id, game_paused, orphan,
                     phase, guest, leaving, view>>
  BY <1>0 DEF Leave, Stall, Drain, serverVars, Playing, TypeOK
<1>2. TypeOK'
  BY <1>0, <1>1, ReplicaAssumption DEF TypeOK, Change
<1>3. ServerInd'
  BY <1>0, <1>1 DEF ServerInd, Positioned, Owned, Used, KingAlive, AtCrown, Playing
<1>4. ASSUME NEW d \in Settled' PROVE Following(d)'
  BY <1>0, <1>1, <1>4 DEF Settled, Following
<1>5. Greeting'
  BY <1>0, <1>1 DEF Greeting, Playing
<1> QED BY <1>2, <1>3, <1>4, <1>5 DEF Ind

\* What only the greeted client hears.
LEMMA GuestHears ==
  ASSUME Ind, guest # Nobody, Spoils({guest})
  PROVE  /\ guest \in Clients /\ guest \in guiclients /\ view[guest] \in Copy
         /\ \A c \in Clients : Hears(c, {guest}) => c = guest
         /\ lossy' \in SUBSET Clients /\ lossy \subseteq lossy'
         /\ guest \notin lossy' => Hears(guest, {guest}) /\ Greeted(view[guest])
<1>1. TypeOK /\ guest \in Clients
  BY DEF Ind, TypeOK
<1>2. /\ lossy' \in SUBSET Clients /\ lossy \subseteq lossy'
      /\ guest \notin lossy' => Hears(guest, {guest})
  BY <1>1, SpoiltOnly
<1> QED BY <1>1, <1>2 DEF Ind, Greeting, TypeOK, Hears

LEMMA GreetPlayersStep ==
  ASSUME Ind, GreetPlayers
  PROVE  Ind'
<1> DEFINE known == {q \in Players : player[q].used}
           vals == [p \in known |-> Arrival(player[p].name)]
           copy == view[guest]
           new == HearPlayers(copy, vals)
<1>0. TypeOK /\ ServerInd /\ Greeting /\ \A d \in Settled : Following(d)
  BY DEF Ind
<1>1. /\ phase = "greet players" /\ phase' = "greet king"
      /\ view' = [c \in Clients |-> IF Hears(c, {guest}) THEN HearPlayers(view[c], vals) ELSE view[c]]
      /\ Spoils({guest})
      /\ UNCHANGED <<creature, player, tile, king, next_free_vm_id, game_paused, orphan,
                     guest, leaving, guiclients, slow, changes>>
  BY DEF GreetPlayers, Send, Arrival, serverVars
<1>2. /\ guest \in Clients /\ guest \in guiclients /\ copy \in Copy
      /\ \A c \in Clients : Hears(c, {guest}) => c = guest
      /\ lossy' \in SUBSET Clients /\ lossy \subseteq lossy'
      /\ guest \notin lossy' => Hears(guest, {guest}) /\ Greeted(copy)
  BY <1>0, <1>1, GuestHears DEF Greeting
<1>3. player \in [Players -> Known]
  BY <1>0 DEF TypeOK, Known
<1>4. ASSUME NEW p \in known
      PROVE  LET after == PlayerAfter(copy.player[p], vals[p]) IN
             /\ after \in CopiedPlayer /\ ~RefusesPlayer(copy.player[p], vals[p])
             /\ after.used = TRUE /\ after.name = player[p].name
  <2>1. copy.player[p] \in CopiedPlayer /\ player[p].name \in Names /\ vals[p] = Arrival(player[p].name)
    BY <1>2, <1>3 DEF Copy, Known
  <2> DEFINE after == PlayerAfter(copy.player[p], vals[p])
  <2>2. /\ after = [used |-> TRUE, name |-> player[p].name]
        /\ after \in CopiedPlayer /\ ~RefusesPlayer(copy.player[p], vals[p])
    BY <2>1, PlayersHeard
  <2> HIDE DEF after
  <2> QED BY <2>2 DEF after
<1>5. DOMAIN vals = known /\ known \subseteq Players
  OBVIOUS
<1> HIDE DEF vals, new, copy
<1>6. /\ new \in Copy
      /\ new.world = copy.world /\ new.tile = copy.tile
      /\ new.creature = copy.creature /\ new.king = copy.king
      /\ \A p \in Players : new.player[p] =
           IF p \in DOMAIN vals THEN PlayerAfter(copy.player[p], vals[p]) ELSE copy.player[p]
      /\ (\A p \in DOMAIN vals : ~RefusesPlayer(copy.player[p], vals[p])) => new.refused = copy.refused
  BY <1>2, <1>4, <1>5, HearPlayersIs DEF new
<1>7. new.refused = copy.refused
  BY <1>4, <1>5, <1>6
<1>8. ASSUME Greeted(copy), NEW p \in Players PROVE ShowsPlayer(new.player[p], player[p])
  <2>1. CASE p \in known
    BY <1>4, <1>5, <1>6, <2>1 DEF ShowsPlayer
  <2>2. CASE p \notin known
    <3>1. ~copy.player[p].used /\ copy.player[p] \in CopiedPlayer
      BY <1>1, <1>2, <1>8 DEF Greeted, Copy
    <3>2. new.player[p] = copy.player[p] /\ ~player[p].used /\ player[p] \in Known
      BY <1>3, <1>5, <1>6, <2>2
    <3> QED BY <3>1, <3>2 DEF ShowsPlayer, CopiedPlayer, Known
  <2> QED BY <2>1, <2>2
<1>9. /\ view \in [Clients -> Copy] /\ view' \in [Clients -> Copy]
      /\ Hears(guest, {guest}) => view'[guest] = new
  BY <1>0, <1>1, <1>2, <1>6 DEF TypeOK, new, copy
<1>10. TypeOK'
  BY <1>0, <1>1, <1>2, <1>9 DEF TypeOK, Phases
<1>11. ServerInd'
  BY <1>0, <1>1 DEF ServerInd, Positioned, Owned, Used, KingAlive, AtCrown
<1>12. ASSUME NEW d \in Settled' PROVE Following(d)'
  <2>1. d \in Settled /\ d # guest /\ d \in Clients
    BY <1>0, <1>1, <1>2, <1>12 DEF Settled, TypeOK
  <2>2. Following(d) /\ view'[d] = view[d]
    BY <1>0, <1>1, <1>2, <2>1
  <2> QED BY <1>1, <2>2 DEF Following
<1>13. Greeted(copy) => /\ new.world /\ new.tile = tile /\ new.refused \subseteq {"king"}
                        /\ ExactPlayers(new, player) /\ \A s \in Slots : ~new.creature[s].used
  BY <1>2, <1>6, <1>7, <1>8 DEF Greeted, ExactPlayers
<1>14. guest \notin lossy' => Greeted(view[guest])'
  BY <1>1, <1>2, <1>9, <1>13 DEF Greeted
<1>15. Greeting'
  BY <1>0, <1>1, <1>2, <1>14 DEF Greeting
<1> QED BY <1>10, <1>11, <1>12, <1>15 DEF Ind

LEMMA GreetKingStep ==
  ASSUME Ind, GreetKing
  PROVE  Ind'
<1> DEFINE copy == view[guest]
           new == HearKing(copy, king)
<1>0. TypeOK /\ ServerInd /\ Greeting /\ \A d \in Settled : Following(d)
  BY DEF Ind
<1>1. /\ phase = "greet king" /\ phase' = "greet creatures"
      /\ view' = [c \in Clients |-> IF Hears(c, {guest}) THEN HearKing(view[c], king) ELSE view[c]]
      /\ Spoils({guest})
      /\ UNCHANGED <<creature, player, tile, king, next_free_vm_id, game_paused, orphan,
                     guest, leaving, guiclients, slow, changes>>
  BY DEF GreetKing, Send, serverVars
<1>2. /\ guest \in Clients /\ guest \in guiclients /\ copy \in Copy
      /\ \A c \in Clients : Hears(c, {guest}) => c = guest
      /\ lossy' \in SUBSET Clients /\ lossy \subseteq lossy'
      /\ guest \notin lossy' => Hears(guest, {guest}) /\ Greeted(copy)
  BY <1>0, <1>1, GuestHears DEF Greeting
<1> HIDE DEF copy
<1>3. /\ new \in Copy
      /\ new.world = copy.world /\ new.tile = copy.tile
      /\ new.creature = copy.creature /\ new.player = copy.player
      /\ KnowsKing(copy, king) => new.king = king
      /\ new.refused \subseteq copy.refused \cup {"king"}
  BY <1>0, <1>2, HearKingIs DEF TypeOK
<1>4. Greeted(copy) => orphan \/ KnowsKing(copy, king)
  BY <1>0, <1>1, <1>2 DEF ServerInd, KingAlive, KnowsKing, Greeted, ExactPlayers, ShowsPlayer, TypeOK
<1>5. /\ view \in [Clients -> Copy] /\ view' \in [Clients -> Copy]
      /\ Hears(guest, {guest}) => view'[guest] = new
  BY <1>0, <1>1, <1>2, <1>3 DEF TypeOK, copy
<1> HIDE DEF new
<1>6. TypeOK'
  BY <1>0, <1>1, <1>2, <1>5 DEF TypeOK, Phases
<1>7. ServerInd'
  BY <1>0, <1>1 DEF ServerInd, Positioned, Owned, Used, KingAlive, AtCrown
<1>8. ASSUME NEW d \in Settled' PROVE Following(d)'
  <2>1. d \in Settled /\ d # guest /\ d \in Clients
    BY <1>0, <1>1, <1>2, <1>8 DEF Settled, TypeOK
  <2>2. Following(d) /\ view'[d] = view[d]
    BY <1>0, <1>1, <1>2, <2>1
  <2> QED BY <1>1, <2>2 DEF Following
<1>9. Greeted(copy) => /\ new.refused \subseteq {"king"} /\ (orphan \/ new.king = king)
                       /\ ExactPlayers(new, player) /\ \A s \in Slots : ~new.creature[s].used
  BY <1>1, <1>2, <1>3, <1>4 DEF Greeted, ExactPlayers
<1>10. guest \notin lossy' => Greeted(view[guest])'
  BY <1>1, <1>2, <1>3, <1>5, <1>9 DEF Greeted
<1>11. Greeting'
  BY <1>0, <1>1, <1>2, <1>10 DEF Greeting
<1> QED BY <1>6, <1>7, <1>8, <1>11 DEF Ind

\* The greeting of a creature shows what the network knows of it.
LEMMA GreetingShown ==
  ASSUME NEW cr \in Creature, cr.player # Nobody, cr.net_x = cr.last_x,
         NEW c \in CopiedCreature, ~c.used
  PROVE  LET val == Values(cr, Fields) IN
         /\ CreatureAfter(c, val) \in CopiedCreature /\ ~RefusesCreature(c, val)
         /\ Shows(CreatureAfter(c, val), cr)
<1> DEFINE val == Values(cr, Fields)
           after == CreatureAfter(c, val)
<1>1. /\ RefusesCreature(c, val) = c.used
      /\ after = [used |-> TRUE, player |-> cr.player, vm_id |-> cr.vm_id, x |-> cr.net_x,
                  type |-> cr.type, state |-> cr.net_state, speed |-> cr.net_speed]
      /\ after \in CopiedCreature
  BY BirthHeard
<1> HIDE DEF val, after
<1>2. /\ after.used = TRUE /\ after.player = cr.player /\ after.vm_id = cr.vm_id /\ after.x = cr.net_x
      /\ after.type = cr.type /\ after.state = cr.net_state /\ after.speed = cr.net_speed
  BY <1>1
<1>3. Shows(after, cr)
  BY <1>2 DEF Shows
<1> QED BY <1>1, <1>3 DEF val, after

LEMMA GreetCreaturesStep ==
  ASSUME Ind, GreetCreatures
  PROVE  Ind'
<1> DEFINE vals == [s \in UsedSlots |-> Values(creature[s], Fields)]
           copy == view[guest]
           new == HearCreatures(copy, vals)
<1>0. TypeOK /\ ServerInd /\ Greeting /\ \A d \in Settled : Following(d)
  BY DEF Ind
<1>1. /\ phase = "greet creatures" /\ phase' = "io" /\ guest' = Nobody
      /\ creature' = [s \in Slots |-> IF Used(s)
                        THEN [creature[s] EXCEPT !.last_x = LastX(creature[s], Fields)]
                        ELSE creature[s]]
      /\ view' = [c \in Clients |-> IF Hears(c, {guest}) THEN HearCreatures(view[c], vals) ELSE view[c]]
      /\ Spoils({guest})
      /\ UNCHANGED <<player, tile, king, next_free_vm_id, game_paused, orphan, leaving,
                     guiclients, slow, changes>>
  BY DEF GreetCreatures, Send
<1>2. /\ guest \in Clients /\ guest \in guiclients /\ copy \in Copy
      /\ \A c \in Clients : Hears(c, {guest}) => c = guest
      /\ lossy' \in SUBSET Clients /\ lossy \subseteq lossy'
      /\ guest \notin lossy' => Hears(guest, {guest}) /\ Greeted(copy)
  BY <1>0, <1>1, GuestHears DEF Greeting
<1>3. creature \in [Slots -> Creature] /\ \A s \in Slots : creature[s].net_x = creature[s].last_x
  BY <1>0 DEF TypeOK, ServerInd, Positioned
<1>4. ASSUME NEW s \in Slots
      PROVE  [creature[s] EXCEPT !.last_x = LastX(creature[s], Fields)] = creature[s]
  BY <1>3 DEF LastX, Fields, Creature
<1>5. \A s \in Slots : creature'[s] = creature[s]
  BY <1>1, <1>4
<1>6. creature' = creature
  BY <1>1, <1>3, <1>5
<1>7. DOMAIN vals = UsedSlots /\ UsedSlots \subseteq Slots
  BY DEF UsedSlots
<1>8. ASSUME NEW s \in UsedSlots
      PROVE  LET after == CreatureAfter(copy.creature[s], vals[s]) IN
             /\ after \in CopiedCreature
             /\ Greeted(copy) => /\ ~RefusesCreature(copy.creature[s], vals[s])
                                 /\ Shows(after, creature[s])
  <2>1. /\ creature[s] \in Creature /\ creature[s].player # Nobody /\ creature[s].net_x = creature[s].last_x
        /\ copy.creature[s] \in CopiedCreature
        /\ Greeted(copy) => ~copy.creature[s].used
    BY <1>2, <1>3 DEF UsedSlots, Used, Greeted, Copy
  <2>2. vals[s] = Values(creature[s], Fields)
    OBVIOUS
  <2> HIDE DEF vals
  <2>3. CreatureAfter(copy.creature[s], vals[s]) \in CopiedCreature
    BY <2>1, <2>2, BirthHeard
  <2> QED BY <2>1, <2>2, <2>3, GreetingShown
<1> HIDE DEF vals, new, copy
<1>9. /\ new \in Copy
      /\ new.world = copy.world /\ new.tile = copy.tile
      /\ new.player = copy.player /\ new.king = copy.king
      /\ \A s \in Slots : new.creature[s] =
           IF s \in DOMAIN vals THEN CreatureAfter(copy.creature[s], vals[s]) ELSE copy.creature[s]
      /\ (\A s \in DOMAIN vals : ~RefusesCreature(copy.creature[s], vals[s])) => new.refused = copy.refused
  BY <1>2, <1>7, <1>8, HearCreaturesIs DEF new
<1>10. Greeted(copy) => new.refused = copy.refused
  BY <1>7, <1>8, <1>9
<1>11. ASSUME Greeted(copy), NEW s \in Slots PROVE Shows(new.creature[s], creature[s])
  <2>1. CASE s \in UsedSlots
    BY <1>7, <1>8, <1>9, <1>11, <2>1
  <2>2. CASE s \notin UsedSlots
    <3>1. ~copy.creature[s].used /\ copy.creature[s] \in CopiedCreature
      BY <1>2, <1>11 DEF Greeted, Copy
    <3>2. new.creature[s] = copy.creature[s] /\ creature[s].player = Nobody
      BY <1>7, <1>9, <2>2 DEF UsedSlots, Used
    <3> QED BY <3>1, <3>2 DEF Shows, CopiedCreature
  <2> QED BY <2>1, <2>2
<1>12. /\ view \in [Clients -> Copy] /\ view' \in [Clients -> Copy]
       /\ Hears(guest, {guest}) => view'[guest] = new
  BY <1>0, <1>1, <1>2, <1>9 DEF TypeOK, new, copy
<1>13. TypeOK'
  BY <1>0, <1>1, <1>2, <1>6, <1>12 DEF TypeOK, Phases
<1>14. ServerInd'
  BY <1>0, <1>1, <1>6 DEF ServerInd, Positioned, Owned, Used, KingAlive, AtCrown
<1>15. ASSUME NEW d \in Settled' PROVE Following(d)'
  <2>1. CASE d = guest
    <3>0. Greeted(copy) /\ view'[guest] = new
      BY <1>2, <1>12, <1>15, <2>1 DEF Settled
    <3>1. Mirrors(new, creature, player, tile)
      BY <1>1, <1>2, <1>9, <1>11, <3>0 DEF Mirrors, Greeted, ExactCreatures, ExactPlayers
    <3>2. (orphan \/ new.king = king) /\ new.refused \subseteq {"king"}
      BY <1>1, <1>2, <1>9, <1>10, <3>0 DEF Greeted
    <3> QED BY <1>1, <1>6, <2>1, <3>0, <3>1, <3>2 DEF Following
  <2>2. CASE d # guest
    <3>1. d \in Settled /\ d \in Clients
      BY <1>0, <1>1, <1>2, <1>15, <2>2 DEF Settled, TypeOK
    <3>2. Following(d) /\ view'[d] = view[d]
      BY <1>0, <1>1, <1>2, <2>2, <3>1
    <3> QED BY <1>1, <1>6, <3>2 DEF Following
  <2> QED BY <2>1, <2>2
<1>16. Greeting'
  BY <1>1 DEF Greeting
<1> QED BY <1>13, <1>14, <1>15, <1>16 DEF Ind

-----------------------------------------------------------------------------
(* The sync loops *)

LEMMA SyncPlayersStep ==
  ASSUME Ind, SyncPlayers
  PROVE  Ind'
<1> DEFINE marked == {p \in Players : player[p].used /\ player[p].dirty}
           vals == [p \in marked |-> NewName(player[p].name)]
<1>0. TypeOK /\ ServerInd /\ Greeting /\ \A d \in Settled : Following(d)
  BY DEF Ind
<1>1. /\ phase = "players" /\ phase' \in {"io", "moving"}
      /\ player' = [p \in Players |-> IF player[p].used THEN [player[p] EXCEPT !.dirty = FALSE] ELSE player[p]]
      /\ UNCHANGED <<creature, tile, king, next_free_vm_id, game_paused, orphan,
                     guest, leaving, guiclients, slow, changes>>
  BY DEF SyncPlayers
<1>2. player \in [Players -> Known]
  BY <1>0 DEF TypeOK, Known
<1>3. ASSUME NEW p \in Players
      PROVE  /\ player'[p] \in Known
             /\ player'[p].used = player[p].used /\ player'[p].name = player[p].name
             /\ p \notin marked /\ player[p].used => player'[p] = player[p]
  BY <1>1, <1>2 DEF Known
<1>4. player' \in [Players -> Known]
  BY <1>1, <1>3
<1>5. ASSUME NEW q \in CopiedPlayer, NEW p \in Players, p \notin marked, ShowsPlayer(q, player[p])
      PROVE  ShowsPlayer(q, player'[p])
  BY <1>3, <1>5 DEF ShowsPlayer
<1>6. /\ view' \in [Clients -> Copy] /\ lossy' \in SUBSET Clients
      /\ \A c \in Settled' : Following(c)'
  <2>1. CASE marked = {}
    <3>1. UNCHANGED <<view, lossy>>
      BY <2>1 DEF SyncPlayers, SilentClients
    <3>2. ASSUME NEW c \in Settled' PROVE Following(c)'
      <4>1. Following(c) /\ c \in Clients /\ view[c] \in Copy
        BY <1>0, <1>1, <3>1, <3>2 DEF Settled, TypeOK
      <4>2. \A p \in Players : view[c].player[p] \in CopiedPlayer
        BY <4>1 DEF Copy
      <4>3. ExactPlayers(view[c], player')
        BY <1>5, <2>1, <4>1, <4>2 DEF Following, Mirrors, ExactPlayers
      <4> QED BY <1>1, <3>1, <4>1, <4>3 DEF Following, Mirrors
    <3> QED BY <1>0, <3>1, <3>2 DEF TypeOK
  <2>2. CASE marked # {}
    <3>1. /\ view' = [c \in Clients |-> IF Hears(c, guiclients) THEN HearPlayers(view[c], vals) ELSE view[c]]
          /\ Spoils(guiclients)
      BY <2>2 DEF SyncPlayers, Send, NewName
    <3>2. DOMAIN vals = marked /\ marked \subseteq Players
      OBVIOUS
    <3>3. ASSUME NEW copy \in Copy, NEW p \in marked
          PROVE  LET after == PlayerAfter(copy.player[p], vals[p]) IN
                 /\ after \in CopiedPlayer
                 /\ copy.player[p].used => ~RefusesPlayer(copy.player[p], vals[p]) /\ ShowsPlayer(after, player'[p])
      <4>1. /\ copy.player[p] \in CopiedPlayer /\ player[p].name \in Names
            /\ player[p].used = TRUE /\ p \in Players
        BY <1>2 DEF Copy, Known
      <4>2. vals[p] = NewName(player[p].name)
        OBVIOUS
      <4> DEFINE after == PlayerAfter(copy.player[p], vals[p])
      <4> HIDE DEF vals, marked
      <4>3. /\ RefusesPlayer(copy.player[p], vals[p]) = ~copy.player[p].used
            /\ copy.player[p].used => after = [used |-> TRUE, name |-> player[p].name]
            /\ after \in CopiedPlayer
        BY <4>1, <4>2, PlayersHeard
      <4> HIDE DEF after
      <4>4. copy.player[p].used => after.used = TRUE /\ after.name = player[p].name
        BY <4>3
      <4>5. copy.player[p].used => ShowsPlayer(after, player'[p])
        BY <1>3, <4>1, <4>4 DEF ShowsPlayer
      <4> QED BY <4>3, <4>5 DEF after
    <3> HIDE DEF vals
    <3>4. ASSUME NEW copy \in Copy
          PROVE  LET new == HearPlayers(copy, vals) IN
                 /\ new \in Copy
                 /\ new.world = copy.world /\ new.tile = copy.tile
                 /\ new.creature = copy.creature /\ new.king = copy.king
                 /\ ExactPlayers(copy, player) => /\ new.refused = copy.refused
                                                  /\ ExactPlayers(new, player')
      <4> DEFINE new == HearPlayers(copy, vals)
      <4>1. \A p \in DOMAIN vals : PlayerAfter(copy.player[p], vals[p]) \in CopiedPlayer
        BY <3>2, <3>3
      <4>2. /\ new \in Copy
            /\ new.world = copy.world /\ new.tile = copy.tile
            /\ new.creature = copy.creature /\ new.king = copy.king
            /\ \A p \in Players : new.player[p] =
                 IF p \in DOMAIN vals THEN PlayerAfter(copy.player[p], vals[p]) ELSE copy.player[p]
            /\ (\A p \in DOMAIN vals : ~RefusesPlayer(copy.player[p], vals[p])) => new.refused = copy.refused
        BY <3>2, <4>1, HearPlayersIs
      <4> HIDE DEF new
      <4>3. ASSUME ExactPlayers(copy, player) PROVE new.refused = copy.refused /\ ExactPlayers(new, player')
        <5>1. \A p \in marked : copy.player[p].used
          BY <1>2, <4>3 DEF ExactPlayers, ShowsPlayer, Known
        <5>2. new.refused = copy.refused
          BY <3>2, <3>3, <4>2, <5>1
        <5>3. ASSUME NEW p \in Players PROVE ShowsPlayer(new.player[p], player'[p])
          <6>1. CASE p \in marked
            BY <3>2, <3>3, <4>2, <5>1, <6>1
          <6>2. CASE p \notin marked
            <7>1. copy.player[p] \in CopiedPlayer /\ new.player[p] = copy.player[p]
              BY <3>2, <4>2, <6>2 DEF Copy
            <7> QED BY <1>5, <4>3, <6>2, <7>1 DEF ExactPlayers
          <6> QED BY <6>1, <6>2
        <5> QED BY <5>2, <5>3 DEF ExactPlayers
      <4> QED BY <4>2, <4>3 DEF new
    <3> QED BY <1>1, <3>1, <3>4, PlayersTold
  <2> QED BY <2>1, <2>2
<1>7. TypeOK'
  BY <1>0, <1>1, <1>4, <1>6 DEF TypeOK, Known, Phases
<1>8. ServerInd'
  <2>1. Owned'
    BY <1>0, <1>1, <1>3 DEF ServerInd, Owned, Used, TypeOK, Creature
  <2>2. KingAlive'
    BY <1>0, <1>1, <1>3 DEF ServerInd, KingAlive, TypeOK
  <2> QED BY <1>0, <1>1, <2>1, <2>2 DEF ServerInd, Positioned, AtCrown
<1>9. Greeting'
  BY <1>0, <1>1 DEF Greeting
<1> QED BY <1>6, <1>7, <1>8, <1>9 DEF Ind

LEMMA SyncCreaturesStep ==
  ASSUME Ind, SyncCreatures
  PROVE  Ind'
<1> DEFINE marked == {s \in UsedSlots : DirtyMask(creature[s]) # {}}
           vals == [s \in marked |-> Values(Refreshed(creature[s]), DirtyMask(creature[s]))]
<1>0. TypeOK /\ ServerInd /\ Greeting /\ \A d \in Settled : Following(d)
  BY DEF Ind
<1>1. /\ phase = "creatures" /\ phase' = "crown"
      /\ creature' = [s \in Slots |-> IF Used(s) THEN Synced(creature[s], DirtyMask(creature[s]))
                                                 ELSE creature[s]]
      /\ UNCHANGED <<player, tile, king, next_free_vm_id, game_paused, orphan,
                     guest, leaving, guiclients, slow, changes>>
  BY DEF SyncCreatures
<1>2. creature \in [Slots -> Creature] /\ \A s \in Slots : creature[s].net_x = creature[s].last_x
  BY <1>0 DEF TypeOK, ServerInd, Positioned
<1>3. ASSUME NEW s \in UsedSlots
      PROVE  LET new == creature'[s] IN
             /\ new = Synced(creature[s], DirtyMask(creature[s]))
             /\ Sound(new) /\ Fresh(new) /\ new.player = creature[s].player
  <2>1. creature[s] \in Creature /\ s \in Slots /\ Used(s) /\ creature[s].net_x = creature[s].last_x
    BY <1>2 DEF UsedSlots
  <2>2. creature'[s] = Synced(creature[s], DirtyMask(creature[s]))
    BY <1>1, <2>1
  <2>3. "path" \in DirtyMask(creature[s]) <=> creature[s].x # creature[s].net_x
    BY <2>1, MaskIs
  <2> DEFINE mask == DirtyMask(creature[s])
             new == Synced(creature[s], mask)
  <2>4. {"alive", "path"} \cap mask = {} => creature[s].x = creature[s].net_x
    BY <2>3
  <2> HIDE DEF mask
  <2>5. /\ Sound(new) /\ new.dirty = {}
        /\ new.player = creature[s].player /\ new.x = creature[s].x
        /\ new.state = creature[s].state /\ new.speed = creature[s].speed
        /\ new.net_x = creature[s].x /\ new.net_state = creature[s].state
        /\ new.net_speed = NetSpeed(creature[s])
    BY <2>1, <2>4, SyncedIs
  <2> HIDE DEF new
  <2>6. Fresh(new)
    BY <2>5 DEF Fresh, NetSpeed
  <2> QED BY <2>2, <2>5, <2>6 DEF new, mask
<1>4. \A s \in Slots : s \notin UsedSlots => creature'[s] = creature[s]
  BY <1>1 DEF UsedSlots
<1>5. \A s \in Slots : creature'[s].player = creature[s].player
  BY <1>3, <1>4
<1>6. creature' \in [Slots -> Creature]
  <2>1. \A s \in Slots : creature'[s] \in Creature
    BY <1>2, <1>3, <1>4 DEF Sound
  <2> QED BY <1>1, <2>1
\* One slot of one copy, in the mask or not.
<1>7. ASSUME NEW s \in UsedSlots, NEW c \in CopiedCreature
      PROVE  LET val == Values(Refreshed(creature[s]), DirtyMask(creature[s])) IN
             /\ CreatureAfter(c, val) \in CopiedCreature
             /\ Shows(c, creature[s]) =>
                  /\ s \notin marked => Shows(c, creature'[s])
                  /\ ~RefusesCreature(c, val) /\ Shows(CreatureAfter(c, val), creature'[s])
  <2> DEFINE cr == creature[s]
             mask == DirtyMask(cr)
             val == Values(Refreshed(cr), mask)
  <2>1. /\ Sound(cr) /\ cr.player # Nobody /\ creature'[s] = Synced(cr, mask)
        /\ s \notin marked => mask = {}
    BY <1>2, <1>3 DEF UsedSlots, Used, Sound
  <2>2. mask \in SUBSET (Fields \ {"alive"}) /\ Refreshed(cr) \in Creature
    BY <2>1, MaskIs, RefreshedIs DEF Sound
  <2> HIDE DEF cr, mask, marked
  <2>3. CreatureAfter(c, val) \in CopiedCreature
    BY <2>2, UpdateHeard
  <2>4. ASSUME Shows(c, cr)
        PROVE  /\ mask = {} => Shows(c, Synced(cr, mask))
               /\ ~RefusesCreature(c, val)
               /\ Shows(CreatureAfter(c, val), Synced(cr, mask))
    BY <2>1, <2>4, SyncShown DEF mask
  <2> HIDE DEF val
  <2> QED BY <2>1, <2>3, <2>4 DEF val, mask, cr
<1>8. ASSUME NEW s \in Slots, s \notin marked, NEW c \in CopiedCreature, Shows(c, creature[s])
      PROVE  Shows(c, creature'[s])
  <2>1. CASE s \in UsedSlots
    BY <1>7, <1>8, <2>1
  <2>2. CASE s \notin UsedSlots
    BY <1>4, <1>8, <2>2
  <2> QED BY <2>1, <2>2
<1>9. /\ view' \in [Clients -> Copy] /\ lossy' \in SUBSET Clients
      /\ \A c \in Settled' : Following(c)'
  <2>1. CASE marked = {}
    <3>1. UNCHANGED <<view, lossy>>
      BY <2>1 DEF SyncCreatures, SilentClients
    <3>2. ASSUME NEW c \in Settled' PROVE Following(c)'
      <4>1. Following(c) /\ c \in Clients /\ view[c] \in Copy
        BY <1>0, <1>1, <3>1, <3>2 DEF Settled, TypeOK
      <4>2. \A s \in Slots : view[c].creature[s] \in CopiedCreature
        BY <4>1 DEF Copy
      <4>3. ExactCreatures(view[c], creature')
        BY <1>8, <2>1, <4>1, <4>2 DEF Following, Mirrors, ExactCreatures
      <4> QED BY <1>1, <3>1, <4>1, <4>3 DEF Following, Mirrors
    <3> QED BY <1>0, <3>1, <3>2 DEF TypeOK
  <2>2. CASE marked # {}
    <3>1. /\ view' = [c \in Clients |-> IF Hears(c, guiclients) THEN HearCreatures(view[c], vals) ELSE view[c]]
          /\ Spoils(guiclients)
      BY <2>2 DEF SyncCreatures, Send
    <3>2. /\ DOMAIN vals = marked /\ marked \subseteq UsedSlots /\ UsedSlots \subseteq Slots
          /\ \A s \in marked : vals[s] = Values(Refreshed(creature[s]), DirtyMask(creature[s]))
      BY DEF UsedSlots
    <3> HIDE DEF vals, marked
    <3>3. ASSUME NEW copy \in Copy
          PROVE  LET new == HearCreatures(copy, vals) IN
                 /\ new \in Copy /\ Alike(new, copy)
                 /\ ExactCreatures(copy, creature) => /\ new.refused = copy.refused
                                                      /\ ExactCreatures(new, creature')
      <4> DEFINE new == HearCreatures(copy, vals)
      <4>0. \A s \in Slots : copy.creature[s] \in CopiedCreature
        BY DEF Copy
      <4>1. \A s \in DOMAIN vals : CreatureAfter(copy.creature[s], vals[s]) \in CopiedCreature
        BY <1>7, <3>2, <4>0
      <4>2. /\ new \in Copy
            /\ new.world = copy.world /\ new.tile = copy.tile
            /\ new.player = copy.player /\ new.king = copy.king
            /\ \A s \in Slots : new.creature[s] =
                 IF s \in DOMAIN vals THEN CreatureAfter(copy.creature[s], vals[s]) ELSE copy.creature[s]
            /\ (\A s \in DOMAIN vals : ~RefusesCreature(copy.creature[s], vals[s]))
                 => new.refused = copy.refused
        BY <3>2, <4>1, HearCreaturesIs
      <4> HIDE DEF new
      <4>3. ASSUME ExactCreatures(copy, creature)
            PROVE  new.refused = copy.refused /\ ExactCreatures(new, creature')
        <5>1. \A s \in Slots : Shows(copy.creature[s], creature[s])
          BY <4>3 DEF ExactCreatures
        <5>2. \A s \in DOMAIN vals : ~RefusesCreature(copy.creature[s], vals[s])
          BY <1>7, <3>2, <4>0, <5>1
        <5>3. ASSUME NEW s \in Slots PROVE Shows(new.creature[s], creature'[s])
          <6>1. CASE s \in marked
            BY <1>7, <3>2, <4>0, <4>2, <5>1, <6>1
          <6>2. CASE s \notin marked
            BY <1>8, <3>2, <4>0, <4>2, <5>1, <6>2
          <6> QED BY <6>1, <6>2
        <5> QED BY <4>2, <5>2, <5>3 DEF ExactCreatures
      <4> QED BY <4>2, <4>3 DEF new, Alike
    <3> QED BY <1>1, <3>1, <3>3, CreaturesTold
  <2> QED BY <2>1, <2>2
<1>10. TypeOK'
  BY <1>0, <1>1, <1>6, <1>9 DEF TypeOK, Phases
<1>11. ServerInd'
  <2>1. Positioned'
    BY <1>2, <1>3, <1>4 DEF Positioned, Sound
  <2>2. Owned'
    BY <1>0, <1>1, <1>5 DEF ServerInd, Owned, Used
  <2>3. AtCrown'
    <3>1. ASSUME NEW s \in UsedSlots' PROVE s \in UsedSlots
      BY <1>5, <3>1 DEF UsedSlots, Used
    <3> QED BY <1>3, <3>1 DEF AtCrown
  <2> QED BY <1>0, <1>1, <2>1, <2>2, <2>3 DEF ServerInd, KingAlive
<1>12. Greeting'
  BY <1>0, <1>1 DEF Greeting
<1> QED BY <1>9, <1>10, <1>11, <1>12 DEF Ind

LEMMA CrownStep ==
  ASSUME Ind, NEW k \in Players \cup {Nobody}, Crown(k)
  PROVE  Ind'
<1>0. TypeOK /\ ServerInd /\ Greeting /\ \A d \in Settled : Following(d)
  BY DEF Ind
<1>1. /\ phase = "crown" /\ phase' = "io"
      /\ k = Nobody \/ \E s \in UsedSlots : creature[s].player = k
      /\ king' = k /\ orphan' = (orphan /\ k = king)
      /\ UNCHANGED <<creature, player, tile, next_free_vm_id, game_paused,
                     guest, leaving, guiclients, slow, changes>>
  BY DEF Crown
<1>2. k = Nobody \/ player[k].used
  BY <1>0, <1>1 DEF ServerInd, Owned, UsedSlots
<1>3. /\ view' \in [Clients -> Copy] /\ lossy' \in SUBSET Clients
      /\ \A c \in Settled' : Following(c)'
  <2>1. CASE k = king
    <3>1. UNCHANGED <<view, lossy, king, orphan>>
      BY <1>0, <1>1, <2>1 DEF Crown, NewsOfKing, SilentClients, TypeOK
    <3> QED BY <1>0, <1>1, <3>1 DEF TypeOK, Settled, Following
  <2>2. CASE k # king
    <3>1. /\ view' = [c \in Clients |-> IF Hears(c, guiclients) THEN HearKing(view[c], k) ELSE view[c]]
          /\ Spoils(guiclients)
      BY <2>2 DEF Crown, NewsOfKing, Send
    <3>2. \A c \in Clients : view[c] \in Copy
      BY <1>0 DEF TypeOK
    <3>3. ASSUME NEW copy \in Copy
          PROVE  LET new == HearKing(copy, k) IN
                 /\ new \in Copy
                 /\ new.world = copy.world /\ new.tile = copy.tile
                 /\ new.creature = copy.creature /\ new.player = copy.player
                 /\ KnowsKing(copy, k) => new.king = k
                 /\ new.refused \subseteq copy.refused \cup {"king"}
      BY HearKingIs
    <3>4. view' \in [Clients -> Copy]
      BY <3>1, <3>2, <3>3
    <3>5. ASSUME NEW c \in Settled' PROVE Following(c)'
      <4>1. c \in Settled /\ c \in Clients /\ Hears(c, guiclients)
        BY <1>1, <3>1, <3>5, SettledHears
      <4> DEFINE new == HearKing(view[c], k)
      <4>2. Following(c) /\ view'[c] = new
        BY <1>0, <3>1, <4>1
      <4>3. /\ new.world = view[c].world /\ new.tile = view[c].tile
            /\ new.creature = view[c].creature /\ new.player = view[c].player
            /\ KnowsKing(view[c], k) => new.king = k
            /\ new.refused \subseteq view[c].refused \cup {"king"}
        BY <3>2, <3>3, <4>1
      <4> HIDE DEF new
      <4>4. k = Nobody \/ view[c].player[k].used
        BY <1>2, <4>2 DEF Following, Mirrors, ExactPlayers, ShowsPlayer
      <4>5. new.king = k
        BY <4>3, <4>4 DEF KnowsKing
      <4>6. Mirrors(new, creature, player, tile) /\ new.refused \subseteq {"king"}
        BY <4>2, <4>3 DEF Following, Mirrors, ExactCreatures, ExactPlayers
      <4> QED BY <1>1, <4>2, <4>5, <4>6 DEF Following
    <3> QED BY <1>1, <3>1, <3>4, <3>5, SettledHears
  <2> QED BY <2>1, <2>2
<1>4. TypeOK'
  BY <1>0, <1>1, <1>3 DEF TypeOK, Phases
<1>5. ServerInd'
  BY <1>0, <1>1, <1>2 DEF ServerInd, Positioned, Owned, Used, KingAlive, AtCrown
<1>6. Greeting'
  BY <1>0, <1>1 DEF Greeting
<1> QED BY <1>3, <1>4, <1>5, <1>6 DEF Ind

-----------------------------------------------------------------------------
(* Tiles *)

LEMMA ChangeTileStep ==
  ASSUME Ind, NEW t \in Tiles, NEW look \in Looks, ChangeTile(t, look)
  PROVE  Ind'
<1>0. TypeOK /\ ServerInd /\ Greeting /\ \A d \in Settled : Following(d)
  BY DEF Ind
<1>1. /\ Playing /\ phase # "io" /\ Change
      /\ tile' = [tile EXCEPT ![t] = look]
      /\ view' = [c \in Clients |-> IF Hears(c, guiclients) THEN HearTile(view[c], t, look) ELSE view[c]]
      /\ Spoils(guiclients)
      /\ UNCHANGED <<creature, player, king, next_free_vm_id, game_paused, orphan,
                     phase, guest, leaving, guiclients, slow>>
  BY DEF ChangeTile, Send, Playing
<1>2. \A c \in Clients : view[c] \in Copy
  BY <1>0 DEF TypeOK
<1>3. ASSUME NEW copy \in Copy
      PROVE  LET new == HearTile(copy, t, look) IN
             /\ new \in Copy /\ new.world = copy.world
             /\ new.creature = copy.creature /\ new.player = copy.player /\ new.king = copy.king
             /\ copy.world => new.tile = [copy.tile EXCEPT ![t] = look] /\ new.refused = copy.refused
  BY HearTileIs
<1>4. view' \in [Clients -> Copy]
  BY <1>1, <1>2, <1>3
<1>5. ASSUME NEW c \in Settled' PROVE Following(c)'
  <2>1. c \in Settled /\ c \in Clients /\ Hears(c, guiclients)
    BY <1>1, <1>5, SettledHears
  <2> DEFINE new == HearTile(view[c], t, look)
  <2>2. Following(c) /\ view'[c] = new
    BY <1>0, <1>1, <2>1
  <2>3. /\ new.world = view[c].world
        /\ new.creature = view[c].creature /\ new.player = view[c].player /\ new.king = view[c].king
        /\ view[c].world => new.tile = [view[c].tile EXCEPT ![t] = look] /\ new.refused = view[c].refused
    BY <1>2, <1>3, <2>1
  <2> HIDE DEF new
  <2>4. Mirrors(new, creature, player, tile')
    BY <1>1, <2>2, <2>3 DEF Following, Mirrors, ExactCreatures, ExactPlayers
  <2> QED BY <1>1, <2>2, <2>3, <2>4 DEF Following, Mirrors
<1>6. TypeOK'
  <2>1. tile' \in [Tiles -> Looks]
    BY <1>0, <1>1 DEF TypeOK
  <2>2. lossy' \in SUBSET Clients
    BY <1>1, SettledHears
  <2> QED BY <1>0, <1>1, <1>4, <2>1, <2>2, ReplicaAssumption DEF TypeOK, Change
<1>7. ServerInd'
  BY <1>0, <1>1 DEF ServerInd, Positioned, Owned, Used, KingAlive, AtCrown, Playing
<1>8. Greeting'
  BY <1>0, <1>1 DEF Greeting, Playing
<1> QED BY <1>5, <1>6, <1>7, <1>8 DEF Ind

LEMMA NewWorldStep ==
  ASSUME Ind, NewWorld
  PROVE  Ind'
<1>0. TypeOK /\ ServerInd /\ Greeting /\ \A d \in Settled : Following(d)
  BY DEF Ind
<1>1. /\ phase = "shutdown" /\ phase' = "round"
      /\ tile' = [t \in Tiles |-> 0] /\ next_free_vm_id' = 0
      /\ view' = [c \in Clients |-> IF Hears(c, guiclients) THEN HearWorld(view[c]) ELSE view[c]]
      /\ Spoils(guiclients)
      /\ UNCHANGED <<creature, player, king, game_paused, orphan, guest, leaving,
                     guiclients, slow, changes>>
  BY DEF NewWorld, Send
<1>2. \A c \in Clients : view[c] \in Copy
  BY <1>0 DEF TypeOK
<1>3. ASSUME NEW copy \in Copy
      PROVE  LET new == HearWorld(copy) IN
             /\ new \in Copy /\ new.world /\ new.tile = [u \in Tiles |-> 0]
             /\ new.creature = copy.creature /\ new.player = copy.player /\ new.king = copy.king
             /\ new.refused = copy.refused
  BY HearWorldIs
<1>4. view' \in [Clients -> Copy]
  BY <1>1, <1>2, <1>3
<1>5. ASSUME NEW c \in Settled' PROVE Following(c)'
  <2>1. c \in Settled /\ c \in Clients /\ Hears(c, guiclients)
    BY <1>1, <1>5, SettledHears
  <2> DEFINE new == HearWorld(view[c])
  <2>2. Following(c) /\ view'[c] = new
    BY <1>0, <1>1, <2>1
  <2>3. /\ new.world /\ new.tile = tile'
        /\ new.creature = view[c].creature /\ new.player = view[c].player /\ new.king = view[c].king
        /\ new.refused = view[c].refused
    BY <1>1, <1>2, <1>3, <2>1
  <2> HIDE DEF new
  <2>4. Mirrors(new, creature, player, tile')
    BY <1>1, <2>2, <2>3 DEF Following, Mirrors, ExactCreatures, ExactPlayers
  <2> QED BY <1>1, <2>2, <2>3, <2>4 DEF Following
<1>6. TypeOK'
  <2>1. tile' \in [Tiles -> Looks] /\ next_free_vm_id' \in 0 .. MaxVmId + 1
    BY <1>1, CopyAssumption, ReplicaAssumption
  <2>2. lossy' \in SUBSET Clients
    BY <1>1, SettledHears
  <2> QED BY <1>0, <1>1, <1>4, <2>1, <2>2 DEF TypeOK, Phases
<1>7. ServerInd'
  BY <1>0, <1>1 DEF ServerInd, Positioned, Owned, Used, KingAlive, AtCrown
<1>8. Greeting'
  BY <1>0, <1>1 DEF Greeting
<1> QED BY <1>5, <1>6, <1>7, <1>8 DEF Ind

-----------------------------------------------------------------------------
(* The theorems *)

LEMMA IndInit == Init => Ind
<1> SUFFICES ASSUME Init PROVE Ind
  OBVIOUS
<1>1. ZeroCreature \in Creature /\ ZeroCreature.net_x = ZeroCreature.last_x /\ ZeroCreature.player = Nobody
  BY CopyAssumption, ReplicaAssumption DEF ZeroCreature, Creature
<1>2. EmptyCopy \in Copy
  BY CopyAssumption DEF EmptyCopy, Copy, CopiedCreature, CopiedPlayer, UnusedCreature, UnusedPlayer
<1>3. TypeOK
  <2>1. /\ creature \in [Slots -> Creature]
        /\ player \in [Players -> [used : BOOLEAN, name : Names, dirty : BOOLEAN]]
        /\ tile \in [Tiles -> Looks] /\ view \in [Clients -> Copy]
    BY <1>1, <1>2, CopyAssumption DEF Init
  <2>2. next_free_vm_id \in 0 .. MaxVmId + 1 /\ changes \in 0 .. MaxChanges
    BY ReplicaAssumption DEF Init
  <2>3. /\ king \in Players \cup {Nobody} /\ game_paused \in BOOLEAN /\ orphan \in BOOLEAN
        /\ guest \in Clients \cup {Nobody} /\ leaving \in Players \cup {Nobody}
        /\ guiclients \in SUBSET Clients /\ slow \in SUBSET Clients /\ lossy \in SUBSET Clients
    BY DEF Init
  <2>4. phase \in Phases
    BY DEF Init, Phases
  <2> QED BY <2>1, <2>2, <2>3, <2>4 DEF TypeOK
<1>4. ServerInd
  BY <1>1 DEF Init, ServerInd, Positioned, Owned, Used, KingAlive, AtCrown
<1>5. Settled = {} /\ Greeting
  BY DEF Init, Settled, Greeting
<1> QED BY <1>3, <1>4, <1>5 DEF Ind

LEMMA IndStutter ==
  ASSUME Ind, UNCHANGED vars
  PROVE  Ind'
<1>1. UNCHANGED <<creature, player, tile, king, next_free_vm_id, game_paused, orphan, guest, guiclients,
                  slow, view, lossy, phase, leaving, changes>>
  BY DEF vars, serverVars, clientVars, controlVars
<1>2. TypeOK' /\ ServerInd'
  BY <1>1 DEF Ind, TypeOK, ServerInd, Positioned, Owned, Used, KingAlive, AtCrown, UsedSlots
<1>3. (\A c \in Settled : Following(c))' /\ Greeting'
  BY <1>1 DEF Ind, Settled, Following, Greeting, Greeted
<1> QED BY <1>2, <1>3 DEF Ind

LEMMA IndNext == Ind /\ [Next]_vars => Ind'
<1> SUFFICES ASSUME Ind, [Next]_vars PROVE Ind'
  OBVIOUS
<1>1. CASE CreatureStep
  BY <1>1, SpawnStep, DieStep, ActStep, SetStateStep, SetTypeStep, KillCreatureOfStep, ShutdownKillStep
     DEF CreatureStep
<1>2. CASE PlayerStep
  BY <1>2, CreatePlayerStep, SetNameStep, PlayerLeftStep, ControlSteps DEF PlayerStep
<1>3. CASE ClientStep
  BY <1>3, JoinStep, LeaveStallDrainStep, GreetPlayersStep, GreetKingStep, GreetCreaturesStep
     DEF ClientStep
<1>4. CASE LoopStep
  BY <1>4, ChangeTileStep, ControlSteps, SyncPlayersStep, SyncCreaturesStep, CrownStep, NewWorldStep
     DEF LoopStep
<1>5. CASE UNCHANGED vars
  BY <1>5, IndStutter
<1> QED BY <1>1, <1>2, <1>3, <1>4, <1>5 DEF Next

LEMMA IndAlways == Spec => []Ind
  BY IndInit, IndNext, PTL DEF Spec

\* Every record keeps its form; a mask bit that only a sync loop may set is never set
\* between the sync loops (creature.c:639, 905).
THEOREM TypeCorrect == Spec => []TypeOK
<1>1. Ind => TypeOK
  BY DEF Ind
<1> QED BY <1>1, IndAlways, PTL

\* At every moment a client whose stream is whole has the creatures, the players and the
\* tiles the server believes to have sent, for any number of clients, creatures and
\* players, whenever it joined and whatever other clients missed (creature.c:940).
THEOREM ViewIsExact == Spec => []ViewExact
<1>1. Ind => ViewExact
  BY DEF Ind, ViewExact, Following, Mirrors, ExactCreatures, ExactPlayers
<1> QED BY <1>1, IndAlways, PTL

\* After the sync loop of creature_moveall such a client has the creatures as they are.
THEOREM AllInSync == Spec => []InSync
<1>1. ASSUME Ind PROVE InSync
  <2> SUFFICES ASSUME phase = "crown", NEW c \in Settled, NEW s \in UsedSlots
               PROVE  LET shown == view[c].creature[s] IN
                      /\ shown.x = creature[s].x /\ shown.type = creature[s].type
                      /\ shown.state = creature[s].state
                      /\ creature[s].state = WALK => shown.speed = creature[s].speed
    BY DEF InSync
  <2>1. Fresh(creature[s]) /\ creature[s].net_x = creature[s].last_x /\ creature[s].player # Nobody
    BY <1>1 DEF Ind, ServerInd, AtCrown, Positioned, UsedSlots, Used
  <2>2. Shows(view[c].creature[s], creature[s])
    BY <1>1 DEF Ind, Following, Mirrors, ExactCreatures, UsedSlots
  <2>3. /\ view[c].creature[s].used
        /\ creature[s].state = WALK => creature[s].speed = creature[s].net_speed
    BY <2>1, <2>2 DEF Shows, Fresh
  <2> QED BY <2>1, <2>2, <2>3 DEF Shows, Fresh
<1> QED BY <1>1, IndAlways, PTL

\* A king that a client shows is the server's, as long as that player was not destroyed
\* since it was crowned (player.c:987).
THEOREM KingIsShown == Spec => []KingShown
<1>1. Ind => KingShown
  BY DEF Ind, KingShown, Following
<1> QED BY <1>1, IndAlways, PTL

\* Players are announced before their creatures and leave after them (player.c:741,
\* server.c:411), so no copy ever has a creature without its player.
THEOREM OwnersAreKnown == Spec => []OwnersKnown
<1>1. ASSUME Ind PROVE OwnersKnown
  <2> SUFFICES ASSUME NEW c \in guiclients \ lossy, NEW s \in Slots, view[c].creature[s].used
               PROVE  view[c].player[view[c].creature[s].player].used
    BY DEF OwnersKnown
  <2>1. CASE c = guest
    BY <1>1, <2>1, ReplicaAssumption DEF Ind, TypeOK, Greeting, Greeted
  <2>2. CASE c # guest
    <3>1. Mirrors(view[c], creature, player, tile)
      BY <1>1, <2>2 DEF Ind, Settled, Following
    <3>2. Used(s) /\ view[c].creature[s].player = creature[s].player /\ creature[s].player \in Players
      BY <1>1, <3>1 DEF Mirrors, ExactCreatures, Shows, Used, Ind, TypeOK, Creature
    <3>3. player[creature[s].player].used
      BY <1>1, <3>2 DEF Ind, ServerInd, Owned
    <3> QED BY <3>1, <3>2, <3>3 DEF Mirrors, ExactPlayers, ShowsPlayer
  <2> QED BY <2>1, <2>2
<1> QED BY <1>1, IndAlways, PTL

\* No packet about a creature, a player or a tile is ever dropped by the client that
\* reads it (the PROTOCOL_ERRORs of client_creature.c and client_player.c).
THEOREM NothingIsRefused == Spec => []NothingRefused
<1>1. ASSUME Ind PROVE NothingRefused
  <2> SUFFICES ASSUME NEW c \in guiclients \ lossy PROVE view[c].refused \subseteq {"king"}
    BY DEF NothingRefused
  <2>1. CASE c = guest
    BY <1>1, <2>1, ReplicaAssumption DEF Ind, TypeOK, Greeting, Greeted
  <2>2. CASE c # guest
    BY <1>1, <2>2 DEF Ind, Settled, Following
  <2> QED BY <2>1, <2>2
<1> QED BY <1>1, IndAlways, PTL
================================================================================
