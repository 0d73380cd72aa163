--------------------------------- MODULE Replica -------------------------------
(***************************************************************************)
(* Replication of the game to GUI clients: the dirty masks and last sent   *)
(* values of creature.c, player.c and world.c, the updates they broadcast, *)
(* the initial update of a client that joins, and what each client holds   *)
(* after all that was sent to it (module ClientCopy).                      *)
(*                                                                         *)
(* view[c] is the copy of client c once it has read everything, as long as *)
(* its stream is whole.  Packets arrive in order (module Stream), so what  *)
(* c shows is an earlier view[c].                                          *)
(***************************************************************************)
EXTENDS ClientCopy, FiniteSets

CONSTANTS
  Clients,
  FileClients,   \* clients that are demo files: they have no backlog, and no socket
  Positions,     \* places of creatures at network resolution
  WALK,          \* CREATURE_WALK
  BirthSpeed,    \* creature_speed of a new creature
  Residents,     \* players that are there from an earlier game
  MaxVmId,       \* bound: largest id a game of the model gives out
  MaxChanges     \* bound: how often anything outside the sync loops happens

ASSUME ReplicaAssumption ==
  /\ FileClients \subseteq Clients /\ Nobody \notin Clients
  /\ Residents \subseteq Players
  /\ Positions \subseteq Int /\ Positions # {}
  /\ WALK \in States /\ BirthSpeed \in Speeds
  /\ MaxVmId \in Nat /\ MaxChanges \in Nat
  /\ Players \subseteq Nat /\ Slots \subseteq Nat

VARIABLES
  creature,         \* the creature table with its network variables
  player,           \* the player table
  tile,             \* what the network is told of a tile
  king,             \* king_player: a player slot, whoever uses it now
  next_free_vm_id,
  game_paused,
  phase,            \* where game_one_game is
  guest,            \* the client that gets its initial update
  leaving,          \* the player that is being destroyed
  guiclients,       \* the clients broadcasts go to
  slow,             \* clients with more than a megabyte of backlog
  lossy,            \* history: clients whose stream is not what was sent to them
  orphan,           \* history: king_player was destroyed since it was crowned
  view,
  changes           \* counts up to MaxChanges

serverVars  == <<creature, player, tile, king, next_free_vm_id, game_paused, orphan>>
clientVars  == <<guiclients, slow, lossy, view>>
controlVars == <<phase, guest, leaving, changes>>
vars == <<serverVars, clientVars, controlVars>>

Phases == {"io", "greet players", "greet king", "greet creatures", "round", "kill",
           "shutdown", "players", "moving", "creatures", "crown"}

Fields == {"alive", "type", "state", "path", "speed"}

Creature == [player : Players \cup {Nobody}, vm_id : 0 .. MaxVmId, x : Positions, type : Types,
             state : States, speed : Speeds, dirty : SUBSET {"type"},
             net_x : Positions, last_x : Positions, net_state : States, net_speed : Speeds]

\* Types; between the sync loops only the mask bits that are set at once can be set.
TypeOK ==
  /\ creature \in [Slots -> Creature]
  /\ player \in [Players -> [used : BOOLEAN, name : Names, dirty : BOOLEAN]]
  /\ tile \in [Tiles -> Looks]
  /\ king \in Players \cup {Nobody}
  /\ next_free_vm_id \in 0 .. MaxVmId + 1
  /\ game_paused \in BOOLEAN /\ orphan \in BOOLEAN
  /\ phase \in Phases
  /\ guest \in Clients \cup {Nobody}
  /\ leaving \in Players \cup {Nobody}
  /\ guiclients \in SUBSET Clients /\ slow \in SUBSET Clients /\ lossy \in SUBSET Clients
  /\ view \in [Clients -> Copy]
  /\ changes \in 0 .. MaxChanges

Used(s)  == creature[s].player # Nobody
UsedSlots == {s \in Slots : Used(s)}
CreaturesForgotten(p) == {}
CreaturesOf(p) == {s \in Slots : creature[s].player = p}

-----------------------------------------------------------------------------
(* Sending.  server_writeto drops what a slow client would get, and writes what is for a *)
(* demo file to the descriptor that has the number of the file's slot: the file gets     *)
(* nothing, and the bytes may turn up in the middle of the stream of any client.         *)

Hears(c, C) == c \in C \ (slow \cup FileClients)

\* Who may have one of the descriptors that the packets to the demo files in C are written to.
Strays(C) == {hit \in SUBSET Clients : Cardinality(hit) <= Cardinality(C \cap FileClients)}

\* A packet to the clients C: whose stream is not what was sent to them from then on.
Spoils(C) ==
  \E hit \in Strays(C) : lossy' = lossy \cup (C \cap (slow \cup FileClients)) \cup hit

Send(C, Hear(_)) ==
  /\ view' = [c \in Clients |-> IF Hears(c, C) THEN Hear(view[c]) ELSE view[c]]
  /\ Spoils(C)

SilentClients == UNCHANGED <<view, lossy>>

\* creature_to_network: ALIVE brings the position itself, so that PATH adds nothing to it.
Everything(cr, mask) ==
  [alive |-> IF cr.player = Nobody THEN Gone
             ELSE [player |-> cr.player, vm_id |-> cr.vm_id, x |-> cr.net_x],
   type  |-> cr.type,
   state |-> cr.net_state,
   path  |-> IF "alive" \in mask THEN 0 ELSE cr.net_x - cr.last_x,
   speed |-> cr.net_speed]

Values(cr, mask) == [f \in mask |-> Everything(cr, mask)[f]]

\* The last sent position is remembered by whatever mentions the position.
LastXOfBirth(cr, mask) == IF "alive" \in mask THEN cr.net_x ELSE cr.last_x
LastX(cr, mask) == IF {"alive", "path"} \cap mask = {} THEN cr.last_x ELSE cr.net_x

\* creature_update_network_variables.
NetSpeedOfStart(cr) == IF cr.state = WALK /\ cr.net_state # WALK THEN cr.speed ELSE cr.net_speed
NetSpeed(cr) == IF cr.state = WALK THEN cr.speed ELSE cr.net_speed

Refreshed(cr) ==
  [cr EXCEPT !.net_state = cr.state, !.net_x = cr.x, !.net_speed = NetSpeed(cr)]

DirtyMask(cr) ==
  cr.dirty \cup {f \in {"state"} : cr.state # cr.net_state}
           \cup {f \in {"path"}  : cr.x # cr.net_x}
           \cup {f \in {"speed"} : NetSpeed(cr) # cr.net_speed}

\* The record after its packet: refreshed, clean, the position remembered.
Synced(cr, mask) ==
  [Refreshed(cr) EXCEPT !.dirty = {}, !.last_x = LastX(Refreshed(cr), mask)]

-----------------------------------------------------------------------------
(* Everything outside the sync loops that a step may do, at most MaxChanges times. *)

Change == changes < MaxChanges /\ changes' = changes + 1

\* Handlers of network input, rules and programs run in these phases.
Playing == phase \in {"io", "round", "moving"}

ZeroCreature == [player |-> Nobody, vm_id |-> 0, x |-> CHOOSE x \in Positions : TRUE,
                 type |-> 0, state |-> 0, speed |-> 0, dirty |-> {},
                 net_x |-> CHOOSE x \in Positions : TRUE, last_x |-> CHOOSE x \in Positions : TRUE,
                 net_state |-> 0, net_speed |-> 0]

\* creature_spawn: the first unused slot is zeroed, filled and broadcast with all fields.
FirstUnused(s) == ~Used(s) /\ \A r \in Slots : r < s => Used(r)

Baby(p, x, t) ==
  [ZeroCreature EXCEPT !.player = p, !.vm_id = next_free_vm_id, !.x = x, !.type = t, !.speed = BirthSpeed]

Spawn(s, p, x, t) ==
  LET baby == Refreshed(Baby(p, x, t)) IN
  /\ Playing /\ Change
  /\ player[p].used
  /\ FirstUnused(s)
  /\ next_free_vm_id <= MaxVmId
  /\ next_free_vm_id' = next_free_vm_id + 1
  /\ creature' = [creature EXCEPT ![s] = Synced(Baby(p, x, t), Fields)]
  /\ Send(guiclients, LAMBDA copy : HearCreatures(copy, [r \in {s} |-> Values(baby, Fields)]))
  /\ UNCHANGED <<player, tile, king, game_paused, orphan, phase, guest, leaving, guiclients, slow>>

\* creature_kill: the player pointer goes, and the slot says so to everybody.
NoObituaries(s) == [r \in {} |-> Gone]
Obituaries(s) == [r \in {s} |-> [f \in {"alive"} |-> Gone]]

Kill(s) ==
  /\ Used(s)
  /\ creature' = [creature EXCEPT ![s].player = Nobody]
  /\ Send(guiclients, LAMBDA copy : HearCreatures(copy, Obituaries(s)))
  /\ UNCHANGED <<player, tile, king, next_free_vm_id, game_paused, orphan, guest, guiclients, slow>>

\* Hunger, age, fights and suicide, in the first loop of creature_moveall.
Die(s) ==
  /\ phase = "moving" /\ Change
  /\ Kill(s)
  /\ UNCHANGED <<phase, leaving>>

Acted(cr, x, t, st, v) ==
  [cr EXCEPT !.x = x, !.type = t, !.state = st, !.speed = v,
             !.dirty = IF t = cr.type THEN @ ELSE @ \cup {"type"}]
Retyped(cr, t) == Acted(cr, cr.x, t, cr.state, cr.speed)

\* One turn of a creature: it walks, converts, or is done with what it did, and its speed
\* may follow from its age or type.  No packet before the sync loop.
Act(s, x, t, st, v) ==
  /\ phase = "moving" /\ Change
  /\ Used(s)
  /\ x # creature[s].x => creature[s].state = WALK
  /\ t # creature[s].type => x = creature[s].x /\ st = 0
  /\ st \in {creature[s].state, 0}
  /\ <<x, t, st, v>> # <<creature[s].x, creature[s].type, creature[s].state, creature[s].speed>>
  /\ creature' = [creature EXCEPT ![s] = Acted(creature[s], x, t, st, v)]
  /\ SilentClients
  /\ UNCHANGED <<player, tile, king, next_free_vm_id, game_paused, orphan,
                 phase, guest, leaving, guiclients, slow>>

\* A program or a console command sets the state.
SetState(s, st) ==
  /\ phase \in {"io", "round"} /\ Change
  /\ Used(s) /\ st # creature[s].state
  /\ creature' = [creature EXCEPT ![s].state = st]
  /\ SilentClients
  /\ UNCHANGED <<player, tile, king, next_free_vm_id, game_paused, orphan,
                 phase, guest, leaving, guiclients, slow>>

\* creature_set_type, and likewise creature_set_message: marked when it is set.
SetType(s, t) ==
  /\ phase \in {"io", "round"} /\ Change
  /\ Used(s) /\ t # creature[s].type
  /\ creature' = [creature EXCEPT ![s] = Retyped(creature[s], t)]
  /\ SilentClients
  /\ UNCHANGED <<player, tile, king, next_free_vm_id, game_paused, orphan,
                 phase, guest, leaving, guiclients, slow>>

\* world_set_type, world_set_gfx, world_add_food and world_food_eat tell at once.
ChangeTile(t, look) ==
  /\ phase \in {"round", "moving"} /\ Change
  /\ look # tile[t]
  /\ tile' = [tile EXCEPT ![t] = look]
  /\ Send(guiclients, LAMBDA copy : HearTile(copy, t, look))
  /\ UNCHANGED <<creature, player, king, next_free_vm_id, game_paused, orphan,
                 phase, guest, leaving, guiclients, slow>>

\* player_create: the first unused slot, broadcast with all fields; its colour is also
\* left marked as dirty.
CreatePlayer(p, n) ==
  /\ phase = "io" /\ Change
  /\ ~player[p].used /\ \A q \in Players : q < p => player[q].used
  /\ player' = [player EXCEPT ![p] = [used |-> TRUE, name |-> n, dirty |-> TRUE]]
  /\ Send(guiclients, LAMBDA copy :
       HearPlayers(copy, [q \in {p} |-> [f \in {"alive", "name"} |-> IF f = "alive" THEN TRUE ELSE n]]))
  /\ UNCHANGED <<creature, tile, king, next_free_vm_id, game_paused, orphan,
                 phase, guest, leaving, guiclients, slow>>

\* player_set_name, player_set_color, player_change_score: marked for player_sync.
SetName(p, n) ==
  /\ Playing /\ Change
  /\ player[p].used /\ n # player[p].name
  /\ player' = [player EXCEPT ![p].name = n, ![p].dirty = TRUE]
  /\ SilentClients
  /\ UNCHANGED <<creature, tile, king, next_free_vm_id, game_paused, orphan,
                 phase, guest, leaving, guiclients, slow>>

\* player_destroy: first its creatures, one after the other, then the player.
DestroyPlayer(p) ==
  /\ phase = "round" /\ Change
  /\ player[p].used
  /\ phase' = "kill" /\ leaving' = p
  /\ SilentClients
  /\ UNCHANGED <<serverVars, guest, guiclients, slow>>

KillCreatureOf(s) ==
  /\ phase = "kill" /\ s \in CreaturesOf(leaving)
  /\ \A r \in CreaturesOf(leaving) : s <= r
  /\ Kill(s)
  /\ UNCHANGED <<phase, leaving, changes>>

PlayerLeft(p) ==
  /\ phase = "kill" /\ p = leaving /\ CreaturesOf(p) = {}
  /\ phase' = "round" /\ leaving' = Nobody
  /\ player' = [player EXCEPT ![p].used = FALSE]
  /\ orphan' = (orphan \/ king = p)
  /\ Send(guiclients, LAMBDA copy : HearPlayers(copy, [q \in {p} |-> [f \in {"alive"} |-> FALSE]]))
  /\ UNCHANGED <<creature, tile, king, next_free_vm_id, game_paused, guest, guiclients, slow, changes>>

-----------------------------------------------------------------------------
(* Clients *)

\* client_turn_into_gui_client: the client joins the broadcasts and gets everything:
\* the world, then the players, the king and the creatures.
Join(c) ==
  /\ phase = "io" /\ Change
  /\ c \notin guiclients
  /\ guiclients' = guiclients \cup {c}
  /\ view' = [view EXCEPT ![c] =
       IF Hears(c, {c}) THEN [HearWorld(EmptyCopy) EXCEPT !.tile = tile] ELSE EmptyCopy]
  /\ Spoils({c})
  /\ guest' = c /\ phase' = "greet players"
  /\ UNCHANGED <<serverVars, leaving, slow>>

\* player_send_initial_update.
GreetPlayers ==
  /\ phase = "greet players" /\ phase' = "greet king"
  /\ Send({guest}, LAMBDA copy :
       HearPlayers(copy, [p \in {q \in Players : player[q].used} |->
          [f \in {"alive", "name"} |-> IF f = "alive" THEN TRUE ELSE player[p].name]]))
  /\ UNCHANGED <<serverVars, guest, leaving, guiclients, slow, changes>>

GreetKing ==
  /\ phase = "greet king" /\ phase' = "greet creatures"
  /\ Send({guest}, LAMBDA copy : HearKing(copy, king))
  /\ UNCHANGED <<serverVars, guest, leaving, guiclients, slow, changes>>

\* creature_send_initial_update: all fields as the network last saw them.  The last sent
\* position is that of all clients; the mask stays, for the other clients.
GreetCreatures ==
  /\ phase = "greet creatures" /\ phase' = "io"
  /\ creature' = [s \in Slots |-> IF Used(s)
                    THEN [creature[s] EXCEPT !.last_x = LastX(creature[s], Fields)]
                    ELSE creature[s]]
  /\ Send({guest}, LAMBDA copy :
       HearCreatures(copy, [s \in UsedSlots |-> Values(creature[s], Fields)]))
  /\ guest' = Nobody
  /\ UNCHANGED <<player, tile, king, next_free_vm_id, game_paused, orphan, leaving,
                 guiclients, slow, changes>>

\* server_destroy of a GUI client: its backlog goes with it, and so ends its stream.
Leave(c) ==
  /\ phase = "io" /\ Change
  /\ c \in guiclients
  /\ guiclients' = guiclients \ {c}
  /\ slow' = slow \ {c} /\ lossy' = lossy \ {c}
  /\ UNCHANGED <<serverVars, phase, guest, leaving, view>>

\* A client that does not read lets its backlog grow over the limit; one that reads again
\* lets it shrink.
Stall(c) ==
  /\ Playing /\ Change
  /\ c \in guiclients \ FileClients /\ c \notin slow
  /\ slow' = slow \cup {c}
  /\ UNCHANGED <<serverVars, phase, guest, leaving, guiclients, lossy, view>>

Drain(c) ==
  /\ Playing /\ Change
  /\ c \in slow
  /\ slow' = slow \ {c}
  /\ UNCHANGED <<serverVars, phase, guest, leaving, guiclients, lossy, view>>

-----------------------------------------------------------------------------
(* The main loop *)

\* luaGameSetPaused or so: an operator's command.
Pause ==
  /\ phase = "io" /\ Change
  /\ game_paused' = ~game_paused
  /\ UNCHANGED <<creature, player, tile, king, next_free_vm_id, orphan, clientVars,
                 phase, guest, leaving>>

EndIO ==
  /\ phase = "io" /\ phase' = "round"
  /\ UNCHANGED <<serverVars, clientVars, guest, leaving, changes>>

EndRound ==
  /\ phase = "round" /\ phase' = "players"
  /\ UNCHANGED <<serverVars, clientVars, guest, leaving, changes>>

\* player_sync; a paused game goes on to the network.
SyncPlayers ==
  LET marked == {p \in Players : player[p].used /\ player[p].dirty} IN
  /\ phase = "players"
  /\ phase' = IF game_paused THEN "io" ELSE "moving"
  /\ player' = [p \in Players |-> IF player[p].used THEN [player[p] EXCEPT !.dirty = FALSE] ELSE player[p]]
  /\ IF marked = {} THEN SilentClients
     ELSE Send(guiclients, LAMBDA copy :
            HearPlayers(copy, [p \in marked |-> [f \in {"name"} |-> player[p].name]]))
  /\ UNCHANGED <<creature, tile, king, next_free_vm_id, game_paused, orphan,
                 guest, leaving, guiclients, slow, changes>>

EndMoves ==
  /\ phase = "moving" /\ phase' = "creatures"
  /\ UNCHANGED <<serverVars, clientVars, guest, leaving, changes>>

\* The second loop of creature_moveall.
SyncCreatures ==
  LET marked == {s \in UsedSlots : DirtyMask(creature[s]) # {}} IN
  /\ phase = "creatures" /\ phase' = "crown"
  /\ creature' = [s \in Slots |-> IF Used(s) THEN Synced(creature[s], DirtyMask(creature[s])) ELSE creature[s]]
  /\ IF marked = {} THEN SilentClients
     ELSE Send(guiclients, LAMBDA copy :
            HearCreatures(copy, [s \in marked |-> Values(Refreshed(creature[s]), DirtyMask(creature[s]))]))
  /\ UNCHANGED <<player, tile, king, next_free_vm_id, game_paused, orphan,
                 guest, leaving, guiclients, slow, changes>>

\* player_is_king_of_the_hill and player_there_is_no_king: told if the pointer changed.
NewsOfLivingKing(k) == k # king /\ k # Nobody
NewsOfKing(k) == k # king

Crown(k) ==
  /\ phase = "crown" /\ phase' = "io"
  /\ k = Nobody \/ \E s \in UsedSlots : creature[s].player = k
  /\ king' = k
  /\ orphan' = (orphan /\ k = king)
  /\ IF NewsOfKing(k) THEN Send(guiclients, LAMBDA copy : HearKing(copy, k)) ELSE SilentClients
  /\ UNCHANGED <<creature, player, tile, next_free_vm_id, game_paused,
                 guest, leaving, guiclients, slow, changes>>

\* The game ends: creature_shutdown kills what lives, then world_init makes a new map.
EndGame ==
  /\ phase = "io" /\ Change
  /\ phase' = "shutdown"
  /\ UNCHANGED <<serverVars, clientVars, guest, leaving>>

ShutdownKill(s) ==
  /\ phase = "shutdown" /\ s \in UsedSlots /\ \A r \in UsedSlots : s <= r
  /\ Kill(s)
  /\ UNCHANGED <<phase, leaving, changes>>

NewWorld ==
  /\ phase = "shutdown" /\ UsedSlots = {}
  /\ phase' = "round"
  /\ tile' = [t \in Tiles |-> 0]
  /\ next_free_vm_id' = 0
  /\ Send(guiclients, LAMBDA copy : HearWorld(copy))
  /\ UNCHANGED <<creature, player, king, game_paused, orphan, guest, leaving,
                 guiclients, slow, changes>>

Init ==
  /\ creature = [s \in Slots |-> ZeroCreature]
  /\ player = [p \in Players |-> [used |-> p \in Residents, name |-> 0, dirty |-> FALSE]]
  /\ tile = [t \in Tiles |-> 0]
  /\ king = Nobody /\ orphan = FALSE
  /\ next_free_vm_id = 0
  /\ game_paused = FALSE
  /\ phase = "io" /\ guest = Nobody /\ leaving = Nobody
  /\ guiclients = {} /\ slow = {} /\ lossy = {}
  /\ view = [c \in Clients |-> EmptyCopy]
  /\ changes = 0

CreatureStep ==
  \E s \in Slots :
    \/ \E p \in Players, x \in Positions, t \in Types : Spawn(s, p, x, t)
    \/ Die(s)
    \/ \E x \in Positions, t \in Types, st \in States, v \in Speeds : Act(s, x, t, st, v)
    \/ \E st \in States : SetState(s, st)
    \/ \E t \in Types : SetType(s, t)
    \/ KillCreatureOf(s)
    \/ ShutdownKill(s)

PlayerStep ==
  \E p \in Players :
    \/ \E n \in Names : CreatePlayer(p, n) \/ SetName(p, n)
    \/ DestroyPlayer(p)
    \/ PlayerLeft(p)

ClientStep ==
  \/ \E c \in Clients : Join(c) \/ Leave(c) \/ Stall(c) \/ Drain(c)
  \/ GreetPlayers \/ GreetKing \/ GreetCreatures

LoopStep ==
  \/ \E t \in Tiles, look \in Looks : ChangeTile(t, look)
  \/ Pause \/ EndIO \/ EndRound \/ SyncPlayers \/ EndMoves \/ SyncCreatures
  \/ \E k \in Players \cup {Nobody} : Crown(k)
  \/ EndGame \/ NewWorld

Next == CreatureStep \/ PlayerStep \/ ClientStep \/ LoopStep

Spec == Init /\ [][Next]_vars

-----------------------------------------------------------------------------
(* Properties *)

\* Clients with a whole stream, the greeted one excluded: neither demo files nor clients
\* that were slow, or had the descriptor a demo was written to, since they joined.
Settled == guiclients \ (lossy \cup {guest})

\* The copy c of a creature agrees with what the server believes to have sent of cr.
Shows(c, cr) ==
  /\ c.used = (cr.player # Nobody)
  /\ c.used => /\ c.player = cr.player /\ c.vm_id = cr.vm_id
               /\ c.x = cr.last_x /\ c.state = cr.net_state /\ c.speed = cr.net_speed
               /\ "type" \in cr.dirty \/ c.type = cr.type

ShowsPlayer(q, p) ==
  /\ q.used = p.used
  /\ q.used => p.dirty \/ q.name = p.name

\* At every moment, whenever a client joined and whatever others missed, its copy has
\* the creatures, players and tiles the server believes it has: dirty fields excepted.
\* One last_x serves all clients (creature.c:940) and a greeting resets it (creature.c:917).
ViewExact ==
  \A c \in Settled :
    /\ view[c].world /\ view[c].tile = tile
    /\ \A s \in Slots : Shows(view[c].creature[s], creature[s])
    /\ \A p \in Players : ShowsPlayer(view[c].player[p], player[p])

\* After the sync loop of a round the copies have the creatures as they are, although
\* speeds are only compared while walking (creature.c:656) and positions are differences.
InSync ==
  phase = "crown" =>
    \A c \in Settled, s \in UsedSlots :
      LET shown == view[c].creature[s] IN
      /\ shown.x = creature[s].x /\ shown.type = creature[s].type
      /\ shown.state = creature[s].state
      /\ creature[s].state = WALK => shown.speed = creature[s].speed

\* A client shows the king the server has, unless that player was destroyed since and
\* its slot, to which king_player still points, may be used again (player.c:995).
KingShown == \A c \in Settled : orphan \/ view[c].king = king

\* No client, not even one in the middle of its initial update, ever shows a creature of
\* a player it does not know: renderers look up the colour by the player's number.
OwnersKnown ==
  \A c \in guiclients \ lossy, s \in Slots :
    view[c].creature[s].used => view[c].player[view[c].creature[s].player].used

\* A client whose stream is whole never meets a PROTOCOL_ERROR, which would drop the packet
\* (a birth in a used slot, an update of an unused one), but for a king that is gone.
NothingRefused == \A c \in guiclients \ lossy : view[c].refused \subseteq {"king"}
================================================================================
