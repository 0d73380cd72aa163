# infon: a verification project in TLA+

infon is a programming game: a server (`infond`) simulates a world in which
creatures eat, fight and multiply, and every creature is commanded by a Lua
program one of the players has uploaded. Clients connect over TCP, either as
consoles for players or as GUI clients that receive a stream of packets and
draw the world.

This directory holds TLA+ modules that model the program, TLC configurations
that check small instances, and proofs that TLAPS checks for all instances.
`PROJECT.json` maps every definition to the lines it stands for.

## 1. Inventory

All of the server runs in one thread. `game_one_game` (game.c) is the only loop:
in each round of about 100 ms it calls the rules, the level, `player_round`, the
players' programs (`player_think`), `player_sync`, `creature_moveall`, and then
`server_tick`, which runs libevent once and so every network callback. There are
no data races; what is hard is that handlers call each other in the middle of
loops, that Lua programs and operators act between any two rounds, that ids,
pointers, paths and targets are kept over many rounds, and that slots are reused.

| Component | State | Operations | What makes it correct |
|---|---|---|---|
| Creature table (creature.c) | 256 slots, hash chains by `vm_id`, id counter, counts | spawn, kill, kill all of a player, game start and end, lookup by id | lookup is exact; ids are never reused in a game; counts agree |
| Creature rounds (creature.c) | the record of each creature | the commands of programs; `creature_moveall` and its eight `creature_do_*` handlers | limits of health and food; food is never made; whatever a creature is busy with ends; who is king |
| World (world.c) | grid of tiles with type and food | dig, add and eat food, level tick | tile limits; only plain tiles hold food |
| Path finder (map.c, path.c) | areas, portals between them (rings of pointers), a heap | dig merges areas; A* over portals | regions are the connected sets of plain tiles, areas divide them into rectangles; a path exists if and only if it should, stays on plain tiles, and is short |
| Players (player.c, player.lua) | player slots, ring of attached clients, score, `kill_me`, events, cycles | create, destroy, attach, detach, round, think, sync, king | ring and count agree; nobody is kicked for having no client while one is attached; clients know who is king |
| Rules (rules/default.lua) | king's time, end of the round | handlers called from creature.c and player.c | scores follow the events; a round ends once |
| Game loop (game.c) | time, pause, end | one round; one game after the other | time never runs back; nothing of a game survives it |
| Server and clients (server.c, listener.c) | client slots, ring of GUI clients, buffers, `kill_me` | accept, read, write, disconnect, turn into GUI client, file writers | rings are exact while broadcasts walk them; kicked clients go away |
| Replication (creature.c, client_*.c) | dirty masks, last sent values; the client's copy | update broadcast, initial update, apply | a GUI client's copy equals the server's state, whenever it joined |
| Packets (packet.c) | a buffer with offset | write and read integers, bytes | what is read is what was written |
| Sessions (infond.lua, server.lua) | Lua objects per connection, access rules | join, attach, rename, kick, ban | a session's player is the one it logged in to |
| Bot interface (api/*.lua) | coroutine per creature, event queue | blocking actions, dispatch of events | a program that is not cut off knows its creatures; each gets a coroutine |
| Not part of the core | | front ends, master pings, contributed tools, levels, vendored Lua | |

Interaction: programs call creature.c through player.c; creature.c calls
player.c on birth, hit and death; player.c calls the rules, which call back into
creature.c and world.c; everything that changes sends packets through server.c.

The hazards, each at its line, are in `PROJECT.json`.

## 2. Modules

| Module | What it is |
|---|---|
| `CreatureRegistry` | abstract: what everybody may assume of creature ids |
| `CreatureTable` | slots, ids, hash chains, counts at the level of the pointers; implements `CreatureRegistry` |
| `CreatureRound` | creatures, their commands, their rounds, the tiles under them, the rules' part in their lives, the king |
| `Audience` | abstract: who hears a player, and when a player may leave |
| `Rings` | the circular doubly linked lists that server.c and player.c write out by hand |
| `Connections` | client and player records, both kinds of lists, marks, the kick time, the main loop; implements `Audience` |
| `ClientCopy` | what a GUI client holds, and what each packet does to it (client_creature.c, client_player.c, client_world.c) |
| `Replica` | dirty masks, last sent values, broadcasts, greetings, dropped packets; composes the server's tables with one `ClientCopy` for each client |
| `Mailbox` | abstract: packets are taken one by one in the order in which they were posted |
| `Stream` | the bytes to one GUI client: buffers, compression, reads and writes that cut anywhere; implements `Mailbox` |
| `Regions` | which tiles are dug, and the regions of map.c |
| `MapAreas` | rectangles, portals and their rings under digging; extends `Regions` |
| `PathFinder` | the search of path.c over a `MapAreas` map, and a reference for it |
| `BotEvents` | the events of a player's VM, coroutines, cuts, both high level apis |
| `CreatureTableProofs`, `CreatureRoundProofs`, `ReplicaProofs`, `StreamProofs`, `PathFinderProofs`, `BotEventsProofs` | theorems and lemmas about the module of that name |
| `ConnectionsProofs` | the same about `Rings` and `Connections` |
| `MapProofs` | the same about `Regions` and `MapAreas` |
| `MCCreatureTable`, `MCCreatureRound`, `MCReplica`, `MCPathFinder` | values of constants, views and symmetry for TLC |

How they fit together:

* `CreatureRound`, `Replica` and `BotEvents` rely on `CreatureTable` for lookups by id.
* `CreatureRound` relies on `PathFinder` for what a path is: found exactly if plain
  tiles connect its ends, and leading over such tiles.
* `Replica` says what a client holds when it has read everything that was sent to it.
  `Stream` shows that packets are handled in order and one by one, so what a client
  shows at any time is an earlier state of its `view` in `Replica`.
* `Connections` and the creature modules meet in `player_destroy`, which each models
  for its own part: the lists in `Connections`, the creatures in `CreatureRound`, the
  packets in `Replica`, the VM in `BotEvents`.

### CreatureTable

`Spawn` is `creature_spawn`, `NewGame` is `creature_init`, `KillAllOf` and `Shutdown` are
the loops that kill many, and `doomed` is the rest of such a loop. `creature_kill` is two
steps, because it calls the rule handler onCreatureKilled in its middle. `BeginKill` is
`player_on_creature_killed`: the player has one creature less. Then the handler runs, with the
victim (`dying`) still in its slot, in its chain and in the global count; the handlers of the
rules look the victim up and ask for its food, they neither spawn nor kill. `EndKill` unlinks the
victim and frees its slot. So `LookupExact`, `CountsAgree` and `TableInv` speak of what a handler
sees in the middle of a kill, and of a loop of kills, too. `creature_spawn` calls its handler when
all that it does to the table is done, so that a birth is one step. As in the C memory, a killed
creature's slot keeps its id and its link, and the hash heads of a game are still
there when the next one begins. `Chain(b)` is what a walk along `hash_next` visits,
defined as the least set closed under the pointer, so that it can be reasoned
about without recursion.

### CreatureRound

Between rounds (`turn = Thinking`) programs give commands (`Cmd...`), the level
drops food and digs, the rules give creatures to a player that has none, and a
player may be destroyed. The code does these in a fixed order once a round; the
model allows them in any order and number, which includes the code's order. Then
`StartRound` and one `Move` per slot, as `creature_moveall` visits them: a free
slot is skipped, a creature dies (`Die`), or it grows older and does what its
state says (`Act...`, one operator per `creature_do_*` handler), after which the
hill is looked at. `EndRound` crowns the king.

The world is a row of tiles, `TileSize` positions each, instead of a grid; a walk
goes straight to its goal, one waypoint per path. `PathExists` says that all tiles on
the way are plain, which is what the path finder has to deliver on a row. The tables
of rates and limits are constants, as an operator may set them before a game:
`TableAssumption` says only that they are natural numbers and that every type in
use can live (creature_config.gperf has at least that). Left out are messages,
smiles, scores, and the operator's commands `creature_set_food` and
`creature_set_type`; events and network variables are in the modules below.

`round_vm_id` and `round_alive` are history: they remember how the round began so
that `HillRule` can be stated.

### Rings and Connections

player_attach_client, player_detach_client, client_turn_into_gui_client and
server_destroy update `next` and `prev` of up to three records by hand. `Rings` has
these assignments as operators on a pair of functions, `Connections` uses them twice:
for the lists of the players' clients and for the list of GUI clients. What the
functions of player.c change together is one record, `att`, so that an operator
`Detach(a, c)` or `Attach(a, c, p)` is the whole function, and actions such as
`JoinNew` (create a player, then attach) compose them as the code does.

`phase` is the place of the main loop: `player_round` ("round"), the handlers that
`event_loop` calls ("io"), the kick loop of `server_tick` ("kick"), `server_game_end`
("ending"), `on_game_started` ("starting"), and the end of the program ("shutdown").
In "io" connections come, break and send lines in any order; what the menus of
server.lua then do is one action per menu entry, with all the functions it calls. A
menu that waits for more input looks the player up again afterwards, so the guard is
that of the last step. Loops that destroy are steps of their own, one record or one
detached client each. `player_create` fails when the bot's start code is missing;
then the record is free as before and nothing else happened.

A free client record keeps its GUI links and mark as the C memory does
(`server_accept` clears them), a freed player record keeps its kick time and score
(`low`). `disconnected_for` is `real_time - all_disconnected_time`: it is only
compared with a kick time, so it stops at the first second that is too many.
`Losers` are the players whose score may fall to the limit; in the code the score
may also change in the middle of a round (rules, fights), which has the same effect
on `player_round` as a change before it.

Left out: names and passwords, access rules, the `output_client` that is set and reset
within one call.

### Replica and ClientCopy

The server sends a creature as a mask of fields and their values; a position is the
difference to the last one sent, and there is one last position for all clients. A
creature's record in `Replica` has its actual values (`x`, `speed`, ...), the network
variables of `creature_update_network_variables` (`net_...`), the last sent position
and the dirty mask. A birth and a death are broadcast at once, the rest waits for the
second loop of `creature_moveall` (`SyncCreatures`); `player_sync` does the same for
players, tiles are told at once. A joining client gets the world within the call that
makes it a GUI client (`Join`), then the players, the king and the creatures, each in
one step, as nothing runs between the packets of one such loop; `guest` is that client.
Its greeting resets the last sent positions, which are everybody's.

`slow` clients have more than a megabyte of backlog, so that `server_writeto` drops what
is sent to them. A demo file has no backlog: `server_writeto` writes at once, but to the
descriptor that has the number of the file's slot (server.c:282), not to the file. The slot is
the first one that was free (server.c:75-88), which says nothing about who has that descriptor. So
the file gets none of its packets (`Hears`), and each of them may turn up in the
stream of any client (`Strays`, at most one client for each file). `lossy` has
the clients whose stream is not what was sent to them since they joined: those that were slow, those
whose descriptor was hit, and all demo files (`Spoils`). The properties speak of the others, for
the code has no way to repair a stream; of demos nothing is claimed. The log file of a
bot (infond.lua:757) is written in the same wrong way and would hit clients likewise. A packet that contradicts the copy is a PROTOCOL_ERROR, after which the
copy is as it was; `refused` collects the kinds.

`king` is `king_player`, a pointer to a record that is not cleared when the player is
destroyed (player.c:995); while a game is paused nobody is crowned anew, and the
record may be used again. `orphan` remembers that. The model allows creatures to act in
any way within a round (`Act`), which includes what `CreatureRound` has them do.

CREATURE_DIRTY_FOOD_HEALTH is treated like the state, MESSAGE like the type, colour and
score like the name of a player: the same code with another field. Left out are the
target, smiles, the packets that are not about the game's tables (ROUND, GAME_INFO,
INTERMISSION, SCROLLER, QUIT), the widths of the integers, and what a renderer
interpolates.

### Stream and Mailbox

A packet has two units, header and body, so that reads and writes can cut between and
within packets. All buffers are intervals between counters, because bytes keep their
order in each of them: deflate, `out_buf`, the socket, `in_buf`, `packet_buf`. The one
place that takes bytes out of order is the start of the compression: the client has
read on in the stream that begins to be compressed, and puts what is left in
`packet_buf` back behind what is in `in_buf`. `raw_end` is how far units were moved
without inflate; compressed units among them, or plain ones among those that were
inflated, make the stream "garbled". A compressed unit stands for its bits and what a
flush adds. Only `server_writable` and `server_destroy` flush the compressor, so that
`server_writeto` sees an `out_buf` that lacks what deflate keeps (`Hold`).

`Limit` is the megabyte of server.c, counted in units; it is assumed not to drop the three
packets of the greeting (server.c:272 sets `compress` even if the packet that announces
it was dropped). Left out: file writers, whose bytes might land in this connection if it has the
descriptor with the number of their slot (the properties are about a connection that has not), the buffers of text clients (the same without
packets), text that `wall()` writes to a client in the middle of the handshake, and the
client's own limit for what it inflates.

### Regions, MapAreas and PathFinder

`map_dig` gives the new tile a region, merges the regions around it, makes an area of
one tile, connects it to its neighbours by portals, and merges areas as long as two of
them have a common side of equal length; portals that continue each other are merged
too. A portal has two sides, each an element of the ring of its area, in clockwise
order. The model has the pointers: `first` of an area (`area->portals`; no entry is NULL),
`next` and `prev` of a side, each changed by the assignments of the code, and `Ring` is the
walk along `next` by which the code's loops visit the sides. A loop that starts again
after each merge is a recursive function as long as there are portals, as each merge frees one.
An area is named after the tile that was dug when it was allocated, so that memory is not reused. A failed
assertion stops the program: `sound` becomes FALSE. This is about the assertions on what is
merged (map.c:125, map.c:128, map.c:486, map.c:505); those that `next` and `prev` undo each
other follow from the invariant of the proofs (`Linked`). Only tiles within the border are
dug, as world.c sees to.

`PathFinder` is the search of path.c with the heap as it is. `path_id` marks portals that
the current search has seen; the model begins each search with an empty record, which
is the same until the counter wraps. Ways are searched between the middles of tiles.
A loop is a function of the number of turns it has made, evaluated where the loop has ended
for certain: a turn after the end changes nothing. For the heap that is the index it starts
from or the length, for the search `MaxTurns`, more than there are portals and costs;
TLC looks for the end in strides and never evaluates that many. `NoPortal` stands for the
null pointer among portals.

`Root` cuts the root of a sum of squares as `(int)sqrt` does. It looks for it between bounds
that are close, so that TLC has few numbers to try. The sum is an int in the code: a square
above `MAX_INT` overflows, and whatever an overflowing build makes of it is `Overflown`, of
which nothing is assumed.

### BotEvents

One VM; other players only hit and kill its creatures. `turn` follows the main loop:
`player_think` handles the events ("events"), then onRoundStart, then each creature's
coroutine ("threads"), `creature_moveall` ("moves"), handlers of the network ("io"), and
the end of a game. A creature's coroutine does not exist yet ("none"), is about to run
("ready"), waits in a blocking action (it is named like the action), or is "dead"; of a
creature only the action it is in is kept. A program does anything: each handler and each
turn may command one creature (more commands do the same more often), and a turn ends with
the coroutine waiting, ready or dead. With `Overruns` a program may be cut off in any handler
and any coroutine; a cut leaves player_think, since the 16 cycles of grace let no further
call succeed.
Errors in onThreadStart and memory errors act like cuts.

Events of a round that was cut are lost: `player_init_events` clears them after
`player_think` in any case. `missed` remembers that, for the properties speak of programs
that missed nothing since their VM was created. A VM outlives its game, while ids begin at 0
again. Lines that clients send are executed by the VM between rounds (`Execute`, `Restart`).
Creatures die in their moves, by killall, with their player, and at the end of a game; an alarm that ends a
program for good is a `Destroy` in the next `player_round`.

## 3. What the runs check

| Run | Question | Instance |
|---|---|---|
| `creature_table` | are the chains, counts and ids right? | 3 slots, 2 buckets, ids 0 to 4, 2 players |
| `creature_life` | can creatures break limits, make food, or leave the plain, whatever they do and whatever is done to them? | 2 slots, ids 0 to 2, 4 tiles of 2 positions |
| `creature_hill` | who is king, who is hurt, and does everything end that a program waits for? | 2 slots, a big and a small creature of two players on the hill, the small one hits for no points and gives birth at rate zero, blocking programs, fairness |
| `connection_lists` | are the lists exact and the pointers valid, whoever comes and goes? | 3 clients, 2 players, no clock |
| `connection_times` | is nobody removed early, and everybody in the end? | 2 clients, 1 player, kick time 1 s, fairness |
| `replica` | does a client with a whole stream show the game, whenever it joined? | 2 clients on sockets, a demo file, 2 slots, 2 players, 5 changes |
| `stream` | are packets handled in order, however the stream is cut? | limit of 8 units, deflate holds 3, socket takes 5, 14 packets |
| `map` | are regions, rectangles and portals right, and the ways found walkable and, but for rounding, cheapest? | nine tiles dug in every order |
| `bot_events` | does a program know its creatures, and does each get a coroutine? | 2 ids, 5 events, both apis, cuts, fairness |
| `creature_king`, `creature_flyer_path`, `bot_creatures` | three disagreements between the code and what it says | see below |

Properties of the creature modules:

* `TableInv`, `LookupExact`, `CountsAgree`, `RegistryImplemented`: the table, in the
  middle of a kill too, when the player's count is already without the victim and the
  lookup still finds it.
* `Bounds`: health stays in 1..max and food in 0..max, for each living creature,
  whatever mixture of costs, hits, gifts, aging and changes of type it undergoes.
* `Invested`: food put into a conversion or a birth belongs to one under way.
* `FoodConserved`: a step moves or loses food; only the rules' gift to a new born
  creature makes some. `TickFood`, where the level drops food, changes no creature
  and is exempt.
* `NoFriendlyFire`: a turn never harms a creature of the same player, although
  targets are ids that may have come to mean something else.
* `HillRule`: in rounds without a birth, a king holds the hill alone; if nobody
  died either, whoever holds it alone is king. The two conditions are what the code
  delivers: a death on the hill may cost the round, a birth may confuse it.
* `GroundWalksOnPlain`: the assertion at creature.c:222. In `creature_life`
  small creatures become flyers or big, and flyers stay flyers; `creature_flyer_path`
  shows what happens in the other direction.
* `BusyEnds`: healing, eating, attacking, converting and spawning end, also when nothing
  moves because a rate is zero. An operator can leave two rates at zero, and the run has
  both: hits of no points, and births, where a `spawn_type` is set and the `spawn_speed` is
  not. Rates of healing, eating and converting have minima in creature_config.gperf that are
  more than nothing in a round, which is never shorter than 100 ms.

Of the connections:

* `ListsExact`: the list of a player, and the list of GUI clients, is one ring
  through exactly the clients that point to the player (are marked as GUI clients),
  a walk from the head visits just these, and the counter counts them.
* `PointersValid`: no client points to a free player, no free client record to a
  player, and the bot's output goes to a client that still hears it. It contains the
  assertions at the end of `server_destroy`.
* `AudienceKept`: the refinement of `Audience`. A player that was not condemned (mark,
  score, end of the program) leaves only after more than its kick time without a
  client, counted from the last departure, and never while somebody hears it.
* `MarkedClientsGo`, `AbandonedPlayersGo`: who was kicked, or whom nobody hears, is
  removed in the end.

Of the replication, for clients on sockets whose stream is whole (not in `lossy`):

* `ViewExact`: at every moment the copy has the creatures, players and tiles that the
  server believes it to have (its last sent values; dirty fields excepted). One last
  position for all clients, and a greeting that resets it, must not disturb this.
* `InSync`: after the second loop of `creature_moveall` it has them as they are, although
  speeds are only compared while a creature walks.
* `KingShown`: it shows the server's king, unless that player was destroyed since.
* `OwnersKnown`: not even in the middle of a greeting does it show a creature of a player
  it does not know.
* `NothingRefused`: no packet contradicts it (but for a king that is gone).

Of the stream: `Readability` (no compressed byte is parsed as a packet, no plain one inflated),
`NoNullWrite` (the server never wakes up to write nothing, which it would take for an
error), `BacklogBounded` (what a client that does not read makes the server keep), and
`MailboxImplemented`, the refinement: order, no gap, and everything arrives while the
connection is open.

Of the map:

* `RegionsAreComponents`: two dug tiles have the same region exactly if a walk over dug
  tiles connects them; the search gives up at once by this test.
* `RingsAreSound`: areas divide the dug tiles into rectangles, and each ring has each side
  once, clockwise. Where a new side is put in depends on that order.
* `PortalsFitAreas`: two areas that touch have one portal, as wide as the way between them.
* `NothingLeftToMerge`: a dig that merges around the changed area leaves no pair to merge.
* `AssertionsHold`: portals that are merged lie next to each other on both sides, and an area
  that is taken over is another one and owns the tiles of its rectangle.
* `PathsAreWalkable`: between tiles of one region a way is found, between others none; it
  ends where it should and no leg leaves the dug tiles.
* `PathsAreShort`: the search stops at the first portal of the start's area that comes out
  of the heap; no chain of portals is cheaper (computed by relaxation, without heap) by more than
  a pixel a portal. The pixels are needed: `path_calc_cost` cuts off fractions, so that what is
  estimated to be ahead can be a pixel more than what the legs ahead cost, and the search may stop
  a pixel too early. On the nine tiles of the run it never does; on maps of 12 tiles width
  and more it happens.

Of the programs, while they missed no event. That includes programs that are cut off in a
coroutine or in onRoundStart, when the events have been handled. A program that is cut off in the
middle of its events loses the rest of them; what it does with the half that it handled is in the
model, but nothing is claimed of it until its VM is created anew:

* `CreaturesExact`: the table of creatures is what lives, once the pending events are heard,
  also over games that give ids again.
* `EventsFit`: no event is about a creature that is not in the table when it is handled, or
  the birth of one that is: the assertion and the indices of `player_think` hold.
* `Manned`: each creature in the table has, or had, a coroutine. `NewbornsAreManned`: each
  creature that is born gets one, unless it dies before.

The violations:

* `KingHoldsHill`: a creature on the hill is killed later in the round, and a
  creature born later still takes its slot. `CREATURE_USED` at creature.c:756 sees a
  used slot and the new creature's player is made king, wherever it was born.
* `GroundWalksOnPlain`: a flyer sets a path over solid tiles, converts to a small
  creature, and walks the path it still has.
* `AllYourCreatures`: `player_think` of api/oo.lua calls `creature:restart()` for each birth
  without pcall; it fails for a creature that is already dead, and the rest of
  the events, with later births, is lost although the program did nothing wrong.

### Bounds, and why they are enough

Ids are bounded by `MaxVmId` (no birth starts without an id left); the table run
gives out more ids than slots and buckets, so that slots are reused and chains of
every shape up to three long come and go in every order. The rates of the tables
are scaled so that a round moves one or two units; which entries are zero and which
of two is larger is kept, but for tables an operator may set to reach a case in fewer
rounds: in `creature_life` all types have the same health and carry little food, and
only flyers age; in `creature_hill` nobody ages, and small creatures may give birth for food but
put none into it. Two units are enough for every handler to run more than one
round and to be interrupted in between. Two slots are enough for giver and target,
parent and child, full table and free slot. Healing is in `creature_hill` only. Who
may be hurt and who becomes king is proved for any number of creatures, so two on the
hill suffice for the run; the violation needs three (a victim, its killer, a parent).

Three clients are the least number for which a member of a list has two different
neighbours, so that a wrong neighbour, a wrong head and a wrong last member can be
told apart; two players let clients move between lists and records be reused while
another is in use. `connection_lists` leaves out the clock (kick time 0, no `Losers`),
which changes no list. In `connection_times` the clock may stand still, move by one
second, which is the kick time, or jump past it (`MaxElapsed`), and every second call
of `server_tick` runs the kick loop (`KICK_TICKS`, 10 in the code), so that marks wait
for a pass.

In `replica`, `MaxChanges` bounds what happens outside the sync loops: births, acts, deaths,
joins, departures, backlogs, destroyed players. Five are enough for a birth, an act, the joins of
two clients and one more between them: two sockets that join at different times and stay whole, or a
socket and the demo that hits it; the invariants are also proved without the bound. The
two sockets are a symmetry set (`MCReplica`): clients are only compared with each other. The
`stream` has room for the greeting, packets before the compression shows effect, a backlog over the
limit and packets after it drained; `Window` and `Hold` are odd, so that they cut packets.

The map of 5 by 5 tiles has nine that can be dug. All orders of digging give one to nine areas
with up to eight portals, areas with portals on all sides, rings that wrap around, and
merges that cause further merges. Ways are looked for between any two of them (`Starts`). The
view `Shape` of `MCPathFinder` identifies states that differ only in the names of areas and
portals, that is, in which dig made them: names are only compared, so such states
have the same future and the same properties. `MaxOpen` is that of the code; no open set of this
size fills it. `bot_events` has two ids, which is what it needs for one creature that dies
while another is born and for ids given again, and five events between two rounds.

### Fairness

`FairSpec` of `CreatureRound` has weak fairness of `Engine`, the steps the game loop takes
by itself: the loop never blocks, and a program that computes for too long is cut off by its
cycle limit, so the programs' turn always ends. Nothing is assumed of programs, levels or
operators. `BusyEnds` is about programs that command a creature only when it is idle,
as api/state.lua makes them ("blocking"); a program that restarts an action in each
round is never done, of course. Feeding is not included: two creatures can feed each
other forever. It also needs tables in which a hit is more than one round of healing.

In `Connections` the loop's own steps are weakly fair (`event_loop` does not block,
every call ends), and a pass where the clock has moved is strongly fair: passes recur
for ever, and the clock does not stand still in all of them. Nothing is assumed of
clients, operators or bots. That `should_end_game` or a signal ends games again and
again does not disturb this, as a game that is entered makes passes.

In `Stream` both event loops run and the client reads what there is: `server_writable` when the
socket takes something, the handler of the line "guiclient", `client_readable` and the two
loops of `client_parse_in_buf` are weakly fair. That a packet is sent, or that a connection ends,
is not assumed. A client that does not read is covered by the safety properties, which need
no fairness.

In `BotEvents` the loop is weakly fair, and `Think` is strongly fair: a game may be paused again and
again, but not in every round for ever.

## 4. What is proved

For every value of the constants, under the named assumptions of the modules:

* `CreatureTableProofs`: `TypeCorrect`, `TableSound`, `LookupIsExact`,
  `CountsAreExact`, `ImplementsRegistry`. The inductive invariant is
  `TypeOK /\ TableInv /\ CountsAgree`. `TableInv` is stated by neighbours (a link
  leads to an older used slot of the same bucket; each used slot is led to by exactly
  one pointer), because that is what unlinking preserves; that a walk therefore
  reaches every used slot (`ChainIsComplete`) is an argument by the largest id that is
  not reached. The refinement maps an id to the player of the slot that has it.
* `CreatureRoundProofs`: `TypeCorrect`, `BoundsHold`, `InvestedHolds`, `FriendsAreSafe`,
  `TheHillDecides`, `FoodIsConserved`, `GroundStaysOnPlain`. The inductive invariant is `TypeOK` and that every used slot holds a
  sound record: typed, within the limits of its type, owing no invested food, on a dug tile
  when it converts. Each helper maps sound records to sound records (a handler may pass through
  a record that has just paid the full price, which `Whole` allows), and each action
  changes the table only by those helpers. A second lemma says that doomed slots are
  slots. The proofs cover self-feeding and full tables.
  `FriendsAreSafe` follows from lemmas on what an act of one creature does to another
  (`OthersAfterAct`): it gives health or food, or hits, and the only act that hits asks for
  another player first. `TheHillDecides` needs an invariant on the middle of a round,
  `Watched`: as long as nobody was born, whoever had its turn and is still on the hill is
  remembered; if these are friends, the remembered one stands for all, and if they are
  not, the flag says so. That a birth takes the first free slot needs that there is a first
  one, for which the well-foundedness of `<` is cited.
  `FoodIsConserved` is about a sum over slots and tiles. The sum is a function on `0 .. n`
  whose laws (equal summands, one summand changed, two that trade) are shown by looking at
  the least place where they would fail. Each helper then has to say only by how much it
  changes the account: eating, feeding, dying and being born move food or create it where
  the property allows it. `GroundStaysOnPlain` needs that a creature on a path heads for
  its next tile in the way of its own type (`Heading`). It has the hypothesis
  `FlyersStay`, that the types programs ask for (`Conversions`) are none that a flyer can
  become; with the table of creature.c:356, that they do not ask for small creatures. Without
  it the statement is false, which is what the run `CreatureFlyerPath` shows.
* `ConnectionsProofs`: `ListsAreExact`, `PointersAreValid`, `ConnectionsTypeCorrect`,
  `ImplementsAudience`, for every number of clients and players. A record of
  attachments is `Sound` if each list is a ring through its clients and is counted
  right, clients without a player have no links, and the bot's output is heard. Each
  function of player.c maps sound records to sound records, so each action only has
  to compose them. The invariant `Ind` adds the GUI list, that who is heard is in use
  (`Held`), and that a player being destroyed had a reason (`Going`); the latter is
  what the refinement needs between the decision in `player_round` and the end of
  `player_destroy`. The rings are treated first, without induction: a ring
  is a set that `next` and `prev` undo each other on and that has no proper subset
  closed under `next`; insertion and removal are shown to keep this by turning a
  closed subset of the new ring into one of the old.
* `ReplicaProofs`: `TypeCorrect`, `ViewIsExact`, `AllInSync`, `KingIsShown`,
  `OwnersAreKnown`, `NothingIsRefused`, for any number of clients, slots, players, tiles and
  changes. The invariant has a part about the server alone (`ServerInd`: the last sent
  position is the network position, creatures belong to players in use, the king is in use
  unless orphaned, and nothing is dirty after the loop), that each settled client follows
  it (`Following`), and how far the greeting of a guest is whose stream is whole (`Greeting`). What a packet does to a
  copy is stated in lemmas about values, so that an action has to say only who hears which packet.
* `StreamProofs`: `TypeCorrect`, `AlwaysReadable`, `NeverNullWrite`, `BacklogIsBounded`,
  `StreamIsMailbox`, for every limit, window and number of packets. The invariant says how far the
  handshake is on both sides, that the server waits for the socket only if there is
  something to write, and that units which were moved without inflate are plain or will be put back
  before they are parsed. `StreamIsMailbox` is the safety part of the refinement.
* `MapProofs`: `RegionTypeCorrect`, `RegionsAreExact`, `RingsStaySound`, `PortalsStayExact`,
  `MergingIsComplete`, `MapAssertionsHold`, on a map of any size (the code's maps have at most
  255 by 255 tiles, which the values of sides need) and in any order of digging. Connection of
  regions is stated by closed sets (two tiles are connected if no set closed under walking
  parts them), which needs no induction on the length of a walk.
  Of the areas the inductive invariant is `MapInd`. `MapInv`, its part that holds between any
  two changes of a dig, says that rectangles are exactly the tiles of their areas, that a
  portal lies on the common edge of its areas, that portals of one pair do not overlap, that
  two neighbours in different areas have a portal over their edge (`Covered`), and that
  `next` and `prev` are sorted rings (`Sorted`: undoing each other, values different, and no
  side of the area is passed between a side and its next one). The order is what makes a
  ring one ring: a walk comes by every side of the area, since one that it never meets
  would be passed somewhere (`WholeRing`). Each change is shown to keep `MapInv`: a
  side that fits behind `cur` finds a place (`PlaceExists`) and keeps the order; while the
  new tile is connected, `Covered` has gaps that the four calls of `area_connect` close one
  by one; the mergable next side has its partner right before it in the other area's ring
  (`MergableIs`), which is what the assertion asks; and when two areas become one, the values
  of one ring lie in a gap of the other, so that the spliced ring is sorted again
  (`RingsSpliced`, `UnitedSorted`). `Paired`, that two areas have at most one portal, is
  lost by a merge of areas only around the merged one, and regained when no portal there is
  mergable (`MergedPaired`). `Settled`, that only the area at work has
  neighbours to merge with, holds after the new area was added, as nothing else changed, and is
  kept by merges; when the loop ends nothing is left anywhere. That the loops end within the
  number of portals is a count of portals (`AreaMergedKeeps`, `MergingKeeps`).
  Statements on what a loop has done after n turns are shown by the least n for which they fail.
* `PathFinderProofs`: `SearchesEnd`, `WaysAreAlwaysFound`, `WaysStayOnDugTiles`, `PathsStayShort`,
  `SmallMapsFit`, on a map of any size, after any digging, from and to any dug tile. They have the premise `SearchFits`: the
  squares of distances fit an int (`SquaresFit`: a map of up to 127 by 127 tiles within its
  border, or one that is longer in one direction and shorter in the other), and there are no more
  portals than the open set has room for. `SmallMapsFit` shows that the latter holds if the tiles
  within the border are at most half of `MaxOpen`, 8192 in the code, since a tile has at most
  one portal to the right and one downward; the levels in the repository have at most 64 by 46.
  The map enters through `GraphSound`, derived from `MapInd` of `MapProofs`: rings list
  exactly the portals of an area, and centers of portals are on the map. The cost of a leg is
  a root cut off, which obeys the triangle inequality up to a pixel (`CostTriangle` and the lemmas
  before it). Lemmas on the heap say that each operation keeps the entries, changed as meant,
  and the heap order, with at most one entry out of place while it moves.
  The inductive invariant of the turns is `Searched`: the open set is a heap of portals with
  their costs and estimates; the portals of the area from which an entry was entered, of both areas
  of a portal taken out and of the end's area are known and cost, but for a pixel, at most what the
  way over it costs (`Around...`); and costs fall along `path_prev` (`Descending`). A turn takes an entry
  out, and a portal comes back only at a lower cost, so that `Work`, a finite set of pairs of a
  portal and a cost, loses one with each turn (`SearchesEnd`). If the heap ran empty, the portals known would be closed under
  sharing an area, and the regions of start and end would differ, against `RegionsAreExact`
  (`WaysAreAlwaysFound`). `Reckoned` compares the costs with the relaxation of the reference, one portal more
  at a time, and looks along the cheaper chain for the entry that is still open, whose estimate
  the first entry of the heap does not exceed (`PathsStayShort`).
  A leg stays on dug tiles (`WaysStayOnDugTiles`) if it lies in one rectangle or goes from a tile
  to the next one, which asks that a way crosses each of its portals: `path_prev` has to lead into
  the area in which the portal was reached. This is not plain, as a portal that was already taken
  out of the heap may be reached again, from its other side, when that way is a rounded pixel
  cheaper. `Sided` is the invariant for it: there is a choice of a side for each known portal, that
  in which it was reached, and the side of a portal is the other one of its predecessor's areas. It
  is kept (`SpreadSided`) because a portal that is reached again in an area can lead to none in the
  same area: such a one is reached from the way itself at no more. That needs that within an
  area no detour looks shorter (`Flat`), exactly and not up to a pixel. Centers of portals are on
  the sides of a frame, at least 127 pixels from its corners (`Framed`), so that a detour over another
  side is longer by more than is cut off (`DetourIsLonger`), while distances along one side
  have nothing cut off (`AlongAxis`). `LegsDug` then follows the way portal by portal.
* `BotEventsProofs`: `TypeCorrect`, `CreaturesAreExact`, `EventsAlwaysFit`,
  `CreaturesAreManned`, for any number of ids, events, apis and actions. `CreaturesExact` and
  `EventsFit` are stated with `Lives`, which reads a list of events by the last one about a creature;
  lemmas say what it tells of a list to which an event is appended and of one whose first
  event was handled. With that, the three properties and `TypeOK` are inductive after adding
  where the loop is (`Between`), that a player without VM has nothing (`Unused`) and that ids
  were given out (`IdsGiven`).

`TypeOK` of `Replica`, `Regions` and `BotEvents` is proved and not run.

Every safety invariant and action property that a passing run checks is stated by a theorem, those of `PathFinder`
with the premise `SearchFits`. Only model-checked is liveness, which is out of the prover's
reach: `BusyEnds`, `MarkedClientsGo`, `AbandonedPlayersGo`, `NewbornsAreManned` and the liveness part of
`MailboxImplemented`.

## 5. Not modelled, and why

About half of the lines of the repository are the vendored Lua interpreter, and most of the rest
are front ends (SDL, OpenGL, curses), tools and bots in contrib, and data. Of the engine:

* Sessions: names, passwords, access rules, bans and rate limits of infond.lua and server.lua.
  They are sequential code on strings and addresses, and nothing but a name in a list depends
  on it; what the menus do to clients and players is in `Connections`.
* The rules' scores and the king's time: additions to numbers that the engine only reads to
  kick players with a low score, which `Connections` leaves open.
* Programs with half of their events handled: modelled in `BotEvents`, but no property speaks
  of them (`missed`).
* What reaches a demo file, and a client whose descriptor it is written to: `Replica` has that this
  happens, not what such a stream then shows.
* Rule handlers that spawn or kill in the middle of a kill: those of the repository do not.
* The clock of game.c: it decides when a round is due; all modules allow a round at any time.
* The integers of packet.c and the 15 bits of an id: `Replica` has values, not bytes. A game
  would need 32768 births to meet the assertion.
* The pinger sends a datagram without an answer.
* Front ends and the interpolation of movement: they show the copy that `Replica` has.
* Reading functions of player.c (distances, nearest enemy), messages of creatures,
  configuration and start-up: no state, or pure I/O.

What could come next, in order: a module `Sessions` with the menus' waits between reading a
player number and using it; a grid under `CreatureRound` in place of the row.

## 6. Observations

Met while reading, and not the subject of a run:

* rules/default.lua:59 reduces the food of a victim without killer ("Suiciding returns less
  food"), but creature.c:682 names the creature itself as the killer of a suicide.
* server.lua:95 divides the kick time by 1000 as if it were in milliseconds; the warning
  announces that the player is killed within 0 seconds.
* api/state.lua:301: `sleep` loops while `now + msec < time()`, which is false at
  first, so it does not wait.
* api/state.lua:496 asks for the food of a tile of a creature whose death the program missed; the
  error leaves `player_think` in every following round.
* infond.lua:69 to 71 removes an expired rule from the list it is iterating, so the next
  rule is skipped.
* infond.lua:202 to 205 reads a player number, may wait for a password, and then renames
  whoever has that number by now.
* server.c:272 turns compression on although the packet that announces it may have been dropped.
* server.c:282 writes what is for a demo or log file to the descriptor with the number of the
  client's slot, `client_num(client)`, instead of `client->fd`.
* path.c:65: entries that do not fit into the open set are dropped silently, so that on a
  very large map a way may be missed or be longer than necessary; with up to 8192 tiles within the
  border that cannot happen (`SmallMapsFit`).
* path.c:35: `xd * xd + yd * yd` overflows for distances of more than 46340 pixels, which a
  map of more than 127 by 127 tiles within its border can have.
* path.c:35: the fraction that is cut off makes the estimate of A* a pixel too great at times, so
  that the way found may be a pixel a portal longer than the shortest one.
