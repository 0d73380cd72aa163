------------------------------- MODULE Connections -------------------------------
(***************************************************************************)
(* Clients and players: the client records of server.c, the player records *)
(* of player.c, and what ties them together - the list of a player's       *)
(* clients, the list of the GUI clients, the kill_me marks by which Lua    *)
(* code throws out a client or a player, and the time a player may stay    *)
(* without a client.                                                       *)
(*                                                                         *)
(* The program is single threaded.  phase says where its main loop is:     *)
(* every pass runs player_round, then server_tick, whose event_loop calls  *)
(* the handlers of whatever happened on the connections, in any order.     *)
(***************************************************************************)
EXTENDS Rings, FiniteSets

CONSTANTS
  MAXPLAYERS,           \* number of player records
  NO_CLIENT_KICK_TIME,  \* seconds a new player may be without a client
  KICK_TICKS,           \* server_tick throws out marked clients every so many calls
  MaxElapsed,           \* bound: seconds from one pass of the loop to the next
  Losers                \* bound: players whose score may reach PLAYER_KICK_SCORE

ASSUME ConnectionsAssumption ==
  /\ MAXPLAYERS \in Nat \ {0}
  /\ NO_CLIENT_KICK_TIME \in Nat
  /\ KICK_TICKS \in Nat \ {0}
  /\ MaxElapsed \in Nat
  /\ Losers \subseteq 0 .. MAXPLAYERS - 1

Players == 0 .. MAXPLAYERS - 1

\* How a client came to be: a connection, a demo (kicked at the end of the
\* game), a log file of a bot.
Kinds == {"socket", "demo", "log"}

VARIABLES
  used,            \* client records in use: CLIENT_USED, the in_buf
  kind,            \* is_file_writer and kick_at_end_of_game
  kill_me,         \* clients that carry a kill_me message
  num_clients,     \* server.c's count of the clients
  att,             \* who hears whom: see Attachments
  gui,             \* the GUI clients: see GuiClients
  present,         \* player records in use: PLAYER_USED, the Lua state
  doomed,          \* players that carry a kill_me message
  low,             \* players with a score of at most PLAYER_KICK_SCORE
  no_client_kick_time,
  phase,           \* where the main loop is
  dying,           \* the player that player_destroy is at work on, or NULL
  kicktick         \* server_tick's counter, modulo KICK_TICKS

clientVars == <<used, kind, kill_me, num_clients>>
playerVars == <<present, doomed, low, no_client_kick_time>>
loopVars   == <<phase, dying, kicktick>>
vars == <<clientVars, att, gui, playerVars, loopVars>>

\* real_time - all_disconnected_time is compared with a kick time only, so it
\* is kept up to the first value that exceeds every kick time.
Seconds == 0 .. NO_CLIENT_KICK_TIME + 1
Later(age, seconds) ==
  IF age + seconds > NO_CLIENT_KICK_TIME THEN NO_CLIENT_KICK_TIME + 1 ELSE age + seconds

\* The fields player, next and prev of the client records, and clients (the
\* head), num_clients, bot_output_client and real_time - all_disconnected_time
\* of the player records.
Attachments ==
  [player : [Clients -> Players \cup {NULL}],
   links : LinksSet,
   clients : [Players -> Pointers],
   num_clients : [Players -> Nat],
   bot_output_client : [Players -> Pointers],
   disconnected_for : [Players -> Seconds]]

\* is_gui_client, next_gui and prev_gui, and guiclients (the head).
GuiClients == [is_gui_client : SUBSET Clients, links : LinksSet, guiclients : Pointers]

Phases == {"starting", "round", "io", "kick", "ending", "shutdown"}

TypeOK ==
  /\ used \in SUBSET Clients
  /\ kind \in [Clients -> Kinds]
  /\ kill_me \in SUBSET Clients
  /\ num_clients \in Nat
  /\ att \in Attachments
  /\ gui \in GuiClients
  /\ present \in SUBSET Players
  /\ doomed \in SUBSET Players
  /\ low \in SUBSET Players
  /\ no_client_kick_time \in [Players -> {0, NO_CLIENT_KICK_TIME}]
  /\ phase \in Phases
  /\ dying \in Players \cup {NULL}
  /\ kicktick \in 0 .. KICK_TICKS - 1

ClientsOf(p) == {c \in Clients : att.player[c] = p}
GuiRing      == used \cap gui.is_gui_client

\* The main loop of infond.c begins; the console client is accepted before it.
Init ==
  /\ used = {0}
  /\ kind = [c \in Clients |-> "socket"]
  /\ kill_me = {}
  /\ num_clients = 1
  /\ att = [player |-> [c \in Clients |-> NULL],
            links |-> NoLinks,
            clients |-> [p \in Players |-> NULL],
            num_clients |-> [p \in Players |-> 0],
            bot_output_client |-> [p \in Players |-> NULL],
            disconnected_for |-> [p \in Players |-> 0]]
  /\ gui = [is_gui_client |-> {}, links |-> NoLinks, guiclients |-> NULL]
  /\ present = {}
  /\ doomed = {}
  /\ low = {}
  /\ no_client_kick_time = [p \in Players |-> 0]
  /\ phase = "starting"
  /\ dying = NULL
  /\ kicktick = 0

--------------------------------------------------------------------------------
(***************************************************************************)
(* The functions of player.c and server.c that the handlers call, on the   *)
(* records they change.                                                    *)
(***************************************************************************)

\* player_detach_client, for a client that has a player.
Detach(a, c) ==
  LET p    == a.player[c]
      last == a.num_clients[p] = 1
  IN  [player |-> [a.player EXCEPT ![c] = NULL],
       links |-> ClearLinks(IF last THEN a.links ELSE Unlink(a.links, c), c),
       clients |-> [a.clients EXCEPT ![p] = IF last THEN NULL ELSE a.links.next[c]],
       num_clients |-> [a.num_clients EXCEPT ![p] = @ - 1],
       bot_output_client |-> [a.bot_output_client EXCEPT ![p] = IF @ = c THEN NULL ELSE @],
       disconnected_for |-> [a.disconnected_for EXCEPT ![p] = IF last THEN 0 ELSE @]]

\* Mutant of DetachFromAny: whoever has a player keeps it.
LeaveAttached(a, c) == a

DetachFromAny(a, c) == IF a.player[c] = NULL THEN a ELSE Detach(a, c)

\* The client without a player gets player p.
Link(a, c, p) ==
  LET h == a.clients[p]
  IN  [player |-> [a.player EXCEPT ![c] = p],
       links |-> IF h = NULL THEN LinkAlone(a.links, c) ELSE LinkAfter(a.links, h, c),
       clients |-> [a.clients EXCEPT ![p] = IF h = NULL THEN c ELSE h],
       num_clients |-> [a.num_clients EXCEPT ![p] = @ + 1],
       bot_output_client |-> a.bot_output_client,
       disconnected_for |-> a.disconnected_for]

\* player_attach_client, once the password is right.
Attach(a, c, p) ==
  IF a.player[c] = p THEN a ELSE Link(DetachFromAny(a, c), c, p)

\* What client_turn_into_gui_client does to the list.
JoinGui(g, c) ==
  LET h == g.guiclients
  IN  [is_gui_client |-> g.is_gui_client \cup {c},
       links |-> IF h = NULL THEN LinkAlone(g.links, c) ELSE LinkAfter(g.links, h, c),
       guiclients |-> IF h = NULL THEN c ELSE h]

\* What server_destroy does to it; the record keeps its mark and its links.
LeaveGui(g, c) ==
  IF c \notin g.is_gui_client THEN g
  ELSE IF g.links.next[c] = c THEN [g EXCEPT !.guiclients = NULL]
  ELSE [g EXCEPT !.links = Unlink(@, c), !.guiclients = g.links.next[c]]

\* The memset of server_accept, and its assignments to the same fields.
ZeroGui(g, c) ==
  [g EXCEPT !.is_gui_client = @ \ {c}, !.links = ClearLinks(@, c)]

\* Mutant of IsUnusedPlayer: the used records are taken to be the first ones.
IsPlayerAfterUsed(p) == p \in Players /\ p = Cardinality(present)

IsFreeRecord(c)   == c \in Clients \ used /\ \A d \in Clients \ used : c <= d
IsUnusedPlayer(p) == p \in Players \ present /\ \A q \in Players \ present : p <= q

\* server_accept; what becomes of the GUI list is left to the caller.
Accept(c, k) ==
  /\ IsFreeRecord(c)
  /\ used' = used \cup {c}
  /\ kind' = [kind EXCEPT ![c] = k]
  /\ kill_me' = kill_me \ {c}
  /\ num_clients' = num_clients + 1

\* server_destroy of a client record.
Destroy(c) ==
  /\ used' = used \ {c}
  /\ kill_me' = kill_me \ {c}
  /\ att' = DetachFromAny(att, c)
  /\ gui' = LeaveGui(gui, c)
  /\ num_clients' = num_clients - 1
  /\ UNCHANGED kind

\* player_create: the record zeroed, the kick time and the time stamp set.
Create(p, kicktime) ==
  /\ IsUnusedPlayer(p)
  /\ present' = present \cup {p}
  /\ doomed' = doomed \ {p}
  /\ low' = low \ {p}
  /\ no_client_kick_time' = [no_client_kick_time EXCEPT ![p] = kicktime]

Zeroed(a, p) ==
  [player |-> a.player,
   links |-> a.links,
   clients |-> [a.clients EXCEPT ![p] = NULL],
   num_clients |-> [a.num_clients EXCEPT ![p] = 0],
   bot_output_client |-> [a.bot_output_client EXCEPT ![p] = NULL],
   disconnected_for |-> [a.disconnected_for EXCEPT ![p] = 0]]

--------------------------------------------------------------------------------
(***************************************************************************)
(* event_loop: what happens on the connections.  A connection whose client *)
(* is marked is not read any more.                                         *)
(***************************************************************************)
Heard(c) == phase = "io" /\ c \in used \ kill_me /\ kind[c] = "socket"

\* A client at the text menus: it did not choose to be a GUI client.
Typing(c) == Heard(c) /\ c \notin gui.is_gui_client

\* The listener accepts a connection, or on_new_client refuses it after the
\* record was zeroed.
Connect(c) ==
  /\ phase = "io"
  /\ Accept(c, "socket")
  /\ gui' = ZeroGui(gui, c)
  /\ UNCHANGED <<att, playerVars, loopVars>>

Refuse(c) ==
  /\ phase = "io"
  /\ IsFreeRecord(c)
  /\ kill_me' = kill_me \ {c}
  /\ gui' = ZeroGui(gui, c)
  /\ UNCHANGED <<used, kind, num_clients, att, playerVars, loopVars>>

\* The connection breaks: end of file or an error on read, or an error on
\* write, which server_writable meets even when the client is marked.  A
\* client that disconnects itself ("quit") is destroyed in the same handler.
Close(c) ==
  /\ phase = "io"
  /\ c \in used
  /\ kind[c] = "socket"
  /\ Destroy(c)
  /\ UNCHANGED <<playerVars, loopVars>>

\* client_disconnect, by the admin shell or by the Lua thread of the client.
Disconnect(c) ==
  /\ phase = "io"
  /\ c \in used
  /\ kill_me' = kill_me \cup {c}
  /\ UNCHANGED <<used, kind, num_clients, att, gui, playerVars, loopVars>>

\* The first line of a client: "guiclient".  Nothing else is asked of it then.
MakeGui(c) ==
  /\ Typing(c)
  /\ att.player[c] = NULL
  /\ gui' = JoinGui(gui, c)
  /\ UNCHANGED <<clientVars, att, playerVars, loopVars>>

\* The join menu with the number of a player and its password.  The menu is
\* for clients without a player; the admin shell moves others as well.
Join(c, p) ==
  /\ Typing(c)
  /\ p \in present
  /\ att' = Attach(att, c, p)
  /\ UNCHANGED <<clientVars, gui, playerVars, loopVars>>

\* The join menu for a new player, which it joins at once.
JoinNew(c, p) ==
  /\ Typing(c)
  /\ Create(p, NO_CLIENT_KICK_TIME)
  /\ att' = Attach(Zeroed(att, p), c, p)
  /\ UNCHANGED <<clientVars, gui, loopVars>>

\* The part menu.
Part(c) ==
  /\ Typing(c)
  /\ att.player[c] # NULL
  /\ att' = Detach(att, c)
  /\ UNCHANGED <<clientVars, gui, playerVars, loopVars>>

\* "lbo": the bot's output to this client only, or to all of the player's.
SetOutputClient(c) ==
  /\ Typing(c)
  /\ att.player[c] # NULL
  /\ \E output \in {c, NULL} : att' = [att EXCEPT !.bot_output_client[att.player[c]] = output]
  /\ UNCHANGED <<clientVars, gui, playerVars, loopVars>>

\* "nk": no kicking without a client.
NoKick(c) ==
  /\ Typing(c)
  /\ att.player[c] # NULL
  /\ no_client_kick_time' = [no_client_kick_time EXCEPT ![att.player[c]] = 0]
  /\ UNCHANGED <<clientVars, att, gui, present, doomed, low, loopVars>>

\* player_kill, by a client of the player or the admin shell.
KillPlayer(p) ==
  /\ phase = "io"
  /\ p \in present
  /\ doomed' = doomed \cup {p}
  /\ UNCHANGED <<clientVars, att, gui, present, low, no_client_kick_time, loopVars>>

\* The score passes PLAYER_KICK_SCORE, one way or the other.
ScoreChanges(p) ==
  /\ phase = "io"
  /\ p \in present \cap Losers
  /\ low' \in {low \cup {p}, low \ {p}}
  /\ UNCHANGED <<clientVars, att, gui, present, doomed, no_client_kick_time, loopVars>>

\* start_bot, by the admin shell or when the first game starts: a player that
\* is not kicked, with or without a log file.
StartBot(p) ==
  /\ phase \in {"starting", "io"}
  /\ Create(p, 0)
  /\ att' = Zeroed(att, p)
  /\ UNCHANGED <<clientVars, gui, loopVars>>

StartLoggedBot(p, c) ==
  /\ phase \in {"starting", "io"}
  /\ Create(p, 0)
  /\ Accept(c, "log")
  /\ gui' = ZeroGui(gui, c)
  /\ att' = Attach(Zeroed(att, p), c, p)
  /\ UNCHANGED loopVars

--------------------------------------------------------------------------------
(***************************************************************************)
(* The main loop.                                                          *)
(***************************************************************************)

\* event_loop returns; the kick loop of server_tick runs at every
\* KICK_TICKS-th call.
EndIO ==
  /\ phase = "io"
  /\ phase' = "kick"
  /\ kicktick' = (kicktick + 1) % KICK_TICKS
  /\ UNCHANGED <<clientVars, att, gui, playerVars, dying>>

\* Mutant of ToKick: the counter never reaches the number it is compared with.
ToKickAfterLastTick == IF kicktick = KICK_TICKS THEN used \cap kill_me ELSE {}

\* The clients that this call of server_tick throws out.
ToKick == IF kicktick = 0 THEN used \cap kill_me ELSE {}

\* One turn of a loop over the records that destroys those in S; it passes
\* over the others.
DestroyNext(S) ==
  /\ \E c \in S : (\A d \in S : c <= d) /\ Destroy(c)
  /\ UNCHANGED <<playerVars, loopVars>>

KickMarked == phase = "kick" /\ DestroyNext(ToKick)

\* The next pass: real_time is read again and player_round begins.
NextPass(seconds) ==
  /\ \/ phase = "kick" /\ ToKick = {}
     \/ phase = "starting"
  /\ phase' = "round"
  /\ att' = [att EXCEPT !.disconnected_for = [p \in Players |-> Later(@[p], seconds)]]
  /\ UNCHANGED <<clientVars, gui, playerVars, dying, kicktick>>

\* Mutant of Abandoned: the clients are not looked at.
Unattended(p) ==
  /\ no_client_kick_time[p] # 0
  /\ att.disconnected_for[p] > no_client_kick_time[p]

\* Mutant of Abandoned: milliseconds are taken for seconds.
AbandonedForHours(p) ==
  /\ att.num_clients[p] = 0
  /\ no_client_kick_time[p] # 0
  /\ att.disconnected_for[p] > no_client_kick_time[p] * 1000

\* No client for too long.
Abandoned(p) ==
  /\ att.num_clients[p] = 0
  /\ no_client_kick_time[p] # 0
  /\ att.disconnected_for[p] > no_client_kick_time[p]

\* The three reasons of player_round.
HasToGo(p) == p \in doomed \/ p \in low \/ Abandoned(p)

ToRemove ==
  CASE phase = "round" -> {p \in present : HasToGo(p)}
    [] phase = "shutdown" -> present
    [] OTHER -> {}

\* player_round or player_shutdown comes to the next player that has to go.
BeginRemove(p) ==
  /\ dying = NULL
  /\ p \in ToRemove
  /\ \A q \in ToRemove : p <= q
  /\ dying' = p
  /\ UNCHANGED <<clientVars, att, gui, playerVars, phase, kicktick>>

\* One turn of the loop of player_destroy over the player's clients.
DetachHead ==
  /\ dying # NULL
  /\ att.clients[dying] # NULL
  /\ att' = Detach(att, att.clients[dying])
  /\ UNCHANGED <<clientVars, gui, playerVars, loopVars>>

\* No client is left: the record is given up.
EndRemove ==
  /\ dying # NULL
  /\ att.clients[dying] = NULL
  /\ present' = present \ {dying}
  /\ doomed' = doomed \ {dying}
  /\ dying' = NULL
  /\ UNCHANGED <<clientVars, att, gui, low, no_client_kick_time, phase, kicktick>>

EndRound ==
  /\ phase = "round"
  /\ dying = NULL
  /\ ToRemove = {}
  /\ phase' = "io"
  /\ UNCHANGED <<clientVars, att, gui, playerVars, dying, kicktick>>

\* The loop of game_one_game is left, or not entered when game_exit or
\* should_end_game is set by then: server_game_end closes the demos.
EndGame ==
  /\ \/ phase = "kick" /\ ToKick = {}
     \/ phase = "starting"
  /\ phase' = "ending"
  /\ UNCHANGED <<clientVars, att, gui, playerVars, dying, kicktick>>

Demos == {c \in used : kind[c] = "demo"}

CloseDemo == phase = "ending" /\ DestroyNext(Demos)

\* A new game, or the end of the program.
AfterGame ==
  /\ phase = "ending"
  /\ Demos = {}
  /\ phase' \in {"starting", "shutdown"}
  /\ UNCHANGED <<clientVars, att, gui, playerVars, dying, kicktick>>

\* on_game_started opens the demo file; a demo is a GUI client.
StartDemo(c) ==
  /\ phase = "starting"
  /\ Demos = {}
  /\ Accept(c, "demo")
  /\ gui' = JoinGui(ZeroGui(gui, c), c)
  /\ UNCHANGED <<att, playerVars, loopVars>>

\* server_shutdown, after player_shutdown.
CloseAll == phase = "shutdown" /\ present = {} /\ DestroyNext(used)

Stopped == phase = "shutdown" /\ present = {} /\ used = {} /\ UNCHANGED vars

--------------------------------------------------------------------------------
ClientEvent(c) ==
  \/ Connect(c) \/ Refuse(c) \/ Close(c) \/ Disconnect(c) \/ MakeGui(c)
  \/ Part(c) \/ SetOutputClient(c) \/ NoKick(c)
  \/ \E p \in Players : Join(c, p) \/ JoinNew(c, p) \/ StartLoggedBot(p, c)

PlayerEvent(p) == KillPlayer(p) \/ ScoreChanges(p) \/ StartBot(p)

Loop ==
  \/ EndIO
  \/ KickMarked
  \/ \E seconds \in 0 .. MaxElapsed : NextPass(seconds)
  \/ \E p \in Players : BeginRemove(p)
  \/ DetachHead
  \/ EndRemove
  \/ EndRound
  \/ EndGame
  \/ CloseDemo
  \/ AfterGame
  \/ CloseAll

Next ==
  \/ \E c \in Clients : ClientEvent(c) \/ StartDemo(c)
  \/ \E p \in Players : PlayerEvent(p)
  \/ Loop
  \/ Stopped

\* The program keeps running its loop, and the clock moves on.
Fairness ==
  /\ WF_vars(Loop)
  /\ SF_vars(\E seconds \in 1 .. MaxElapsed : NextPass(seconds))

Spec     == Init /\ [][Next]_vars
FairSpec == Spec /\ Fairness
--------------------------------------------------------------------------------
(***************************************************************************)
(* Properties.                                                             *)
(***************************************************************************)

\* The list of a player holds exactly the clients that point to the player,
\* each once, and the player's counter counts them; the GUI list holds exactly
\* the GUI clients.  player_writeto, player_set_output_client and
\* server_writeto_all_gui_clients walk these lists until they meet the head.
ListsExact ==
  /\ \A p \in Players :
       /\ RingOf(att.links, att.clients[p], ClientsOf(p))
       /\ Walk(att.links.next, att.clients[p]) = ClientsOf(p)
       /\ att.num_clients[p] = Cardinality(ClientsOf(p))
  /\ RingOf(gui.links, gui.guiclients, GuiRing)
  /\ Walk(gui.links.next, gui.guiclients) = GuiRing

\* No pointer outlives what it points to: a client in use hears a player in
\* use or none, a free client record hears nobody, a client without a player
\* is in no list (the assertions at the end of server_destroy), and the bot's
\* output goes to a client that hears it.
PointersValid ==
  /\ num_clients = Cardinality(used)
  /\ \A c \in Clients :
       IF att.player[c] = NULL
         THEN att.links.next[c] = NULL /\ att.links.prev[c] = NULL
         ELSE c \in used /\ att.player[c] \in present
  /\ \A p \in Players :
       att.bot_output_client[p] # NULL => att.player[att.bot_output_client[p]] = p

\* The audience that the output of a player reaches, and how long it waits for one.
AudienceOf == [p \in Players |-> Walk(att.links.next, att.clients[p])]

Condemned ==
  present \cap (doomed \cup low \cup IF phase = "shutdown" THEN Players ELSE {})

Exempted == {p \in present : no_client_kick_time[p] = 0}

Waited ==
  [p \in Players |->
    IF p \in present /\ att.clients[p] = NULL THEN att.disconnected_for[p] ELSE 0]

A == INSTANCE Audience WITH
  Grace     <- NO_CLIENT_KICK_TIME,
  audience  <- AudienceOf,
  condemned <- Condemned,
  exempt    <- Exempted,
  waited    <- Waited

\* player_attach_client, player_detach_client, player_destroy and player_round
\* together do what is promised of audiences: see Audience.
AudienceKept == A!AudienceSpec

\* A client that was thrown out with client_disconnect is gone in the end,
\* whatever its connection does.
MarkedClientsGo == \A c \in Clients : c \in kill_me ~> c \notin kill_me

\* A player without a client is removed in the end, unless a client comes or
\* it was exempted.
AbandonedPlayersGo ==
  \A p \in Players :
    (p \in present /\ att.num_clients[p] = 0 /\ no_client_kick_time[p] # 0)
      ~> (p \notin present \/ att.num_clients[p] # 0 \/ no_client_kick_time[p] = 0)
================================================================================
