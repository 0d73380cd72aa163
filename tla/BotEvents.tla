-------------------------------- MODULE BotEvents ------------------------------
(***************************************************************************)
(* What a player's program learns of its creatures, and when its parts     *)
(* run: the events that player.c collects for the Lua VM of a player, and  *)
(* player_think of api/oo.lua and api/state.lua, which hands them to the   *)
(* program and gives every creature's coroutine its turn.  One VM is       *)
(* modelled; other players are those who hit and kill.  A program that     *)
(* runs out of cycles is cut off at any instruction, and the error leaves  *)
(* player_think, because no function can be called any more.               *)
(***************************************************************************)
EXTENDS Naturals, Sequences, FiniteSets

CONSTANTS
  MaxVmId,      \* bound: births stop at this id
  MaxEvents,    \* bound: births, hits and new games stop when so many events are collected
  Apis,         \* the high level apis a player may choose
  Actions,      \* the states of a creature a program may wait for
  Overruns      \* whether programs run out of cycles

ASSUME EventsAssumption ==
  /\ MaxVmId \in Nat /\ MaxEvents \in Nat /\ Overruns \in BOOLEAN
  /\ Apis \subseteq {"oo", "state"}
  /\ Actions \cap {"none", "ready", "dead", "idle"} = {}

VARIABLES
  used,         \* the player has a VM (PLAYER_USED)
  api,          \* the api it was created with
  alive,        \* creature.c: the ids of the player's living creatures
  next_id,      \* next_free_vm_id
  doing,        \* creature->state
  events,       \* the table "events" in the registry of the VM
  todo,         \* player_think: the rest of the events
  creatures,    \* the VM's table of creatures: the coroutine of each
  waiting,      \* player_think: the creatures that did not have their turn yet
  turn,         \* the place of the main loop
  missed        \* history: since it was created, the VM missed an event

vars == <<used, api, alive, next_id, doing, events, todo, creatures, waiting, turn, missed>>
game == <<used, api, alive, next_id>>
vm == <<todo, creatures, waiting, missed>>

Ids == 0 .. MaxVmId - 1
Doings == {"idle"} \cup Actions
\* There is no coroutine yet, it is about to run the program's code, it waits in the loop of
\* a blocking action, or it has ended.
Threads == {"none", "ready", "dead"} \cup Actions

CREATURE_SPAWNED == "spawned"
CREATURE_KILLED == "killed"
CREATURE_ATTACKED == "attacked"
PLAYER_CREATED == "created"
About(type) == {[type |-> type, id |-> i] : i \in Ids}
Events == About(CREATURE_SPAWNED) \cup About(CREATURE_KILLED) \cup About(CREATURE_ATTACKED)
          \cup {[type |-> PLAYER_CREATED]}

Nothing == [c \in {} |-> "none"]
Without(f, c) == [d \in DOMAIN f \ {c} |-> f[d]]
With(f, c, t) == [d \in DOMAIN f \cup {c} |-> IF d = c THEN t ELSE f[d]]

TypeOK ==
  /\ used \in BOOLEAN /\ missed \in BOOLEAN
  /\ api \in Apis
  /\ alive \subseteq Ids
  /\ next_id \in 0 .. MaxVmId
  /\ doing \in [Ids -> Doings]
  /\ events \in Seq(Events) /\ todo \in Seq(Events)
  /\ DOMAIN creatures \subseteq Ids
  /\ \A c \in DOMAIN creatures : creatures[c] \in Threads
  /\ waiting \subseteq DOMAIN creatures
  /\ turn \in {"round", "events", "threads", "moves", "io", "killall", "ending", "starting"}

Init ==
  /\ used = FALSE /\ api \in Apis
  /\ alive = {} /\ next_id = 0
  /\ doing = [c \in Ids |-> "idle"]
  /\ events = <<>> /\ todo = <<>>
  /\ creatures = Nothing /\ waiting = {}
  /\ turn = "starting"
  /\ missed = FALSE

-----------------------------------------------------------------------------
(* What happens to the player and its creatures *)

Told(type, c) == events' = Append(events, [type |-> type, id |-> c])
Room == Len(events) + Cardinality(alive) < MaxEvents

\* Nobody can have set a target to a creature that was born in this creature_moveall, and it
\* is not old enough to die of age.
Newborn(c) == \E i \in DOMAIN events : events[i] = [type |-> CREATURE_SPAWNED, id |-> c]

\* player_on_creature_spawned.  Born in creature_moveall, or given by the rules: to a player
\* without creatures (player_round), a new player (io) or at the start of a game.
Born ==
  /\ used /\ turn \in {"round", "moves", "io", "starting"}
  /\ next_id < MaxVmId /\ Room
  /\ next_id' = next_id + 1
  /\ alive' = alive \cup {next_id}
  /\ doing' = [doing EXCEPT ![next_id] = "idle"]
  /\ Told(CREATURE_SPAWNED, next_id)
  /\ UNCHANGED <<used, api, turn, vm>>

\* A bug: only creatures that die in their rounds are reported.
DieUnheard(c) ==
  /\ turn \in {"moves", "killall", "ending"}
  /\ c \in alive /\ (turn = "moves" => ~Newborn(c))
  /\ alive' = alive \ {c}
  /\ IF turn = "moves" THEN Told(CREATURE_KILLED, c) ELSE UNCHANGED events
  /\ UNCHANGED <<used, api, next_id, doing, turn, vm>>

\* player_on_creature_killed, in creature_moveall or where all creatures are killed.
Die(c) ==
  /\ turn \in {"moves", "killall", "ending"}
  /\ c \in alive /\ (turn = "moves" => ~Newborn(c))
  /\ alive' = alive \ {c}
  /\ Told(CREATURE_KILLED, c)
  /\ UNCHANGED <<used, api, next_id, doing, turn, vm>>

\* player_on_creature_attacked.
Hit(c) ==
  /\ turn = "moves" /\ c \in alive /\ ~Newborn(c) /\ Room
  /\ Told(CREATURE_ATTACKED, c)
  /\ UNCHANGED <<game, doing, turn, vm>>

\* creature_moveall: what a creature does comes to its end.
Finish(c) ==
  /\ turn = "moves" /\ c \in alive /\ doing[c] # "idle"
  /\ doing' = [doing EXCEPT ![c] = "idle"]
  /\ UNCHANGED <<game, events, turn, vm>>

-----------------------------------------------------------------------------
(* The main loop *)

Pass(from, to) ==
  /\ turn = from /\ turn' = to
  /\ UNCHANGED <<game, doing, events, vm>>

EndMoves == Pass("moves", "io")
EndIO == Pass("io", "round")
GameOver == Room /\ Pass("io", "ending")

\* killall() by an operator.
KillAll == Pass("io", "killall")
AllKilled == alive = {} /\ Pass("killall", "io")

\* A bug: the events are initialised in each round.
PausedForgets ==
  /\ turn = "round" /\ turn' = "io"
  /\ events' = <<>>
  /\ UNCHANGED <<game, doing, vm>>

\* A paused game neither thinks nor moves.
Paused == Pass("round", "io")

\* player_destroy in player_round, whatever the reason: lua_close.
Destroy ==
  /\ turn = "round" /\ used
  /\ used' = FALSE
  /\ alive' = {} /\ events' = <<>>
  /\ creatures' = Nothing /\ missed' = FALSE
  /\ UNCHANGED <<api, next_id, doing, todo, waiting, turn>>

\* player_create in io.
Create(a) ==
  /\ turn = "io" /\ ~used
  /\ used' = TRUE /\ api' = a
  /\ events' = <<[type |-> PLAYER_CREATED]>>
  /\ UNCHANGED <<alive, next_id, doing, todo, creatures, waiting, turn, missed>>

\* creature_init and player_game_start: the VM of a player outlives the game, ids do not.
StartGame ==
  /\ turn = "ending" /\ alive = {}
  /\ turn' = "starting"
  /\ next_id' = 0
  /\ events' = IF used THEN Append(events, [type |-> PLAYER_CREATED]) ELSE events
  /\ UNCHANGED <<used, api, alive, doing, vm>>

Started == Pass("starting", "round")

-----------------------------------------------------------------------------
(* player_think *)

\* What one call of a low level function by the program may do; it fails for a creature that
\* is not alive.
Commanded == {doing} \cup {[doing EXCEPT ![c] = d] : c \in alive, d \in Doings}

Think ==
  /\ turn = "round"
  /\ turn' = IF used THEN "events" ELSE "moves"
  /\ todo' = events
  /\ UNCHANGED <<game, doing, events, creatures, waiting, missed>>

\* An error leaves player_think; player_init_events follows in any case.
Abort ==
  /\ turn' = "moves"
  /\ events' = <<>> /\ todo' = <<>>
  /\ waiting' = {}

\* creature:restart() of oo.lua resets the creature before it makes the coroutine.
Restarted(d, c) == IF api = "oo" THEN [d EXCEPT ![c] = "idle"] ELSE d

\* A bug: an error in onSpawned skips the restart.
HandledCarelessly(e) ==
  CASE e.type = CREATURE_SPAWNED -> {With(creatures, e.id, "none"), With(creatures, e.id, "ready")}
    [] e.type = CREATURE_KILLED -> {Without(creatures, e.id)}
    [] e.type = CREATURE_ATTACKED -> {creatures, With(creatures, e.id, "ready")}
    [] OTHER -> {creatures}

\* The program's answer to an event: creature c goes on, or its coroutine starts again.
Reactions(c) == {creatures, With(creatures, c, "ready")}

\* The creatures after an event that was handled, and after one whose handling was cut off.
Handled(e) ==
  CASE e.type = CREATURE_SPAWNED -> {With(creatures, e.id, "ready")}
    [] e.type = CREATURE_KILLED -> {Without(creatures, e.id)}
    [] e.type = CREATURE_ATTACKED -> Reactions(e.id)
    [] OTHER -> {creatures}

PartlyHandled(e) ==
  {creatures} \cup Handled(e)
    \cup (IF e.type = CREATURE_SPAWNED THEN {With(creatures, e.id, "none")} ELSE {})

\* assert(creatures[id]), or the index of a creature that is not in the table.
Unknown(e) ==
  e.type \in {CREATURE_KILLED, CREATURE_ATTACKED} /\ e.id \notin DOMAIN creatures

\* oo.lua resets a new creature by set_state, which fails if it is dead by now; nothing
\* catches the error.
Stillborn(e) == api = "oo" /\ e.type = CREATURE_SPAWNED /\ e.id \notin alive

HandleEvent ==
  /\ turn = "events" /\ todo # <<>>
  /\ LET e == Head(todo)
     IN /\ ~Unknown(e) /\ ~Stillborn(e)
        /\ creatures' \in Handled(e)
        /\ \E d \in Commanded :
             doing' = IF e.type = CREATURE_SPAWNED THEN Restarted(d, e.id) ELSE d
  /\ todo' = Tail(todo)
  /\ UNCHANGED <<game, events, waiting, turn, missed>>

FailEvent ==
  /\ turn = "events" /\ todo # <<>>
  /\ LET e == Head(todo)
     IN \/ Unknown(e) /\ creatures' = creatures
        \/ Stillborn(e) /\ creatures' = With(creatures, e.id, "none")
  /\ doing' \in Commanded
  /\ missed' = TRUE
  /\ Abort
  /\ UNCHANGED game

\* Cut off in the handling of an event.
CutEvent ==
  /\ Overruns
  /\ turn = "events" /\ todo # <<>>
  /\ ~Unknown(Head(todo)) /\ ~Stillborn(Head(todo))
  /\ creatures' \in PartlyHandled(Head(todo))
  /\ doing' \in Commanded
  /\ missed' = TRUE
  /\ Abort
  /\ UNCHANGED game

\* onRoundStart, between the events and the turns, uses up the cycles.
CutRoundStart ==
  /\ Overruns
  /\ turn = "events" /\ todo = <<>>
  /\ doing' \in Commanded
  /\ Abort
  /\ UNCHANGED <<game, creatures, missed>>

\* All creatures of the table get their turn, in the order of pairs().
GiveTurns ==
  /\ turn = "events" /\ todo = <<>>
  /\ turn' = "threads"
  /\ waiting' = DOMAIN creatures
  /\ UNCHANGED <<game, doing, events, todo, creatures, missed>>

\* Before the coroutine runs, state.lua runs handlers and asks for the food of the tile.
Fails(c) == api = "state" /\ c \notin alive

\* The loop of a blocking action goes on waiting.
StillWaits(c) == creatures[c] \in Actions /\ doing[c] = creatures[c]

\* The blocking actions: a creature waits for what it has begun to do.
Blocks(thread, now) == thread \in Actions => now = thread

\* What a coroutine is after its turn, and what its creature does: it waits, or the program
\* goes on until it begins to wait for an action, waits for the next round, or ends.  All
\* functions fail for a creature that is not alive any more.
AfterTurn(c) ==
  IF c \notin alive THEN {"ready", "dead"} \X Commanded
  ELSE IF StillWaits(c) THEN {<<creatures[c], doing>>}
  ELSE {after \in (Threads \ {"none"}) \X Commanded : Blocks(after[1], after[2][c])}

Resume(c) ==
  /\ turn = "threads" /\ c \in waiting
  /\ waiting' = waiting \ {c}
  /\ IF creatures[c] \in {"none", "dead"} THEN UNCHANGED <<creatures, doing>>
     ELSE /\ ~Fails(c)
          /\ \E after \in AfterTurn(c) :
               creatures' = [creatures EXCEPT ![c] = after[1]] /\ doing' = after[2]
  /\ UNCHANGED <<game, events, todo, turn, missed>>

FailResume(c) ==
  /\ turn = "threads" /\ c \in waiting
  /\ creatures[c] \notin {"none", "dead"} /\ Fails(c)
  /\ Abort
  /\ UNCHANGED <<game, doing, creatures, missed>>

\* The coroutine that used up the cycles is dead; in a handler of state.lua it is not.
CutResume(c) ==
  /\ Overruns
  /\ turn = "threads" /\ c \in waiting
  /\ creatures[c] \notin {"none", "dead"}
  /\ \/ creatures' = [creatures EXCEPT ![c] = "dead"] /\ ~Fails(c)
     \/ api = "state" /\ UNCHANGED creatures
  /\ doing' \in Commanded
  /\ Abort
  /\ UNCHANGED <<game, missed>>

\* A bug: events stay in the registry.
ThoughtTwice ==
  /\ turn = "threads" /\ waiting = {}
  /\ turn' = "moves"
  /\ UNCHANGED <<game, doing, events, vm>>

\* player_init_events.
Thought ==
  /\ turn = "threads" /\ waiting = {}
  /\ turn' = "moves"
  /\ events' = <<>>
  /\ UNCHANGED <<game, doing, vm>>

-----------------------------------------------------------------------------
(* Lines of the player's clients *)

\* restart() of player.lua, up to a creature that cannot be restarted or the last cycle.
Restart(some) ==
  /\ turn = "io" /\ some \subseteq DOMAIN creatures
  /\ api = "oo" => some \subseteq alive
  /\ Overruns \/ some = DOMAIN creatures
       \/ (api = "oo" /\ DOMAIN creatures \ some \subseteq Ids \ alive)
  /\ creatures' = [c \in DOMAIN creatures |-> IF c \in some THEN "ready" ELSE creatures[c]]
  /\ doing' = IF api = "oo" THEN [c \in Ids |-> IF c \in some THEN "idle" ELSE doing[c]]
              ELSE doing
  /\ UNCHANGED <<game, events, todo, waiting, turn, missed>>

\* Any other code gives commands as the program does.
Execute ==
  /\ turn = "io" /\ used
  /\ doing' \in Commanded
  /\ UNCHANGED <<game, events, vm, turn>>

Loop ==
  \/ Think \/ HandleEvent \/ FailEvent \/ GiveTurns \/ Thought
  \/ EndMoves \/ EndIO \/ StartGame \/ Started
  \/ \E c \in Ids : Resume(c) \/ FailResume(c)
  \/ AllKilled
  \/ turn \in {"killall", "ending"} /\ \E c \in Ids : Die(c)

Next ==
  \/ Loop
  \/ CutEvent \/ CutRoundStart \/ \E c \in Ids : CutResume(c)
  \/ Born \/ \E c \in Ids : Die(c) \/ Hit(c) \/ Finish(c)
  \/ Paused \/ GameOver \/ KillAll \/ Destroy \/ \E a \in Apis : Create(a)
  \/ Execute \/ \E some \in SUBSET Ids : Restart(some)

Spec == Init /\ [][Next]_vars

\* The loop goes on, and a game is not paused for ever.
FairSpec == Spec /\ WF_vars(Loop) /\ SF_vars(Think)

-----------------------------------------------------------------------------
(* Properties *)

\* The events the program did not hear of yet.
Pending == CASE turn = "events" -> todo [] turn = "threads" -> <<>> [] OTHER -> events

\* What tells a program that knows some creatures whether creature c lives before the i-th
\* of these events.
Before(s, c, i) ==
  {j \in DOMAIN s : j < i /\ s[j].type \in {CREATURE_SPAWNED, CREATURE_KILLED} /\ s[j].id = c}
Lives(s, known, c, i) ==
  IF Before(s, c, i) = {} THEN c \in known
  ELSE \E j \in Before(s, c, i) :
         s[j].type = CREATURE_SPAWNED /\ \A k \in Before(s, c, i) : k <= j

\* A program that missed no event knows its living creatures, once it has heard of the rest:
\* also after a new game has begun to number creatures from 0 (player.c:1276).
CreaturesExact ==
  ~missed => \A c \in Ids : c \in alive <=> Lives(Pending, DOMAIN creatures, c, Len(Pending) + 1)

\* Its events come in an order in which no handler looks for a creature that is not in the
\* table: the assertion at state.lua:470 and the indices at state.lua:476 hold.
EventsFit ==
  ~missed => \A i \in DOMAIN Pending :
    LET e == Pending[i]
    IN e.type # PLAYER_CREATED =>
         (Lives(Pending, DOMAIN creatures, e.id, i) <=> e.type # CREATURE_SPAWNED)

\* Each creature such a program knows has, or had, a coroutine.
Manned == ~missed => \A c \in DOMAIN creatures : creatures[c] # "none"

\* A creature that is born gets a coroutine, unless it dies before or the program misses events.
HasCoroutine(c) == c \in DOMAIN creatures /\ creatures[c] # "none"
NewbornsAreManned == \A c \in Ids : c \in alive ~> (c \notin alive \/ missed \/ HasCoroutine(c))

\* "global table containing all your creatures" (oo.lua:404), whenever coroutines run.
AllYourCreatures == turn = "threads" => alive \subseteq DOMAIN creatures
================================================================================
