--------------------------- MODULE CreatureRegistry ---------------------------
(***************************************************************************)
(* What the rest of the program may assume of creature ids (vm_id): within *)
(* one game an id is given out once, belongs to one player for as long as  *)
(* its creature lives, and never comes back to life.  Lua programs keep    *)
(* ids for many rounds (targets, tables of creatures, events), so this is  *)
(* the promise creature.c makes to them.                                   *)
(***************************************************************************)
EXTENDS Naturals

CONSTANTS
  Players,     \* the player slots of player.c
  NoPlayer,    \* the NULL player pointer
  Ids          \* the ids a game may give out

VARIABLES
  owner,       \* owner[id]: the player of the living creature id, or NoPlayer
  born         \* the ids given out since the game began

registryVars == <<owner, born>>

RegistryTypeOK ==
  /\ owner \in [Ids -> Players \cup {NoPlayer}]
  /\ born \in SUBSET Ids

RegistryInit ==
  /\ owner = [id \in Ids |-> NoPlayer]
  /\ born = {}

\* A creature of p is born under an id that was never used in this game.
Appear(p) ==
  \E id \in Ids \ born :
    /\ owner' = [owner EXCEPT ![id] = p]
    /\ born' = born \cup {id}

\* A set of living creatures dies; nothing else changes.
Vanish(ids) ==
  /\ owner' = [id \in Ids |-> IF id \in ids THEN NoPlayer ELSE owner[id]]
  /\ UNCHANGED born

\* A new game forgets every id, and only when nothing is alive.
Forget ==
  /\ \A id \in Ids : owner[id] = NoPlayer
  /\ born' = {}
  /\ UNCHANGED owner

RegistryNext ==
  \/ \E p \in Players : Appear(p)
  \/ \E ids \in SUBSET {id \in Ids : owner[id] # NoPlayer} : Vanish(ids)
  \/ Forget

RegistrySpec == RegistryInit /\ [][RegistryNext]_registryVars
===============================================================================
