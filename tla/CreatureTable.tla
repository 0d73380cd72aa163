----------------------------- MODULE CreatureTable -----------------------------
(***************************************************************************)
(* The creature table of creature.c: the array of MAXCREATURES slots, the  *)
(* hash table that finds a creature by its vm_id, the id counter, the      *)
(* global and the per-player creature counts.                              *)
(*                                                                         *)
(* A slot keeps its vm_id and hash_next after its creature dies, as the C  *)
(* memory does: only the player pointer tells a used slot from a free one. *)
(***************************************************************************)
EXTENDS Integers, FiniteSets

CONSTANTS
  Players,         \* player slots
  NoPlayer,        \* the NULL player pointer
  MAXCREATURES,    \* number of slots
  HASHTABLE_SIZE,  \* number of hash buckets
  MaxVmId,         \* bound: largest id a game of the model gives out
  Null             \* the NULL creature pointer

ASSUME TableAssumption ==
  /\ NoPlayer \notin Players
  /\ IsFiniteSet(Players)
  /\ MAXCREATURES \in Nat \ {0}
  /\ HASHTABLE_SIZE \in Nat \ {0}
  /\ MaxVmId \in Nat
  /\ Null \notin Int

Slots   == 0 .. MAXCREATURES - 1
Buckets == 0 .. HASHTABLE_SIZE - 1
Ids     == 0 .. MaxVmId

VARIABLES
  player,           \* creatures[s].player
  vm_id,            \* creatures[s].vm_id
  hash_next,        \* creatures[s].hash_next
  creature_hash,    \* the bucket heads
  next_free_vm_id,
  num_creatures,
  player_creatures, \* players[p].num_creatures
  running,          \* between creature_init and creature_shutdown
  doomed,           \* slots a loop of creature_kill calls has still to visit
  dying             \* the slot in creature_kill while onCreatureKilled runs, or Null

vars == <<player, vm_id, hash_next, creature_hash, next_free_vm_id,
          num_creatures, player_creatures, running, doomed, dying>>

\* Types; that the counts are natural numbers is asserted at player.c:128.
TypeOK ==
  /\ player \in [Slots -> Players \cup {NoPlayer}]
  /\ vm_id \in [Slots -> Ids]
  /\ hash_next \in [Slots -> Slots \cup {Null}]
  /\ creature_hash \in [Buckets -> Slots \cup {Null}]
  /\ next_free_vm_id \in 0 .. MaxVmId + 1
  /\ num_creatures \in Nat
  /\ player_creatures \in [Players -> Nat]
  /\ running \in BOOLEAN
  /\ doomed \in SUBSET Slots
  /\ dying \in Slots \cup {Null}

CREATURE_USED(s) == player[s] # NoPlayer
UsedSlots        == {s \in Slots : CREATURE_USED(s)}
SlotsOf(p)       == {s \in Slots : player[s] = p}
HASHVALUE(id)    == id % HASHTABLE_SIZE

(***************************************************************************)
(* Lookup.  Chain(b) is what a walk from the bucket head along hash_next   *)
(* visits: the least set that holds the head and is closed under the       *)
(* pointer.                                                                *)
(***************************************************************************)
Closed(C, b) ==
  /\ creature_hash[b] # Null => creature_hash[b] \in C
  /\ \A s \in C : hash_next[s] # Null => hash_next[s] \in C

Chain(b) == {s \in Slots : \A C \in SUBSET Slots : Closed(C, b) => s \in C}

Matches(id) == {s \in Chain(HASHVALUE(id)) : vm_id[s] = id}

creature_by_id(id) == IF Matches(id) = {} THEN Null ELSE CHOOSE s \in Matches(id) : TRUE

\* Mutant of IsFirstUnused: the used slots are taken to be the first ones.
IsSlotAfterUsed(s) == s = num_creatures

\* creature_find_unused: the free slot with the lowest number, if there is one.
IsFirstUnused(s) ==
  /\ ~ CREATURE_USED(s)
  /\ \A t \in Slots : t < s => CREATURE_USED(t)

--------------------------------------------------------------------------------
\* The program starts with zeroed static memory and no game running.
Init ==
  /\ player = [s \in Slots |-> NoPlayer]
  /\ vm_id = [s \in Slots |-> 0]
  /\ hash_next = [s \in Slots |-> Null]
  /\ creature_hash = [b \in Buckets |-> Null]
  /\ next_free_vm_id = 0
  /\ num_creatures = 0
  /\ player_creatures = [p \in Players |-> 0]
  /\ running = FALSE
  /\ doomed = {}
  /\ dying = Null

\* Mutant of FirstVmId: the counter holds the last id given out.
LastVmId == -1

\* The counter value a game begins with.
FirstVmId == 0

\* creature_init: every slot free, ids from 0 again; the buckets stay as they are.
NewGame ==
  /\ ~ running
  /\ doomed = {} /\ dying = Null
  /\ player' = [s \in Slots |-> NoPlayer]
  /\ next_free_vm_id' = FirstVmId
  /\ running' = TRUE
  /\ UNCHANGED <<vm_id, hash_next, creature_hash, num_creatures, player_creatures, doomed, dying>>

\* Mutant of ChainRest: the new creature does not point to the rest of its chain.
NoChainRest(id) == Null

\* What the hash_next of a new creature points to: the old head of its bucket.
ChainRest(id) == creature_hash[HASHVALUE(id)]

\* Mutant of Count: a death is not counted for the player.
CountBirths(p, d) == IF d > 0 THEN [player_creatures EXCEPT ![p] = @ + d] ELSE player_creatures

\* The counts of the players when that of p changes by d.
Count(p, d) == [player_creatures EXCEPT ![p] = @ + d]

(***************************************************************************)
(* creature_spawn: the lowest free slot, a fresh id, the front of the hash *)
(* chain, one more creature for its player; then onCreatureSpawned runs.   *)
(***************************************************************************)
Spawn(p) ==
  /\ running
  /\ doomed = {} /\ dying = Null
  /\ next_free_vm_id <= MaxVmId                                   \* bound
  /\ \E s \in Slots :
       /\ IsFirstUnused(s)
       /\ player' = [player EXCEPT ![s] = p]
       /\ vm_id' = [vm_id EXCEPT ![s] = next_free_vm_id]
       /\ hash_next' = [hash_next EXCEPT ![s] = ChainRest(next_free_vm_id)]
       /\ creature_hash' = [creature_hash EXCEPT ![HASHVALUE(next_free_vm_id)] = s]
  /\ next_free_vm_id' = next_free_vm_id + 1
  /\ num_creatures' = num_creatures + 1
  /\ player_creatures' = Count(p, 1)
  /\ UNCHANGED <<running, doomed, dying>>

\* Mutant of Unlink: takes the creature for the head of its chain.
UnlinkHeadOnly(s) ==
  /\ creature_hash' = [creature_hash EXCEPT ![HASHVALUE(vm_id[s])] = hash_next[s]]
  /\ UNCHANGED hash_next

\* Unlinking: the pointer that led to s, the bucket head or the hash_next of
\* the slot before it in the chain, skips s.
Unlink(s) ==
  LET b == HASHVALUE(vm_id[s]) IN
  \/ /\ creature_hash[b] = s
     /\ creature_hash' = [creature_hash EXCEPT ![b] = hash_next[s]]
     /\ UNCHANGED hash_next
  \/ /\ creature_hash[b] # s
     /\ \E t \in Chain(b) :
          /\ hash_next[t] = s
          /\ hash_next' = [hash_next EXCEPT ![t] = hash_next[s]]
     /\ UNCHANGED creature_hash

(***************************************************************************)
(* creature_kill, called for one creature or, slot by slot, from a loop.   *)
(* It begins with player_on_creature_killed: the player has one creature   *)
(* less, and the rule handler onCreatureKilled runs while the victim still *)
(* has its slot, its chain and its place in the global count.  The         *)
(* handlers of the rules look the victim up; they neither spawn nor kill.  *)
(***************************************************************************)
BeginKill(s) ==
  /\ CREATURE_USED(s)
  /\ dying = Null
  /\ \/ running /\ doomed = {}
     \/ s \in doomed /\ \A t \in doomed : s <= t
  /\ player_creatures' = Count(player[s], -1)
  /\ dying' = s
  /\ UNCHANGED <<player, vm_id, hash_next, creature_hash, next_free_vm_id,
                 num_creatures, running, doomed>>

\* The rest of creature_kill, after the handler.
EndKill(s) ==
  /\ dying = s
  /\ num_creatures' = num_creatures - 1
  /\ player' = [player EXCEPT ![s] = NoPlayer]
  /\ Unlink(s)
  /\ doomed' = doomed \ {s}
  /\ dying' = Null
  /\ UNCHANGED <<vm_id, next_free_vm_id, player_creatures, running>>

\* creature_kill_all_players_creatures: the loop over the slots of p begins.
KillAllOf(p) ==
  /\ running
  /\ doomed = {} /\ dying = Null
  /\ doomed' = SlotsOf(p)
  /\ UNCHANGED <<player, vm_id, hash_next, creature_hash, next_free_vm_id,
                 num_creatures, player_creatures, running, dying>>

\* creature_shutdown: the game is over and the loop over all slots begins.
Shutdown ==
  /\ running
  /\ doomed = {} /\ dying = Null
  /\ running' = FALSE
  /\ doomed' = UsedSlots
  /\ UNCHANGED <<player, vm_id, hash_next, creature_hash, next_free_vm_id,
                 num_creatures, player_creatures, dying>>

Next ==
  \/ NewGame
  \/ \E p \in Players : Spawn(p)
  \/ \E s \in Slots : BeginKill(s) \/ EndKill(s)
  \/ \E p \in Players : KillAllOf(p)
  \/ Shutdown

Spec == Init /\ [][Next]_vars

--------------------------------------------------------------------------------
(***************************************************************************)
(* Properties                                                              *)
(***************************************************************************)

\* creature_by_id finds every living creature by its id, and nothing else: a
\* dead creature's id, an id not given out yet, or an id of an earlier game
\* finds nothing, whatever collisions the chains went through.  The victim is
\* found as long as its onCreatureKilled runs (default.lua:56 asks for its food).
LookupExact ==
  \A id \in Ids, s \in Slots :
    creature_by_id(id) = s <=> CREATURE_USED(s) /\ vm_id[s] = id

\* The counters agree with the table: num_creatures (creature_init asserts it
\* is 0, config changes are refused while it is not) and each player's own.  What
\* a rule handler sees of them is exact too: the global count still has the
\* victim of an onCreatureKilled, that of its player has it no more.
CountsAgree ==
  /\ num_creatures = Cardinality(UsedSlots)
  /\ \A p \in Players : player_creatures[p] = Cardinality(SlotsOf(p) \ {dying})

(***************************************************************************)
(* The inductive invariant of the hash table: pointers of the table lead   *)
(* from used slots to used slots of the same bucket with an older id, and  *)
(* every used slot is led to, by its bucket head or by exactly one other.  *)
(***************************************************************************)
FreshIds ==
  /\ \A s \in UsedSlots : vm_id[s] < next_free_vm_id
  /\ \A s, t \in UsedSlots : vm_id[s] = vm_id[t] => s = t

HeadsLive ==
  \A b \in Buckets : creature_hash[b] # Null =>
    /\ CREATURE_USED(creature_hash[b])
    /\ HASHVALUE(vm_id[creature_hash[b]]) = b

LinksLive ==
  \A s \in UsedSlots : hash_next[s] # Null =>
    /\ CREATURE_USED(hash_next[s])
    /\ HASHVALUE(vm_id[hash_next[s]]) = HASHVALUE(vm_id[s])
    /\ vm_id[hash_next[s]] < vm_id[s]

LedTo ==
  \A s \in UsedSlots :
    \/ creature_hash[HASHVALUE(vm_id[s])] = s
    \/ \E t \in UsedSlots : hash_next[t] = s

LedToOnce ==
  /\ \A s, t \in UsedSlots : hash_next[s] = hash_next[t] /\ hash_next[s] # Null => s = t
  /\ \A s \in UsedSlots, b \in Buckets : hash_next[s] # Null => hash_next[s] # creature_hash[b]

DoomedUsed ==
  /\ doomed \subseteq UsedSlots
  /\ ~ running => doomed = UsedSlots
  /\ dying # Null => dying \in UsedSlots

TableInv == FreshIds /\ HeadsLive /\ LinksLive /\ LedTo /\ LedToOnce /\ DoomedUsed

--------------------------------------------------------------------------------
\* The table implements the registry of ids.
AbstractOwner ==
  [id \in Ids |-> IF \E s \in UsedSlots : vm_id[s] = id
                  THEN player[CHOOSE s \in UsedSlots : vm_id[s] = id]
                  ELSE NoPlayer]

Registry == INSTANCE CreatureRegistry
              WITH owner <- AbstractOwner, born <- 0 .. next_free_vm_id - 1

\* Ids keep the registry's promise: never reused within a game, owned by one
\* player for life, dead for good.
RegistryImplemented == Registry!RegistrySpec
================================================================================
