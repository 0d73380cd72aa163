-------------------------- MODULE CreatureTableProofs --------------------------
(***************************************************************************)
(* The creature table for every number of players, slots, buckets and ids. *)
(*                                                                         *)
(* The invariant is TypeOK, TableInv and CountsAgree together: the types   *)
(* need the counts (a death never makes a count negative), the counts need *)
(* the types, and the chains need both.  LookupExact follows from it,      *)
(* because ids decrease along a chain.                                     *)
(***************************************************************************)
EXTENDS CreatureTable, FiniteSetTheorems, WellFoundedInduction, TLAPS

Ind == TypeOK /\ TableInv /\ CountsAgree

--------------------------------------------------------------------------------
(***************************************************************************)
(* The sets of slots                                                       *)
(***************************************************************************)

\* Ids are hashed to buckets.
LEMMA HashInBuckets == \A id \in Int : HASHVALUE(id) \in Buckets
  BY TableAssumption DEF HASHVALUE, Buckets

\* There are finitely many slots, so the counts of used slots are numbers.
LEMMA SlotsFinite ==
  /\ IsFiniteSet(Slots)
  /\ IsFiniteSet(UsedSlots)
  /\ \A p : IsFiniteSet(SlotsOf(p))
<1>1. IsFiniteSet(Slots)
  BY TableAssumption, FS_Interval DEF Slots
<1> QED
  BY <1>1, FS_Subset DEF UsedSlots, SlotsOf

\* Who has a living creature has a count to take it from, before its death begins.
LEMMA UsedIsCounted ==
  ASSUME TypeOK, CountsAgree, NEW s \in Slots, CREATURE_USED(s)
  PROVE  /\ player[s] \in Players
         /\ num_creatures >= 1
         /\ dying = Null => player_creatures[player[s]] >= 1
<1>1. player[s] \in Players
  BY DEF TypeOK, CREATURE_USED
<1>2. s \in UsedSlots /\ s \in SlotsOf(player[s])
  BY DEF UsedSlots, SlotsOf
<1>3. \A S : IsFiniteSet(S) /\ s \in S => Cardinality(S) \in Nat /\ Cardinality(S) # 0
  BY FS_CardinalityType, FS_EmptySet
<1>4. num_creatures >= 1
  BY <1>2, <1>3, SlotsFinite DEF CountsAgree
<1>5. ASSUME dying = Null PROVE player_creatures[player[s]] >= 1
  <2>1. s \in SlotsOf(player[s]) \ {dying} /\ IsFiniteSet(SlotsOf(player[s]) \ {dying})
    BY <1>2, <1>5, SlotsFinite, FS_Subset, TableAssumption DEF Slots
  <2>2. player_creatures[player[s]] = Cardinality(SlotsOf(player[s]) \ {dying})
    BY <1>1 DEF CountsAgree
  <2> QED
    BY <1>3, <2>1, <2>2
<1> QED
  BY <1>1, <1>4, <1>5

--------------------------------------------------------------------------------
(***************************************************************************)
(* Chains                                                                  *)
(***************************************************************************)

\* A chain holds only used slots of its bucket.
LEMMA ChainIsUsed ==
  ASSUME TypeOK, TableInv, NEW b \in Buckets, NEW s \in Chain(b)
  PROVE  s \in UsedSlots /\ HASHVALUE(vm_id[s]) = b
<1> DEFINE C == {t \in UsedSlots : HASHVALUE(vm_id[t]) = b}
<1>1. C \in SUBSET Slots
  BY DEF UsedSlots
<1>2. Closed(C, b)
  BY DEF Closed, TypeOK, TableInv, HeadsLive, LinksLive, UsedSlots
<1>3. s \in C
  BY <1>1, <1>2 DEF Chain
<1> QED
  BY <1>3

\* A chain holds every used slot of its bucket.  Of the slots left out one would
\* have the largest id; but the pointer that leads to it comes from a larger one.
LEMMA ChainIsComplete ==
  ASSUME TypeOK, TableInv, NEW s \in UsedSlots
  PROVE  s \in Chain(HASHVALUE(vm_id[s]))
<1> DEFINE b == HASHVALUE(vm_id[s])
<1>1. s \in Slots /\ vm_id[s] \in Ids /\ b \in Buckets
  BY HashInBuckets DEF UsedSlots, TypeOK, Ids
<1>2. SUFFICES ASSUME NEW C \in SUBSET Slots, Closed(C, b), s \notin C
               PROVE  FALSE
  BY <1>1 DEF Chain
<1> DEFINE Out  == {t \in UsedSlots : HASHVALUE(vm_id[t]) = b /\ t \notin C}
           Rank == {MaxVmId - vm_id[t] : t \in Out}
<1>3. Rank \subseteq Nat /\ Rank # {}
  BY <1>2, TableAssumption DEF UsedSlots, TypeOK, Ids
<1>4. PICK r \in Rank : \A q \in Rank : ~ (<<q, r>> \in OpToRel(<, Nat))
  <2> HIDE DEF Rank
  <2> QED BY <1>3, NatLessThanWellFounded, WFMin
<1>5. PICK t \in Out : r = MaxVmId - vm_id[t]
  BY <1>4
<1>6. \A u \in Out : vm_id[u] <= vm_id[t]
  <2> SUFFICES ASSUME NEW u \in Out, vm_id[u] > vm_id[t] PROVE FALSE
    BY DEF UsedSlots, TypeOK, Ids
  <2>1. MaxVmId - vm_id[u] \in Rank /\ MaxVmId - vm_id[u] < r
    BY <1>5, TableAssumption DEF UsedSlots, TypeOK, Ids
  <2> QED
    BY <2>1, <1>3, <1>4 DEF OpToRel
<1>7. t # Null
  BY TableAssumption DEF UsedSlots, Slots
<1>8. creature_hash[b] # t
  BY <1>2, <1>5, <1>7 DEF Closed
<1>9. PICK u \in UsedSlots : hash_next[u] = t
  BY <1>5, <1>8 DEF TableInv, LedTo
<1>10. HASHVALUE(vm_id[u]) = b /\ vm_id[t] < vm_id[u]
  BY <1>5, <1>7, <1>9 DEF TableInv, LinksLive
<1>11. u \notin Out
  BY <1>6, <1>10 DEF UsedSlots, TypeOK, Ids
<1>12. u \in C
  BY <1>9, <1>10, <1>11
<1> QED
  BY <1>2, <1>5, <1>7, <1>9, <1>12 DEF Closed

\* Lookup by id is exact whenever the invariant holds.
LEMMA LookupFromInd == TypeOK /\ TableInv => LookupExact
<1> SUFFICES ASSUME TypeOK, TableInv, NEW id \in Ids, NEW s \in Slots
             PROVE  creature_by_id(id) = s <=> CREATURE_USED(s) /\ vm_id[s] = id
  BY DEF LookupExact
<1>1. \A t \in Matches(id) : t \in UsedSlots /\ vm_id[t] = id
  BY ChainIsUsed, HashInBuckets DEF Matches, Ids
<1>2. CREATURE_USED(s) /\ vm_id[s] = id => s \in Matches(id)
  BY ChainIsComplete DEF Matches, UsedSlots
<1>3. \A t, u \in Matches(id) : t = u
  BY <1>1 DEF TableInv, FreshIds
<1>4. s # Null
  BY TableAssumption DEF Slots
<1>5. CASE Matches(id) = {}
  BY <1>2, <1>4, <1>5 DEF creature_by_id
<1>6. CASE Matches(id) # {}
  <2>1. PICK m \in Matches(id) : creature_by_id(id) = m
    BY <1>6 DEF creature_by_id
  <2> QED
    BY <2>1, <1>1, <1>2, <1>3 DEF UsedSlots
<1> QED
  BY <1>5, <1>6

--------------------------------------------------------------------------------
(***************************************************************************)
(* The invariant holds at the start and through every action               *)
(***************************************************************************)
LEMMA InitInd == Init => Ind
<1> SUFFICES ASSUME Init PROVE Ind
  OBVIOUS
<1>1. UsedSlots = {} /\ \A p \in Players : SlotsOf(p) = {}
  BY TableAssumption DEF Init, UsedSlots, SlotsOf, CREATURE_USED
<1>2. TypeOK
  <2>1. 0 \in Ids /\ 0 \in 0 .. MaxVmId + 1
    BY TableAssumption DEF Ids
  <2> QED
    BY <2>1 DEF Init, TypeOK
<1>3. TableInv
  BY <1>1, TableAssumption
     DEF Init, TableInv, FreshIds, HeadsLive, LinksLive, LedTo, LedToOnce, DoomedUsed
<1>4. CountsAgree
  <2>1. \A p \in Players : SlotsOf(p) \ {dying} = {}
    BY <1>1
  <2> QED
    BY <1>1, <2>1, FS_EmptySet DEF Init, CountsAgree
<1> QED
  BY <1>2, <1>3, <1>4 DEF Ind

\* A game can begin only when no slot is used, and then every bucket is empty.
LEMMA NewGameInd == Ind /\ NewGame => Ind'
<1> SUFFICES ASSUME Ind, NewGame PROVE Ind'
  OBVIOUS
<1> USE DEF Ind
<1>1. UsedSlots = {}
  BY DEF NewGame, TableInv, DoomedUsed
<1>2. UsedSlots' = {} /\ \A p \in Players : SlotsOf(p) = {} /\ SlotsOf(p)' = {}
  BY <1>1, TableAssumption DEF NewGame, UsedSlots, SlotsOf, CREATURE_USED
<1>3. TypeOK'
  BY TableAssumption DEF NewGame, TypeOK, FirstVmId
<1>4. TableInv'
  <2>1. \A b \in Buckets : creature_hash[b] = Null
    BY <1>1 DEF TypeOK, TableInv, HeadsLive, UsedSlots
  <2> QED
    BY <1>1, <1>2, <2>1
       DEF NewGame, TableInv, FreshIds, HeadsLive, LinksLive, LedTo, LedToOnce, DoomedUsed
<1>5. CountsAgree'
  BY <1>1, <1>2 DEF NewGame, CountsAgree
<1> QED
  BY <1>3, <1>4, <1>5

LEMMA SpawnInd == ASSUME Ind, NEW p \in Players, Spawn(p) PROVE Ind'
<1> USE DEF Ind
<1> DEFINE id == next_free_vm_id
           b  == HASHVALUE(id)
<1>1. PICK s \in Slots :
        /\ ~ CREATURE_USED(s)
        /\ player' = [player EXCEPT ![s] = p]
        /\ vm_id' = [vm_id EXCEPT ![s] = id]
        /\ hash_next' = [hash_next EXCEPT ![s] = creature_hash[b]]
        /\ creature_hash' = [creature_hash EXCEPT ![b] = s]
  BY DEF Spawn, IsFirstUnused, ChainRest
<1>2. id \in Ids /\ b \in Buckets /\ p # NoPlayer /\ s # Null
  BY TableAssumption, HashInBuckets DEF Spawn, TypeOK, Ids, Slots
<1>3. TypeOK'
  <2>1. next_free_vm_id' \in 0 .. MaxVmId + 1
    BY <1>2, TableAssumption DEF Spawn, Ids
  <2>2. num_creatures' \in Nat /\ player_creatures' \in [Players -> Nat]
    BY DEF Spawn, Count, TypeOK
  <2> QED
    BY <1>1, <1>2, <2>1, <2>2 DEF Spawn, TypeOK
<1>4. UsedSlots' = UsedSlots \cup {s} /\ s \notin UsedSlots
  BY <1>1, <1>2 DEF TypeOK, UsedSlots, CREATURE_USED
<1>5. \A q \in Players : SlotsOf(q)' = IF q = p THEN SlotsOf(q) \cup {s} ELSE SlotsOf(q)
  BY <1>1, <1>2, TableAssumption DEF TypeOK, SlotsOf, CREATURE_USED
<1>6. TableInv'
  <2>1. FreshIds'
    BY <1>1, <1>2, <1>4 DEF Spawn, TypeOK, TableInv, FreshIds, UsedSlots, Ids
  <2>2. HeadsLive'
    BY <1>1, <1>2, <1>4 DEF TypeOK, TableInv, HeadsLive, UsedSlots, CREATURE_USED
  <2>3. LinksLive'
    BY <1>1, <1>2, <1>4
       DEF TypeOK, TableInv, HeadsLive, LinksLive, FreshIds, UsedSlots, CREATURE_USED
  <2>4. LedTo'
    BY <1>1, <1>2, <1>4, HashInBuckets DEF TypeOK, TableInv, LedTo, UsedSlots, Ids
  <2>5. LedToOnce'
    BY <1>1, <1>2, <1>4
       DEF TypeOK, TableInv, HeadsLive, LinksLive, LedToOnce, UsedSlots, CREATURE_USED
  <2>6. DoomedUsed'
    BY <1>4 DEF Spawn, TableInv, DoomedUsed
  <2> QED
    BY <2>1, <2>2, <2>3, <2>4, <2>5, <2>6 DEF TableInv
<1>7. CountsAgree'
  <2>1. /\ s \notin SlotsOf(p) /\ dying = Null /\ dying' = Null
        /\ \A q \in Players : SlotsOf(q) \ {dying} = SlotsOf(q) /\ (SlotsOf(q) \ {dying})' = SlotsOf(q)'
    BY <1>1, <1>2, TableAssumption DEF Spawn, SlotsOf, CREATURE_USED, Slots
  <2>2. num_creatures' = Cardinality(UsedSlots')
    BY <1>4, SlotsFinite, FS_AddElement DEF Spawn, Count, CountsAgree
  <2>3. \A q \in Players : player_creatures'[q] = Cardinality(SlotsOf(q)')
    BY <1>5, <2>1, SlotsFinite, FS_AddElement DEF Spawn, Count, CountsAgree, TypeOK
  <2> QED
    BY <2>1, <2>2, <2>3 DEF CountsAgree
<1> QED
  BY <1>3, <1>6, <1>7

\* A death begins: the victim is not counted for its player any more.
LEMMA BeginKillInd == ASSUME Ind, NEW s \in Slots, BeginKill(s) PROVE Ind'
<1> USE DEF Ind
<1>1. /\ CREATURE_USED(s) /\ dying = Null /\ dying' = s
      /\ player_creatures' = [player_creatures EXCEPT ![player[s]] = @ - 1]
      /\ UNCHANGED <<player, vm_id, hash_next, creature_hash, next_free_vm_id,
                     num_creatures, running, doomed>>
  BY DEF BeginKill, Count
<1>2. player[s] \in Players /\ player_creatures[player[s]] >= 1
  BY <1>1, UsedIsCounted
<1>3. UsedSlots' = UsedSlots /\ \A q \in Players : SlotsOf(q)' = SlotsOf(q)
  BY <1>1 DEF UsedSlots, SlotsOf, CREATURE_USED
<1>4. TypeOK'
  <2>1. player_creatures' \in [Players -> Nat]
    BY <1>1, <1>2 DEF TypeOK
  <2> QED
    BY <1>1, <2>1 DEF TypeOK
<1>5. TableInv'
  BY <1>1, <1>3
     DEF TableInv, FreshIds, HeadsLive, LinksLive, LedTo, LedToOnce, DoomedUsed, UsedSlots, CREATURE_USED
<1>6. CountsAgree'
  <2>1. SUFFICES ASSUME NEW q \in Players
                 PROVE  player_creatures'[q] = Cardinality(SlotsOf(q) \ {s})
    BY <1>1, <1>3 DEF CountsAgree
  <2>2. SlotsOf(q) \ {dying} = SlotsOf(q) /\ player_creatures[q] = Cardinality(SlotsOf(q) \ {dying})
    BY <1>1, TableAssumption DEF CountsAgree, SlotsOf, Slots
  <2>3. CASE q = player[s]
    <3>1. s \in SlotsOf(q)
      BY <2>3 DEF SlotsOf
    <3>2. Cardinality(SlotsOf(q) \ {s}) = Cardinality(SlotsOf(q)) - 1
      BY <3>1, SlotsFinite, FS_RemoveElement
    <3> QED
      BY <1>1, <2>2, <2>3, <3>2 DEF TypeOK
  <2>4. CASE q # player[s]
    <3>1. SlotsOf(q) \ {s} = SlotsOf(q)
      BY <2>4 DEF SlotsOf
    <3> QED
      BY <1>1, <2>2, <2>4, <3>1 DEF TypeOK
  <2> QED
    BY <2>3, <2>4
<1> QED
  BY <1>4, <1>5, <1>6

\* The death ends: what it leaves of the pointers, whichever way the slot was unlinked.
\* The slot before s in its chain, if there is one, is the only one that led to s.
LEMMA EndKillInd == ASSUME Ind, NEW s \in Slots, EndKill(s) PROVE Ind'
<1> USE DEF Ind
<1> DEFINE b == HASHVALUE(vm_id[s])
<1>0. s # Null
  BY TableAssumption DEF Slots
<1>1. /\ CREATURE_USED(s) /\ dying = s /\ dying' = Null
      /\ player' = [player EXCEPT ![s] = NoPlayer]
      /\ UNCHANGED <<vm_id, next_free_vm_id, player_creatures, running>>
      /\ num_creatures' = num_creatures - 1
      /\ doomed' = doomed \ {s}
  BY <1>0 DEF EndKill, TableInv, DoomedUsed, UsedSlots
<1>2. s \in UsedSlots /\ s # Null /\ b \in Buckets /\ vm_id[s] \in Ids
  BY <1>0, <1>1, HashInBuckets DEF UsedSlots, TypeOK, Ids
<1>3. UsedSlots' = UsedSlots \ {s}
  BY <1>1, <1>2 DEF TypeOK, UsedSlots, CREATURE_USED
<1>4. \A q \in Players : (SlotsOf(q) \ {dying})' = SlotsOf(q) \ {dying}
  BY <1>0, <1>1, <1>2, TableAssumption DEF TypeOK, SlotsOf, CREATURE_USED, Slots
<1>5. CountsAgree'
  <2>1. num_creatures' = Cardinality(UsedSlots')
    BY <1>1, <1>2, <1>3, SlotsFinite, FS_RemoveElement, FS_CardinalityType DEF CountsAgree, TypeOK
  <2> QED
    BY <1>1, <1>4, <2>1 DEF CountsAgree
<1>6. FreshIds' /\ DoomedUsed'
  BY <1>1, <1>2, <1>3 DEF TableInv, FreshIds, DoomedUsed
<1>7. num_creatures' \in Nat /\ player_creatures' \in [Players -> Nat]
  <2>1. num_creatures >= 1
    BY <1>1, UsedIsCounted
  <2> QED
    BY <1>1, <2>1 DEF TypeOK
<1>8. CASE creature_hash[b] = s /\ creature_hash' = [creature_hash EXCEPT ![b] = hash_next[s]]
           /\ UNCHANGED hash_next
  <2>1. TypeOK'
    BY <1>1, <1>2, <1>7, <1>8 DEF TypeOK
  <2>2. HeadsLive'
    BY <1>1, <1>2, <1>3, <1>8
       DEF TypeOK, TableInv, HeadsLive, LinksLive, LedToOnce, UsedSlots, CREATURE_USED
  <2>3. LinksLive'
    <3>1. \A t \in UsedSlots : hash_next[t] # Null => hash_next[t] # s
      BY <1>2, <1>8 DEF TableInv, LedToOnce
    <3>2. \A t \in UsedSlots : hash_next[t] # Null =>
            /\ hash_next[t] \in UsedSlots
            /\ HASHVALUE(vm_id[hash_next[t]]) = HASHVALUE(vm_id[t])
            /\ vm_id[hash_next[t]] < vm_id[t]
      BY DEF TypeOK, TableInv, LinksLive, UsedSlots
    <3>3. \A t \in UsedSlots' : hash_next'[t] # Null => hash_next'[t] \in UsedSlots'
      BY <1>3, <1>8, <3>1, <3>2
    <3> QED
      BY <1>1, <1>3, <1>8, <3>2, <3>3 DEF LinksLive, UsedSlots, HASHVALUE
  <2>4. LedTo'
    <3>1. SUFFICES ASSUME NEW u \in UsedSlots, u # s
                   PROVE  \/ creature_hash'[HASHVALUE(vm_id[u])] = u
                          \/ \E t \in UsedSlots : t # s /\ hash_next[t] = u
      BY <1>1, <1>3, <1>8 DEF LedTo, HASHVALUE
    <3>2. HASHVALUE(vm_id[u]) \in Buckets /\ u # Null
      BY HashInBuckets, TableAssumption DEF TypeOK, Ids, UsedSlots, Slots
    <3>3. CASE creature_hash[HASHVALUE(vm_id[u])] = u
      BY <1>8, <3>1, <3>2, <3>3 DEF TypeOK
    <3>4. CASE hash_next[s] = u
      BY <1>2, <1>8, <3>2, <3>4 DEF TypeOK, TableInv, LinksLive
    <3> QED
      BY <3>3, <3>4 DEF TableInv, LedTo
  <2>5. LedToOnce'
    BY <1>1, <1>2, <1>3, <1>8 DEF TypeOK, TableInv, LedToOnce, UsedSlots
  <2> QED
    BY <1>5, <1>6, <2>1, <2>2, <2>3, <2>4, <2>5 DEF TableInv
<1>9. CASE creature_hash[b] # s /\ UNCHANGED creature_hash
           /\ \E t \in Chain(b) : hash_next[t] = s
                                /\ hash_next' = [hash_next EXCEPT ![t] = hash_next[s]]
  <2>1. PICK t \in Chain(b) : hash_next[t] = s
                            /\ hash_next' = [hash_next EXCEPT ![t] = hash_next[s]]
    BY <1>9
  <2>2. t \in UsedSlots /\ HASHVALUE(vm_id[t]) = b /\ t \in Slots
    BY <1>2, ChainIsUsed DEF UsedSlots
  <2>3. vm_id[s] < vm_id[t] /\ t # s
    BY <1>2, <2>1, <2>2 DEF TableInv, LinksLive, TypeOK, Ids
  <2>4. TypeOK'
    BY <1>1, <1>2, <1>7, <1>9, <2>1, <2>2 DEF TypeOK
  <2>5. HeadsLive'
    BY <1>1, <1>2, <1>3, <1>9
       DEF TypeOK, TableInv, HeadsLive, UsedSlots, CREATURE_USED
  <2>6. LinksLive'
    BY <1>1, <1>2, <1>3, <2>1, <2>2, <2>3
       DEF TypeOK, TableInv, LinksLive, LedToOnce, UsedSlots, CREATURE_USED, Ids
  <2>7. LedTo'
    BY <1>1, <1>2, <1>3, <1>9, <2>1, <2>2, <2>3 DEF TypeOK, TableInv, LedTo, UsedSlots
  <2>8. LedToOnce'
    BY <1>1, <1>2, <1>3, <1>9, <2>1, <2>2, <2>3 DEF TypeOK, TableInv, LedToOnce, UsedSlots
  <2> QED
    BY <1>5, <1>6, <2>4, <2>5, <2>6, <2>7, <2>8 DEF TableInv
<1> QED
  BY <1>8, <1>9 DEF EndKill, Unlink

\* The loops of creature_kill calls begin with used slots.
LEMMA LoopsInd == Ind /\ (Shutdown \/ \E p \in Players : KillAllOf(p)) => Ind'
<1> SUFFICES ASSUME Ind, Shutdown \/ \E p \in Players : KillAllOf(p) PROVE Ind'
  OBVIOUS
<1>1. UNCHANGED <<player, vm_id, hash_next, creature_hash, next_free_vm_id,
                  num_creatures, player_creatures, dying>> /\ dying = Null
  BY DEF Shutdown, KillAllOf
<1>2. doomed' \in SUBSET UsedSlots /\ running' \in BOOLEAN /\ (~ running' => doomed' = UsedSlots)
  BY TableAssumption DEF Ind, TypeOK, Shutdown, KillAllOf, SlotsOf, UsedSlots, CREATURE_USED
<1>3. UsedSlots' = UsedSlots
  BY <1>1 DEF UsedSlots, CREATURE_USED
<1>4. TypeOK'
  BY <1>1, <1>2 DEF Ind, TypeOK, UsedSlots
<1>5. TableInv'
  BY <1>1, <1>2, <1>3
     DEF Ind, TableInv, FreshIds, HeadsLive, LinksLive, LedTo, LedToOnce, DoomedUsed, CREATURE_USED
<1>6. CountsAgree'
  BY <1>1 DEF Ind, CountsAgree, UsedSlots, SlotsOf, CREATURE_USED
<1> QED
  BY <1>4, <1>5, <1>6 DEF Ind

LEMMA StutterInd == Ind /\ UNCHANGED vars => Ind'
  BY DEF Ind, vars, TypeOK, TableInv, FreshIds, HeadsLive, LinksLive, LedTo, LedToOnce,
         DoomedUsed, CountsAgree, UsedSlots, SlotsOf, CREATURE_USED, HASHVALUE

LEMMA StepInd == Ind /\ [Next]_vars => Ind'
  BY NewGameInd, SpawnInd, BeginKillInd, EndKillInd, LoopsInd, StutterInd DEF Next

--------------------------------------------------------------------------------
(***************************************************************************)
(* The refinement of the registry                                          *)
(***************************************************************************)

\* What the mapped owner is, without the choice its definition makes.
Owners ==
  \A id \in Ids :
    /\ \A s \in UsedSlots : vm_id[s] = id => AbstractOwner[id] = player[s]
    /\ (\A s \in UsedSlots : vm_id[s] # id) => AbstractOwner[id] = NoPlayer

LEMMA OwnersFromInd == Ind => Owners
  BY DEF Ind, TableInv, FreshIds, Owners, AbstractOwner

LEMMA OwnersAlways == Ind /\ [Next]_vars => Owners /\ Owners'
<1>1. Ind' => Owners'
  BY OwnersFromInd, PTL
<1> QED
  BY <1>1, OwnersFromInd, StepInd

\* A birth gives out an id that was never used.
LEMMA SpawnAppears ==
  ASSUME Ind, Owners, Owners', Ind', NEW p \in Players, Spawn(p)
  PROVE  Registry!Appear(p)
<1> DEFINE id == next_free_vm_id
<1>1. PICK s \in Slots :
        /\ ~ CREATURE_USED(s)
        /\ player' = [player EXCEPT ![s] = p]
        /\ vm_id' = [vm_id EXCEPT ![s] = id]
  BY DEF Spawn, IsFirstUnused
<1>2. /\ id \in Ids \ (0 .. next_free_vm_id - 1)
      /\ 0 .. next_free_vm_id' - 1 = (0 .. next_free_vm_id - 1) \cup {id}
  BY TableAssumption DEF Spawn, Ind, TypeOK, Ids
<1>3. UsedSlots' = UsedSlots \cup {s} /\ s \notin UsedSlots
  BY <1>1, TableAssumption DEF Ind, TypeOK, UsedSlots, CREATURE_USED
<1>4. AbstractOwner'[id] = p
  BY <1>1, <1>2, <1>3 DEF Owners, Ind, TypeOK
<1>5. \A i \in Ids \ {id} : AbstractOwner'[i] = AbstractOwner[i]
  <2> SUFFICES ASSUME NEW i \in Ids, i # id PROVE AbstractOwner'[i] = AbstractOwner[i]
    OBVIOUS
  <2>1. CASE \E u \in UsedSlots : vm_id[u] = i
    BY <1>1, <1>3, <2>1 DEF Owners, Ind, TypeOK, UsedSlots
  <2>2. CASE \A u \in UsedSlots : vm_id[u] # i
    BY <1>1, <1>3, <2>2 DEF Owners, Ind, TypeOK, UsedSlots
  <2> QED
    BY <2>1, <2>2
<1>6. AbstractOwner' = [AbstractOwner EXCEPT ![id] = p]
  <2>1. /\ AbstractOwner = [i \in Ids |-> AbstractOwner[i]]
        /\ AbstractOwner' = [i \in Ids |-> AbstractOwner'[i]]
    BY DEF AbstractOwner
  <2> QED
    BY <1>2, <1>4, <1>5, <2>1
<1> QED
  BY <1>2, <1>6 DEF Registry!Appear

\* A death takes one id away when it ends.
LEMMA EndKillVanishes ==
  ASSUME Ind, Owners, Owners', Ind', NEW s \in Slots, EndKill(s)
  PROVE  Registry!RegistryNext
<1> DEFINE id == vm_id[s]
<1>1. /\ s \in UsedSlots
      /\ player' = [player EXCEPT ![s] = NoPlayer]
      /\ UNCHANGED <<vm_id, next_free_vm_id>>
  BY TableAssumption DEF EndKill, Ind, TableInv, DoomedUsed, Slots
<1>2. UsedSlots' = UsedSlots \ {s}
  BY <1>1 DEF Ind, TypeOK, UsedSlots, CREATURE_USED
<1>3. id \in Ids /\ AbstractOwner[id] # NoPlayer
  BY <1>1 DEF Ind, TypeOK, UsedSlots, CREATURE_USED, Owners
<1>4. AbstractOwner'[id] = NoPlayer
  BY <1>1, <1>2, <1>3 DEF Owners, Ind, TableInv, FreshIds
<1>5. \A i \in Ids \ {id} : AbstractOwner'[i] = AbstractOwner[i]
  <2> SUFFICES ASSUME NEW i \in Ids, i # id PROVE AbstractOwner'[i] = AbstractOwner[i]
    OBVIOUS
  <2>1. CASE \E u \in UsedSlots : vm_id[u] = i
    BY <1>1, <1>2, <2>1 DEF Owners, Ind, TypeOK, UsedSlots
  <2>2. CASE \A u \in UsedSlots : vm_id[u] # i
    BY <1>1, <1>2, <2>2 DEF Owners, Ind, TypeOK, UsedSlots
  <2> QED
    BY <2>1, <2>2
<1>6. AbstractOwner' = [i \in Ids |-> IF i \in {id} THEN NoPlayer ELSE AbstractOwner[i]]
  <2>1. /\ AbstractOwner = [i \in Ids |-> AbstractOwner[i]]
        /\ AbstractOwner' = [i \in Ids |-> AbstractOwner'[i]]
    BY DEF AbstractOwner
  <2> QED
    BY <1>4, <1>5, <2>1
<1>7. Registry!Vanish({id})
  BY <1>1, <1>6 DEF Registry!Vanish
<1>8. {id} \in SUBSET {i \in Ids : AbstractOwner[i] # NoPlayer}
  BY <1>3
<1> QED
  BY <1>7, <1>8 DEF Registry!RegistryNext

\* A new game forgets the ids of the last one.
LEMMA NewGameForgets ==
  ASSUME Ind, Owners, Owners', NewGame
  PROVE  Registry!Forget
<1>1. UsedSlots = {} /\ UsedSlots' = {}
  BY TableAssumption DEF NewGame, Ind, TableInv, DoomedUsed, UsedSlots, CREATURE_USED
<1>2. \A id \in Ids : AbstractOwner[id] = NoPlayer /\ AbstractOwner'[id] = NoPlayer
  BY <1>1 DEF Owners
<1>3. AbstractOwner' = AbstractOwner
  BY <1>2 DEF AbstractOwner
<1>4. 0 .. next_free_vm_id' - 1 = {}
  BY DEF NewGame, FirstVmId
<1> QED
  BY <1>2, <1>3, <1>4 DEF Registry!Forget

\* Nothing else touches an owner or the counter.
LEMMA OthersStutter ==
  ASSUME UNCHANGED <<player, vm_id, next_free_vm_id>>
  PROVE  UNCHANGED Registry!registryVars
  BY DEF Registry!registryVars, AbstractOwner, UsedSlots, CREATURE_USED

LEMMA RefinesInit == Init => Registry!RegistryInit
<1> SUFFICES ASSUME Init PROVE Registry!RegistryInit
  OBVIOUS
<1>1. UsedSlots = {}
  BY DEF Init, UsedSlots, CREATURE_USED
<1>2. AbstractOwner = [id \in Ids |-> NoPlayer]
  BY <1>1 DEF AbstractOwner
<1>3. 0 .. next_free_vm_id - 1 = {}
  BY DEF Init
<1> QED
  BY <1>2, <1>3 DEF Registry!RegistryInit

LEMMA RefinesStep == Ind /\ [Next]_vars => [Registry!RegistryNext]_(Registry!registryVars)
<1> SUFFICES ASSUME Ind, [Next]_vars
             PROVE  Registry!RegistryNext \/ UNCHANGED Registry!registryVars
  OBVIOUS
<1>1. Owners /\ Owners' /\ Ind'
  BY OwnersAlways, StepInd
<1>2. CASE NewGame
  BY <1>1, <1>2, NewGameForgets DEF Registry!RegistryNext
<1>3. ASSUME NEW p \in Players, Spawn(p) PROVE Registry!RegistryNext
  BY <1>1, <1>3, SpawnAppears DEF Registry!RegistryNext
<1>4. ASSUME NEW s \in Slots, EndKill(s) PROVE Registry!RegistryNext
  BY <1>1, <1>4, EndKillVanishes
<1>5. CASE \/ \E s \in Slots : BeginKill(s)
           \/ Shutdown \/ (\E p \in Players : KillAllOf(p)) \/ UNCHANGED vars
  BY <1>5, OthersStutter DEF BeginKill, Shutdown, KillAllOf, vars
<1> QED
  BY <1>2, <1>3, <1>4, <1>5 DEF Next

--------------------------------------------------------------------------------
(***************************************************************************)
(* Theorems                                                                *)
(***************************************************************************)

\* The table never leaves its types: no count falls below zero (player.c:128).
THEOREM TypeCorrect == Spec => []TypeOK
<1>1. Ind => TypeOK
  BY DEF Ind
<1> QED
  BY <1>1, InitInd, StepInd, PTL DEF Spec

\* The chains are sound: pointers lead from used slots to used slots of the bucket.
THEOREM TableSound == Spec => []TableInv
<1>1. Ind => TableInv
  BY DEF Ind
<1> QED
  BY <1>1, InitInd, StepInd, PTL DEF Spec

\* creature_by_id finds a creature exactly as long as it lives.
THEOREM LookupIsExact == Spec => []LookupExact
<1>1. Ind => LookupExact
  BY LookupFromInd DEF Ind
<1> QED
  BY <1>1, InitInd, StepInd, PTL DEF Spec

\* The counters are the sizes of the sets they count, in the middle of a death too.
THEOREM CountsAreExact == Spec => []CountsAgree
<1>1. Ind => CountsAgree
  BY DEF Ind
<1> QED
  BY <1>1, InitInd, StepInd, PTL DEF Spec

\* The table implements the registry: every step is one of the registry or none.
THEOREM ImplementsRegistry == Spec => RegistryImplemented
  BY InitInd, StepInd, RefinesInit, RefinesStep, PTL
     DEF Spec, RegistryImplemented, Registry!RegistrySpec

================================================================================
