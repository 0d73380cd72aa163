------------------------------- MODULE MapProofs -------------------------------
(***************************************************************************)
(* Proofs about Regions and MapAreas for maps of every size.               *)
(*                                                                         *)
(* First the regions.  Then the areas, in the order of a dig: pointers     *)
(* apart from maps, walks around a ring, what holds of the map between any *)
(* two of its changes (MapInv), and that this is kept by each of them:     *)
(* connecting a new area, merging two portals, merging two areas.  Paired, *)
(* no two portals between the same two areas, and Settled, only the area   *)
(* at work may have neighbours to merge with, follow the merges to their   *)
(* end; MapInd is the inductive invariant.                                 *)
(***************************************************************************)
EXTENDS MapAreas, TLAPS, FiniteSetTheorems, WellFoundedInduction

RegionInd == RegionTypeOK /\ RegionsAreComponents

\* The four neighbours go both ways.
LEMMA NeighboursMutual == ASSUME NEW t \in Tiles, NEW n \in Tiles
                          PROVE  n \in Neighbours(t) <=> t \in Neighbours(n)
<1> USE SizeAssumption DEF Tiles, Neighbours, Up, Right, Down, Left
<1>1. PICK x \in Nat, y \in Nat : t = <<x, y>>
  OBVIOUS
<1>2. PICK v \in Nat, w \in Nat : n = <<v, w>>
  OBVIOUS
<1> QED BY <1>1, <1>2

LEMMA BorderIsTiles == WithinBorder \subseteq Tiles
  BY SizeAssumption DEF WithinBorder, Tiles

LEMMA NeighboursOnMap == ASSUME NEW t \in WithinBorder PROVE Neighbours(t) \subseteq Tiles
<1> USE SizeAssumption DEF Tiles, WithinBorder, Neighbours, Up, Right, Down, Left
<1>1. PICK x \in 1 .. Width - 2, y \in 1 .. Height - 2 : t = <<x, y>>
  OBVIOUS
<1>2. /\ <<x, y - 1>> \in Tiles /\ <<x + 1, y>> \in Tiles
      /\ <<x, y + 1>> \in Tiles /\ <<x - 1, y>> \in Tiles
  OBVIOUS
<1> QED BY <1>1, <1>2

-----------------------------------------------------------------------------
(* What a dig does to regions, in words that leave the four directions out *)

\* The tile joins the regions r of its neighbours, if there is any, and they become one.
Joins(t) ==
  /\ t \in WithinBorder /\ t \notin walkable
  /\ walkable' = walkable \cup {t}
  /\ region' \in [Tiles -> Nat] /\ region'[t] # REGION_NONE
  /\ \A u \in Tiles \ {t} : ~Merged(t, u) => region'[u] = region[u]
  /\ \A u \in Tiles : Merged(t, u) => region'[u] = region'[t]
  /\ \A u \in walkable : ~Merged(t, u) => region[u] # region'[t]
  /\ next_region' \in Nat /\ next_region' >= next_region /\ region'[t] < next_region'

LEMMA HeirIsMet == ASSUME NEW t, Met(t) # {} PROVE Heir(t) \in Met(t)
  BY DEF Heir, Met, Neighbours

LEMMA DigJoins == ASSUME RegionTypeOK, NEW t \in WithinBorder, DigRegion(t) PROVE Joins(t)
<1> DEFINE r == NewRegion(t)
<1>1. t \in Tiles /\ Met(t) \subseteq Tiles
  BY BorderIsTiles, NeighboursOnMap DEF Met
<1>2. /\ region' = [u \in Tiles |-> IF u = t \/ Merged(t, u) THEN r ELSE region[u]]
      /\ next_region' = Counted(t)
      /\ t \notin walkable /\ walkable' = walkable \cup {t}
  BY DEF DigRegion, SetRegion
<1>3. CASE Met(t) = {}
  <2>1. r = next_region /\ next_region' = next_region + 1
    BY <1>2, <1>3 DEF NewRegion, Counted
  <2>2. \A u : ~Merged(t, u)
    BY <1>3 DEF Merged
  <2>3. r \in Nat /\ r # REGION_NONE
    BY <2>1, <1>1 DEF RegionTypeOK, REGION_NONE
  <2> QED BY <1>1, <1>2, <2>1, <2>2, <2>3, BorderIsTiles DEF Joins, RegionTypeOK
<1>4. CASE Met(t) # {}
  <2>1. Heir(t) \in Met(t) /\ r = region[Heir(t)] /\ next_region' = next_region
    BY <1>2, <1>4, HeirIsMet DEF NewRegion, Counted
  <2>2. r \in Nat /\ r # REGION_NONE /\ r < next_region
    BY <1>1, <2>1 DEF RegionTypeOK, Met
  <2>3. \A u : ~Merged(t, u) => region[u] # r
    BY <2>1 DEF Merged
  <2> QED BY <1>1, <1>2, <2>1, <2>2, <2>3 DEF Joins, RegionTypeOK
<1> QED BY <1>3, <1>4

\* The neighbours of a tile with a region are those that one can walk to.
LEMMA MetIsWalkable == ASSUME RegionTypeOK, NEW t \in WithinBorder
                       PROVE  Met(t) = Neighbours(t) \cap walkable
  BY NeighboursOnMap DEF Met, RegionTypeOK

-----------------------------------------------------------------------------
LEMMA RegionIndInit == RegionInit => RegionInd
<1> SUFFICES ASSUME RegionInit PROVE RegionInd
  OBVIOUS
<1>1. RegionTypeOK
  BY DEF RegionInit, RegionTypeOK, REGION_NONE
<1>2. RegionsAreComponents
  BY DEF RegionInit, RegionsAreComponents, Closed, Whole
<1> QED BY <1>1, <1>2 DEF RegionInd

LEMMA TypeKept == ASSUME RegionTypeOK, NEW t \in WithinBorder, Joins(t) PROVE RegionTypeOK'
<1>1. walkable' \subseteq WithinBorder /\ region' \in [Tiles -> Nat] /\ next_region' \in Nat
  BY DEF Joins, RegionTypeOK
<1>2. ASSUME NEW u \in Tiles
      PROVE  (u \in walkable' <=> region'[u] # REGION_NONE) /\ region'[u] < next_region'
  <2>1. CASE u = t
    BY <2>1 DEF Joins
  <2>2. CASE u # t /\ Merged(t, u)
    <3>1. region[u] # REGION_NONE
      BY <2>2 DEF Merged, Met
    <3> QED BY <2>2, <3>1 DEF Joins, RegionTypeOK
  <2>3. CASE u # t /\ ~Merged(t, u)
    BY <2>3 DEF Joins, RegionTypeOK
  <2> QED BY <2>1, <2>2, <2>3
<1> QED BY <1>1, <1>2 DEF RegionTypeOK

\* A closed set that has the tile has the neighbours and with them all of their regions; one
\* that does not have the tile has none of them.
LEMMA ComponentsKept == ASSUME RegionInd, NEW t \in WithinBorder, Joins(t)
                        PROVE  RegionsAreComponents'
<1> DEFINE near == Neighbours(t) \cap walkable
<1>t. RegionTypeOK /\ RegionsAreComponents
  BY DEF RegionInd
<1>1. Met(t) = near
  BY <1>t, MetIsWalkable
<1>2. /\ walkable' = walkable \cup {t} /\ t \notin walkable
      /\ walkable \subseteq Tiles /\ t \in Tiles
  BY <1>t, BorderIsTiles DEF Joins, RegionTypeOK
<1>3. \A u \in walkable : Merged(t, u) <=> \E n \in near : region[u] = region[n]
  BY <1>1 DEF Merged
<1>4. \A u \in walkable : t \in Neighbours(u) <=> u \in near
  BY <1>2, NeighboursMutual
<1>7. \A u \in walkable : IF Merged(t, u) THEN region'[u] = region'[t]
                          ELSE region'[u] = region[u] /\ region[u] # region'[t]
  BY <1>2 DEF Joins
<1>8. t \notin Neighbours(t)
  <2>1. PICK x \in Nat, y \in Nat : t = <<x, y>>
    BY <1>2 DEF Tiles
  <2> QED BY <2>1 DEF Neighbours, Up, Right, Down, Left
<1> HIDE DEF near
<1>5. ASSUME NEW S \in SUBSET walkable', Closed(S)' PROVE Whole(S)'
  <2> DEFINE R == S \ {t}
  <2>0. R \in SUBSET walkable
    BY <1>2
  <2>1. \A u \in S : Neighbours(u) \cap walkable' \subseteq S
    BY <1>5 DEF Closed
  <2>2. Closed(R)
    BY <1>2, <2>1 DEF Closed
  <2>3. Whole(R)
    BY <1>t, <2>0, <2>2 DEF RegionsAreComponents
  <2>4. t \in S => near \subseteq R
    BY <1>2, <2>1 DEF near
  <2>5. \A u \in R : u \in near => t \in S
    BY <1>2, <1>4, <2>0, <2>1
  <2>6. \A u, v \in walkable : u \in R /\ region[u] = region[v] => v \in R
    BY <2>3, <2>0 DEF Whole
  <2>7. near \subseteq walkable
    BY DEF near
  <2>8. t \in S => \A v \in walkable : Merged(t, v) => v \in R
    BY <1>3, <2>4, <2>6, <2>7
  <2>9. \A u \in R : Merged(t, u) => t \in S
    BY <1>3, <2>0, <2>5, <2>6, <2>7
  <2>10. ASSUME NEW u \in S, NEW v \in walkable', region'[u] = region'[v] PROVE v \in S
    <3> HIDE DEF R
    <3>1. u = t \/ u \in R
      BY DEF R
    <3>2. v = t \/ v \in walkable
      BY <1>2
    <3>3. R \subseteq S
      BY DEF R
    <3>4. CASE v = t
      BY <1>7, <2>0, <2>9, <2>10, <3>1, <3>4
    <3>5. CASE v \in walkable /\ u = t
      BY <1>7, <2>8, <2>10, <3>3, <3>5
    <3>6. CASE v \in walkable /\ u \in R
      BY <1>7, <2>0, <2>6, <2>8, <2>9, <2>10, <3>3, <3>6
    <3> QED BY <3>1, <3>2, <3>4, <3>5, <3>6
  <2> QED BY <2>10 DEF Whole
<1>6. ASSUME NEW S \in SUBSET walkable', Whole(S)' PROVE Closed(S)'
  <2> DEFINE R == S \ {t}
  <2>0. R \in SUBSET walkable
    BY <1>2
  <2>1. \A u \in S, v \in walkable' : region'[u] = region'[v] => v \in S
    BY <1>6 DEF Whole
  <2>2. \A n \in near : n \in walkable /\ Merged(t, n)
    BY <1>3 DEF near
  <2>3. \A n \in near : n \in S <=> t \in S
    BY <1>2, <1>7, <2>1, <2>2
  <2>4. ASSUME NEW u \in R, NEW v \in walkable, region[u] = region[v] PROVE v \in R
    <3>1. Merged(t, u) <=> Merged(t, v)
      BY <1>3, <2>0, <2>4
    <3>2. region'[u] = region'[v]
      BY <1>7, <2>0, <2>4, <3>1
    <3> QED BY <1>2, <2>1, <3>2
  <2>5. Whole(R)
    BY <2>4 DEF Whole
  <2>6. Closed(R)
    BY <1>t, <2>0, <2>5 DEF RegionsAreComponents
  <2>7. ASSUME NEW u \in S, NEW v \in Neighbours(u) \cap walkable' PROVE v \in S
    <3>1. CASE u = t /\ v \in walkable
      <4>1. v \in near
        BY <2>7, <3>1 DEF near
      <4> QED BY <2>3, <3>1, <4>1
    <3>2. CASE u \in R /\ v = t
      <4>1. u \in near
        BY <1>4, <2>0, <2>7, <3>2
      <4> QED BY <2>3, <3>2, <4>1
    <3>3. CASE u \in R /\ v \in walkable
      BY <2>6, <2>7, <3>3 DEF Closed
    <3> QED BY <1>2, <1>8, <2>7, <3>1, <3>2, <3>3
  <2> QED BY <2>7 DEF Closed
<1> QED BY <1>5, <1>6 DEF RegionsAreComponents

LEMMA RegionIndNext == RegionInd /\ [RegionNext]_regionVars => RegionInd'
<1> SUFFICES ASSUME RegionInd, [RegionNext]_regionVars PROVE RegionInd'
  OBVIOUS
<1>1. ASSUME NEW t \in WithinBorder, DigRegion(t) PROVE RegionInd'
  <2>1. Joins(t)
    BY <1>1, DigJoins DEF RegionInd
  <2> QED BY <2>1, TypeKept, ComponentsKept DEF RegionInd
<1>2. CASE UNCHANGED regionVars
  <2>1. RegionTypeOK'
    BY <1>2 DEF regionVars, RegionInd, RegionTypeOK
  <2>2. RegionsAreComponents'
    BY <1>2 DEF regionVars, RegionInd, RegionsAreComponents, Closed, Whole
  <2> QED BY <2>1, <2>2 DEF RegionInd
<1> QED BY <1>1, <1>2 DEF RegionNext

LEMMA RegionIndAlways == RegionSpec => []RegionInd
  BY RegionIndInit, RegionIndNext, PTL DEF RegionSpec

-----------------------------------------------------------------------------
\* Exactly the tiles that are dug have a region, and a new region was never used before.
THEOREM RegionTypeCorrect == RegionSpec => []RegionTypeOK
<1>1. RegionInd => RegionTypeOK
  BY DEF RegionInd
<1> QED BY <1>1, RegionIndAlways, PTL

\* In whatever order tiles are dug, regions are the connected parts of the dug tiles: the
\* path finder neither gives up where there is a way nor searches where there is none.
THEOREM RegionsAreExact == RegionSpec => []RegionsAreComponents
<1>1. RegionInd => RegionsAreComponents
  BY DEF RegionInd
<1> QED BY <1>1, RegionIndAlways, PTL

-----------------------------------------------------------------------------
(* Rings that are sorted clockwise, apart from the map: sides S with pointers, areas and values *)

\* x is passed on the way from v clockwise to w; from v to v, that is all around.
Passed(v, w, x) == IF v < w THEN v < x /\ x < w ELSE v < x \/ x < w

Linked(S, next, prev, area) ==
  /\ next \in [S -> S] /\ prev \in [S -> S]
  /\ \A s \in S : prev[next[s]] = s /\ next[prev[s]] = s /\ area[next[s]] = area[s]

Ordered(S, next, area, val) ==
  \A s, t \in S : area[s] = area[t] =>
    /\ val[s] = val[t] => s = t
    /\ ~Passed(val[s], val[next[s]], val[t])

Sorted(S, next, prev, area, val) ==
  /\ Linked(S, next, prev, area)
  /\ \A s \in S : val[s] \in Int
  /\ Ordered(S, next, area, val)

\* f and g agree on S.
Agree(S, f, g) == \A t \in S : g[t] = f[t]

\* No side of area a has value v.
Fresh(S, area, a, val, v) == \A t \in S : area[t] = a => val[t] # v

LEMMA AreaOfPrev == ASSUME NEW S, NEW next, NEW prev, NEW area, Linked(S, next, prev, area), NEW s \in S
                    PROVE  prev[s] \in S /\ next[s] \in S /\ area[prev[s]] = area[s]
  BY DEF Linked

\* A side that fits between a side and its next one.
LEMMA SideBehind ==
  ASSUME NEW S, NEW next, NEW prev, NEW area, NEW val, Sorted(S, next, prev, area, val),
         NEW s, s \notin S, NEW c \in S, NEW area2, NEW val2,
         Agree(S, area, area2), Agree(S, val, val2),
         area2[s] = area[c], val2[s] \in Int, Fresh(S, area, area[c], val, val2[s]),
         Passed(val[c], val[next[c]], val2[s])
  PROVE  Sorted(S \cup {s}, With(With(next, c, s), s, next[c]),
                With(With(prev, next[c], s), s, c), area2, val2)
<1> DEFINE T == S \cup {s}
           d == next[c]
           n2 == With(With(next, c, s), s, d)
           p2 == With(With(prev, d, s), s, c)
<1> USE DEF Agree, Fresh
<1>1. /\ next \in [S -> S] /\ prev \in [S -> S] /\ d \in S
      /\ \A t \in S : prev[next[t]] = t /\ next[prev[t]] = t /\ area[next[t]] = area[t]
      /\ next[c] = d /\ prev[d] = c /\ area[d] = area[c]
  BY DEF Sorted, Linked
<1>2. /\ n2 \in [T -> T] /\ n2[s] = d /\ n2[c] = s
      /\ \A t \in S \ {c} : n2[t] = next[t]
  BY <1>1 DEF With
<1>3. /\ p2 \in [T -> T] /\ p2[s] = c /\ p2[d] = s
      /\ \A t \in S \ {d} : p2[t] = prev[t]
  BY <1>1 DEF With
<1>4. Linked(T, n2, p2, area2)
  <2> SUFFICES ASSUME NEW t \in T
               PROVE  p2[n2[t]] = t /\ n2[p2[t]] = t /\ area2[n2[t]] = area2[t]
    BY <1>2, <1>3 DEF Linked
  <2> HIDE DEF n2, p2, d
  <2>1. CASE t = s
    BY <2>1, <1>1, <1>2, <1>3
  <2>2. CASE t = c
    BY <2>2, <1>1, <1>2, <1>3
  <2>3. CASE t \in S \ {c}
    <3>0. next[t] # d
      BY <1>1, <2>3
    <3>1. n2[t] = next[t] /\ next[t] \in S \ {d}
      BY <1>1, <1>2, <2>3, <3>0
    <3>4. prev[next[t]] = t
      BY <1>1, <2>3
    <3>5. p2[next[t]] = prev[next[t]]
      BY <1>3, <3>1
    <3>2. p2[n2[t]] = t
      BY <3>1, <3>4, <3>5
    <3>3. n2[p2[t]] = t
      <4>1. CASE t = d
        BY <1>2, <1>3, <4>1
      <4>2. CASE t # d
        <5>1. prev[t] # c
          BY <1>1, <2>3, <4>2
        <5> QED BY <1>1, <1>2, <1>3, <2>3, <4>2, <5>1
      <4> QED BY <4>1, <4>2
    <3>6. area2[next[t]] = area2[t]
      BY <1>1, <3>1, <2>3
    <3> QED BY <3>1, <3>2, <3>3, <3>6
  <2>4. t = s \/ t = c \/ t \in S \ {c}
    OBVIOUS
  <2> QED BY <2>1, <2>2, <2>3, <2>4
<1>5. \A t \in T : val2[t] \in Int
  BY DEF Sorted
<1>6. Ordered(T, n2, area2, val2)
  <2> SUFFICES ASSUME NEW x \in T, NEW t \in T, area2[x] = area2[t]
               PROVE  (val2[x] = val2[t] => x = t) /\ ~Passed(val2[x], val2[n2[x]], val2[t])
    BY DEF Ordered
  <2>1. \A y, z \in S : area[y] = area[z] =>
           (val[y] = val[z] => y = z) /\ ~Passed(val[y], val[next[y]], val[z])
    BY DEF Sorted, Ordered
  <2>2. \A y \in S : val[y] \in Int
    BY DEF Sorted
  <2>3. val2[x] = val2[t] => x = t
    BY <2>1
  <2> HIDE DEF n2, p2
  <2>4. CASE x = s \/ x = c
    <3>1. area[c] = area[d] /\ (t # s => t \in S /\ area[t] = area[c])
      BY <2>4, <1>1
    <3>2. ~Passed(val[c], val[d], val[c]) /\ ~Passed(val[c], val[d], val[d])
      BY <2>1, <3>1, <1>1
    <3>3. t # s => ~Passed(val[c], val[d], val[t])
      BY <2>1, <3>1
    <3>4. val2[n2[x]] = IF x = s THEN val[d] ELSE val2[s]
      BY <1>1, <1>2, <2>4
    <3>5. t # s => val2[t] = val[t]
      OBVIOUS
    <3>6. val[c] \in Int /\ val[d] \in Int /\ val2[s] \in Int /\ val2[t] \in Int /\ val2[c] = val[c]
      BY <1>1, <1>5, <2>2
    <3>7. val[c] # val2[s] /\ val[d] # val2[s]
      BY <3>1, <1>1
    <3> QED BY <2>3, <2>4, <3>2, <3>3, <3>4, <3>5, <3>6, <3>7 DEF Passed
  <2>5. CASE x \in S \ {c} /\ t \in S
    BY <2>1, <2>3, <2>5, <1>1, <1>2
  <2>6. CASE x \in S \ {c} /\ t = s
    <3>0. area[x] = area[c]
      BY <2>6
    <3>1. area[c] = area[d] /\ area[next[x]] = area[c] /\ next[x] \in S /\ next[x] # d
      BY <2>6, <1>1
    <3>2. /\ ~Passed(val[x], val[next[x]], val[c]) /\ ~Passed(val[x], val[next[x]], val[d])
          /\ ~Passed(val[c], val[d], val[x]) /\ ~Passed(val[c], val[d], val[next[x]])
          /\ val[x] # val[c] /\ val[next[x]] # val[d]
      BY <2>1, <3>1, <1>1, <2>6, <3>0
    <3>3. val[c] \in Int /\ val[d] \in Int /\ val2[s] \in Int /\ val[x] \in Int /\ val[next[x]] \in Int
      BY <2>2, <3>1, <1>1, <2>6
    <3>4. val[x] # val2[s] /\ val[next[x]] # val2[s]
      BY <3>1, <2>6, <3>0
    <3>5. n2[x] = next[x] /\ val2[next[x]] = val[next[x]] /\ val2[x] = val[x]
      BY <3>1, <1>2, <2>6
    <3>6. ~Passed(val[x], val[next[x]], val2[s])
      BY <3>2, <3>3, <3>4 DEF Passed
    <3> QED BY <2>3, <2>6, <3>5, <3>6
  <2> QED BY <2>4, <2>5, <2>6
<1> QED BY <1>4, <1>5, <1>6 DEF Sorted

\* A side that leaves.
LEMMA SideGone ==
  ASSUME NEW S, NEW next, NEW prev, NEW area, NEW val, Sorted(S, next, prev, area, val),
         NEW s \in S
  PROVE  Sorted(S \ {s}, Without([next EXCEPT ![prev[s]] = next[s]], s),
                Without([prev EXCEPT ![next[s]] = prev[s]], s), area, val)
<1> DEFINE T == S \ {s}
           c == prev[s]
           d == next[s]
           n2 == Without([next EXCEPT ![c] = d], s)
           p2 == Without([prev EXCEPT ![d] = c], s)
<1>1. /\ next \in [S -> S] /\ prev \in [S -> S] /\ d \in S /\ c \in S
      /\ \A t \in S : prev[next[t]] = t /\ next[prev[t]] = t /\ area[next[t]] = area[t]
      /\ next[c] = s /\ prev[d] = s /\ area[d] = area[s] /\ area[c] = area[s]
      /\ next[s] = d /\ prev[s] = c
  BY DEF Sorted, Linked
<1> HIDE DEF c, d
<1>2. c = s <=> d = s
  BY <1>1
<1>3. \A t \in T : t # c => next[t] \in T
  BY <1>1
<1>4. \A t \in T : t # d => prev[t] \in T
  BY <1>1
<1>5. /\ n2 \in [T -> T] /\ (c # s => n2[c] = d)
      /\ \A t \in T \ {c} : n2[t] = next[t]
  BY <1>1, <1>2, <1>3 DEF Without
<1>6. /\ p2 \in [T -> T] /\ (c # s => p2[d] = c)
      /\ \A t \in T \ {d} : p2[t] = prev[t]
  BY <1>1, <1>2, <1>4 DEF Without
<1> HIDE DEF n2, p2
<1>7. Linked(T, n2, p2, area)
  <2> SUFFICES ASSUME NEW t \in T
               PROVE  p2[n2[t]] = t /\ n2[p2[t]] = t /\ area[n2[t]] = area[t]
    BY <1>5, <1>6 DEF Linked
  <2>1. prev[next[t]] = t /\ next[prev[t]] = t /\ area[next[t]] = area[t]
    BY <1>1
  <2>2. p2[n2[t]] = t
    <3>1. CASE t = c
      BY <1>1, <1>2, <1>5, <1>6, <3>1
    <3>2. CASE t # c
      <4>1. next[t] # d
        BY <1>1, <3>2, <2>1
      <4>2. p2[next[t]] = prev[next[t]]
        BY <1>3, <1>6, <3>2, <4>1
      <4> QED BY <1>5, <2>1, <3>2, <4>2
    <3> QED BY <3>1, <3>2
  <2>3. n2[p2[t]] = t
    <3>1. CASE t = d
      BY <1>1, <1>2, <1>5, <1>6, <3>1
    <3>2. CASE t # d
      <4>1. prev[t] # c
        BY <1>1, <3>2, <2>1
      <4>2. n2[prev[t]] = next[prev[t]]
        BY <1>4, <1>5, <3>2, <4>1
      <4> QED BY <1>6, <2>1, <3>2, <4>2
    <3> QED BY <3>1, <3>2
  <2>4. area[n2[t]] = area[t]
    BY <1>1, <1>5, <2>1
  <2> QED BY <2>2, <2>3, <2>4
<1>8. Ordered(T, n2, area, val)
  <2> SUFFICES ASSUME NEW x \in T, NEW t \in T, area[x] = area[t]
               PROVE  (val[x] = val[t] => x = t) /\ ~Passed(val[x], val[n2[x]], val[t])
    BY DEF Ordered
  <2>1. \A y, z \in S : area[y] = area[z] =>
           (val[y] = val[z] => y = z) /\ ~Passed(val[y], val[next[y]], val[z])
    BY DEF Sorted, Ordered
  <2>2. \A y \in S : val[y] \in Int
    BY DEF Sorted
  <2>3. CASE x # c
    BY <1>5, <2>1, <2>3
  <2>4. CASE x = c
    <3>1. /\ ~Passed(val[c], val[s], val[t]) /\ ~Passed(val[s], val[d], val[t])
          /\ ~Passed(val[c], val[s], val[c]) /\ ~Passed(val[s], val[d], val[c])
          /\ val[t] # val[s] /\ val[c] # val[s]
      BY <1>1, <2>1, <2>4
    <3>2. val[c] \in Int /\ val[s] \in Int /\ val[t] \in Int /\ val[d] \in Int
      BY <1>1, <2>2
    <3>3. ~Passed(val[c], val[d], val[t])
      BY <3>1, <3>2 DEF Passed
    <3> QED BY <1>2, <1>5, <2>1, <2>4, <3>3
  <2> QED BY <2>3, <2>4
<1>9. \A t \in T : val[t] \in Int
  BY DEF Sorted
<1> QED BY <1>7, <1>8, <1>9 DEF Sorted, n2, p2, T, c, d

\* A side whose value goes back by less than the way from the side before.
LEMMA SideMoved ==
  ASSUME NEW S, NEW next, NEW prev, NEW area, NEW val, Sorted(S, next, prev, area, val),
         NEW s \in S, NEW val2, val2[s] \in Int, \A t \in S \ {s} : val2[t] = val[t],
         \A t \in S : t # s /\ area[t] = area[s] =>
           val[t] # val2[s] /\ ~Passed(val2[s], val[s], val[t])
  PROVE  Sorted(S, next, prev, area, val2)
<1>1. /\ next \in [S -> S] /\ \A t \in S : area[next[t]] = area[t] /\ prev[next[t]] = t
  BY DEF Sorted, Linked
<1>2. \A y, z \in S : area[y] = area[z] =>
         (val[y] = val[z] => y = z) /\ ~Passed(val[y], val[next[y]], val[z])
  BY DEF Sorted, Ordered
<1>3. \A y \in S : val[y] \in Int /\ val2[y] \in Int
  BY DEF Sorted
<1>4. ASSUME NEW x \in S, NEW t \in S, area[x] = area[t]
      PROVE  (val2[x] = val2[t] => x = t) /\ ~Passed(val2[x], val2[next[x]], val2[t])
  <2>0. next[x] \in S /\ area[next[x]] = area[x]
    BY <1>1
  <2>1. val2[x] = val2[t] => x = t
    BY <1>2, <1>4
  <2>2. CASE x # s /\ t # s /\ next[x] # s
    BY <1>2, <1>4, <2>0, <2>1, <2>2
  <2>3. CASE x # s /\ t = s /\ next[x] # s
    <3>1. /\ ~Passed(val[x], val[next[x]], val[s]) /\ ~Passed(val2[s], val[s], val[x])
          /\ ~Passed(val2[s], val[s], val[next[x]])
          /\ ~Passed(val[x], val[next[x]], val[x])
          /\ val[x] # val[s] /\ val[next[x]] # val[s] /\ val[x] # val2[s] /\ val[next[x]] # val2[s]
      BY <1>2, <1>4, <2>0, <2>3
    <3>2. val[x] \in Int /\ val[next[x]] \in Int /\ val[s] \in Int /\ val2[s] \in Int
      BY <1>3, <2>0
    <3>3. ~Passed(val[x], val[next[x]], val2[s])
      BY <3>1, <3>2 DEF Passed
    <3> QED BY <2>0, <2>1, <2>3, <3>3
  <2>4. CASE x # s /\ next[x] = s
    <3>1. ~Passed(val[x], val[s], val[t]) /\ ~Passed(val[x], val[s], val[x]) /\ val[x] # val[s]
      BY <1>2, <1>4, <2>0, <2>4
    <3>2. val[x] # val2[s] /\ ~Passed(val2[s], val[s], val[x])
      BY <1>4, <2>0, <2>4
    <3>3. t # s => val[t] # val2[s] /\ ~Passed(val2[s], val[s], val[t]) /\ val2[t] = val[t]
      BY <1>4, <2>0, <2>4
    <3>4. /\ val[x] \in Int /\ val[t] \in Int /\ val[s] \in Int /\ val2[s] \in Int
          /\ val2[x] = val[x]
      BY <1>3, <2>4
    <3>5. ~Passed(val2[x], val2[s], val2[t])
      BY <3>1, <3>2, <3>3, <3>4 DEF Passed
    <3> QED BY <2>1, <2>4, <3>5
  <2>5. CASE x = s
    <3>1. ~Passed(val[s], val[next[s]], val[t]) /\ ~Passed(val[s], val[next[s]], val[s])
      BY <1>2, <1>4, <2>5
    <3>2. /\ next[s] # s => /\ val[next[s]] # val2[s] /\ ~Passed(val2[s], val[s], val[next[s]])
                            /\ val2[next[s]] = val[next[s]]
          /\ next[s] # s => val[next[s]] # val[s]
      BY <1>2, <1>4, <2>0, <2>5
    <3>3. t # s => /\ val[t] # val2[s] /\ ~Passed(val2[s], val[s], val[t]) /\ val2[t] = val[t]
                   /\ val[t] # val[s]
      BY <1>2, <1>4, <2>5
    <3>4. val[next[s]] \in Int /\ val[t] \in Int /\ val[s] \in Int /\ val2[s] \in Int
      BY <1>3, <2>0, <2>5
    <3>5. CASE next[s] = s
      BY <3>1, <3>3, <3>4, <3>5, <2>5, <2>1 DEF Passed
    <3>6. CASE next[s] # s
      BY <3>1, <3>2, <3>3, <3>4, <3>6, <2>5, <2>1 DEF Passed
    <3> QED BY <3>5, <3>6
  <2> QED BY <2>2, <2>3, <2>4, <2>5
<1> QED BY <1>3, <1>4 DEF Sorted, Ordered

\* What map_zap_portal makes of the pointers of the sides T that stay: those that led to one
\* of the two sides s1 and s2 lead to what is behind the other one.
Across(T, next, prev, s1, s2, n2) ==
  /\ n2 \in [T -> T]
  /\ \A t \in T :
       n2[t] = IF t = prev[s1] THEN IF next[s2] = s2 THEN next[s1] ELSE next[s2]
               ELSE IF t = prev[s2] THEN IF next[s1] = s1 THEN next[s2] ELSE next[s1]
               ELSE next[t]

\* Areas a and b are one area.
OneArea(T, area, a, b, area2) ==
  \A t, u \in T : area2[t] = area2[u] <=> area[t] = area[u] \/ {area[t], area[u]} = {a, b}

\* The sides of area a are all inside, or all outside, of the walk from low to high.
Inside(T, area, a, val, low, high) == \A t \in T : area[t] = a => low <= val[t] /\ val[t] <= high
Outside(T, area, a, val, low, high) == \A t \in T : area[t] = a => val[t] < low \/ high < val[t]

\* The rings of two areas that touch at s1 and s2 become one.  All of the ring of s2 is between
\* low and high, as s1 is, and all of the ring of s1 is not, as s2 is not.
LEMMA RingsSpliced ==
  ASSUME NEW S, NEW next, NEW prev, NEW area, NEW val, Sorted(S, next, prev, area, val),
         NEW s1 \in S, NEW s2 \in S, area[s1] # area[s2],
         NEW T, T = S \ {s1, s2}, NEW n2, NEW p2,
         Across(T, next, prev, s1, s2, n2), Across(T, prev, next, s1, s2, p2),
         NEW area2, OneArea(T, area, area[s1], area[s2], area2),
         NEW low \in Int, NEW high \in Int,
         low <= val[s1], val[s1] <= high, val[s2] < low \/ high < val[s2],
         Outside(T, area, area[s1], val, low, high), Inside(T, area, area[s2], val, low, high)
  PROVE  Sorted(T, n2, p2, area2, val)
<1> USE DEF OneArea, Inside, Outside
<1> DEFINE c1 == prev[s1]
           d1 == next[s1]
           c2 == prev[s2]
           d2 == next[s2]
<1>1. /\ next \in [S -> S] /\ prev \in [S -> S]
      /\ \A t \in S : prev[next[t]] = t /\ next[prev[t]] = t /\ area[next[t]] = area[t]
      /\ \A t \in S : next[t] \in S /\ prev[t] \in S /\ area[prev[t]] = area[t]
  BY DEF Sorted, Linked
<1>2. /\ c1 \in S /\ d1 \in S /\ c2 \in S /\ d2 \in S
      /\ area[c1] = area[s1] /\ area[d1] = area[s1] /\ area[c2] = area[s2] /\ area[d2] = area[s2]
      /\ next[c1] = s1 /\ prev[d1] = s1 /\ next[c2] = s2 /\ prev[d2] = s2
      /\ next[s1] = d1 /\ prev[s1] = c1 /\ next[s2] = d2 /\ prev[s2] = c2
  BY <1>1
<1>3. (c1 = s1 <=> d1 = s1) /\ (c2 = s2 <=> d2 = s2)
  BY <1>1, <1>2
<1>4. s1 # s2 /\ c1 # s2 /\ d1 # s2 /\ c2 # s1 /\ d2 # s1 /\ c1 # c2 /\ d1 # d2
  BY <1>2
<1>5. /\ n2 \in [T -> T] /\ p2 \in [T -> T]
      /\ \A t \in T : n2[t] = IF t = c1 THEN IF d2 = s2 THEN d1 ELSE d2
                              ELSE IF t = c2 THEN IF d1 = s1 THEN d2 ELSE d1
                              ELSE next[t]
      /\ \A t \in T : p2[t] = IF t = d1 THEN IF c2 = s2 THEN c1 ELSE c2
                              ELSE IF t = d2 THEN IF c1 = s1 THEN c2 ELSE c1
                              ELSE prev[t]
  BY DEF Across
<1>6. /\ \A t \in T : t # c1 /\ t # c2 => next[t] \in T /\ next[t] # d1 /\ next[t] # d2
      /\ \A t \in T : t # d1 /\ t # d2 => prev[t] \in T /\ prev[t] # c1 /\ prev[t] # c2
  BY <1>1, <1>2
<1>7. \A y, z \in S : area[y] = area[z] =>
         (val[y] = val[z] => y = z) /\ ~Passed(val[y], val[next[y]], val[z])
  BY DEF Sorted, Ordered
<1>8. \A y \in S : val[y] \in Int
  BY DEF Sorted
<1> HIDE DEF c1, c2, d1, d2
<1>9. Linked(T, n2, p2, area2)
  <2> SUFFICES ASSUME NEW t \in T
               PROVE  p2[n2[t]] = t /\ n2[p2[t]] = t /\ area2[n2[t]] = area2[t]
    BY <1>5 DEF Linked
  <2>1. t # c1 /\ t # c2 => p2[n2[t]] = t /\ n2[t] = next[t]
    <3> SUFFICES ASSUME t # c1, t # c2 PROVE p2[n2[t]] = t /\ n2[t] = next[t]
      OBVIOUS
    <3>1. n2[t] = next[t] /\ next[t] \in T /\ next[t] # d1 /\ next[t] # d2
      BY <1>5, <1>6
    <3>2. p2[next[t]] = prev[next[t]] /\ prev[next[t]] = t
      BY <1>1, <1>5, <3>1
    <3> QED BY <3>1, <3>2
  <2>2. t # d1 /\ t # d2 => n2[p2[t]] = t
    <3> SUFFICES ASSUME t # d1, t # d2 PROVE n2[p2[t]] = t
      OBVIOUS
    <3>1. p2[t] = prev[t] /\ prev[t] \in T /\ prev[t] # c1 /\ prev[t] # c2
      BY <1>5, <1>6
    <3>2. n2[prev[t]] = next[prev[t]] /\ next[prev[t]] = t
      BY <1>1, <1>5, <3>1
    <3> QED BY <3>1, <3>2
  <2>3. /\ d1 # s1 => d1 \in T /\ c1 \in T
        /\ d2 # s2 => d2 \in T /\ c2 \in T
    BY <1>2, <1>3, <1>4
  <2>4. t = c1 \/ t = c2 => p2[n2[t]] = t
    BY <1>3, <1>4, <1>5, <2>3
  <2>5. t = d1 \/ t = d2 => n2[p2[t]] = t
    BY <1>3, <1>4, <1>5, <2>3
  <2>6. area[n2[t]] = area[t] \/ {area[n2[t]], area[t]} = {area[s1], area[s2]}
    <3>1. t # c1 /\ t # c2 => area[n2[t]] = area[t]
      BY <1>1, <2>1
    <3>2. t = c1 \/ t = c2 => area[t] \in {area[s1], area[s2]} /\ area[n2[t]] \in {area[s1], area[s2]}
      BY <1>2, <1>5
    <3> QED BY <3>1, <3>2
  <2>7. area2[n2[t]] = area2[t]
    <3>1. n2[t] \in T
      BY <1>5
    <3> QED BY <2>6, <3>1
  <2> QED BY <2>1, <2>2, <2>4, <2>5, <2>7
<1>10. ASSUME NEW x \in T, NEW t \in T, area2[x] = area2[t]
       PROVE  (val[x] = val[t] => x = t) /\ ~Passed(val[x], val[n2[x]], val[t])
  <2>1. area[x] = area[t] \/ {area[x], area[t]} = {area[s1], area[s2]}
    BY <1>10
  <2>2. n2[x] \in T /\ x \in S /\ t \in S
    BY <1>5
  <2>3. val[x] \in Int /\ val[t] \in Int /\ val[n2[x]] \in Int /\ val[s1] \in Int /\ val[s2] \in Int
    BY <1>8, <2>2
  <2>4. val[x] = val[t] => x = t
    <3>1. area[x] = area[t] \/ (area[x] = area[s1] /\ area[t] = area[s2])
                            \/ (area[x] = area[s2] /\ area[t] = area[s1])
      BY <2>1
    <3>2. CASE area[x] = area[t]
      BY <1>7, <2>2, <3>2
    <3>3. CASE (area[x] = area[s1] /\ area[t] = area[s2]) \/ (area[x] = area[s2] /\ area[t] = area[s1])
      BY <2>3, <3>3
    <3> QED BY <3>1, <3>2, <3>3
  <2>5. CASE x # c1 /\ x # c2
    <3>0. n2[x] = next[x] /\ area[next[x]] = area[x] /\ next[x] \in T
      BY <1>1, <1>5, <1>6, <2>5
    <3>1. CASE area[x] = area[t]
      BY <1>7, <2>2, <2>4, <3>0, <3>1
    <3>2. CASE area[x] = area[s1] /\ area[t] = area[s2]
      <4>1. ~Passed(val[x], val[next[x]], val[s1]) /\ val[x] # val[s1]
        BY <1>7, <2>2, <3>2
      <4>2. val[x] < low \/ high < val[x]
        BY <3>2
      <4>3. val[next[x]] < low \/ high < val[next[x]]
        BY <3>0, <3>2
      <4>4. low <= val[t] /\ val[t] <= high
        BY <3>2
      <4>5. ~Passed(val[x], val[n2[x]], val[t])
        BY <2>3, <3>0, <4>1, <4>2, <4>3, <4>4 DEF Passed
      <4> QED BY <2>4, <4>5
    <3>3. CASE area[x] = area[s2] /\ area[t] = area[s1]
      <4>1. ~Passed(val[x], val[next[x]], val[s2]) /\ val[x] # val[s2]
        BY <1>7, <2>2, <3>3
      <4>2. val[t] < low \/ high < val[t]
        BY <3>3
      <4>3. low <= val[next[x]] /\ val[next[x]] <= high
        BY <3>0, <3>3
      <4>4. low <= val[x] /\ val[x] <= high
        BY <3>3
      <4>5. ~Passed(val[x], val[n2[x]], val[t])
        BY <2>3, <3>0, <4>1, <4>2, <4>3, <4>4 DEF Passed
      <4> QED BY <2>4, <4>5
    <3>4. area[x] = area[t] \/ (area[x] = area[s1] /\ area[t] = area[s2])
                            \/ (area[x] = area[s2] /\ area[t] = area[s1])
      BY <2>1
    <3> QED BY <3>1, <3>2, <3>3, <3>4
  <2>6. CASE x = c1
    <3>0. area[x] = area[s1] /\ c1 # s1 /\ d1 # s1 /\ d1 \in T
      BY <1>2, <1>3, <1>4, <2>6
    <3>1. /\ ~Passed(val[c1], val[s1], val[c1]) /\ val[c1] # val[s1]
          /\ ~Passed(val[c1], val[s1], val[d1]) /\ val[d1] # val[s1]
          /\ ~Passed(val[s1], val[d1], val[c1])
      BY <1>2, <1>7, <3>0
    <3>2. val[c1] < low \/ high < val[c1]
      BY <2>6, <3>0
    <3>3. val[d1] < low \/ high < val[d1]
      BY <1>2, <3>0
    <3>4. val[d1] \in Int /\ val[c1] \in Int
      BY <1>2, <1>8
    <3>5. CASE d2 = s2
      <4>0. area[t] = area[s1] \/ area[t] = area[s2]
        BY <2>1, <3>0
      <4>1. area[t] # area[s2]
        <5> SUFFICES ASSUME area[t] = area[s2] PROVE FALSE
          OBVIOUS
        <5>1. ~Passed(val[s2], val[s2], val[t]) /\ val[t] # val[s2]
          BY <1>7, <3>5, <2>2 DEF d2
        <5> QED BY <5>1, <2>3 DEF Passed
      <4>2. /\ ~Passed(val[c1], val[s1], val[t]) /\ ~Passed(val[s1], val[d1], val[t])
            /\ val[t] # val[s1] /\ n2[x] = d1
        BY <1>2, <1>5, <1>7, <2>2, <2>6, <3>5, <4>0, <4>1 DEF d1
      <4>3. ~Passed(val[c1], val[d1], val[t])
        BY <2>3, <3>1, <3>4, <4>2 DEF Passed
      <4> QED BY <2>4, <2>6, <4>2, <4>3
    <3>6. CASE d2 # s2
      <4>0. n2[x] = d2 /\ d2 \in T /\ area[d2] = area[s2] /\ val[d2] \in Int
        BY <1>2, <1>4, <1>5, <1>8, <2>6, <3>6
      <4>1. low <= val[d2] /\ val[d2] <= high
        BY <4>0
      <4>2. CASE area[t] = area[s1]
        <5>1. val[t] < low \/ high < val[t]
          BY <4>2
        <5>2. ~Passed(val[c1], val[s1], val[t])
          BY <1>2, <1>7, <2>2, <4>2
        <5>3. ~Passed(val[c1], val[d2], val[t])
          BY <2>3, <3>1, <3>2, <3>4, <4>0, <4>1, <5>1, <5>2 DEF Passed
        <5> QED BY <2>4, <2>6, <4>0, <5>3
      <4>3. CASE area[t] = area[s2]
        <5>1. low <= val[t] /\ val[t] <= high
          BY <4>3
        <5>2. ~Passed(val[s2], val[d2], val[t])
          BY <1>2, <1>7, <2>2, <4>3 DEF d2
        <5>3. ~Passed(val[c1], val[d2], val[t])
          BY <2>3, <3>2, <3>4, <4>0, <4>1, <5>1, <5>2 DEF Passed
        <5> QED BY <2>4, <2>6, <4>0, <5>3
      <4> QED BY <2>1, <3>0, <4>2, <4>3
    <3> QED BY <3>5, <3>6
  <2>7. CASE x = c2
    <3>0. area[x] = area[s2] /\ c2 # s2 /\ d2 # s2 /\ d2 \in T /\ x # c1
      BY <1>2, <1>3, <1>4, <2>7
    <3>1. /\ ~Passed(val[c2], val[s2], val[c2]) /\ val[c2] # val[s2]
          /\ ~Passed(val[c2], val[s2], val[d2]) /\ val[d2] # val[s2]
          /\ ~Passed(val[s2], val[d2], val[c2])
      BY <1>2, <1>7, <3>0
    <3>2. low <= val[c2] /\ val[c2] <= high
      BY <2>7, <3>0
    <3>3. low <= val[d2] /\ val[d2] <= high
      BY <1>2, <3>0
    <3>4. val[d2] \in Int /\ val[c2] \in Int
      BY <1>2, <1>8
    <3>5. CASE d1 = s1
      <4>0. area[t] = area[s1] \/ area[t] = area[s2]
        BY <2>1, <3>0
      <4>1. area[t] # area[s1]
        <5> SUFFICES ASSUME area[t] = area[s1] PROVE FALSE
          OBVIOUS
        <5>1. ~Passed(val[s1], val[s1], val[t]) /\ val[t] # val[s1]
          BY <1>7, <3>5, <2>2 DEF d1
        <5> QED BY <5>1, <2>3 DEF Passed
      <4>2. /\ ~Passed(val[c2], val[s2], val[t]) /\ ~Passed(val[s2], val[d2], val[t])
            /\ val[t] # val[s2] /\ n2[x] = d2
        BY <1>2, <1>5, <1>7, <2>2, <2>7, <3>0, <3>5, <4>0, <4>1 DEF d2
      <4>3. ~Passed(val[c2], val[d2], val[t])
        BY <2>3, <3>1, <3>4, <4>2 DEF Passed
      <4> QED BY <2>4, <2>7, <4>2, <4>3
    <3>6. CASE d1 # s1
      <4>0. n2[x] = d1 /\ d1 \in T /\ area[d1] = area[s1] /\ val[d1] \in Int
        BY <1>2, <1>4, <1>5, <1>8, <2>7, <3>0, <3>6
      <4>1. val[d1] < low \/ high < val[d1]
        BY <4>0
      <4>2. CASE area[t] = area[s2]
        <5>1. low <= val[t] /\ val[t] <= high
          BY <4>2
        <5>2. ~Passed(val[c2], val[s2], val[t])
          BY <1>2, <1>7, <2>2, <4>2
        <5>3. ~Passed(val[c2], val[d1], val[t])
          BY <2>3, <3>1, <3>2, <3>4, <4>0, <4>1, <5>1, <5>2 DEF Passed
        <5> QED BY <2>4, <2>7, <4>0, <5>3
      <4>3. CASE area[t] = area[s1]
        <5>1. val[t] < low \/ high < val[t]
          BY <4>3
        <5>2. ~Passed(val[s1], val[d1], val[t])
          BY <1>2, <1>7, <2>2, <4>3 DEF d1
        <5>3. ~Passed(val[c2], val[d1], val[t])
          BY <2>3, <3>2, <3>4, <4>0, <4>1, <5>1, <5>2 DEF Passed
        <5> QED BY <2>4, <2>7, <4>0, <5>3
      <4> QED BY <2>1, <3>0, <4>2, <4>3
    <3> QED BY <3>5, <3>6
  <2> QED BY <2>5, <2>6, <2>7
<1>11. \A t \in T : val[t] \in Int
  BY <1>8
<1> QED BY <1>9, <1>10, <1>11 DEF Sorted, Ordered

LEMMA LeastOf == ASSUME NEW X, X \subseteq Nat, X # {} PROVE \E n \in X : \A k \in X : n <= k
<1>1. PICK n \in X : \A k \in X : ~ (<<k, n>> \in OpToRel(<, Nat))
  BY NatLessThanWellFounded, WFMin
<1>2. ASSUME NEW k \in X PROVE n <= k
  <2>1. k \in Nat /\ n \in Nat /\ ~ (k < n)
    BY <1>1 DEF OpToRel
  <2> QED BY <2>1
<1> QED BY <1>2

LEMMA GreatestOf == ASSUME NEW b \in Nat, NEW X, X \subseteq 0 .. b, X # {}
                    PROVE  \E n \in X : \A k \in X : k <= n
<1> DEFINE Y == {b - k : k \in X}
<1>1. Y \subseteq Nat /\ Y # {}
  OBVIOUS
<1>2. PICK y \in Y : \A z \in Y : y <= z
  BY <1>1, LeastOf
<1>3. PICK n \in X : y = b - n
  OBVIOUS
<1>4. ASSUME NEW k \in X PROVE k <= n
  <2>1. b - n <= b - k
    BY <1>2, <1>3
  <2> QED BY <2>1
<1> QED BY <1>4

\* Who goes on along the next pointers comes to every side of the area.
LEMMA WholeRing ==
  ASSUME NEW S, NEW next, NEW prev, NEW area, NEW val, Sorted(S, next, prev, area, val),
         NEW b \in Nat, \A t \in S : val[t] \in 0 .. b,
         NEW R, R \subseteq S, NEW r \in R, \A t \in R : next[t] \in R,
         NEW u \in S, area[u] = area[r]
  PROVE  u \in R
<1> DEFINE In == {t \in R : area[t] = area[r]}
           Out == {t \in S : t \notin R /\ area[t] = area[r]}
<1> SUFFICES ASSUME u \in Out PROVE FALSE
  OBVIOUS
<1>1. \A y, z \in S : area[y] = area[z] =>
         (val[y] = val[z] => y = z) /\ ~Passed(val[y], val[next[y]], val[z])
  BY DEF Sorted, Ordered
<1>2. \A t \in S : /\ prev[next[t]] = t /\ next[prev[t]] = t /\ area[next[t]] = area[t]
                   /\ next[t] \in S /\ prev[t] \in S /\ area[prev[t]] = area[t]
  BY DEF Sorted, Linked
<1>3. \A t \in Out : prev[t] \in Out
  BY <1>2
<1>4. \A t \in In : next[t] \in In
  BY <1>2
<1>5. PICK t \in Out : \A k \in Out : val[t] <= val[k]
  <2> DEFINE X == {val[k] : k \in Out}
  <2>1. X \subseteq Nat /\ X # {}
    OBVIOUS
  <2>2. PICK n \in X : \A k \in X : n <= k
    BY <2>1, LeastOf
  <2> QED BY <2>2
<1>6. PICK s \in In : \A k \in In : val[k] <= val[s]
  <2> DEFINE X == {val[k] : k \in In}
  <2>1. X \subseteq 0 .. b /\ X # {}
    OBVIOUS
  <2>2. PICK n \in X : \A k \in X : k <= n
    BY <2>1, GreatestOf
  <2> QED BY <2>2
<1>7. /\ t \in S /\ s \in S /\ prev[t] \in S /\ next[s] \in S
      /\ area[t] = area[r] /\ area[s] = area[r] /\ area[prev[t]] = area[r]
      /\ val[t] <= val[prev[t]] /\ val[next[s]] <= val[s]
      /\ next[prev[t]] = t /\ s # prev[t]
  BY <1>2, <1>3, <1>4, <1>5, <1>6
<1>8. ~Passed(val[prev[t]], val[t], val[s]) /\ ~Passed(val[s], val[next[s]], val[prev[t]])
  BY <1>1, <1>7
<1>9. val[s] # val[prev[t]]
  BY <1>1, <1>7
<1>10. val[s] \in Int /\ val[prev[t]] \in Int /\ val[t] \in Int /\ val[next[s]] \in Int
  BY <1>7
<1> QED BY <1>7, <1>8, <1>9, <1>10 DEF Passed

-----------------------------------------------------------------------------
(* Walks around a ring *)

IsWalk(next, s, n, w) == w = [i \in 0 .. n |-> IF i = 0 THEN s ELSE next[w[i - 1]]]

LEMMA WalkExists == ASSUME NEW next, NEW s, NEW n \in Nat PROVE \E w : IsWalk(next, s, n, w)
<1> DEFINE Bad == {k \in Nat : ~ \E w : IsWalk(next, s, k, w)}
<1> SUFFICES ASSUME Bad # {} PROVE FALSE
  OBVIOUS
<1>1. PICK m \in Bad : \A k \in Bad : m <= k
  BY LeastOf
<1>2. m \in Nat /\ ~ \E w : IsWalk(next, s, m, w)
  OBVIOUS
<1>3. CASE m = 0
  <2> DEFINE w == [i \in 0 .. 0 |-> s]
  <2>1. IsWalk(next, s, 0, w)
    BY DEF IsWalk
  <2> QED BY <1>2, <1>3, <2>1
<1>4. CASE m # 0
  <2>1. m - 1 \in Nat /\ m - 1 \notin Bad
    BY <1>1, <1>2, <1>4
  <2>2. PICK w : IsWalk(next, s, m - 1, w)
    BY <2>1
  <2> DEFINE v == [i \in 0 .. m |-> IF i = m THEN next[w[m - 1]] ELSE w[i]]
  <2>3. ASSUME NEW i \in 0 .. m PROVE v[i] = IF i = 0 THEN s ELSE next[v[i - 1]]
    <3>1. CASE i = m
      BY <1>2, <1>4, <3>1
    <3>2. CASE i # m
      <4>1. i \in 0 .. m - 1 /\ (i # 0 => i - 1 \in 0 .. m /\ i - 1 # m)
        BY <1>2, <3>2
      <4>2. w[i] = IF i = 0 THEN s ELSE next[w[i - 1]]
        BY <2>2, <4>1 DEF IsWalk
      <4> QED BY <3>2, <4>1, <4>2
    <3> QED BY <3>1, <3>2
  <2>4. v = [i \in 0 .. m |-> v[i]]
    OBVIOUS
  <2> HIDE DEF v
  <2>5. IsWalk(next, s, m, v)
    BY <2>3, <2>4 DEF IsWalk
  <2> QED BY <1>2, <2>5
<1> QED BY <1>3, <1>4

Pointers(m, S) ==
  /\ IsFiniteSet(S)
  /\ m.next \in [S -> S] /\ m.prev \in [S -> S]
  /\ \A t \in S : m.prev[m.next[t]] = t

LEMMA WalkSteps ==
  ASSUME NEW m, NEW S, NEW s \in S, Pointers(m, S)
  PROVE  /\ Cardinality(S) \in Nat
         /\ Walk(m, s) \in [0 .. Cardinality(S) -> S] /\ Walk(m, s)[0] = s
         /\ \A i \in 1 .. Cardinality(S) : Walk(m, s)[i] = m.next[Walk(m, s)[i - 1]]
<1> DEFINE n == Cardinality(S)
           w == Walk(m, s)
<1>0. m.next \in [S -> S] /\ IsFiniteSet(S)
  BY DEF Pointers
<1>1. n \in Nat
  BY <1>0, FS_CardinalityType
<1>2. DOMAIN m.next = S
  BY <1>0
<1>3. w = CHOOSE v : IsWalk(m.next, s, n, v)
  BY <1>2 DEF Walk, IsWalk
<1>4. IsWalk(m.next, s, n, w)
  BY <1>1, <1>3, WalkExists
<1> HIDE DEF w
<1>5. \A i \in 0 .. n : w[i] = IF i = 0 THEN s ELSE m.next[w[i - 1]]
  BY <1>4 DEF IsWalk
<1>6. \A i \in 0 .. n : w[i] \in S
  <2> DEFINE Bad == {i \in 0 .. n : w[i] \notin S}
  <2> SUFFICES ASSUME Bad # {} PROVE FALSE
    OBVIOUS
  <2>1. PICK i \in Bad : \A k \in Bad : i <= k
    <3>1. Bad \subseteq Nat
      OBVIOUS
    <3> QED BY <3>1, LeastOf
  <2>2. CASE i = 0
    BY <1>1, <1>5, <2>2
  <2>3. CASE i # 0
    <3>1. i - 1 \in 0 .. n /\ i - 1 < i
      BY <1>1, <2>3
    <3>2. w[i - 1] \in S
      BY <1>1, <2>1, <3>1
    <3> QED BY <1>0, <1>5, <2>3, <3>2
  <2> QED BY <2>2, <2>3
<1>7. w \in [0 .. n -> S]
  BY <1>4, <1>6 DEF IsWalk
<1> HIDE DEF n
<1>8. 0 \in 0 .. n /\ \A i \in 1 .. n : i \in 0 .. n /\ i # 0
  BY <1>1
<1> QED BY <1>1, <1>5, <1>7, <1>8 DEF w, n

Stepping(S, next, prev, n, w) ==
  /\ n \in Nat /\ w \in [0 .. n -> S]
  /\ \A t \in S : prev[next[t]] = t
  /\ \A i \in 1 .. n : w[i] = next[w[i - 1]]

\* A walk that meets itself meets itself at its start.
LEMMA WalkReturns ==
  ASSUME NEW S, NEW next, NEW prev, NEW w, NEW n, Stepping(S, next, prev, n, w),
         NEW i \in 0 .. n, NEW j \in 0 .. n, i < j, w[i] = w[j]
  PROVE  w[j - i] = w[0]
<1> DEFINE k == j - i
           X == {h \in 0 .. i : w[h] = w[h + k]}
<1>0. /\ n \in Nat /\ w \in [0 .. n -> S]
      /\ \A t \in S : prev[next[t]] = t
      /\ \A h \in 1 .. n : w[h] = next[w[h - 1]]
  BY DEF Stepping
<1>1. X \subseteq Nat /\ i \in X
  BY <1>0
<1>2. PICK h \in X : \A g \in X : h <= g
  BY <1>1, LeastOf
<1>3. CASE h = 0
  BY <1>0, <1>3
<1>4. CASE h # 0
  <2>1. h \in 1 .. n /\ h + k \in 1 .. n /\ h - 1 \in 0 .. i /\ h + k - 1 \in 0 .. n /\ h - 1 \in 0 .. n
    BY <1>0, <1>4
  <2>2. w[h] = next[w[h - 1]] /\ w[h + k] = next[w[h + k - 1]] /\ w[h] = w[h + k]
    BY <1>0, <2>1
  <2>3. prev[w[h]] = w[h - 1] /\ prev[w[h + k]] = w[h + k - 1]
    BY <1>0, <2>1, <2>2
  <2>4. w[h - 1] = w[(h - 1) + k]
    <3>1. h + k - 1 = (h - 1) + k
      BY <2>1
    <3> QED BY <2>2, <2>3, <3>1
  <2> QED BY <1>2, <2>1, <2>4
<1> QED BY <1>3, <1>4

LEMMA RoundExists ==
  ASSUME NEW m, NEW S, NEW s \in S, Pointers(m, S)
  PROVE  /\ Stepping(S, m.next, m.prev, Cardinality(S), Walk(m, s))
         /\ Round(m, s) \in 1 .. Cardinality(S)
         /\ Walk(m, s)[0] = s /\ Walk(m, s)[Round(m, s)] = s
         /\ \A i \in 1 .. Round(m, s) - 1 : Walk(m, s)[i] # s
<1> DEFINE n == Cardinality(S)
           w == Walk(m, s)
<1>0. m.next \in [S -> S] /\ IsFiniteSet(S) /\ DOMAIN m.next = S
  BY DEF Pointers
<1>1. /\ n \in Nat /\ w \in [0 .. n -> S] /\ w[0] = s
      /\ \A i \in 1 .. n : w[i] = m.next[w[i - 1]]
  BY WalkSteps
<1>2. Stepping(S, m.next, m.prev, n, w)
  BY <1>1 DEF Stepping, Pointers
<1> HIDE DEF w, n
<1>3. PICK x \in 0 .. n, y \in 0 .. n : x # y /\ w[x] = w[y]
  <2>1. IsFiniteSet(0 .. n) /\ Cardinality(0 .. n) = n + 1
    BY <1>1, FS_Interval
  <2>2. Cardinality(S) < Cardinality(0 .. n)
    BY <1>1, <2>1 DEF n
  <2> QED BY <1>0, <1>1, <2>1, <2>2, FS_PigeonHole
<1>4. PICK i \in 0 .. n, j \in 0 .. n : i < j /\ w[i] = w[j]
  BY <1>1, <1>3
<1>5. j - i \in 1 .. n /\ w[j - i] = s
  <2>1. w[j - i] = w[0]
    BY <1>2, <1>4, WalkReturns
  <2> QED BY <1>1, <1>4, <2>1
<1> DEFINE X == {k \in 1 .. n : w[k] = s}
<1>6. PICK k \in X : \A h \in X : k <= h
  <2>1. X \subseteq Nat
    BY <1>1
  <2>2. j - i \in X
    BY <1>5
  <2> HIDE DEF X
  <2> QED BY <2>1, <2>2, LeastOf
<1>7. k \in 1 .. n /\ w[k] = s /\ \A h \in 1 .. k - 1 : w[h] # s
  BY <1>1, <1>6
<1>8. \E k2 \in 1 .. Cardinality(DOMAIN m.next) :
        Walk(m, s)[k2] = s /\ \A h \in 1 .. k2 - 1 : Walk(m, s)[h] # s
  BY <1>0, <1>7 DEF n, w
<1>9. /\ Round(m, s) \in 1 .. Cardinality(DOMAIN m.next)
      /\ Walk(m, s)[Round(m, s)] = s
      /\ \A i2 \in 1 .. Round(m, s) - 1 : Walk(m, s)[i2] # s
  BY <1>8 DEF Round
<1> QED BY <1>0, <1>1, <1>2, <1>9 DEF n, w

\* A ring, from any of its sides on, has each of its sides once.
LEMMA RingWalk ==
  ASSUME NEW m, NEW S, NEW s \in S, Pointers(m, S),
         NEW area, NEW val, Sorted(S, m.next, m.prev, area, val),
         NEW b \in Nat, \A t \in S : val[t] \in 0 .. b
  PROVE  /\ RingSet(RingFrom(m, s)) = {t \in S : area[t] = area[s]}
         /\ DOMAIN RingFrom(m, s) = 1 .. Round(m, s) /\ Round(m, s) \in Nat \ {0}
         /\ \A i, j \in 1 .. Round(m, s) : RingFrom(m, s)[i] = RingFrom(m, s)[j] => i = j
<1> DEFINE N == Cardinality(S)
           w == Walk(m, s)
           n == Round(m, s)
           r == RingFrom(m, s)
           R == RingSet(r)
<1>1. /\ Stepping(S, m.next, m.prev, N, w)
      /\ n \in 1 .. N /\ w[0] = s /\ w[n] = s
      /\ \A i \in 1 .. n - 1 : w[i] # s
  BY RoundExists
<1> HIDE DEF N, w, n
<1>2. /\ N \in Nat /\ w \in [0 .. N -> S]
      /\ \A i \in 1 .. N : w[i] = m.next[w[i - 1]]
  BY <1>1 DEF Stepping
<1>3. DOMAIN r = 1 .. n /\ \A i \in 1 .. n : r[i] = w[i - 1] /\ i - 1 \in 0 .. N
  BY <1>1, <1>2 DEF RingFrom, n, w
<1> HIDE DEF r
<1>4. ASSUME NEW i \in 1 .. n, NEW j \in 1 .. n, i < j PROVE r[i] # r[j]
  <2> SUFFICES ASSUME r[i] = r[j] PROVE FALSE
    OBVIOUS
  <2>1. i - 1 \in 0 .. N /\ j - 1 \in 0 .. N /\ i - 1 < j - 1 /\ w[i - 1] = w[j - 1]
    BY <1>1, <1>2, <1>3, <1>4
  <2>2. w[(j - 1) - (i - 1)] = w[0]
    BY <1>1, <2>1, WalkReturns
  <2>3. (j - 1) - (i - 1) \in 1 .. n - 1
    BY <1>1, <1>2, <1>4
  <2> QED BY <1>1, <2>2, <2>3
<1>5. R \subseteq S
  BY <1>2, <1>3 DEF RingSet
<1>6. s \in R
  <2>1. 1 \in 1 .. n /\ r[1] = s
    BY <1>1, <1>2, <1>3
  <2> QED BY <1>3, <2>1 DEF RingSet
<1>7. \A t \in R : m.next[t] \in R
  <2> SUFFICES ASSUME NEW i \in 1 .. n PROVE m.next[r[i]] \in R
    BY <1>3 DEF RingSet
  <2>1. r[i] = w[i - 1] /\ m.next[r[i]] = w[i]
    BY <1>1, <1>2, <1>3
  <2>2. CASE i = n
    BY <1>1, <1>6, <2>1, <2>2
  <2>3. CASE i # n
    <3>1. i + 1 \in 1 .. n /\ (i + 1) - 1 = i
      BY <1>1, <1>2, <2>3
    <3>2. r[i + 1] = w[i]
      BY <1>3, <3>1
    <3> QED BY <1>3, <2>1, <3>1, <3>2 DEF RingSet
  <2> QED BY <2>2, <2>3
<1> HIDE DEF R
<1>8. \A u \in S : area[u] = area[s] => u \in R
  BY <1>5, <1>6, <1>7, WholeRing
<1>9. \A i \in 0 .. N : i <= n => area[w[i]] = area[s]
  <2> DEFINE Bad == {i \in 0 .. N : i <= n /\ area[w[i]] # area[s]}
  <2> SUFFICES ASSUME Bad # {} PROVE FALSE
    OBVIOUS
  <2>1. PICK i \in Bad : \A k \in Bad : i <= k
    <3>1. Bad \subseteq Nat
      OBVIOUS
    <3> QED BY <3>1, LeastOf
  <2>2. i # 0
    BY <1>1, <2>1
  <2>3. i - 1 \in 0 .. N /\ i \in 1 .. N /\ i - 1 < i /\ i - 1 <= n
    BY <1>1, <1>2, <2>1, <2>2
  <2>4. area[w[i - 1]] = area[s]
    <3>1. i \in Nat /\ ~ (i <= i - 1)
      BY <1>2, <2>3
    <3>2. i - 1 \notin Bad
      BY <2>1, <3>1
    <3> QED BY <2>3, <3>2
  <2>5. area[m.next[w[i - 1]]] = area[w[i - 1]]
    BY <1>2, <2>3 DEF Sorted, Linked
  <2> QED BY <1>2, <2>1, <2>3, <2>4, <2>5
<1>10. \A t \in R : area[t] = area[s]
  BY <1>1, <1>2, <1>3, <1>9 DEF R, RingSet
<1>11. R = {t \in S : area[t] = area[s]}
  BY <1>5, <1>8, <1>10
<1>12. \A i, j \in 1 .. n : r[i] = r[j] => i = j
  BY <1>1, <1>2, <1>4
<1>13. n \in Nat \ {0}
  BY <1>1, <1>2
<1> QED BY <1>3, <1>11, <1>12, <1>13 DEF R, r, n

\* Of the sides of a ring that are looked for, there is a first one.
LEMMA FirstOfRing ==
  ASSUME NEW ring, NEW n \in Nat, DOMAIN ring = 1 .. n, NEW sides, NEW s \in RingSet(ring), s \in sides
  PROVE  First(ring, sides) \in RingSet(ring) /\ First(ring, sides) \in sides
<1> DEFINE X == {i \in 1 .. n : ring[i] \in sides}
<1>1. X \subseteq Nat /\ X # {}
  BY DEF RingSet
<1>2. PICK i \in X : \A k \in X : i <= k
  BY <1>1, LeastOf
<1>3. i \in 1 .. n /\ ring[i] \in sides /\ \A j \in 1 .. i - 1 : ring[j] \notin sides
  BY <1>2
<1>4. \E k \in DOMAIN ring : ring[k] \in sides /\ \A j \in 1 .. k - 1 : ring[j] \notin sides
  BY <1>3
<1> QED BY <1>4 DEF First, RingSet

-----------------------------------------------------------------------------
(* What holds of the map between any two of its changes *)

Dirs == {HORIZONTAL, VERTICAL}

\* The extent of a rectangle along a portal and across it.
Low(r, dir) == IF dir = VERTICAL THEN r.y1 ELSE r.x1
High(r, dir) == IF dir = VERTICAL THEN r.y2 ELSE r.x2
Near(r, dir) == IF dir = VERTICAL THEN r.x1 ELSE r.y1
Far(r, dir) == IF dir = VERTICAL THEN r.x2 ELSE r.y2
At(dir, c, k) == IF dir = VERTICAL THEN <<c, k>> ELSE <<k, c>>

Sides(m) == (DOMAIN m.portal) \X {0, 1}

IsMap(m) ==
  m = [area |-> m.area, rect |-> m.rect, first |-> m.first, next |-> m.next, prev |-> m.prev,
       portal |-> m.portal, sound |-> m.sound]

Rect == [x1 : Int, x2 : Int, y1 : Int, y2 : Int]

\* The tiles are divided into rectangles, named after tiles.
Rectangles(m) ==
  /\ DOMAIN m.area \subseteq WithinBorder /\ DOMAIN m.rect \subseteq DOMAIN m.area
  /\ m.area \in [DOMAIN m.area -> DOMAIN m.rect] /\ m.rect \in [DOMAIN m.rect -> Rect]
  /\ \A a \in DOMAIN m.rect : m.rect[a].x1 <= m.rect[a].x2 /\ m.rect[a].y1 <= m.rect[a].y2
  /\ \A a \in DOMAIN m.rect : \A x, y \in Int :
       /\ m.rect[a].x1 <= x /\ x <= m.rect[a].x2 /\ m.rect[a].y1 <= y /\ y <= m.rect[a].y2
       <=> <<x, y>> \in DOMAIN m.area /\ m.area[<<x, y>>] = a

\* A portal is on the common edge of its two areas.
PortalSound(m, p) ==
  LET q == m.portal[p]
      r0 == m.rect[q.area[0]]
      r1 == m.rect[q.area[1]]
  IN /\ q \in [dir : Dirs, area : [{0, 1} -> DOMAIN m.rect], s1 : Int, s2 : Int]
     /\ Far(r0, q.dir) + 1 = Near(r1, q.dir)
     /\ Low(r0, q.dir) <= q.s1 /\ Low(r1, q.dir) <= q.s1 /\ q.s1 <= q.s2
     /\ q.s2 <= High(r0, q.dir) /\ q.s2 <= High(r1, q.dir)

PortalsSound(m) ==
  /\ m.portal = [p \in DOMAIN m.portal |-> m.portal[p]]
  /\ \A p \in DOMAIN m.portal : p[1] \in DOMAIN m.area /\ PortalSound(m, p)

SamePair(m, p, q) ==
  /\ m.portal[p].dir = m.portal[q].dir
  /\ m.portal[p].area[0] = m.portal[q].area[0] /\ m.portal[p].area[1] = m.portal[q].area[1]

\* Portals do not overlap.
Apart(m) ==
  \A p, q \in DOMAIN m.portal :
    SamePair(m, p, q) /\ m.portal[p].s1 <= m.portal[q].s2 /\ m.portal[q].s1 <= m.portal[p].s2 => p = q

Leads(m, p, dir, u, v, k) ==
  /\ m.portal[p].dir = dir
  /\ m.portal[p].area[0] = m.area[u] /\ m.portal[p].area[1] = m.area[v]
  /\ m.portal[p].s1 <= k /\ k <= m.portal[p].s2

\* Two neighbours of different areas have a portal between them, but for the pairs in gaps.
Covered(m, gaps) ==
  \A dir \in Dirs, c, k \in Int :
    LET u == At(dir, c, k)
        v == At(dir, c + 1, k)
    IN u \in DOMAIN m.area /\ v \in DOMAIN m.area /\ m.area[u] # m.area[v] =>
         IF <<u, v>> \in gaps THEN \A p \in DOMAIN m.portal : ~Leads(m, p, dir, u, v, k)
         ELSE \E p \in DOMAIN m.portal : Leads(m, p, dir, u, v, k)

\* The sides S are in sorted rings, which start at first.
Ringed(m, S) ==
  /\ IsFiniteSet(S)
  /\ Sorted(S, m.next, m.prev, [s \in S |-> AreaOf(m, s)], [s \in S |-> Value(m, s)])
  /\ m.first \in [{AreaOf(m, s) : s \in S} -> S]
  /\ \A s \in S : AreaOf(m, m.first[AreaOf(m, s)]) = AreaOf(m, s)

\* No area has two portals to another one, unless a is one of them.
PairedBut(m, a) ==
  \A p, q \in DOMAIN m.portal :
    SamePair(m, p, q) /\ m.portal[p].area[0] # a /\ m.portal[p].area[1] # a => p = q

Paired(m) == \A p, q \in DOMAIN m.portal : SamePair(m, p, q) => p = q

MapInv(m, gaps) ==
  /\ IsMap(m) /\ m.sound = TRUE
  /\ Rectangles(m) /\ PortalsSound(m) /\ Apart(m) /\ Covered(m, gaps) /\ Ringed(m, Sides(m))

-----------------------------------------------------------------------------
(* Where portals are *)

\* The place of a side on the walk, from where its portal is.
ValueAt(dir, s1, s2, i) ==
  IF dir = HORIZONTAL THEN IF i = 0 THEN 300000 - s2 ELSE s1
  ELSE IF i = 0 THEN 100000 + s1 ELSE 400000 - s2

LEMMA ValueIs ==
  ASSUME NEW m, NEW p, NEW i \in {0, 1}, m.portal[p].dir \in Dirs
  PROVE  Value(m, <<p, i>>) =
           ValueAt(m.portal[p].dir, m.portal[p].s1, m.portal[p].s2, i)
<1> DEFINE s == <<p, i>>
<1>1. s[1] = p /\ s[2] = i
  OBVIOUS
<1> HIDE DEF s
<1>2. CASE i = 0 /\ m.portal[p].dir = HORIZONTAL
  <2>1. Direction(m, s) = "down"
    BY <1>1, <1>2 DEF Direction
  <2> QED BY <1>1, <1>2, <2>1 DEF Value, ValueAt, s
<1>3. CASE i = 0 /\ m.portal[p].dir # HORIZONTAL
  <2>1. Direction(m, s) = "right"
    BY <1>1, <1>3 DEF Direction
  <2> QED BY <1>1, <1>3, <2>1 DEF Value, ValueAt, s
<1>4. CASE i # 0 /\ m.portal[p].dir = HORIZONTAL
  <2>1. Direction(m, s) = "up"
    BY <1>1, <1>4 DEF Direction
  <2> QED BY <1>1, <1>4, <2>1 DEF Value, ValueAt, s
<1>5. CASE i # 0 /\ m.portal[p].dir # HORIZONTAL
  <2>1. Direction(m, s) = "left"
    BY <1>1, <1>5 DEF Direction
  <2> QED BY <1>1, <1>5, <2>1 DEF Value, ValueAt, s
<1> QED BY <1>2, <1>3, <1>4, <1>5

LEMMA SideIs == ASSUME NEW m, NEW s \in Sides(m)
                PROVE  /\ s = <<s[1], s[2]>> /\ s[1] \in DOMAIN m.portal /\ s[2] \in {0, 1}
                       /\ Other(s) \in Sides(m) /\ Other(s)[1] = s[1] /\ Other(s)[2] = 1 - s[2]
                       /\ Other(Other(s)) = s
  BY DEF Sides, Other

\* The tile at a place of a rectangle.
LEMMA TileIn ==
  ASSUME NEW m, Rectangles(m), NEW a \in DOMAIN m.rect, NEW dir \in Dirs, NEW c \in Int, NEW k \in Int
  PROVE  /\ Near(m.rect[a], dir) <= c /\ c <= Far(m.rect[a], dir)
         /\ Low(m.rect[a], dir) <= k /\ k <= High(m.rect[a], dir)
         <=> At(dir, c, k) \in DOMAIN m.area /\ m.area[At(dir, c, k)] = a
<1>1. CASE dir = VERTICAL
  BY <1>1 DEF Rectangles, Near, Far, Low, High, At
<1>2. CASE dir # VERTICAL
  BY <1>2 DEF Rectangles, Near, Far, Low, High, At
<1> QED BY <1>1, <1>2

LEMMA RectIs ==
  ASSUME NEW m, Rectangles(m), NEW a \in DOMAIN m.rect, NEW dir \in Dirs
  PROVE  LET r == m.rect[a] IN
         /\ Low(r, dir) \in Int /\ High(r, dir) \in Int /\ Near(r, dir) \in Int /\ Far(r, dir) \in Int
         /\ Low(r, dir) <= High(r, dir) /\ Near(r, dir) <= Far(r, dir)
         /\ 0 < Low(r, dir) /\ High(r, dir) < 255 /\ 0 < Near(r, dir) /\ Far(r, dir) < 255
<1> DEFINE r == m.rect[a]
<1>1. r \in Rect /\ r.x1 <= r.x2 /\ r.y1 <= r.y2
  BY DEF Rectangles
<1>2. <<r.x1, r.y1>> \in DOMAIN m.area /\ <<r.x2, r.y2>> \in DOMAIN m.area
  BY <1>1 DEF Rectangles, Rect
<1>3. DOMAIN m.area \subseteq WithinBorder
  BY DEF Rectangles
<1>4. 0 < r.x1 /\ 0 < r.y1 /\ r.x2 < 255 /\ r.y2 < 255
  BY <1>1, <1>2, <1>3, SizeAssumption DEF WithinBorder, Rect
<1> QED BY <1>1, <1>4 DEF Low, High, Near, Far, Rect

\* What PortalSound says, of numbers.
LEMMA PortalIs ==
  ASSUME NEW m, Rectangles(m), PortalsSound(m), NEW p \in DOMAIN m.portal
  PROVE  LET q == m.portal[p]
             r0 == m.rect[q.area[0]]
             r1 == m.rect[q.area[1]]
         IN /\ q.dir \in Dirs /\ q.area \in [{0, 1} -> DOMAIN m.rect]
            /\ q.area[0] \in DOMAIN m.rect /\ q.area[1] \in DOMAIN m.rect /\ q.area[0] # q.area[1]
            /\ q.s1 \in Int /\ q.s2 \in Int /\ 0 < q.s1 /\ q.s1 <= q.s2 /\ q.s2 < 255
            /\ Far(r0, q.dir) + 1 = Near(r1, q.dir)
            /\ Low(r0, q.dir) <= q.s1 /\ Low(r1, q.dir) <= q.s1
            /\ q.s2 <= High(r0, q.dir) /\ q.s2 <= High(r1, q.dir)
<1> DEFINE q == m.portal[p]
           r0 == m.rect[q.area[0]]
           r1 == m.rect[q.area[1]]
<1>1. /\ q \in [dir : Dirs, area : [{0, 1} -> DOMAIN m.rect], s1 : Int, s2 : Int]
      /\ Far(r0, q.dir) + 1 = Near(r1, q.dir)
      /\ Low(r0, q.dir) <= q.s1 /\ Low(r1, q.dir) <= q.s1 /\ q.s1 <= q.s2
      /\ q.s2 <= High(r0, q.dir) /\ q.s2 <= High(r1, q.dir)
  BY DEF PortalsSound, PortalSound
<1>2. q.dir \in Dirs /\ q.area \in [{0, 1} -> DOMAIN m.rect] /\ q.s1 \in Int /\ q.s2 \in Int
  BY <1>1
<1>3. q.area[0] \in DOMAIN m.rect /\ q.area[1] \in DOMAIN m.rect
  BY <1>2
<1>4. /\ Low(r0, q.dir) \in Int /\ High(r0, q.dir) \in Int /\ 0 < Low(r0, q.dir) /\ High(r0, q.dir) < 255
      /\ Near(r0, q.dir) \in Int /\ Far(r0, q.dir) \in Int /\ Near(r0, q.dir) <= Far(r0, q.dir)
      /\ Near(r1, q.dir) \in Int
  BY <1>2, <1>3, RectIs
<1>5. q.area[0] # q.area[1]
  BY <1>1, <1>4
<1>6. 0 < q.s1 /\ q.s2 < 255
  BY <1>1, <1>2, <1>4
<1> QED BY <1>1, <1>2, <1>3, <1>5, <1>6

\* The same with names for the parts of the portal.
Ends(m, dir, a, b, s1, s2) ==
  /\ dir \in Dirs /\ a \in DOMAIN m.rect /\ b \in DOMAIN m.rect /\ a # b
  /\ s1 \in Int /\ s2 \in Int /\ 0 < s1 /\ s1 <= s2 /\ s2 < 255
  /\ Low(m.rect[a], dir) \in Int /\ High(m.rect[a], dir) \in Int
  /\ Near(m.rect[a], dir) \in Int /\ Far(m.rect[a], dir) \in Int
  /\ Low(m.rect[b], dir) \in Int /\ High(m.rect[b], dir) \in Int
  /\ Near(m.rect[b], dir) \in Int /\ Far(m.rect[b], dir) \in Int
  /\ Near(m.rect[a], dir) <= Far(m.rect[a], dir) /\ Near(m.rect[b], dir) <= Far(m.rect[b], dir)
  /\ Far(m.rect[a], dir) + 1 = Near(m.rect[b], dir)
  /\ Low(m.rect[a], dir) <= s1 /\ Low(m.rect[b], dir) <= s1
  /\ s2 <= High(m.rect[a], dir) /\ s2 <= High(m.rect[b], dir)

LEMMA PortalEnds ==
  ASSUME NEW m, Rectangles(m), PortalsSound(m), NEW p \in DOMAIN m.portal,
         NEW dir, dir = m.portal[p].dir, NEW a, a = m.portal[p].area[0], NEW b, b = m.portal[p].area[1],
         NEW s1, s1 = m.portal[p].s1, NEW s2, s2 = m.portal[p].s2
  PROVE  Ends(m, dir, a, b, s1, s2)
<1>1. /\ dir \in Dirs /\ a \in DOMAIN m.rect /\ b \in DOMAIN m.rect /\ a # b
      /\ s1 \in Int /\ s2 \in Int /\ 0 < s1 /\ s1 <= s2 /\ s2 < 255
      /\ Far(m.rect[a], dir) + 1 = Near(m.rect[b], dir)
      /\ Low(m.rect[a], dir) <= s1 /\ Low(m.rect[b], dir) <= s1
      /\ s2 <= High(m.rect[a], dir) /\ s2 <= High(m.rect[b], dir)
  BY PortalIs
<1>2. /\ Low(m.rect[a], dir) \in Int /\ High(m.rect[a], dir) \in Int
      /\ Near(m.rect[a], dir) \in Int /\ Far(m.rect[a], dir) \in Int
      /\ Near(m.rect[a], dir) <= Far(m.rect[a], dir)
  <2>1. a \in DOMAIN m.rect /\ dir \in Dirs
    BY ONLY <1>1
  <2> QED BY ONLY <2>1, Rectangles(m), RectIs
<1>3. /\ Low(m.rect[b], dir) \in Int /\ High(m.rect[b], dir) \in Int
      /\ Near(m.rect[b], dir) \in Int /\ Far(m.rect[b], dir) \in Int
      /\ Near(m.rect[b], dir) <= Far(m.rect[b], dir)
  <2>1. b \in DOMAIN m.rect /\ dir \in Dirs
    BY ONLY <1>1
  <2> QED BY ONLY <2>1, Rectangles(m), RectIs
<1> QED BY ONLY <1>1, <1>2, <1>3 DEF Ends

\* Portals on one edge of an area do not overlap.
LEMMA EdgeShared ==
  ASSUME NEW m, Rectangles(m), PortalsSound(m), Apart(m),
         NEW p \in DOMAIN m.portal, NEW q \in DOMAIN m.portal, NEW i \in {0, 1},
         m.portal[p].dir = m.portal[q].dir, m.portal[p].area[i] = m.portal[q].area[i],
         m.portal[p].s1 <= m.portal[q].s2, m.portal[q].s1 <= m.portal[p].s2
  PROVE  p = q
<1> DEFINE dir == m.portal[p].dir
           k == Larger(m.portal[p].s1, m.portal[q].s1)
           pa == m.portal[p].area[0]
           pb == m.portal[p].area[1]
           qa == m.portal[q].area[0]
           qb == m.portal[q].area[1]
           p1 == m.portal[p].s1
           p2 == m.portal[p].s2
           q1 == m.portal[q].s1
           q2 == m.portal[q].s2
<1>1. dir = m.portal[q].dir /\ k = Larger(p1, q1) /\ p1 <= q2 /\ q1 <= p2
      /\ (i = 0 => pa = qa) /\ (i = 1 => pb = qb)
  OBVIOUS
<1>2. Ends(m, dir, pa, pb, p1, p2)
  BY PortalEnds
<1>3. Ends(m, dir, qa, qb, q1, q2)
  BY <1>1, PortalEnds
<1> HIDE DEF dir, k, pa, pb, qa, qb, p1, p2, q1, q2
<1>4. k \in Int /\ p1 <= k /\ k <= p2 /\ q1 <= k /\ k <= q2
  BY ONLY <1>1, <1>2, <1>3 DEF Larger, Ends
<1>5. CASE i = 0
  <2> DEFINE c == Near(m.rect[pb], dir)
  <2>1. c \in Int /\ c = Near(m.rect[qb], dir) /\ c <= Far(m.rect[pb], dir) /\ c <= Far(m.rect[qb], dir)
    BY ONLY <1>1, <1>2, <1>3, <1>5 DEF Ends
  <2>2. /\ Near(m.rect[pb], dir) <= c /\ Near(m.rect[qb], dir) <= c
    BY ONLY <2>1
  <2> HIDE DEF c
  <2>3. /\ Low(m.rect[pb], dir) <= k /\ k <= High(m.rect[pb], dir)
        /\ Low(m.rect[qb], dir) <= k /\ k <= High(m.rect[qb], dir)
        /\ pb \in DOMAIN m.rect /\ qb \in DOMAIN m.rect /\ dir \in Dirs
    BY ONLY <1>2, <1>3, <1>4 DEF Ends
  <2>4. m.area[At(dir, c, k)] = pb /\ m.area[At(dir, c, k)] = qb
    BY <1>4, <2>1, <2>2, <2>3, TileIn
  <2>5. pa = qa /\ pb = qb
    BY ONLY <1>1, <1>5, <2>4
  <2> QED BY <2>5 DEF Apart, SamePair, pa, qa, pb, qb
<1>6. CASE i = 1
  <2> DEFINE c == Far(m.rect[pa], dir)
  <2>1. c \in Int /\ c = Far(m.rect[qa], dir) /\ Near(m.rect[pa], dir) <= c /\ Near(m.rect[qa], dir) <= c
    BY ONLY <1>1, <1>2, <1>3, <1>6 DEF Ends
  <2>2. c <= Far(m.rect[pa], dir) /\ c <= Far(m.rect[qa], dir)
    BY ONLY <2>1
  <2> HIDE DEF c
  <2>3. /\ Low(m.rect[pa], dir) <= k /\ k <= High(m.rect[pa], dir)
        /\ Low(m.rect[qa], dir) <= k /\ k <= High(m.rect[qa], dir)
        /\ pa \in DOMAIN m.rect /\ qa \in DOMAIN m.rect /\ dir \in Dirs
    BY ONLY <1>2, <1>3, <1>4 DEF Ends
  <2>4. m.area[At(dir, c, k)] = pa /\ m.area[At(dir, c, k)] = qa
    BY <1>4, <2>1, <2>2, <2>3, TileIn
  <2>5. pa = qa /\ pb = qb
    BY ONLY <1>1, <1>6, <2>4
  <2> QED BY <2>5 DEF Apart, SamePair, pa, qa, pb, qb
<1> QED BY <1>5, <1>6

LEMMA ValueFits ==
  ASSUME NEW dir \in Dirs, NEW s1 \in Int, NEW s2 \in Int, 0 < s1, s1 <= s2, s2 < 255, NEW i \in {0, 1}
  PROVE  ValueAt(dir, s1, s2, i) \in Int /\ ValueAt(dir, s1, s2, i) >= 0 /\ ValueAt(dir, s1, s2, i) <= 400000
<1>1. CASE dir = HORIZONTAL /\ i = 0
  <2>1. ValueAt(dir, s1, s2, i) = 300000 - s2
    BY <1>1, SMT DEF ValueAt
  <2> QED BY <2>1, SMT
<1>2. CASE dir = HORIZONTAL /\ i # 0
  <2>1. ValueAt(dir, s1, s2, i) = s1
    BY <1>2, SMT DEF ValueAt
  <2> QED BY <2>1, SMT
<1>3. CASE dir # HORIZONTAL /\ i = 0
  <2>1. ValueAt(dir, s1, s2, i) = 100000 + s1
    BY <1>3, SMT DEF ValueAt
  <2> QED BY <2>1, SMT
<1>4. CASE dir # HORIZONTAL /\ i # 0
  <2>1. ValueAt(dir, s1, s2, i) = 400000 - s2
    BY <1>4, SMT DEF ValueAt
  <2> QED BY <2>1, SMT
<1> QED BY <1>1, <1>2, <1>3, <1>4, SMT

LEMMA ValuesOfSides ==
  ASSUME NEW m, Rectangles(m), PortalsSound(m), NEW s \in Sides(m)
  PROVE  Value(m, s) \in Int /\ Value(m, s) >= 0 /\ Value(m, s) <= 400000
<1>1. s = <<s[1], s[2]>> /\ s[1] \in DOMAIN m.portal /\ s[2] \in {0, 1}
  BY SideIs
<1>2. /\ m.portal[s[1]].dir \in Dirs /\ m.portal[s[1]].s1 \in Int /\ m.portal[s[1]].s2 \in Int
      /\ 0 < m.portal[s[1]].s1 /\ m.portal[s[1]].s1 <= m.portal[s[1]].s2 /\ m.portal[s[1]].s2 < 255
  BY <1>1, PortalIs
<1>3. Value(m, <<s[1], s[2]>>) = ValueAt(m.portal[s[1]].dir, m.portal[s[1]].s1, m.portal[s[1]].s2, s[2])
  BY <1>1, <1>2, ValueIs
<1> QED BY ONLY <1>1, <1>2, <1>3, ValueFits, SMT

LEMMA ValuesApart ==
  ASSUME NEW d \in Dirs, NEW s1 \in Int, NEW s2 \in Int, 0 < s1, s1 <= s2, s2 < 255, NEW i \in {0, 1},
         NEW e \in Dirs, NEW t1 \in Int, NEW t2 \in Int, 0 < t1, t1 <= t2, t2 < 255, NEW j \in {0, 1},
         ValueAt(d, s1, s2, i) = ValueAt(e, t1, t2, j)
  PROVE  d = e /\ i = j /\ s1 <= t2 /\ t1 <= s2
  BY SMT DEF ValueAt, Dirs, HORIZONTAL, VERTICAL

LEMMA ValuesDiffer ==
  ASSUME NEW m, Rectangles(m), PortalsSound(m), Apart(m),
         NEW s \in Sides(m), NEW t \in Sides(m), AreaOf(m, s) = AreaOf(m, t),
         Value(m, s) = Value(m, t)
  PROVE  s = t
<1> DEFINE p == s[1]
           i == s[2]
           q == t[1]
           j == t[2]
<1>1. /\ s = <<p, i>> /\ p \in DOMAIN m.portal /\ i \in {0, 1}
      /\ t = <<q, j>> /\ q \in DOMAIN m.portal /\ j \in {0, 1}
  BY SideIs
<1> HIDE DEF p, i, q, j
<1>2. m.portal[p].area[i] = m.portal[q].area[j]
  BY <1>1 DEF AreaOf
<1>3. /\ m.portal[p].dir \in Dirs /\ m.portal[p].s1 \in Int /\ m.portal[p].s2 \in Int
      /\ 0 < m.portal[p].s1 /\ m.portal[p].s1 <= m.portal[p].s2 /\ m.portal[p].s2 < 255
  BY <1>1, PortalIs
<1>4. /\ m.portal[q].dir \in Dirs /\ m.portal[q].s1 \in Int /\ m.portal[q].s2 \in Int
      /\ 0 < m.portal[q].s1 /\ m.portal[q].s1 <= m.portal[q].s2 /\ m.portal[q].s2 < 255
  BY <1>1, PortalIs
<1>5. /\ Value(m, <<p, i>>) = ValueAt(m.portal[p].dir, m.portal[p].s1, m.portal[p].s2, i)
      /\ Value(m, <<q, j>>) = ValueAt(m.portal[q].dir, m.portal[q].s1, m.portal[q].s2, j)
  BY <1>1, <1>3, <1>4, ValueIs
<1>6. ValueAt(m.portal[p].dir, m.portal[p].s1, m.portal[p].s2, i) =
        ValueAt(m.portal[q].dir, m.portal[q].s1, m.portal[q].s2, j)
  BY ONLY <1>1, <1>5, Value(m, s) = Value(m, t)
<1>7. /\ m.portal[p].dir = m.portal[q].dir /\ i = j
      /\ m.portal[p].s1 <= m.portal[q].s2 /\ m.portal[q].s1 <= m.portal[p].s2
  BY ONLY <1>1, <1>3, <1>4, <1>6, ValuesApart
<1>8. p = q
  BY <1>1, <1>2, <1>7, EdgeShared
<1> QED BY <1>1, <1>7, <1>8

-----------------------------------------------------------------------------
(* Sides come into rings *)

Full == 400000
Bounded(m, S) == \A s \in S : Value(m, s) \in 0 .. Full

\* Only the rings of a map are changed.
RingsOnly(m, m2) ==
  /\ IsMap(m2) /\ m2.area = m.area /\ m2.rect = m.rect /\ m2.portal = m.portal /\ m2.sound = m.sound

LEMMA RingsOnlyKeep == ASSUME NEW m, NEW m2, RingsOnly(m, m2), NEW s
                       PROVE  /\ AreaOf(m2, s) = AreaOf(m, s) /\ Value(m2, s) = Value(m, s)
                              /\ Span(m2, s) = Span(m, s)
  BY DEF RingsOnly, AreaOf, Value, Direction, Span

LEMMA RingIs ==
  ASSUME NEW m, NEW S, Ringed(m, S), Bounded(m, S), NEW a
  PROVE  /\ a \in DOMAIN m.first <=> \E t \in S : AreaOf(m, t) = a
         /\ RingSet(Ring(m, a)) = {t \in S : AreaOf(m, t) = a}
         /\ a \in DOMAIN m.first => m.first[a] \in S /\ AreaOf(m, m.first[a]) = a
         /\ a \notin DOMAIN m.first => Ring(m, a) = <<>>
         /\ \E n \in Nat : /\ DOMAIN Ring(m, a) = 1 .. n
                           /\ \A i, j \in 1 .. n : Ring(m, a)[i] = Ring(m, a)[j] => i = j
<1> DEFINE area == [s \in S |-> AreaOf(m, s)]
           val == [s \in S |-> Value(m, s)]
<1>1. /\ IsFiniteSet(S) /\ Sorted(S, m.next, m.prev, area, val)
      /\ m.first \in [{AreaOf(m, s) : s \in S} -> S]
      /\ \A s \in S : AreaOf(m, m.first[AreaOf(m, s)]) = AreaOf(m, s)
  BY DEF Ringed
<1>2. Full \in Nat /\ \A t \in S : val[t] \in 0 .. Full
  <2>1. Full \in Nat
    BY SMT DEF Full
  <2> QED BY <2>1 DEF Bounded
<1>3. Pointers(m, S)
  <2> HIDE DEF area, val
  <2> QED BY <1>1 DEF Pointers, Sorted, Linked
<1>4. /\ a \in DOMAIN m.first <=> \E t \in S : AreaOf(m, t) = a
      /\ a \in DOMAIN m.first => m.first[a] \in S /\ AreaOf(m, m.first[a]) = a
  BY <1>1
<1>5. CASE a \in DOMAIN m.first
  <2> DEFINE s == m.first[a]
  <2>1. s \in S /\ AreaOf(m, s) = a
    BY <1>4, <1>5
  <2>2. area[s] = a /\ \A t \in S : area[t] = AreaOf(m, t)
    BY <2>1
  <2>3. Ring(m, a) = RingFrom(m, s)
    BY <1>5 DEF Ring
  <2> HIDE DEF area, val, s
  <2>4. /\ RingSet(RingFrom(m, s)) = {t \in S : area[t] = area[s]}
        /\ DOMAIN RingFrom(m, s) = 1 .. Round(m, s) /\ Round(m, s) \in Nat \ {0}
        /\ \A i, j \in 1 .. Round(m, s) : RingFrom(m, s)[i] = RingFrom(m, s)[j] => i = j
    BY <1>1, <1>2, <1>3, <2>1, RingWalk
  <2>5. RingSet(Ring(m, a)) = {t \in S : AreaOf(m, t) = a}
    BY <2>2, <2>3, <2>4
  <2>6. \E n \in Nat : /\ DOMAIN Ring(m, a) = 1 .. n
                       /\ \A i, j \in 1 .. n : Ring(m, a)[i] = Ring(m, a)[j] => i = j
    BY <2>3, <2>4
  <2> QED BY <1>4, <1>5, <2>5, <2>6
<1>6. CASE a \notin DOMAIN m.first
  <2>1. Ring(m, a) = <<>>
    BY <1>6 DEF Ring
  <2>2. RingSet(<<>>) = {} /\ DOMAIN <<>> = 1 .. 0 /\ \A i, j \in 1 .. 0 : FALSE
    BY DEF RingSet
  <2>3. {t \in S : AreaOf(m, t) = a} = {}
    BY <1>4, <1>6
  <2> QED BY <1>4, <1>6, <2>1, <2>2, <2>3
<1> QED BY <1>5, <1>6

\* A side that is the only one of its area.
LEMMA SideAlone ==
  ASSUME NEW S, NEW next, NEW prev, NEW area, NEW val, Sorted(S, next, prev, area, val),
         NEW s, s \notin S, NEW area2, NEW val2,
         Agree(S, area, area2), Agree(S, val, val2), \A t \in S : area[t] # area2[s],
         val2[s] \in Int
  PROVE  Sorted(S \cup {s}, With(next, s, s), With(prev, s, s), area2, val2)
<1> DEFINE T == S \cup {s}
           n2 == With(next, s, s)
           p2 == With(prev, s, s)
<1> USE DEF Agree
<1>1. /\ next \in [S -> S] /\ prev \in [S -> S]
      /\ \A t \in S : prev[next[t]] = t /\ next[prev[t]] = t /\ area[next[t]] = area[t]
  BY DEF Sorted, Linked
<1>2. /\ n2 \in [T -> T] /\ n2[s] = s /\ \A t \in S : n2[t] = next[t]
      /\ p2 \in [T -> T] /\ p2[s] = s /\ \A t \in S : p2[t] = prev[t]
  BY <1>1 DEF With
<1> HIDE DEF n2, p2
<1>3. \A t \in S : next[t] \in S /\ prev[t] \in S
  BY <1>1
<1>4. Linked(T, n2, p2, area2)
  <2> SUFFICES ASSUME NEW t \in T
               PROVE  p2[n2[t]] = t /\ n2[p2[t]] = t /\ area2[n2[t]] = area2[t]
    BY <1>2 DEF Linked
  <2>1. CASE t = s
    BY <2>1, <1>2
  <2>2. CASE t \in S
    <3>1. area2[next[t]] = area[next[t]]
      BY <1>3, <2>2
    <3> QED BY <1>1, <1>2, <1>3, <2>2, <3>1
  <2> QED BY <2>1, <2>2
<1>5. \A t \in T : val2[t] \in Int
  BY DEF Sorted
<1>6. Ordered(T, n2, area2, val2)
  <2> SUFFICES ASSUME NEW x \in T, NEW t \in T, area2[x] = area2[t]
               PROVE  (val2[x] = val2[t] => x = t) /\ ~Passed(val2[x], val2[n2[x]], val2[t])
    BY DEF Ordered
  <2>1. CASE x = s
    <3>1. t = s
      BY <2>1
    <3>2. n2[x] = s
      BY <2>1, <1>2
    <3> QED BY <1>5, <2>1, <3>1, <3>2 DEF Passed
  <2>2. CASE x \in S
    <3>1. t \in S
      BY <2>2
    <3>2. area[x] = area[t]
      BY <2>2, <3>1
    <3>3. (val[x] = val[t] => x = t) /\ ~Passed(val[x], val[next[x]], val[t])
      BY <2>2, <3>1, <3>2 DEF Sorted, Ordered
    <3>4. n2[x] = next[x] /\ val2[next[x]] = val[next[x]] /\ val2[x] = val[x] /\ val2[t] = val[t]
      BY <1>2, <1>3, <2>2, <3>1
    <3> QED BY <3>3, <3>4
  <2> QED BY <2>1, <2>2
<1>7. Sorted(T, n2, p2, area2, val2)
  BY <1>4, <1>5, <1>6 DEF Sorted
<1> QED BY <1>7 DEF n2, p2

LEMMA FitsIsPassed == ASSUME NEW v \in Int, NEW w \in Int, NEW x \in Int, Fits(v, w, x) PROVE Passed(v, w, x)
  BY SMT DEF Fits, Passed

\* In a ring of two or more there is a place for every value.
LEMMA PlaceExists ==
  ASSUME NEW m, NEW S, Ringed(m, S), Bounded(m, S), NEW f \in S, m.next[f] # f,
         NEW v \in Int, \A t \in S : AreaOf(m, t) = AreaOf(m, f) => Value(m, t) # v
  PROVE  \E t \in S : AreaOf(m, t) = AreaOf(m, f) /\ Fits(Value(m, t), Value(m, m.next[t]), v)
<1> DEFINE A == {t \in S : AreaOf(m, t) = AreaOf(m, f)}
           B == {t \in A : Value(m, t) < v}
           area == [s \in S |-> AreaOf(m, s)]
           val == [s \in S |-> Value(m, s)]
<1>1. /\ m.next \in [S -> S]
      /\ \A t \in S : area[m.next[t]] = area[t]
      /\ \A s, t \in S : area[s] = area[t] =>
           (val[s] = val[t] => s = t) /\ ~Passed(val[s], val[m.next[s]], val[t])
  <2> HIDE DEF area, val
  <2> QED BY DEF Ringed, Sorted, Linked, Ordered, area, val
<1>2. \A t \in A : m.next[t] \in A
  <2>1. \A t \in S : AreaOf(m, m.next[t]) = AreaOf(m, t) /\ m.next[t] \in S
    BY <1>1
  <2> QED BY <2>1
<1>3. \A s, t \in A : (Value(m, s) = Value(m, t) => s = t)
                      /\ ~Passed(Value(m, s), Value(m, m.next[s]), Value(m, t))
  <2> SUFFICES ASSUME NEW s \in A, NEW t \in A
               PROVE  (Value(m, s) = Value(m, t) => s = t)
                      /\ ~Passed(Value(m, s), Value(m, m.next[s]), Value(m, t))
    OBVIOUS
  <2>1. s \in S /\ t \in S /\ m.next[s] \in S /\ area[s] = area[t]
    BY <1>2
  <2>2. val[s] = Value(m, s) /\ val[t] = Value(m, t) /\ val[m.next[s]] = Value(m, m.next[s])
    BY <2>1
  <2> HIDE DEF val, area, A
  <2> QED BY <1>1, <2>1, <2>2
<1>4. Full \in Nat
  BY SMT DEF Full
<1>5. \A t \in A : Value(m, t) \in 0 .. Full /\ Value(m, t) # v
  BY DEF Bounded
<1>6. f \in A
  OBVIOUS
<1>f. \A t \in A : Value(m, t) \in Int
  BY <1>4, <1>5
\* A side is not followed by itself.
<1>7. \A t \in A : m.next[t] # t
  <2> SUFFICES ASSUME NEW t \in A, m.next[t] = t PROVE FALSE
    OBVIOUS
  <2>1. ~Passed(Value(m, t), Value(m, t), Value(m, f))
    BY <1>3, <1>6
  <2>2. Value(m, t) = Value(m, f)
    BY <1>f, <1>6, <2>1 DEF Passed
  <2>3. t = f
    BY <1>3, <1>6, <2>2
  <2> QED BY <2>3
<1> HIDE DEF A
\* Its value differs from that of the next one.
<1>8. \A t \in A : Value(m, m.next[t]) # Value(m, t)
  BY <1>2, <1>3, <1>7
<1>9. CASE B # {}
  <2> DEFINE X == {Value(m, t) : t \in B}
  <2>1. X \subseteq 0 .. Full /\ X # {}
    BY <1>5, <1>9
  <2>2. PICK n \in X : \A k \in X : k <= n
    BY <1>4, <2>1, GreatestOf
  <2>3. PICK t \in B : n = Value(m, t)
    OBVIOUS
  <2>4. t \in A /\ m.next[t] \in A /\ Value(m, t) < v
    BY <1>2, <2>3
  <2>5. Value(m, m.next[t]) < v => Value(m, m.next[t]) <= Value(m, t)
    BY <2>2, <2>3, <2>4
  <2>6. Value(m, m.next[t]) # Value(m, t) /\ Value(m, m.next[t]) # v
    BY <1>5, <1>8, <2>4
  <2>7. Value(m, m.next[t]) \in Int /\ Value(m, t) \in Int
    BY <1>f, <2>4
  <2>8. Fits(Value(m, t), Value(m, m.next[t]), v)
    BY <2>4, <2>5, <2>6, <2>7, SMT DEF Fits
  <2> QED BY <2>4, <2>8 DEF A
<1>10. CASE B = {}
  <2> DEFINE X == {Value(m, t) : t \in A}
  <2>1. X \subseteq 0 .. Full /\ X # {}
    BY <1>5, <1>6
  <2>2. PICK n \in X : \A k \in X : k <= n
    BY <1>4, <2>1, GreatestOf
  <2>3. PICK t \in A : n = Value(m, t)
    OBVIOUS
  <2>4. m.next[t] \in A
    BY <1>2
  <2>5. Value(m, m.next[t]) <= Value(m, t)
    BY <2>2, <2>3, <2>4
  <2>6. Value(m, m.next[t]) # Value(m, t) /\ Value(m, m.next[t]) # v /\ ~(Value(m, m.next[t]) < v)
    BY <1>5, <1>8, <1>10, <2>4
  <2>7. Value(m, m.next[t]) \in Int /\ Value(m, t) \in Int
    BY <1>f, <2>4
  <2>8. Fits(Value(m, t), Value(m, m.next[t]), v)
    BY <2>5, <2>6, <2>7, SMT DEF Fits
  <2> QED BY <2>8 DEF A
<1> QED BY <1>9, <1>10

SetRings(m, f, n, p) == [m EXCEPT !.first = f, !.next = n, !.prev = p]
BehindAt(m, c, s, f) == [Behind(m, c, s) EXCEPT !.first = f]

LEMMA RingsSet ==
  ASSUME NEW m, IsMap(m), NEW f, NEW n, NEW p
  PROVE  /\ RingsOnly(m, SetRings(m, f, n, p)) /\ SetRings(m, f, n, p).first = f
         /\ SetRings(m, f, n, p).next = n /\ SetRings(m, f, n, p).prev = p
<1> DEFINE m2 == [m EXCEPT !.first = f, !.next = n, !.prev = p]
           r == [area |-> m.area, rect |-> m.rect, first |-> f, next |-> n, prev |-> p,
                 portal |-> m.portal, sound |-> m.sound]
<1>1. DOMAIN m = {"area", "rect", "first", "next", "prev", "portal", "sound"}
  BY DEF IsMap
<1>2. m2 = r
  <2>1. /\ m2.area = m.area /\ m2.rect = m.rect /\ m2.first = f /\ m2.next = n /\ m2.prev = p
        /\ m2.portal = m.portal /\ m2.sound = m.sound
    BY <1>1
  <2>2. m2 = [x \in DOMAIN m |-> m2[x]]
    BY <1>1
  <2>3. r = [x \in DOMAIN m |-> r[x]]
    BY <1>1
  <2>5. /\ r.area = m.area /\ r.rect = m.rect /\ r.first = f /\ r.next = n /\ r.prev = p
        /\ r.portal = m.portal /\ r.sound = m.sound
    OBVIOUS
  <2> HIDE DEF m2, r
  <2>4. \A x \in DOMAIN m : m2[x] = r[x]
    BY <1>1, <2>1, <2>5
  <2> QED BY <2>2, <2>3, <2>4
<1>3. r = [area |-> r.area, rect |-> r.rect, first |-> r.first, next |-> r.next, prev |-> r.prev,
           portal |-> r.portal, sound |-> r.sound]
  OBVIOUS
<1>4. IsMap(r) /\ RingsOnly(m, r) /\ r.first = f /\ r.next = n /\ r.prev = p
  BY <1>3 DEF IsMap, RingsOnly
<1> HIDE DEF m2, r
<1>5. SetRings(m, f, n, p) = r
  BY <1>2 DEF m2, SetRings
<1> QED BY <1>4, <1>5

LEMMA BehindKeeps ==
  ASSUME NEW m, IsMap(m), NEW S, Ringed(m, S), Bounded(m, S), NEW s, s \notin S, Value(m, s) \in Int,
         NEW c \in S, AreaOf(m, c) = AreaOf(m, s),
         \A t \in S : AreaOf(m, t) = AreaOf(m, s) => Value(m, t) # Value(m, s),
         Passed(Value(m, c), Value(m, m.next[c]), Value(m, s)),
         NEW f, f \in {m.first, With(m.first, AreaOf(m, s), s)}
  PROVE  RingsOnly(m, BehindAt(m, c, s, f)) /\ Ringed(BehindAt(m, c, s, f), S \cup {s})
<1> DEFINE m2 == BehindAt(m, c, s, f)
           area == [t \in S |-> AreaOf(m, t)]
           val == [t \in S |-> Value(m, t)]
           area2 == [t \in S \cup {s} |-> AreaOf(m2, t)]
           val2 == [t \in S \cup {s} |-> Value(m2, t)]
<1>1. RingsOnly(m, m2) /\ m2.first = f
      /\ m2.next = With(With(m.next, c, s), s, m.next[c])
      /\ m2.prev = With(With(m.prev, m.next[c], s), s, c)
  <2>1. m2 = SetRings(m, f, With(With(m.next, c, s), s, m.next[c]),
                      With(With(m.prev, m.next[c], s), s, c))
    BY DEF Behind, IsMap, SetRings, BehindAt
  <2> HIDE DEF m2
  <2> QED BY <2>1, RingsSet
<1> HIDE DEF m2
<1>2. \A t : AreaOf(m2, t) = AreaOf(m, t) /\ Value(m2, t) = Value(m, t)
  BY <1>1, RingsOnlyKeep
<1>3. Sorted(S, m.next, m.prev, area, val) /\ m.next[c] \in S
  BY DEF Ringed, Sorted, Linked
<1>4. /\ Agree(S, area, area2) /\ Agree(S, val, val2)
      /\ area2[s] = area[c] /\ val2[s] \in Int
      /\ Fresh(S, area, area[c], val, val2[s])
  BY <1>2 DEF Agree, Fresh
<1>5. Passed(val[c], val[m.next[c]], val2[s])
  BY <1>2, <1>3
<1>6. Sorted(S \cup {s}, m2.next, m2.prev, area2, val2)
  <2> HIDE DEF area, val, area2, val2
  <2>1. Sorted(S \cup {s}, With(With(m.next, c, s), s, m.next[c]),
                   With(With(m.prev, m.next[c], s), s, c), area2, val2)
    BY ONLY <1>3, <1>4, <1>5, s \notin S, c \in S, SideBehind
  <2> QED BY <1>1, <2>1
<1>7. IsFiniteSet(S \cup {s})
  BY FS_AddElement DEF Ringed
<1>8. /\ m2.first \in [{AreaOf(m2, t) : t \in S \cup {s}} -> S \cup {s}]
      /\ \A t \in S \cup {s} : AreaOf(m2, m2.first[AreaOf(m2, t)]) = AreaOf(m2, t)
  <2>1. /\ m.first \in [{AreaOf(m, t) : t \in S} -> S]
        /\ \A t \in S : AreaOf(m, m.first[AreaOf(m, t)]) = AreaOf(m, t)
    BY DEF Ringed
  <2>2. {AreaOf(m, t) : t \in S \cup {s}} = {AreaOf(m, t) : t \in S}
    OBVIOUS
  <2>3. {AreaOf(m2, t) : t \in S \cup {s}} = {AreaOf(m, t) : t \in S}
    BY <1>2, <2>2
  <2>4. CASE f = m.first
    <3>1. m2.first \in [{AreaOf(m2, t) : t \in S \cup {s}} -> S \cup {s}]
      BY <1>1, <2>1, <2>3, <2>4
    <3>2. ASSUME NEW t \in S \cup {s} PROVE AreaOf(m, m.first[AreaOf(m, t)]) = AreaOf(m, t)
      BY <2>1
    <3> QED BY <1>1, <1>2, <2>4, <3>1, <3>2
  <2>5. CASE f = With(m.first, AreaOf(m, s), s)
    <3>1. m2.first \in [{AreaOf(m2, t) : t \in S \cup {s}} -> S \cup {s}]
      BY <1>1, <2>1, <2>3, <2>5 DEF With
    <3>2. ASSUME NEW t \in S \cup {s} PROVE AreaOf(m, f[AreaOf(m, t)]) = AreaOf(m, t)
      <4>1. AreaOf(m, t) \in DOMAIN m.first /\ AreaOf(m, s) \in DOMAIN m.first
        BY <2>1, <2>2
      <4>2. CASE AreaOf(m, t) = AreaOf(m, s)
        BY <2>5, <4>1, <4>2 DEF With
      <4>3. CASE AreaOf(m, t) # AreaOf(m, s)
        <5>1. f[AreaOf(m, t)] = m.first[AreaOf(m, t)]
          BY <2>5, <4>1, <4>3 DEF With
        <5>2. t \in S
          BY <4>3
        <5> QED BY <2>1, <5>1, <5>2
      <4> QED BY <4>2, <4>3
    <3> QED BY <1>1, <1>2, <3>1, <3>2
  <2> QED BY <2>4, <2>5
<1>9. Ringed(m2, S \cup {s})
  BY <1>6, <1>7, <1>8 DEF Ringed
<1> QED BY <1>1, <1>9 DEF m2

LEMMA AloneKeeps ==
  ASSUME NEW m, IsMap(m), NEW S, Ringed(m, S), Bounded(m, S), NEW s, s \notin S, Value(m, s) \in Int,
         \A t \in S : AreaOf(m, t) # AreaOf(m, s)
  PROVE  RingsOnly(m, Alone(m, s)) /\ Ringed(Alone(m, s), S \cup {s})
<1> DEFINE m2 == Alone(m, s)
           area == [t \in S |-> AreaOf(m, t)]
           val == [t \in S |-> Value(m, t)]
           area2 == [t \in S \cup {s} |-> AreaOf(m2, t)]
           val2 == [t \in S \cup {s} |-> Value(m2, t)]
<1>1. RingsOnly(m, m2) /\ m2.first = With(m.first, AreaOf(m, s), s)
      /\ m2.next = With(m.next, s, s) /\ m2.prev = With(m.prev, s, s)
  <2>1. m2 = SetRings(m, With(m.first, AreaOf(m, s), s), With(m.next, s, s), With(m.prev, s, s))
    BY DEF Alone, SetRings
  <2> HIDE DEF m2
  <2> QED BY <2>1, RingsSet
<1> HIDE DEF m2
<1>2. \A t : AreaOf(m2, t) = AreaOf(m, t) /\ Value(m2, t) = Value(m, t)
  BY <1>1, RingsOnlyKeep
<1>3. Sorted(S, m.next, m.prev, area, val)
  BY DEF Ringed
<1>4. /\ Agree(S, area, area2) /\ Agree(S, val, val2) /\ \A t \in S : area[t] # area2[s]
      /\ val2[s] \in Int
  BY <1>2 DEF Agree
<1>6. Sorted(S \cup {s}, m2.next, m2.prev, area2, val2)
  <2> HIDE DEF area, val, area2, val2
  <2>1. Sorted(S \cup {s}, With(m.next, s, s), With(m.prev, s, s), area2, val2)
    BY ONLY <1>3, <1>4, s \notin S, SideAlone
  <2> QED BY <1>1, <2>1
<1>7. IsFiniteSet(S \cup {s})
  BY FS_AddElement DEF Ringed
<1>8. /\ m2.first \in [{AreaOf(m2, t) : t \in S \cup {s}} -> S \cup {s}]
      /\ \A t \in S \cup {s} : AreaOf(m2, m2.first[AreaOf(m2, t)]) = AreaOf(m2, t)
  <2>1. /\ m.first \in [{AreaOf(m, t) : t \in S} -> S]
        /\ \A t \in S : AreaOf(m, m.first[AreaOf(m, t)]) = AreaOf(m, t)
    BY DEF Ringed
  <2>3. {AreaOf(m2, t) : t \in S \cup {s}} = {AreaOf(m, t) : t \in S} \cup {AreaOf(m, s)}
    BY <1>2
  <2>4. m2.first \in [{AreaOf(m2, t) : t \in S \cup {s}} -> S \cup {s}]
    BY <1>1, <2>1, <2>3 DEF With
  <2>5. ASSUME NEW t \in S PROVE m2.first[AreaOf(m, t)] = m.first[AreaOf(m, t)]
    BY <1>1, <2>1 DEF With
  <2>6. m2.first[AreaOf(m, s)] = s
    BY <1>1 DEF With
  <2> QED BY <1>2, <2>1, <2>4, <2>5, <2>6
<1>9. Ringed(m2, S \cup {s})
  BY <1>6, <1>7, <1>8 DEF Ringed
<1> QED BY <1>1, <1>9 DEF m2

\* area_connect keeps a ring sorted, and finds a place for the new side if there are two already.
LEMMA InsertKeeps ==
  ASSUME NEW m, IsMap(m), NEW S, Ringed(m, S), Bounded(m, S), NEW s, s \notin S, Value(m, s) \in Int,
         \A t \in S : AreaOf(m, t) = AreaOf(m, s) => Value(m, t) # Value(m, s)
  PROVE  RingsOnly(m, InsertSide(m, s)) /\ Ringed(InsertSide(m, s), S \cup {s})
<1> DEFINE a == AreaOf(m, s)
           ring == Ring(m, a)
           f == m.first[a]
           places == {t \in RingSet(ring) : Fits(Value(m, t), Value(m, m.next[t]), Value(m, s))}
<1>1. /\ a \in DOMAIN m.first <=> \E t \in S : AreaOf(m, t) = a
      /\ RingSet(ring) = {t \in S : AreaOf(m, t) = a}
      /\ a \in DOMAIN m.first => f \in S /\ AreaOf(m, f) = a
      /\ a \notin DOMAIN m.first => ring = <<>>
      /\ \E n \in Nat : DOMAIN ring = 1 .. n
  BY RingIs
<1>2. RingSet(<<>>) = {}
  BY DEF RingSet
<1>3. \A t \in S : Value(m, t) \in Int /\ m.next[t] \in S
  BY DEF Ringed, Sorted, Linked
<1>4. CASE ring = <<>>
  <2>1. InsertSide(m, s) = Alone(m, s)
    BY <1>4 DEF InsertSide
  <2>2. \A t \in S : AreaOf(m, t) # AreaOf(m, s)
    BY <1>1, <1>2, <1>4
  <2> QED BY <2>1, <2>2, AloneKeeps
<1>5. CASE ring # <<>> /\ m.next[f] = f
  <2>1. InsertSide(m, s) = Behind(m, f, s)
    BY <1>5 DEF InsertSide
  <2>2. f \in S /\ AreaOf(m, f) = AreaOf(m, s)
    BY <1>1, <1>5
  <2>3. Passed(Value(m, f), Value(m, m.next[f]), Value(m, s))
    <3>1. Value(m, f) # Value(m, s) /\ Value(m, f) \in Int
      BY <1>3, <2>2
    <3> QED BY <1>5, <3>1 DEF Passed
  <2>4. Behind(m, f, s) = BehindAt(m, f, s, m.first)
    BY DEF Behind, BehindAt, IsMap
  <2>5. RingsOnly(m, BehindAt(m, f, s, m.first)) /\ Ringed(BehindAt(m, f, s, m.first), S \cup {s})
    <3> HIDE DEF f
    <3> QED BY <2>2, <2>3, BehindKeeps
  <2> QED BY <2>1, <2>4, <2>5
<1>6. CASE ring # <<>> /\ m.next[f] # f
  <2>1. f \in S /\ AreaOf(m, f) = a
    BY <1>1, <1>6
  <2>2. \E t \in S : AreaOf(m, t) = AreaOf(m, f) /\ Fits(Value(m, t), Value(m, m.next[t]), Value(m, s))
    <3> HIDE DEF f
    <3> QED BY <1>6, <2>1, PlaceExists
  <2>3. PICK t \in RingSet(ring) : t \in places
    BY <1>1, <2>1, <2>2
  <2> DEFINE c == First(ring, places)
  <2>4. c \in RingSet(ring) /\ c \in places
    <3> HIDE DEF ring, places
    <3> QED BY <1>1, <2>3, FirstOfRing
  <2>5. c \in S /\ AreaOf(m, c) = a /\ Fits(Value(m, c), Value(m, m.next[c]), Value(m, s))
    BY <1>1, <2>4
  <2>6. InsertSide(m, s) = [Behind(m, c, s) EXCEPT !.first = With(@, a, s)]
    BY <1>6, <2>3 DEF InsertSide
  <2>7. Behind(m, c, s).first = m.first
    BY DEF Behind, IsMap
  <2>8. InsertSide(m, s) = BehindAt(m, c, s, With(m.first, a, s))
    BY <2>6, <2>7 DEF BehindAt
  <2>9. Passed(Value(m, c), Value(m, m.next[c]), Value(m, s))
    BY <1>3, <2>5, FitsIsPassed
  <2> HIDE DEF c, f, places, ring
  <2> QED BY <2>5, <2>8, <2>9, BehindKeeps
<1> QED BY <1>4, <1>5, <1>6

-----------------------------------------------------------------------------
(* Connecting areas *)

\* What does not depend on the rings.
Drawn(m, gaps) == Rectangles(m) /\ PortalsSound(m) /\ Apart(m) /\ Covered(m, gaps)

LEMMA DrawnKept == ASSUME NEW m, NEW m2, NEW gaps, m2.area = m.area, m2.rect = m.rect, m2.portal = m.portal,
                          Drawn(m, gaps)
                   PROVE  Drawn(m2, gaps)
<1>1. Rectangles(m2)
  BY DEF Drawn, Rectangles
<1>2. PortalsSound(m2)
  BY DEF Drawn, PortalsSound, PortalSound
<1>3. Apart(m2)
  BY DEF Drawn, Apart, SamePair
<1>4. Covered(m2, gaps)
  BY DEF Drawn, Covered, Leads
<1> QED BY <1>1, <1>2, <1>3, <1>4 DEF Drawn

LEMMA RingedSame ==
  ASSUME NEW m, NEW m2, NEW S, Ringed(m, S), m2.first = m.first, m2.next = m.next, m2.prev = m.prev,
         \A s \in S : AreaOf(m2, s) = AreaOf(m, s) /\ Value(m2, s) = Value(m, s)
  PROVE  Ringed(m2, S)
<1>1. /\ [s \in S |-> AreaOf(m2, s)] = [s \in S |-> AreaOf(m, s)]
      /\ [s \in S |-> Value(m2, s)] = [s \in S |-> Value(m, s)]
      /\ {AreaOf(m2, s) : s \in S} = {AreaOf(m, s) : s \in S}
  OBVIOUS
<1>2. IsFiniteSet(S) /\ m2.first \in [{AreaOf(m2, s) : s \in S} -> S]
      /\ Sorted(S, m2.next, m2.prev, [s \in S |-> AreaOf(m2, s)], [s \in S |-> Value(m2, s)])
  BY <1>1 DEF Ringed
<1>3. \A s \in S : AreaOf(m2, m2.first[AreaOf(m2, s)]) = AreaOf(m2, s)
  <2> SUFFICES ASSUME NEW s \in S PROVE AreaOf(m2, m2.first[AreaOf(m2, s)]) = AreaOf(m2, s)
    OBVIOUS
  <2>1. AreaOf(m2, s) = AreaOf(m, s) /\ m.first[AreaOf(m, s)] \in S
    BY DEF Ringed
  <2>2. AreaOf(m, m.first[AreaOf(m, s)]) = AreaOf(m, s)
    BY DEF Ringed
  <2> QED BY <2>1, <2>2
<1> QED BY <1>2, <1>3 DEF Ringed

LEMMA InFull == ASSUME NEW v \in Int, v >= 0, v <= 400000 PROVE v \in 0 .. Full
<1>1. v <= Full /\ Full \in Int
  BY SMT DEF Full
<1> QED BY <1>1, SMT

LEMMA AllBounded == ASSUME NEW m, NEW gaps, Drawn(m, gaps) PROVE Bounded(m, Sides(m))
<1> SUFFICES ASSUME NEW s \in Sides(m) PROVE Value(m, s) \in 0 .. Full
  BY DEF Bounded
<1>1. Value(m, s) \in Int /\ Value(m, s) >= 0 /\ Value(m, s) <= 400000
  BY ValuesOfSides DEF Drawn
<1> QED BY <1>1, InFull, SMT

\* A portal as wide as one tile, between u and v.
NarrowPortal(m, dir, c, k) ==
  [dir |-> dir, s1 |-> k, s2 |-> k,
   area |-> [i \in {0, 1} |-> IF i = 0 THEN m.area[At(dir, c, k)] ELSE m.area[At(dir, c + 1, k)]]]

\* A gap of the map, between the tiles at c and at c + 1.
Gap(m, gaps, dir, c, k) ==
  /\ dir \in Dirs /\ c \in Int /\ k \in Int
  /\ At(dir, c, k) \in DOMAIN m.area /\ At(dir, c + 1, k) \in DOMAIN m.area
  /\ m.area[At(dir, c, k)] # m.area[At(dir, c + 1, k)]
  /\ <<At(dir, c, k), At(dir, c + 1, k)>> \in gaps
  /\ Far(m.rect[m.area[At(dir, c, k)]], dir) = c
  /\ Near(m.rect[m.area[At(dir, c + 1, k)]], dir) = c + 1

LEMMA AtIs == ASSUME NEW dir \in Dirs, NEW c \in Int, NEW k \in Int, NEW d \in Int, NEW l \in Int
              PROVE  At(dir, c, k) = At(dir, d, l) => c = d /\ k = l
  BY DEF At

LEMMA GapIs ==
  ASSUME NEW m, NEW gaps, Drawn(m, gaps), NEW dir, NEW c, NEW k, Gap(m, gaps, dir, c, k)
  PROVE  LET a == m.area[At(dir, c, k)]
             b == m.area[At(dir, c + 1, k)]
         IN /\ a \in DOMAIN m.rect /\ b \in DOMAIN m.rect
            /\ Low(m.rect[a], dir) \in Int /\ High(m.rect[a], dir) \in Int
            /\ Low(m.rect[b], dir) \in Int /\ High(m.rect[b], dir) \in Int
            /\ Low(m.rect[a], dir) <= k /\ k <= High(m.rect[a], dir)
            /\ Low(m.rect[b], dir) <= k /\ k <= High(m.rect[b], dir)
<1> DEFINE a == m.area[At(dir, c, k)]
           b == m.area[At(dir, c + 1, k)]
<1>0. /\ dir \in Dirs /\ c \in Int /\ k \in Int /\ c + 1 \in Int
      /\ At(dir, c, k) \in DOMAIN m.area /\ At(dir, c + 1, k) \in DOMAIN m.area
  BY DEF Gap
<1>1. a \in DOMAIN m.rect /\ b \in DOMAIN m.rect /\ Rectangles(m)
  BY <1>0 DEF Drawn, Rectangles
<1>2. /\ Low(m.rect[a], dir) \in Int /\ High(m.rect[a], dir) \in Int
      /\ Low(m.rect[b], dir) \in Int /\ High(m.rect[b], dir) \in Int
  BY <1>0, <1>1, RectIs
<1>3. Low(m.rect[a], dir) <= k /\ k <= High(m.rect[a], dir)
  BY <1>0, <1>1, TileIn
<1>4. Low(m.rect[b], dir) <= k /\ k <= High(m.rect[b], dir)
  BY <1>0, <1>1, TileIn
<1> QED BY <1>1, <1>2, <1>3, <1>4

LEMMA GapFilled ==
  ASSUME NEW m, NEW gaps, Drawn(m, gaps), NEW dir, NEW c, NEW k, Gap(m, gaps, dir, c, k),
         NEW p, p \notin DOMAIN m.portal, p[1] \in DOMAIN m.area,
         NEW m2, m2.area = m.area, m2.rect = m.rect,
         m2.portal = With(m.portal, p, NarrowPortal(m, dir, c, k))
  PROVE  Drawn(m2, gaps \ {<<At(dir, c, k), At(dir, c + 1, k)>>})
<1> DEFINE u == At(dir, c, k)
           v == At(dir, c + 1, k)
           a == m.area[u]
           b == m.area[v]
<1>0. /\ dir \in Dirs /\ c \in Int /\ k \in Int /\ c + 1 \in Int
      /\ u \in DOMAIN m.area /\ v \in DOMAIN m.area /\ a # b /\ <<u, v>> \in gaps
      /\ Far(m.rect[a], dir) = c /\ Near(m.rect[b], dir) = c + 1
  BY DEF Gap
<1>1. /\ a \in DOMAIN m.rect /\ b \in DOMAIN m.rect
      /\ Low(m.rect[a], dir) <= k /\ k <= High(m.rect[a], dir)
      /\ Low(m.rect[b], dir) <= k /\ k <= High(m.rect[b], dir)
  BY GapIs
<1>2. /\ DOMAIN m2.portal = DOMAIN m.portal \cup {p}
      /\ \A q \in DOMAIN m.portal : m2.portal[q] = m.portal[q]
      /\ m2.portal = [q \in DOMAIN m2.portal |-> m2.portal[q]]
  BY DEF With
<1>3. /\ m2.portal[p].dir = dir /\ m2.portal[p].s1 = k /\ m2.portal[p].s2 = k
      /\ m2.portal[p].area = [i \in {0, 1} |-> IF i = 0 THEN a ELSE b]
      /\ m2.portal[p].area[0] = a /\ m2.portal[p].area[1] = b
      /\ m2.portal[p] \in [dir : Dirs, area : [{0, 1} -> DOMAIN m.rect], s1 : Int, s2 : Int]
  <2>1. m2.portal[p] = NarrowPortal(m, dir, c, k)
    BY DEF With
  <2>2. NarrowPortal(m, dir, c, k).area = [i \in {0, 1} |-> IF i = 0 THEN a ELSE b]
    BY DEF NarrowPortal
  <2>3. [i \in {0, 1} |-> IF i = 0 THEN a ELSE b] \in [{0, 1} -> DOMAIN m.rect]
    BY <1>1
  <2> HIDE DEF a, b
  <2>4. NarrowPortal(m, dir, c, k) \in [dir : Dirs, area : [{0, 1} -> DOMAIN m.rect], s1 : Int, s2 : Int]
    BY <1>0, <2>2, <2>3 DEF NarrowPortal
  <2>5. NarrowPortal(m, dir, c, k).dir = dir /\ NarrowPortal(m, dir, c, k).s1 = k
        /\ NarrowPortal(m, dir, c, k).s2 = k
    BY DEF NarrowPortal
  <2> QED BY <2>1, <2>2, <2>4, <2>5
<1>4. Rectangles(m2)
  BY DEF Rectangles, Drawn
\* Who else leads from u to v would overlap; there is none.
<1>5. \A q \in DOMAIN m.portal : ~Leads(m, q, dir, u, v, k)
  BY <1>0 DEF Covered, Drawn
<1> HIDE DEF a, b, u, v
<1>6. PortalsSound(m2)
  <2> SUFFICES ASSUME NEW q \in DOMAIN m2.portal PROVE q[1] \in DOMAIN m2.area /\ PortalSound(m2, q)
    BY <1>2 DEF PortalsSound
  <2>1. CASE q = p
    BY <1>0, <1>1, <1>3, <2>1 DEF PortalSound
  <2>2. CASE q \in DOMAIN m.portal
    <3>1. q[1] \in DOMAIN m.area /\ PortalSound(m, q)
      BY <2>2 DEF Drawn, PortalsSound
    <3> QED BY <1>2, <2>2, <3>1 DEF PortalSound
  <2> QED BY <1>2, <2>1, <2>2
<1>7. ASSUME NEW q \in DOMAIN m.portal, SamePair(m2, p, q) \/ SamePair(m2, q, p),
             m2.portal[p].s1 <= m2.portal[q].s2, m2.portal[q].s1 <= m2.portal[p].s2
      PROVE  FALSE
  <2>1. /\ m.portal[q].dir = dir /\ m.portal[q].area[0] = a /\ m.portal[q].area[1] = b
        /\ m.portal[q].s1 <= k /\ k <= m.portal[q].s2
    BY <1>2, <1>3, <1>7 DEF SamePair
  <2> QED BY <1>5, <2>1 DEF Leads, a, b
<1>8. Apart(m2)
  <2> SUFFICES ASSUME NEW q \in DOMAIN m2.portal, NEW r \in DOMAIN m2.portal, SamePair(m2, q, r),
                      m2.portal[q].s1 <= m2.portal[r].s2, m2.portal[r].s1 <= m2.portal[q].s2
               PROVE  q = r
    BY DEF Apart
  <2>1. CASE q \in DOMAIN m.portal /\ r \in DOMAIN m.portal
    <3>1. SamePair(m, q, r)
      BY <1>2, <2>1 DEF SamePair
    <3> QED BY <1>2, <2>1, <3>1 DEF Apart, Drawn
  <2>2. CASE q = p /\ r \in DOMAIN m.portal
    BY <1>7, <2>2
  <2>3. CASE q \in DOMAIN m.portal /\ r = p
    BY <1>7, <2>3
  <2> QED BY <1>2, <2>1, <2>2, <2>3
<1>9. Covered(m2, gaps \ {<<u, v>>})
  <2> SUFFICES ASSUME NEW d \in Dirs, NEW e \in Int, NEW l \in Int,
                      At(d, e, l) \in DOMAIN m2.area, At(d, e + 1, l) \in DOMAIN m2.area,
                      m2.area[At(d, e, l)] # m2.area[At(d, e + 1, l)]
               PROVE  IF <<At(d, e, l), At(d, e + 1, l)>> \in gaps \ {<<u, v>>}
                        THEN \A q \in DOMAIN m2.portal : ~Leads(m2, q, d, At(d, e, l), At(d, e + 1, l), l)
                        ELSE \E q \in DOMAIN m2.portal : Leads(m2, q, d, At(d, e, l), At(d, e + 1, l), l)
    BY DEF Covered
  <2> DEFINE x == At(d, e, l)
             y == At(d, e + 1, l)
  <2>1. /\ x \in DOMAIN m.area /\ y \in DOMAIN m.area
        /\ IF <<x, y>> \in gaps THEN \A q \in DOMAIN m.portal : ~Leads(m, q, d, x, y, l)
           ELSE \E q \in DOMAIN m.portal : Leads(m, q, d, x, y, l)
    BY DEF Covered, Drawn
  <2>2. \A q \in DOMAIN m.portal : Leads(m2, q, d, x, y, l) <=> Leads(m, q, d, x, y, l)
    BY <1>2 DEF Leads
  <2>3. Leads(m2, p, d, x, y, l) => <<x, y>> = <<u, v>>
    <3> SUFFICES ASSUME Leads(m2, p, d, x, y, l) PROVE <<x, y>> = <<u, v>>
      OBVIOUS
    <3>1. d = dir /\ m.area[x] = a /\ m.area[y] = b /\ l = k
      <4>1. k <= l /\ l <= k /\ d = dir /\ m.area[x] = a /\ m.area[y] = b
        BY <1>3 DEF Leads
      <4> QED BY <1>0, <4>1
    <3>2. Rectangles(m) /\ e + 1 \in Int
      BY DEF Drawn
    <3>3. e <= Far(m.rect[a], dir)
      BY <1>0, <1>1, <2>1, <3>1, <3>2, TileIn
    <3>4. Near(m.rect[b], dir) <= e + 1
      BY <1>0, <1>1, <2>1, <3>1, <3>2, TileIn
    <3>5. e = c
      BY <1>0, <3>3, <3>4
    <3> QED BY <3>1, <3>5 DEF u, v
  <2>4. CASE <<x, y>> = <<u, v>>
    <3>1. d = dir /\ e = c /\ l = k
      <4>1. At(d, e, l) = At(dir, c, k) /\ At(d, e + 1, l) = At(dir, c + 1, k)
        BY <2>4 DEF u, v
      <4>2. CASE d = VERTICAL
        <5>1. dir = VERTICAL
          BY <1>0, <2>4, <4>1, <4>2 DEF Dirs, At, HORIZONTAL, VERTICAL
        <5> QED BY <1>0, <4>1, <4>2, <5>1 DEF At
      <4>3. CASE d # VERTICAL
        <5>1. dir # VERTICAL
          BY <1>0, <2>4, <4>1, <4>3 DEF Dirs, At, HORIZONTAL, VERTICAL
        <5> QED BY <1>0, <4>1, <4>3, <5>1 DEF At, Dirs
      <4> QED BY <4>2, <4>3
    <3>2. Leads(m2, p, d, x, y, l)
      BY <1>0, <1>3, <3>1 DEF Leads, a, b, u, v
    <3> QED BY <1>2, <2>4, <3>2
  <2>5. CASE <<x, y>> # <<u, v>>
    <3> HIDE DEF x, y
    <3> QED BY <1>2, <2>1, <2>2, <2>3, <2>5 DEF x, y
  <2> QED BY <2>4, <2>5
<1> QED BY <1>4, <1>6, <1>8, <1>9 DEF Drawn, u, v

Narrow(m, a, dir, k) == Low(m.rect[a], dir) = k /\ High(m.rect[a], dir) = k

LEMMA BetweenIsNarrow ==
  ASSUME NEW m, NEW gaps, Drawn(m, gaps), NEW dir, NEW c, NEW k, Gap(m, gaps, dir, c, k),
         Narrow(m, m.area[At(dir, c, k)], dir, k) \/ Narrow(m, m.area[At(dir, c + 1, k)], dir, k)
  PROVE  PortalBetween(m, m.area[At(dir, c, k)], m.area[At(dir, c + 1, k)]) = NarrowPortal(m, dir, c, k)
<1> DEFINE a == m.area[At(dir, c, k)]
           b == m.area[At(dir, c + 1, k)]
           both == [i \in {0, 1} |-> IF i = 0 THEN a ELSE b]
<1>1. /\ dir \in Dirs /\ c \in Int /\ k \in Int
      /\ Far(m.rect[a], dir) = c /\ Near(m.rect[b], dir) = c + 1
  BY DEF Gap
<1>2. /\ Low(m.rect[a], dir) \in Int /\ High(m.rect[a], dir) \in Int
      /\ Low(m.rect[b], dir) \in Int /\ High(m.rect[b], dir) \in Int
      /\ Low(m.rect[a], dir) <= k /\ k <= High(m.rect[a], dir)
      /\ Low(m.rect[b], dir) <= k /\ k <= High(m.rect[b], dir)
  BY GapIs
<1>3. NarrowPortal(m, dir, c, k) = [dir |-> dir, s1 |-> k, s2 |-> k, area |-> both]
  BY DEF NarrowPortal
<1>d. PortalBetween(m, a, b) =
        IF m.rect[a].x2 + 1 = m.rect[b].x1
        THEN [dir |-> VERTICAL, area |-> both,
              s1 |-> Larger(m.rect[a].y1, m.rect[b].y1), s2 |-> Smaller(m.rect[a].y2, m.rect[b].y2)]
        ELSE [dir |-> HORIZONTAL, area |-> both,
              s1 |-> Larger(m.rect[a].x1, m.rect[b].x1), s2 |-> Smaller(m.rect[a].x2, m.rect[b].x2)]
  BY DEF PortalBetween
<1>n. Narrow(m, a, dir, k) \/ Narrow(m, b, dir, k)
  OBVIOUS
<1> HIDE DEF a, b, both
<1>4. CASE dir = VERTICAL
  <2>1. m.rect[a].x2 + 1 = m.rect[b].x1
    BY <1>1, <1>4 DEF Far, Near
  <2>2. /\ m.rect[a].y1 \in Int /\ m.rect[b].y1 \in Int /\ m.rect[a].y2 \in Int /\ m.rect[b].y2 \in Int
        /\ m.rect[a].y1 <= k /\ m.rect[b].y1 <= k /\ k <= m.rect[a].y2 /\ k <= m.rect[b].y2
        /\ \/ m.rect[a].y1 = k /\ m.rect[a].y2 = k
           \/ m.rect[b].y1 = k /\ m.rect[b].y2 = k
    BY <1>2, <1>4, <1>n DEF Low, High, Narrow
  <2>3. Larger(m.rect[a].y1, m.rect[b].y1) = k /\ Smaller(m.rect[a].y2, m.rect[b].y2) = k
    BY ONLY <1>1, <2>2 DEF Larger, Smaller
  <2> QED BY <1>3, <1>4, <1>d, <2>1, <2>3 DEF a, b
<1>5. CASE dir = HORIZONTAL
  <2>2. /\ m.rect[a].x1 \in Int /\ m.rect[b].x1 \in Int /\ m.rect[a].x2 \in Int /\ m.rect[b].x2 \in Int
        /\ m.rect[a].x1 <= k /\ m.rect[b].x1 <= k /\ k <= m.rect[a].x2 /\ k <= m.rect[b].x2
        /\ \/ m.rect[a].x1 = k /\ m.rect[a].x2 = k
           \/ m.rect[b].x1 = k /\ m.rect[b].x2 = k
    BY <1>2, <1>5, <1>n DEF Low, High, Narrow, HORIZONTAL, VERTICAL
  <2>1. m.rect[a].x2 + 1 # m.rect[b].x1
    BY <1>1, <2>2
  <2>3. Larger(m.rect[a].x1, m.rect[b].x1) = k /\ Smaller(m.rect[a].x2, m.rect[b].x2) = k
    BY ONLY <1>1, <2>2 DEF Larger, Smaller
  <2> QED BY <1>3, <1>5, <1>d, <2>1, <2>3 DEF a, b
<1> QED BY <1>1, <1>4, <1>5 DEF Dirs

LEMMA ConnectAt ==
  ASSUME NEW m, NEW gaps, MapInv(m, gaps), NEW dir, NEW c, NEW k, Gap(m, gaps, dir, c, k),
         NEW u, NEW v, u = At(dir, c, k), v = At(dir, c + 1, k),
         Narrow(m, m.area[u], dir, k) \/ Narrow(m, m.area[v], dir, k),
         NEW p, p \notin DOMAIN m.portal, p[1] \in DOMAIN m.area,
         NEW m2, m2 = Connect(m, p, m.area[u], m.area[v])
  PROVE  /\ MapInv(m2, gaps \ {<<u, v>>}) /\ m2.area = m.area /\ m2.rect = m.rect
         /\ m2.portal = With(m.portal, p, NarrowPortal(m, dir, c, k))
<1>n. Narrow(m, m.area[At(dir, c, k)], dir, k) \/ Narrow(m, m.area[At(dir, c + 1, k)], dir, k)
  OBVIOUS
<1> DEFINE a == m.area[At(dir, c, k)]
           b == m.area[At(dir, c + 1, k)]
           left == gaps \ {<<At(dir, c, k), At(dir, c + 1, k)>>}
           m1 == [m EXCEPT !.portal = With(@, p, NarrowPortal(m, dir, c, k))]
           s0 == <<p, 0>>
           s1 == <<p, 1>>
           n == InsertSide(m1, s0)
<1>1. Drawn(m, gaps) /\ IsMap(m) /\ m.sound = TRUE /\ Ringed(m, Sides(m))
  BY DEF MapInv, Drawn
<1>2. m2 = InsertSide(n, s1)
  BY <1>1, <1>n, BetweenIsNarrow DEF Connect
<1>3. /\ m1.area = m.area /\ m1.rect = m.rect /\ m1.first = m.first /\ m1.next = m.next /\ m1.prev = m.prev
      /\ m1.portal = With(m.portal, p, NarrowPortal(m, dir, c, k)) /\ m1.sound = m.sound /\ IsMap(m1)
  <2>1. m1 = [area |-> m.area, rect |-> m.rect, first |-> m.first, next |-> m.next, prev |-> m.prev,
              portal |-> With(m.portal, p, NarrowPortal(m, dir, c, k)), sound |-> m.sound]
    BY <1>1 DEF IsMap
  <2> HIDE DEF m1
  <2> QED BY <2>1 DEF IsMap
<1> HIDE DEF m1
<1>4. Drawn(m1, left)
  BY <1>1, <1>3, GapFilled
<1>5. Bounded(m1, Sides(m1))
  BY <1>4, AllBounded
<1>6. /\ Sides(m1) = (Sides(m) \cup {s0}) \cup {s1}
      /\ s0 \notin Sides(m) /\ s1 \notin Sides(m) \cup {s0}
      /\ s0 \in Sides(m1) /\ s1 \in Sides(m1)
  <2>1. DOMAIN m1.portal = DOMAIN m.portal \cup {p}
    BY <1>3 DEF With
  <2> QED BY <2>1 DEF Sides
<1>7. \A s \in Sides(m) : AreaOf(m1, s) = AreaOf(m, s) /\ Value(m1, s) = Value(m, s)
  <2> SUFFICES ASSUME NEW s \in Sides(m) PROVE AreaOf(m1, s) = AreaOf(m, s) /\ Value(m1, s) = Value(m, s)
    OBVIOUS
  <2>1. m1.portal[s[1]] = m.portal[s[1]]
    BY <1>3, SideIs DEF With
  <2> QED BY <2>1 DEF AreaOf, Value, Direction
<1>8. Ringed(m1, Sides(m))
  BY <1>1, <1>3, <1>7, RingedSame
<1> HIDE DEF s0, s1, n, left, a, b
<1>9. \A s, t \in Sides(m1) : AreaOf(m1, s) = AreaOf(m1, t) /\ s # t => Value(m1, s) # Value(m1, t)
  BY <1>4, ValuesDiffer DEF Drawn
<1>10. \A s \in Sides(m1) : Value(m1, s) \in Int
  <2>1. Full \in Nat
    BY SMT DEF Full
  <2> QED BY <1>5, <2>1 DEF Bounded
<1>11. RingsOnly(m1, n) /\ Ringed(n, Sides(m) \cup {s0})
  <2>1. Bounded(m1, Sides(m))
    BY <1>5, <1>6 DEF Bounded
  <2>2. Value(m1, s0) \in Int
    BY <1>6, <1>10
  <2>3. \A t \in Sides(m) : AreaOf(m1, t) = AreaOf(m1, s0) => Value(m1, t) # Value(m1, s0)
    BY <1>6, <1>9
  <2> QED BY <1>3, <1>6, <1>8, <2>1, <2>2, <2>3, InsertKeeps DEF n
<1>12. RingsOnly(n, m2) /\ Ringed(m2, (Sides(m) \cup {s0}) \cup {s1})
  <2>0. IsMap(n) /\ \A s : AreaOf(n, s) = AreaOf(m1, s) /\ Value(n, s) = Value(m1, s)
    BY <1>11, RingsOnlyKeep DEF RingsOnly
  <2>1. Bounded(n, Sides(m) \cup {s0})
    BY <1>5, <1>6, <2>0 DEF Bounded
  <2>2. Value(n, s1) \in Int
    BY <1>6, <1>10, <2>0
  <2>3. \A t \in Sides(m) \cup {s0} : AreaOf(n, t) = AreaOf(n, s1) => Value(n, t) # Value(n, s1)
    BY <1>6, <1>9, <2>0
  <2> QED BY <1>6, <1>11, <2>0, <2>1, <2>2, <2>3, <1>2, InsertKeeps
<1>13. /\ IsMap(m2) /\ m2.area = m1.area /\ m2.rect = m1.rect /\ m2.portal = m1.portal /\ m2.sound = m1.sound
  BY <1>11, <1>12 DEF RingsOnly
<1>14. Drawn(m2, left)
  BY <1>4, <1>13, DrawnKept
<1>15. Ringed(m2, Sides(m2))
  BY <1>6, <1>12, <1>13 DEF Sides
<1>16. MapInv(m2, left)
  BY <1>1, <1>3, <1>13, <1>14, <1>15 DEF MapInv, Drawn
<1> QED BY <1>2, <1>3, <1>13, <1>16 DEF a, b, left

-----------------------------------------------------------------------------
(* A new area *)

Fields == {"area", "rect", "first", "next", "prev", "portal", "sound"}

LEMMA MapFields == ASSUME NEW x, DOMAIN x = Fields, x = [f \in DOMAIN x |-> x[f]] PROVE IsMap(x)
<1> DEFINE r == [area |-> x.area, rect |-> x.rect, first |-> x.first, next |-> x.next, prev |-> x.prev,
                 portal |-> x.portal, sound |-> x.sound]
<1>1. /\ r.area = x.area /\ r.rect = x.rect /\ r.first = x.first /\ r.next = x.next /\ r.prev = x.prev
      /\ r.portal = x.portal /\ r.sound = x.sound
  OBVIOUS
<1>2. DOMAIN r = Fields /\ r = [f \in Fields |-> r[f]]
  BY DEF Fields
<1> HIDE DEF r
<1>3. \A f \in Fields : r[f] = x[f]
  BY <1>1 DEF Fields
<1>4. x = r
  BY <1>2, <1>3
<1> QED BY <1>4 DEF IsMap, r

\* Two areas that touch end there.
LEMMA Touch ==
  ASSUME NEW m, Rectangles(m), NEW dir \in Dirs, NEW c \in Int, NEW k \in Int,
         At(dir, c, k) \in DOMAIN m.area, At(dir, c + 1, k) \in DOMAIN m.area,
         m.area[At(dir, c, k)] # m.area[At(dir, c + 1, k)]
  PROVE  /\ Far(m.rect[m.area[At(dir, c, k)]], dir) = c
         /\ Near(m.rect[m.area[At(dir, c + 1, k)]], dir) = c + 1
<1> DEFINE a == m.area[At(dir, c, k)]
           b == m.area[At(dir, c + 1, k)]
<1>1. a \in DOMAIN m.rect /\ b \in DOMAIN m.rect /\ c + 1 \in Int
  BY DEF Rectangles
<1>2. /\ Near(m.rect[a], dir) \in Int /\ Far(m.rect[a], dir) \in Int
      /\ Near(m.rect[b], dir) \in Int /\ Far(m.rect[b], dir) \in Int
  BY <1>1, RectIs
<1>3. /\ Near(m.rect[a], dir) <= c /\ c <= Far(m.rect[a], dir)
      /\ Low(m.rect[a], dir) <= k /\ k <= High(m.rect[a], dir)
  BY <1>1, TileIn
<1>4. /\ Near(m.rect[b], dir) <= c + 1 /\ c + 1 <= Far(m.rect[b], dir)
      /\ Low(m.rect[b], dir) <= k /\ k <= High(m.rect[b], dir)
  BY <1>1, TileIn
<1>5. ~(Near(m.rect[a], dir) <= c + 1 /\ c + 1 <= Far(m.rect[a], dir))
  BY <1>1, <1>3, TileIn
<1>6. ~(Near(m.rect[b], dir) <= c /\ c <= Far(m.rect[b], dir))
  BY <1>1, <1>4, TileIn
<1> HIDE DEF a, b
<1>7. Far(m.rect[a], dir) = c
  BY ONLY <1>1, <1>2, <1>3, <1>5, c \in Int
<1>8. Near(m.rect[b], dir) = c + 1
  BY ONLY <1>1, <1>2, <1>4, <1>6, c \in Int
<1> QED BY <1>7, <1>8 DEF a, b

Gaps(t) == {<<Up(t), t>>, <<t, Right(t)>>, <<t, Down(t)>>, <<Left(t), t>>}

\* Area t is tile t.
Single(m, t) ==
  /\ t = <<t[1], t[2]>> /\ t[1] \in Int /\ t[2] \in Int
  /\ t \in DOMAIN m.area /\ t \in DOMAIN m.rect /\ m.area[t] = t
  /\ m.rect[t] = [x1 |-> t[1], x2 |-> t[1], y1 |-> t[2], y2 |-> t[2]]

LEMMA GapsMeetTile ==
  ASSUME NEW t, t = <<t[1], t[2]>>, t[1] \in Int, t[2] \in Int,
         NEW dir \in Dirs, NEW c \in Int, NEW k \in Int
  PROVE  /\ At(dir, c, k) = t \/ At(dir, c + 1, k) = t
            => <<At(dir, c, k), At(dir, c + 1, k)>> \in Gaps(t)
         /\ <<At(dir, c, k), At(dir, c + 1, k)>> \in Gaps(t)
            => At(dir, c, k) = t \/ At(dir, c + 1, k) = t
<1>1. <<At(dir, c, k), At(dir, c + 1, k)>> \in Gaps(t) => At(dir, c, k) = t \/ At(dir, c + 1, k) = t
  BY DEF Gaps
<1>2. ASSUME At(dir, c, k) = t PROVE At(dir, c + 1, k) \in {Right(t), Down(t)}
  BY <1>2 DEF At, Right, Down
<1>3. ASSUME At(dir, c + 1, k) = t PROVE At(dir, c, k) \in {Left(t), Up(t)}
  BY <1>3 DEF At, Left, Up
<1> QED BY <1>1, <1>2, <1>3 DEF Gaps

LEMMA NewAreaKeeps ==
  ASSUME NEW m, MapInv(m, {}), NEW t \in WithinBorder, t \notin DOMAIN m.area
  PROVE  /\ MapInv(NewArea(m, t), Gaps(t)) /\ Single(NewArea(m, t), t)
         /\ NewArea(m, t).portal = m.portal /\ DOMAIN NewArea(m, t).area = DOMAIN m.area \cup {t}
         /\ DOMAIN NewArea(m, t).rect = DOMAIN m.rect \cup {t}
         /\ \A a \in DOMAIN m.rect : NewArea(m, t).rect[a] = m.rect[a]
         /\ \A u \in DOMAIN m.area : NewArea(m, t).area[u] = m.area[u]
<1> DEFINE r == [x1 |-> t[1], x2 |-> t[1], y1 |-> t[2], y2 |-> t[2]]
           n == NewArea(m, t)
<1>0. /\ IsMap(m) /\ m.sound = TRUE /\ Rectangles(m) /\ PortalsSound(m) /\ Apart(m)
      /\ Covered(m, {}) /\ Ringed(m, Sides(m))
  BY DEF MapInv
<1>1. t = <<t[1], t[2]>> /\ t[1] \in Int /\ t[2] \in Int
  BY SizeAssumption DEF WithinBorder
<1>2. /\ n.area = With(m.area, t, t) /\ n.rect = With(m.rect, t, r) /\ n.first = m.first /\ n.next = m.next
      /\ n.prev = m.prev /\ n.portal = m.portal /\ n.sound = m.sound /\ IsMap(n)
  <2>0. DOMAIN m = Fields
    BY <1>0 DEF IsMap, Fields
  <2>1. /\ n.area = With(m.area, t, t) /\ n.rect = With(m.rect, t, r) /\ n.first = m.first /\ n.next = m.next
        /\ n.prev = m.prev /\ n.portal = m.portal /\ n.sound = m.sound
    BY <2>0 DEF NewArea, Fields
  <2>2. DOMAIN n = Fields /\ n = [f \in DOMAIN n |-> n[f]]
    BY <2>0 DEF NewArea
  <2> HIDE DEF n, r
  <2> QED BY <2>1, <2>2, MapFields
<1> HIDE DEF n
<1>3. /\ DOMAIN n.area = DOMAIN m.area \cup {t} /\ n.area[t] = t
      /\ \A u \in DOMAIN m.area : n.area[u] = m.area[u] /\ u # t
      /\ n.area = [u \in DOMAIN n.area |-> n.area[u]]
  BY <1>2 DEF With
<1>4. t \notin DOMAIN m.rect
  BY <1>0 DEF Rectangles
<1>5. /\ DOMAIN n.rect = DOMAIN m.rect \cup {t} /\ n.rect[t] = r
      /\ \A a \in DOMAIN m.rect : n.rect[a] = m.rect[a]
      /\ n.rect = [a \in DOMAIN n.rect |-> n.rect[a]]
  BY <1>2, <1>4 DEF With
<1>6. r \in Rect /\ r.x1 = t[1] /\ r.x2 = t[1] /\ r.y1 = t[2] /\ r.y2 = t[2]
  BY <1>1 DEF Rect
<1>7. Single(n, t)
  BY <1>1, <1>3, <1>5 DEF Single
<1> HIDE DEF r
<1>r. /\ DOMAIN m.area \subseteq WithinBorder /\ DOMAIN m.rect \subseteq DOMAIN m.area
      /\ \A u \in DOMAIN m.area : m.area[u] \in DOMAIN m.rect
      /\ \A a \in DOMAIN m.rect : m.rect[a] \in Rect /\ m.rect[a].x1 <= m.rect[a].x2
                                  /\ m.rect[a].y1 <= m.rect[a].y2
      /\ \A a \in DOMAIN m.rect : \A x, y \in Int :
           /\ m.rect[a].x1 <= x /\ x <= m.rect[a].x2 /\ m.rect[a].y1 <= y /\ y <= m.rect[a].y2
           <=> <<x, y>> \in DOMAIN m.area /\ m.area[<<x, y>>] = a
  BY <1>0 DEF Rectangles
<1>8. Rectangles(n)
  <2>1. /\ DOMAIN n.area \subseteq WithinBorder /\ DOMAIN n.rect \subseteq DOMAIN n.area
        /\ n.area \in [DOMAIN n.area -> DOMAIN n.rect]
    BY <1>3, <1>5, <1>r
  <2>2. n.rect \in [DOMAIN n.rect -> Rect]
    BY <1>5, <1>6, <1>r
  <2>3. \A a \in DOMAIN n.rect : n.rect[a].x1 <= n.rect[a].x2 /\ n.rect[a].y1 <= n.rect[a].y2
    BY <1>1, <1>5, <1>6, <1>r
  <2>4. ASSUME NEW a \in DOMAIN n.rect, NEW x \in Int, NEW y \in Int
        PROVE  /\ n.rect[a].x1 <= x /\ x <= n.rect[a].x2 /\ n.rect[a].y1 <= y /\ y <= n.rect[a].y2
               <=> <<x, y>> \in DOMAIN n.area /\ n.area[<<x, y>>] = a
    <3>1. CASE a = t
      <4>1. /\ n.rect[a].x1 <= x /\ x <= n.rect[a].x2 /\ n.rect[a].y1 <= y /\ y <= n.rect[a].y2
            <=> x = t[1] /\ y = t[2]
        BY <1>1, <1>5, <1>6, <3>1
      <4>2. x = t[1] /\ y = t[2] <=> <<x, y>> = t
        BY <1>1
      <4>3. <<x, y>> \in DOMAIN n.area /\ n.area[<<x, y>>] = t <=> <<x, y>> = t
        BY <1>3, <1>4, <1>r
      <4> QED BY <3>1, <4>1, <4>2, <4>3
    <3>2. CASE a # t
      <4>1. a \in DOMAIN m.rect /\ n.rect[a] = m.rect[a]
        BY <1>5, <3>2
      <4>2. /\ m.rect[a].x1 <= x /\ x <= m.rect[a].x2 /\ m.rect[a].y1 <= y /\ y <= m.rect[a].y2
            <=> <<x, y>> \in DOMAIN m.area /\ m.area[<<x, y>>] = a
        BY <1>r, <4>1
      <4>3. <<x, y>> \in DOMAIN n.area /\ n.area[<<x, y>>] = a
            <=> <<x, y>> \in DOMAIN m.area /\ m.area[<<x, y>>] = a
        BY <1>3, <3>2
      <4> QED BY <4>1, <4>2, <4>3
    <3> QED BY <3>1, <3>2
  <2> QED BY <2>1, <2>2, <2>3, <2>4 DEF Rectangles
<1>9. \A p \in DOMAIN m.portal :
        /\ m.portal[p].area \in [{0, 1} -> DOMAIN m.rect]
        /\ m.portal[p].area[0] \in DOMAIN m.rect /\ m.portal[p].area[1] \in DOMAIN m.rect
  BY <1>0, PortalIs
<1>10. PortalsSound(n)
  <2> SUFFICES ASSUME NEW p \in DOMAIN m.portal PROVE p[1] \in DOMAIN n.area /\ PortalSound(n, p)
    BY <1>0, <1>2 DEF PortalsSound
  <2>1. p[1] \in DOMAIN m.area /\ PortalSound(m, p)
    BY <1>0 DEF PortalsSound
  <2>2. /\ n.rect[m.portal[p].area[0]] = m.rect[m.portal[p].area[0]]
        /\ n.rect[m.portal[p].area[1]] = m.rect[m.portal[p].area[1]]
    BY <1>5, <1>9
  <2>3. m.portal[p] \in [dir : Dirs, area : [{0, 1} -> DOMAIN n.rect], s1 : Int, s2 : Int]
    <3>1. m.portal[p] \in [dir : Dirs, area : [{0, 1} -> DOMAIN m.rect], s1 : Int, s2 : Int]
      BY <2>1 DEF PortalSound
    <3>2. m.portal[p].area \in [{0, 1} -> DOMAIN n.rect]
      BY <1>5, <1>9
    <3> QED BY <3>1, <3>2
  <2> QED BY <1>2, <1>3, <2>1, <2>2, <2>3 DEF PortalSound
<1>11. Apart(n)
  BY <1>0, <1>2 DEF Apart, SamePair
<1>12. Covered(n, Gaps(t))
  <2> SUFFICES ASSUME NEW d \in Dirs, NEW e \in Int, NEW l \in Int,
                      At(d, e, l) \in DOMAIN n.area, At(d, e + 1, l) \in DOMAIN n.area,
                      n.area[At(d, e, l)] # n.area[At(d, e + 1, l)]
               PROVE  IF <<At(d, e, l), At(d, e + 1, l)>> \in Gaps(t)
                        THEN \A q \in DOMAIN n.portal : ~Leads(n, q, d, At(d, e, l), At(d, e + 1, l), l)
                        ELSE \E q \in DOMAIN n.portal : Leads(n, q, d, At(d, e, l), At(d, e + 1, l), l)
    BY DEF Covered
  <2> DEFINE x == At(d, e, l)
             y == At(d, e + 1, l)
  <2>1. <<x, y>> \in Gaps(t) <=> x = t \/ y = t
    BY <1>1, GapsMeetTile
  <2>2. CASE x = t \/ y = t
    <3>1. n.area[x] = t \/ n.area[y] = t
      BY <1>3, <2>2
    <3>2. \A q \in DOMAIN n.portal : ~Leads(n, q, d, x, y, l)
      BY <1>2, <1>4, <1>9, <3>1 DEF Leads
    <3> QED BY <2>1, <2>2, <3>2
  <2>3. CASE ~(x = t \/ y = t)
    <3>1. x \in DOMAIN m.area /\ y \in DOMAIN m.area /\ n.area[x] = m.area[x] /\ n.area[y] = m.area[y]
      BY <1>3, <2>3
    <3>2. \E q \in DOMAIN m.portal : Leads(m, q, d, x, y, l)
      BY <1>0, <3>1 DEF Covered
    <3>3. \E q \in DOMAIN n.portal : Leads(n, q, d, x, y, l)
      BY <1>2, <3>1, <3>2 DEF Leads
    <3> QED BY <2>1, <2>3, <3>3
  <2> QED BY <2>2, <2>3
<1>13. Ringed(n, Sides(n))
  <2>1. Sides(n) = Sides(m)
    BY <1>2 DEF Sides
  <2>2. \A s \in Sides(m) : AreaOf(n, s) = AreaOf(m, s) /\ Value(n, s) = Value(m, s)
    BY <1>2 DEF AreaOf, Value, Direction
  <2> QED BY <1>0, <1>2, <2>1, <2>2, RingedSame
<1>14. MapInv(n, Gaps(t))
  BY <1>0, <1>2, <1>8, <1>10, <1>11, <1>12, <1>13 DEF MapInv
<1> QED BY <1>2, <1>3, <1>5, <1>7, <1>14 DEF n

\* Only portals of area t were added.
Grows(m, m2, t) ==
  /\ m2.area = m.area /\ m2.rect = m.rect
  /\ \A p \in DOMAIN m2.portal :
       \/ p \in DOMAIN m.portal /\ m2.portal[p] = m.portal[p]
       \/ m2.portal[p].area[0] = t \/ m2.portal[p].area[1] = t

LEMMA GapUnused ==
  ASSUME NEW m, NEW gaps, MapInv(m, gaps), NEW u, NEW v, u \notin DOMAIN m.area \/ v \notin DOMAIN m.area
  PROVE  MapInv(m, gaps \ {<<u, v>>})
<1>1. Covered(m, gaps \ {<<u, v>>})
  <2> SUFFICES ASSUME NEW d \in Dirs, NEW e \in Int, NEW l \in Int,
                      At(d, e, l) \in DOMAIN m.area, At(d, e + 1, l) \in DOMAIN m.area,
                      m.area[At(d, e, l)] # m.area[At(d, e + 1, l)]
               PROVE  IF <<At(d, e, l), At(d, e + 1, l)>> \in gaps \ {<<u, v>>}
                        THEN \A q \in DOMAIN m.portal : ~Leads(m, q, d, At(d, e, l), At(d, e + 1, l), l)
                        ELSE \E q \in DOMAIN m.portal : Leads(m, q, d, At(d, e, l), At(d, e + 1, l), l)
    BY DEF Covered
  <2> DEFINE x == At(d, e, l)
             y == At(d, e + 1, l)
  <2>1. IF <<x, y>> \in gaps THEN \A q \in DOMAIN m.portal : ~Leads(m, q, d, x, y, l)
        ELSE \E q \in DOMAIN m.portal : Leads(m, q, d, x, y, l)
    BY DEF Covered, MapInv
  <2>2. <<x, y>> # <<u, v>>
    OBVIOUS
  <2> HIDE DEF x, y
  <2> QED BY <2>1, <2>2 DEF x, y
<1> QED BY <1>1 DEF MapInv

\* What a step of map_area_add does for the neighbours u and v.
Connected(m, m2, p, u, v) ==
  m2 = IF u \in DOMAIN m.area /\ v \in DOMAIN m.area THEN Connect(m, p, m.area[u], m.area[v]) ELSE m

OneOf(t, u, v) == t \in {u, v}

\* Tile v is behind u, to the right or below.
Step(dir, c, k, u, v) ==
  /\ dir \in Dirs /\ c \in Int /\ k \in Int /\ u = At(dir, c, k) /\ v = At(dir, c + 1, k)

\* The gap between u and v is no longer one, portal p may be new.
GapGone(m, m2, gaps, t, p, u, v) ==
  /\ MapInv(m2, gaps \ {<<u, v>>}) /\ Grows(m, m2, t)
  /\ DOMAIN m2.portal \subseteq DOMAIN m.portal \cup {p}

LEMMA MeetKeeps ==
  ASSUME NEW m, NEW gaps, MapInv(m, gaps), NEW t, Single(m, t),
         NEW dir, NEW c, NEW k, NEW u, NEW v, Step(dir, c, k, u, v), OneOf(t, u, v), <<u, v>> \in gaps,
         NEW p, p \notin DOMAIN m.portal, p[1] = t, NEW m2, Connected(m, m2, p, u, v)
  PROVE  GapGone(m, m2, gaps, t, p, u, v)
<1>s. dir \in Dirs /\ c \in Int /\ k \in Int /\ u = At(dir, c, k) /\ v = At(dir, c + 1, k) /\ c + 1 \in Int
  BY DEF Step
<1>0. t = u \/ t = v
  BY DEF OneOf
<1>1. CASE ~(u \in DOMAIN m.area /\ v \in DOMAIN m.area)
  <2>1. m2 = m
    BY <1>1 DEF Connected
  <2>2. MapInv(m, gaps \ {<<u, v>>})
    BY <1>1, GapUnused
  <2> QED BY <2>1, <2>2 DEF Grows, GapGone
<1>2. CASE u \in DOMAIN m.area /\ v \in DOMAIN m.area
  <2>1. Rectangles(m)
    BY DEF MapInv
  <2>2. u # v
    BY <1>s DEF At
  <2>3. m.area[u] # m.area[v]
    <3> SUFFICES ASSUME m.area[u] = m.area[v] PROVE FALSE
      OBVIOUS
    <3>1. m.area[u] = t
      BY <1>0 DEF Single
    <3>2. t \in DOMAIN m.rect
      BY DEF Single
    <3>3. Near(m.rect[t], dir) <= c
      BY <1>s, <1>2, <2>1, <3>1, <3>2, TileIn
    <3>5. c + 1 <= Far(m.rect[t], dir)
      BY <1>s, <1>2, <2>1, <3>1, <3>2, TileIn
    <3>4. Near(m.rect[t], dir) = Far(m.rect[t], dir) /\ Near(m.rect[t], dir) \in Int
      BY DEF Near, Far, Single
    <3> QED BY <1>s, <3>3, <3>4, <3>5
  <2>4. Far(m.rect[m.area[u]], dir) = c /\ Near(m.rect[m.area[v]], dir) = c + 1
    BY <1>s, <1>2, <2>1, <2>3, Touch
  <2>5. Gap(m, gaps, dir, c, k)
    BY <1>s, <1>2, <2>3, <2>4 DEF Gap
  <2>6. Narrow(m, t, dir, k)
    <3>1. CASE dir = VERTICAL
      <4>1. t[2] = k
        BY <1>s, <1>0, <3>1 DEF At
      <4> QED BY <3>1, <4>1 DEF Narrow, Low, High, Single
    <3>2. CASE dir = HORIZONTAL
      <4>1. t[1] = k
        BY <1>s, <1>0, <3>2 DEF At, HORIZONTAL, VERTICAL
      <4> QED BY <3>2, <4>1 DEF Narrow, Low, High, Single, HORIZONTAL, VERTICAL
    <3> QED BY <1>s, <3>1, <3>2 DEF Dirs
  <2>7. Narrow(m, m.area[u], dir, k) \/ Narrow(m, m.area[v], dir, k)
    BY <1>0, <2>6 DEF Single
  <2>8. m2 = Connect(m, p, m.area[u], m.area[v])
    BY <1>2 DEF Connected
  <2>9. p[1] \in DOMAIN m.area
    BY DEF Single
  <2>10. /\ MapInv(m2, gaps \ {<<u, v>>}) /\ m2.area = m.area /\ m2.rect = m.rect
         /\ m2.portal = With(m.portal, p, NarrowPortal(m, dir, c, k))
    <3>1. u = At(dir, c, k) /\ v = At(dir, c + 1, k)
      BY <1>s
    <3> QED BY ONLY MapInv(m, gaps), <2>5, <2>7, <2>8, <2>9, <3>1, p \notin DOMAIN m.portal, ConnectAt
  <2>11. NarrowPortal(m, dir, c, k).area[0] = m.area[u] /\ NarrowPortal(m, dir, c, k).area[1] = m.area[v]
    BY <1>s DEF NarrowPortal
  <2>12. m.area[u] = t \/ m.area[v] = t
    BY <1>0 DEF Single
  <2>13. Grows(m, m2, t)
    BY <2>10, <2>11, <2>12 DEF Grows, With
  <2>14. DOMAIN m2.portal \subseteq DOMAIN m.portal \cup {p}
    BY <2>10 DEF With
  <2> QED BY <2>10, <2>13, <2>14 DEF GapGone
<1> QED BY <1>1, <1>2

LEMMA SingleKept == ASSUME NEW m, NEW m2, NEW t, Single(m, t), Grows(m, m2, t) PROVE Single(m2, t)
  BY DEF Single, Grows

LEMMA GrowsOn == ASSUME NEW m, NEW m2, NEW m3, NEW t, Grows(m, m2, t), Grows(m2, m3, t)
                 PROVE  Grows(m, m3, t)
  BY DEF Grows

\* map_area_add.
LEMMA AddKeeps ==
  ASSUME NEW m, MapInv(m, {}), NEW t \in WithinBorder, t \notin DOMAIN m.area,
         Met(t) = Neighbours(t) \cap DOMAIN m.area
  PROVE  /\ MapInv(AreaAdd(m, t), {}) /\ Single(AreaAdd(m, t), t)
         /\ Grows(NewArea(m, t), AreaAdd(m, t), t)
<1> DEFINE n == NewArea(m, t)
           up    == Meet(n, t, "up", Up(t))
           right == Meet(up, t, "right", Right(t))
           down  == Meet(right, t, "down", Down(t))
           left == Meet(down, t, "left", Left(t))
           x == t[1]
           y == t[2]
           above == y - 1
           before == x - 1
<1>1. AreaAdd(m, t) = left
  BY DEF AreaAdd
<1>2. /\ MapInv(n, Gaps(t)) /\ Single(n, t) /\ n.portal = m.portal
      /\ DOMAIN n.area = DOMAIN m.area \cup {t}
  BY NewAreaKeeps
<1>3. \A d : <<t, d>> \notin DOMAIN m.portal
  BY DEF MapInv, PortalsSound
<1>4. t = <<x, y>> /\ x \in Int /\ y \in Int /\ x - 1 \in Int /\ y - 1 \in Int
  BY SizeAssumption DEF WithinBorder
<1>7. HORIZONTAL \in Dirs /\ VERTICAL \in Dirs
  BY DEF Dirs
<1>5. /\ Step(HORIZONTAL, above, x, Up(t), t) /\ Step(VERTICAL, x, y, t, Right(t))
      /\ Step(HORIZONTAL, y, x, t, Down(t)) /\ Step(VERTICAL, before, y, Left(t), t)
  <2>1. /\ (y - 1) + 1 = y /\ (x - 1) + 1 = x
        /\ Up(t) = <<x, y - 1>> /\ Right(t) = <<x + 1, y>> /\ Down(t) = <<x, y + 1>> /\ Left(t) = <<x - 1, y>>
    BY <1>4 DEF Up, Right, Down, Left
  <2> HIDE DEF x, y
  <2> QED BY <1>4, <1>7, <2>1 DEF At, Step, HORIZONTAL, VERTICAL
<1>6. \A d \in {Up(t), Right(t), Down(t), Left(t)} : d \in Met(t) <=> d \in DOMAIN n.area
  <2>1. \A d \in {Up(t), Right(t), Down(t), Left(t)} : d # t
    BY <1>4 DEF Up, Right, Down, Left
  <2> QED BY <1>2, <2>1 DEF Neighbours
<1>o. \A u, v : OneOf(u, u, v) /\ OneOf(v, u, v)
  BY DEF OneOf
<1>8. \A m2 : Grows(n, m2, t) => m2.area = n.area /\ Single(m2, t) /\ m2.area[t] = t /\ t \in DOMAIN m2.area
  BY <1>2, SingleKept DEF Grows, Single
<1> HIDE DEF x, y, n, above, before
<1>9. /\ MapInv(up, Gaps(t) \ {<<Up(t), t>>}) /\ Grows(n, up, t)
      /\ DOMAIN up.portal \subseteq DOMAIN n.portal \cup {<<t, "up">>}
  <2>1. Connected(n, up, <<t, "up">>, Up(t), t)
    BY <1>2, <1>6 DEF Meet, Single, Connected
  <2>2. <<Up(t), t>> \in Gaps(t) /\ <<t, "up">> \notin DOMAIN n.portal /\ <<t, "up">>[1] = t
    BY <1>2, <1>3 DEF Gaps
  <2> DEFINE p == <<t, "up">>
  <2> HIDE DEF up, p
  <2>3. MapInv(n, Gaps(t)) /\ Single(n, t) /\ <<Up(t), t>> \in Gaps(t) /\ p[1] = t /\ p \notin DOMAIN n.portal
    BY <1>2, <2>2 DEF p
  <2>4. Connected(n, up, p, Up(t), t)
    BY <2>1 DEF p
  <2>5. GapGone(n, up, Gaps(t), t, p, Up(t), t)
    BY ONLY SMTT(30), <1>5, <1>o, <2>3, <2>4, MeetKeeps
  <2> QED BY <2>5 DEF p, GapGone
<1> HIDE DEF up
<1>10. /\ MapInv(right, (Gaps(t) \ {<<Up(t), t>>}) \ {<<t, Right(t)>>}) /\ Grows(up, right, t)
       /\ DOMAIN right.portal \subseteq DOMAIN up.portal \cup {<<t, "right">>}
  <2>1. Connected(up, right, <<t, "right">>, t, Right(t))
    BY <1>6, <1>8, <1>9 DEF Meet, Connected
  <2>2. /\ <<t, Right(t)>> \in Gaps(t) \ {<<Up(t), t>>} /\ <<t, "right">> \notin DOMAIN up.portal
        /\ <<t, "right">>[1] = t
    BY <1>2, <1>3, <1>4, <1>9 DEF Gaps, Right, Up
  <2> DEFINE p == <<t, "right">>
             g == Gaps(t) \ {<<Up(t), t>>}
  <2> HIDE DEF right, p, g
  <2>3. MapInv(up, g) /\ Single(up, t) /\ <<t, Right(t)>> \in g /\ p[1] = t /\ p \notin DOMAIN up.portal
    BY <1>8, <1>9, <2>2 DEF g, p
  <2>4. Connected(up, right, p, t, Right(t))
    BY <2>1 DEF p
  <2>6. Step(VERTICAL, x, y, t, Right(t)) /\ OneOf(t, t, Right(t))
    BY <1>5, <1>o
  <2>5. GapGone(up, right, g, t, p, t, Right(t))
    BY ONLY SMTT(30), <2>3, <2>4, <2>6, MeetKeeps
  <2> QED BY <2>5 DEF g, p, GapGone
<1> HIDE DEF right
<1>a. Grows(n, right, t)
  BY <1>9, <1>10, GrowsOn
<1>11. /\ MapInv(down, ((Gaps(t) \ {<<Up(t), t>>}) \ {<<t, Right(t)>>}) \ {<<t, Down(t)>>})
       /\ Grows(right, down, t)
       /\ DOMAIN down.portal \subseteq DOMAIN right.portal \cup {<<t, "down">>}
  <2>1. Connected(right, down, <<t, "down">>, t, Down(t))
    BY <1>6, <1>8, <1>a DEF Meet, Connected
  <2>2. /\ <<t, Down(t)>> \in (Gaps(t) \ {<<Up(t), t>>}) \ {<<t, Right(t)>>}
        /\ <<t, "down">> \notin DOMAIN right.portal /\ <<t, "down">>[1] = t
    BY <1>2, <1>3, <1>4, <1>9, <1>10 DEF Gaps, Right, Up, Down
  <2> DEFINE p == <<t, "down">>
             g == (Gaps(t) \ {<<Up(t), t>>}) \ {<<t, Right(t)>>}
  <2> HIDE DEF down, p, g
  <2>3. MapInv(right, g) /\ Single(right, t) /\ <<t, Down(t)>> \in g /\ p[1] = t /\ p \notin DOMAIN right.portal
    BY <1>8, <1>a, <1>10, <2>2 DEF g, p
  <2>4. Connected(right, down, p, t, Down(t))
    BY <2>1 DEF p
  <2>6. Step(HORIZONTAL, y, x, t, Down(t)) /\ OneOf(t, t, Down(t))
    BY <1>5, <1>o
  <2>5. GapGone(right, down, g, t, p, t, Down(t))
    BY ONLY SMTT(30), <2>3, <2>4, <2>6, MeetKeeps
  <2> QED BY <2>5 DEF g, p, GapGone
<1> HIDE DEF down
<1>b. Grows(n, down, t)
  BY <1>11, <1>a, GrowsOn
<1>12. /\ MapInv(left, (((Gaps(t) \ {<<Up(t), t>>}) \ {<<t, Right(t)>>}) \ {<<t, Down(t)>>}) \ {<<Left(t), t>>})
       /\ Grows(down, left, t)
  <2>1. Connected(down, left, <<t, "left">>, Left(t), t)
    BY <1>6, <1>8, <1>b DEF Meet, Connected
  <2>2. /\ <<Left(t), t>> \in ((Gaps(t) \ {<<Up(t), t>>}) \ {<<t, Right(t)>>}) \ {<<t, Down(t)>>}
        /\ <<t, "left">> \notin DOMAIN down.portal /\ <<t, "left">>[1] = t
    BY <1>2, <1>3, <1>4, <1>9, <1>10, <1>11 DEF Gaps, Right, Up, Down, Left
  <2> DEFINE p == <<t, "left">>
             g == ((Gaps(t) \ {<<Up(t), t>>}) \ {<<t, Right(t)>>}) \ {<<t, Down(t)>>}
  <2> HIDE DEF left, p, g
  <2>3. MapInv(down, g) /\ Single(down, t) /\ <<Left(t), t>> \in g /\ p[1] = t /\ p \notin DOMAIN down.portal
    BY <1>8, <1>b, <1>11, <2>2 DEF g, p
  <2>4. Connected(down, left, p, Left(t), t)
    BY <2>1 DEF p
  <2>6. Step(VERTICAL, before, y, Left(t), t) /\ OneOf(t, Left(t), t)
    BY <1>5, <1>o
  <2>5. GapGone(down, left, g, t, p, Left(t), t)
    BY ONLY SMTT(30), <2>3, <2>4, <2>6, MeetKeeps
  <2> QED BY <2>5 DEF g, GapGone
<1> HIDE DEF left
<1>13. (((Gaps(t) \ {<<Up(t), t>>}) \ {<<t, Right(t)>>}) \ {<<t, Down(t)>>}) \ {<<Left(t), t>>} = {}
  BY DEF Gaps
<1>14. Grows(n, left, t)
  BY <1>12, <1>b, GrowsOn
<1> QED BY <1>1, <1>8, <1>12, <1>13, <1>14 DEF n

-----------------------------------------------------------------------------
(* Portals next to each other *)

Ascending(dir, i) == (dir = HORIZONTAL) <=> (i = 1)

LEMMA ValuesWithin ==
  ASSUME NEW d \in Dirs, NEW s1 \in Int, NEW s2 \in Int, 0 < s1, s1 <= s2, s2 < 255, NEW i \in {0, 1},
         NEW e \in Dirs, NEW t1 \in Int, NEW t2 \in Int, 0 < t1, t1 <= t2, t2 < 255, NEW j \in {0, 1},
         ValueAt(d, s1, s2, i) < ValueAt(e, t1, t2, j),
         ValueAt(e, t1, t2, j) < ValueAt(d, s1, s2, i) + (s2 - s1 + 1)
  PROVE  d = e /\ i = j /\ s1 <= t2 /\ t1 <= s2
  BY SMT DEF ValueAt, Dirs, HORIZONTAL, VERTICAL

LEMMA ValuesMeet ==
  ASSUME NEW d \in Dirs, NEW s1 \in Int, NEW s2 \in Int, 0 < s1, s1 <= s2, s2 < 255, NEW i \in {0, 1},
         NEW e \in Dirs, NEW t1 \in Int, NEW t2 \in Int, 0 < t1, t1 <= t2, t2 < 255, NEW j \in {0, 1},
         ValueAt(d, s1, s2, i) + (s2 - s1 + 1) = ValueAt(e, t1, t2, j)
  PROVE  d = e /\ i = j /\ (Ascending(d, i) => t1 = s2 + 1) /\ (~Ascending(d, i) => t2 = s1 - 1)
  BY SMT DEF ValueAt, Dirs, HORIZONTAL, VERTICAL, Ascending

LEMMA ValuesAdjoin ==
  ASSUME NEW d \in Dirs, NEW s1 \in Int, NEW s2 \in Int, 0 < s1, s1 <= s2, s2 < 255, NEW i \in {0, 1},
         NEW t1 \in Int, NEW t2 \in Int, 0 < t1, t1 <= t2, t2 < 255,
         IF Ascending(d, i) THEN t1 = s2 + 1 ELSE t2 = s1 - 1
  PROVE  ValueAt(d, s1, s2, i) + (s2 - s1 + 1) = ValueAt(d, t1, t2, i)
  BY SMT DEF ValueAt, Dirs, HORIZONTAL, VERTICAL, Ascending

\* What is known of a side and its portal.
LEMMA SideInfo ==
  ASSUME NEW m, Rectangles(m), PortalsSound(m), NEW s \in Sides(m)
  PROVE  /\ s = <<s[1], s[2]>> /\ s[1] \in DOMAIN m.portal /\ s[2] \in {0, 1}
         /\ m.portal[s[1]].dir \in Dirs
         /\ m.portal[s[1]].s1 \in Int /\ m.portal[s[1]].s2 \in Int /\ 0 < m.portal[s[1]].s1
         /\ m.portal[s[1]].s1 <= m.portal[s[1]].s2 /\ m.portal[s[1]].s2 < 255
         /\ Value(m, s) = ValueAt(m.portal[s[1]].dir, m.portal[s[1]].s1, m.portal[s[1]].s2, s[2])
         /\ Value(m, s) \in Int /\ Span(m, s) = m.portal[s[1]].s2 - m.portal[s[1]].s1 + 1
         /\ AreaOf(m, s) = m.portal[s[1]].area[s[2]] /\ AreaOf(m, s) \in DOMAIN m.rect
         /\ Other(s) \in Sides(m) /\ Other(s) = <<s[1], 1 - s[2]>> /\ AreaOf(m, Other(s)) # AreaOf(m, s)
<1>1. s = <<s[1], s[2]>> /\ s[1] \in DOMAIN m.portal /\ s[2] \in {0, 1} /\ Other(s) \in Sides(m)
  BY SideIs
<1>2. /\ m.portal[s[1]].dir \in Dirs
      /\ m.portal[s[1]].s1 \in Int /\ m.portal[s[1]].s2 \in Int /\ 0 < m.portal[s[1]].s1
      /\ m.portal[s[1]].s1 <= m.portal[s[1]].s2 /\ m.portal[s[1]].s2 < 255
      /\ m.portal[s[1]].area[0] \in DOMAIN m.rect /\ m.portal[s[1]].area[1] \in DOMAIN m.rect
      /\ m.portal[s[1]].area[0] # m.portal[s[1]].area[1]
  BY <1>1, PortalIs
<1>3. Value(m, <<s[1], s[2]>>) = ValueAt(m.portal[s[1]].dir, m.portal[s[1]].s1, m.portal[s[1]].s2, s[2])
  BY <1>1, <1>2, ValueIs
<1>4. Value(m, s) \in Int
  BY ValuesOfSides
<1>5. Span(m, s) = m.portal[s[1]].s2 - m.portal[s[1]].s1 + 1 /\ AreaOf(m, s) = m.portal[s[1]].area[s[2]]
  BY DEF Span, AreaOf
<1>6. Other(s) = <<s[1], 1 - s[2]>> /\ AreaOf(m, Other(s)) = m.portal[s[1]].area[1 - s[2]]
  BY DEF Other, AreaOf
<1>7. CASE s[2] = 0
  BY <1>1, <1>2, <1>3, <1>4, <1>5, <1>6, <1>7
<1>8. CASE s[2] = 1
  BY <1>1, <1>2, <1>3, <1>4, <1>5, <1>6, <1>8
<1> QED BY <1>1, <1>7, <1>8

\* A side of the same area that starts where another one ends is the next one.
LEMMA Successor ==
  ASSUME NEW m, NEW gaps, Drawn(m, gaps), Ringed(m, Sides(m)),
         NEW s \in Sides(m), NEW t \in Sides(m), AreaOf(m, s) = AreaOf(m, t),
         Value(m, s) + Span(m, s) = Value(m, t)
  PROVE  m.next[s] = t
<1> DEFINE S == Sides(m)
           area == [x \in S |-> AreaOf(m, x)]
           val == [x \in S |-> Value(m, x)]
           w == m.next[s]
<1>0. Rectangles(m) /\ PortalsSound(m) /\ Apart(m)
  BY DEF Drawn
<1>1. /\ m.next \in [S -> S]
      /\ \A x \in S : area[m.next[x]] = area[x]
      /\ \A x, y \in S : area[x] = area[y] =>
           (val[x] = val[y] => x = y) /\ ~Passed(val[x], val[m.next[x]], val[y])
  <2> HIDE DEF area, val
  <2> QED BY DEF Ringed, Sorted, Linked, Ordered, area, val
<1>2. w \in S /\ AreaOf(m, w) = AreaOf(m, s)
  BY <1>1
<1>3. ~Passed(Value(m, s), Value(m, w), Value(m, t))
  <2>1. area[s] = area[t]
    OBVIOUS
  <2>2. val[s] = Value(m, s) /\ val[w] = Value(m, w) /\ val[t] = Value(m, t)
    BY <1>2
  <2> HIDE DEF area, val, S
  <2> QED BY <1>1, <2>1, <2>2 DEF S
<1> HIDE DEF area, val, w, S
<1>4. /\ s \in S /\ t \in S /\ w \in S
      /\ Value(m, s) \in Int /\ Value(m, t) \in Int /\ Value(m, w) \in Int
      /\ Span(m, s) \in Int /\ Span(m, s) > 0
  <2>1. Value(m, s) \in Int /\ Span(m, s) \in Int /\ Span(m, s) > 0
    BY <1>0, SideInfo DEF S
  <2>2. Value(m, t) \in Int /\ Value(m, w) \in Int
    BY <1>0, <1>2, SideInfo DEF S
  <2> QED BY <1>2, <2>1, <2>2 DEF S
<1>5. Value(m, s) < Value(m, w) /\ Value(m, w) <= Value(m, t)
  BY <1>3, <1>4 DEF Passed
<1>6. ~(Value(m, w) < Value(m, t))
  <2> SUFFICES ASSUME Value(m, w) < Value(m, t) PROVE FALSE
    OBVIOUS
  <2> DEFINE p == s[1]
             i == s[2]
             q == w[1]
             j == w[2]
  <2>1. /\ s = <<p, i>> /\ p \in DOMAIN m.portal /\ i \in {0, 1} /\ m.portal[p].dir \in Dirs
        /\ m.portal[p].s1 \in Int /\ m.portal[p].s2 \in Int /\ 0 < m.portal[p].s1
        /\ m.portal[p].s1 <= m.portal[p].s2 /\ m.portal[p].s2 < 255
        /\ Value(m, s) = ValueAt(m.portal[p].dir, m.portal[p].s1, m.portal[p].s2, i)
        /\ Span(m, s) = m.portal[p].s2 - m.portal[p].s1 + 1
        /\ AreaOf(m, s) = m.portal[p].area[i]
    BY <1>0, SideInfo
  <2>2. /\ w = <<q, j>> /\ q \in DOMAIN m.portal /\ j \in {0, 1} /\ m.portal[q].dir \in Dirs
        /\ m.portal[q].s1 \in Int /\ m.portal[q].s2 \in Int /\ 0 < m.portal[q].s1
        /\ m.portal[q].s1 <= m.portal[q].s2 /\ m.portal[q].s2 < 255
        /\ Value(m, w) = ValueAt(m.portal[q].dir, m.portal[q].s1, m.portal[q].s2, j)
        /\ AreaOf(m, w) = m.portal[q].area[j]
    BY <1>0, <1>2, SideInfo DEF S
  <2> HIDE DEF p, i, q, j
  <2>3. /\ ValueAt(m.portal[p].dir, m.portal[p].s1, m.portal[p].s2, i) <
             ValueAt(m.portal[q].dir, m.portal[q].s1, m.portal[q].s2, j)
        /\ ValueAt(m.portal[q].dir, m.portal[q].s1, m.portal[q].s2, j) <
             ValueAt(m.portal[p].dir, m.portal[p].s1, m.portal[p].s2, i) + (m.portal[p].s2 - m.portal[p].s1 + 1)
    BY <1>4, <1>5, <2>1, <2>2
  <2>4. /\ m.portal[p].dir = m.portal[q].dir /\ i = j
        /\ m.portal[p].s1 <= m.portal[q].s2 /\ m.portal[q].s1 <= m.portal[p].s2
    BY ONLY <2>1, <2>2, <2>3, ValuesWithin
  <2>5. p = q
    BY <1>0, <1>2, <2>1, <2>2, <2>4, EdgeShared
  <2>6. s = w
    BY <2>1, <2>2, <2>4, <2>5
  <2> QED BY <1>4, <1>5, <2>6
<1>7. Value(m, w) = Value(m, t)
  BY <1>4, <1>5, <1>6
<1>8. w = t
  BY <1>0, <1>2, <1>4, <1>7, ValuesDiffer DEF S
<1> QED BY <1>8 DEF w

LEMMA LeaveKeeps ==
  ASSUME NEW m, IsMap(m), NEW S, Ringed(m, S), NEW s \in S, NEW h \in S, h # s, AreaOf(m, h) = AreaOf(m, s)
  PROVE  /\ RingsOnly(m, Leave(m, s, h)) /\ Ringed(Leave(m, s, h), S \ {s})
         /\ \A t \in S \ {s} : t # m.prev[s] => Leave(m, s, h).next[t] = m.next[t]
<1> DEFINE a == AreaOf(m, s)
           m2 == Leave(m, s, h)
           n2 == Without([m.next EXCEPT ![m.prev[s]] = m.next[s]], s)
           p2 == Without([m.prev EXCEPT ![m.next[s]] = m.prev[s]], s)
           f2 == IF m.first[a] = s THEN [m.first EXCEPT ![a] = h] ELSE m.first
           area == [t \in S |-> AreaOf(m, t)]
           val == [t \in S |-> Value(m, t)]
<1>1. m2 = SetRings(m, f2, n2, p2)
  BY DEF Leave, SetRings
<1> HIDE DEF n2, p2, f2, m2
<1>2. RingsOnly(m, m2) /\ m2.first = f2 /\ m2.next = n2 /\ m2.prev = p2
  BY <1>1, RingsSet
<1>3. \A t : AreaOf(m2, t) = AreaOf(m, t) /\ Value(m2, t) = Value(m, t)
  BY <1>2, RingsOnlyKeep
<1>4. /\ IsFiniteSet(S) /\ Sorted(S, m.next, m.prev, area, val)
      /\ m.first \in [{AreaOf(m, t) : t \in S} -> S]
      /\ \A t \in S : AreaOf(m, m.first[AreaOf(m, t)]) = AreaOf(m, t)
  BY DEF Ringed
<1>5. Sorted(S \ {s}, n2, p2, area, val)
  <2> HIDE DEF area, val
  <2> QED BY <1>4, SideGone DEF n2, p2
<1>6. Sorted(S \ {s}, m2.next, m2.prev, [t \in S \ {s} |-> AreaOf(m2, t)], [t \in S \ {s} |-> Value(m2, t)])
  <2> DEFINE area2 == [t \in S \ {s} |-> AreaOf(m2, t)]
             val2 == [t \in S \ {s} |-> Value(m2, t)]
  <2>1. \A t \in S \ {s} : area2[t] = area[t] /\ val2[t] = val[t]
    BY <1>3
  <2> HIDE DEF area, val, area2, val2
  <2>2. /\ m2.next \in [S \ {s} -> S \ {s}] /\ m2.prev \in [S \ {s} -> S \ {s}]
        /\ \A t \in S \ {s} : n2[t] \in S \ {s}
    BY <1>2, <1>5 DEF Sorted, Linked
  <2>3. Linked(S \ {s}, m2.next, m2.prev, area2)
    BY <1>2, <1>5, <2>1, <2>2 DEF Sorted, Linked
  <2>4. Ordered(S \ {s}, m2.next, area2, val2)
    BY <1>2, <1>5, <2>1, <2>2 DEF Sorted, Ordered
  <2>5. \A t \in S \ {s} : val2[t] \in Int
    BY <1>5, <2>1 DEF Sorted
  <2> QED BY <2>3, <2>4, <2>5 DEF Sorted, area2, val2
<1>7. IsFiniteSet(S \ {s})
  BY <1>4, FS_RemoveElement
<1>8. {AreaOf(m2, t) : t \in S \ {s}} = {AreaOf(m, t) : t \in S}
  BY <1>3
<1>9. /\ m2.first \in [{AreaOf(m2, t) : t \in S \ {s}} -> S \ {s}]
      /\ \A t \in S \ {s} : AreaOf(m2, m2.first[AreaOf(m2, t)]) = AreaOf(m2, t)
  <2> DEFINE A == {AreaOf(m, t) : t \in S}
  <2>1. a \in A /\ m.first \in [A -> S] /\ \A b \in A : AreaOf(m, m.first[b]) = b
    BY <1>4
  <2> HIDE DEF A, a
  <2>2. \A b \in A : f2[b] \in S \ {s} /\ AreaOf(m, f2[b]) = b
    <3> SUFFICES ASSUME NEW b \in A PROVE f2[b] \in S \ {s} /\ AreaOf(m, f2[b]) = b
      OBVIOUS
    <3>1. CASE m.first[a] = s
      <4>1. CASE b = a
        BY <2>1, <3>1, <4>1 DEF f2, a
      <4>2. CASE b # a
        <5>1. f2[b] = m.first[b]
          BY <2>1, <3>1, <4>2 DEF f2
        <5>2. m.first[b] # s
          BY <2>1, <4>2 DEF a
        <5> QED BY <2>1, <5>1, <5>2
      <4> QED BY <4>1, <4>2
    <3>2. CASE m.first[a] # s
      <4>1. f2[b] = m.first[b]
        BY <3>2 DEF f2
      <4>2. m.first[b] # s
        BY <2>1, <3>2 DEF a
      <4> QED BY <2>1, <4>1, <4>2
    <3> QED BY <3>1, <3>2
  <2>3. f2 \in [A -> S \ {s}]
    <3>1. f2 \in [A -> S]
      BY <2>1 DEF f2
    <3> QED BY <2>2, <3>1
  <2>4. m2.first \in [{AreaOf(m2, t) : t \in S \ {s}} -> S \ {s}]
    BY <1>2, <1>8, <2>3 DEF A
  <2>5. ASSUME NEW t \in S \ {s} PROVE AreaOf(m2, m2.first[AreaOf(m2, t)]) = AreaOf(m2, t)
    <3>1. AreaOf(m, t) \in A
      BY DEF A
    <3> QED BY <1>2, <1>3, <2>2, <3>1
  <2> QED BY <2>4, <2>5
<1>10. Ringed(m2, S \ {s})
  BY <1>6, <1>7, <1>9 DEF Ringed
<1>11. \A t \in S \ {s} : t # m.prev[s] => m2.next[t] = m.next[t]
  BY <1>2, <1>4 DEF n2, Without, Sorted, Linked
<1> QED BY <1>2, <1>10, <1>11 DEF m2

LEMMA AscendingFlips == ASSUME NEW d, NEW i \in {0, 1} PROVE Ascending(d, 1 - i) <=> ~Ascending(d, i)
  BY DEF Ascending

\* One portal behind another one, as side i sees them.
Follows(d, i, p1, p2, q1, q2) ==
  /\ d \in Dirs /\ i \in {0, 1}
  /\ p1 \in Int /\ p2 \in Int /\ 0 < p1 /\ p1 <= p2 /\ p2 < 255
  /\ q1 \in Int /\ q2 \in Int /\ 0 < q1 /\ q1 <= q2 /\ q2 < 255
  /\ IF Ascending(d, i) THEN q1 = p2 + 1 ELSE q2 = p1 - 1

LEMMA BothExtents ==
  ASSUME NEW d, NEW i, NEW p1, NEW p2, NEW q1, NEW q2, Follows(d, i, p1, p2, q1, q2),
         NEW s1, s1 = Smaller(p1, q1), NEW s2, s2 = Larger(p2, q2)
  PROVE  /\ s1 \in Int /\ s2 \in Int /\ s1 <= s2
         /\ \A k \in Int : s1 <= k /\ k <= s2 <=> (p1 <= k /\ k <= p2) \/ (q1 <= k /\ k <= q2)
         /\ \A k, l \in Int : k <= l /\ s1 <= l /\ k <= s2
              => (p1 <= l /\ k <= p2) \/ (q1 <= l /\ k <= q2)
         /\ ~(p1 <= q2 /\ q1 <= p2)
         /\ s1 \in {p1, q1} /\ s2 \in {p2, q2}
<1>1. CASE Ascending(d, i)
  BY <1>1 DEF Follows, Smaller, Larger
<1>2. CASE ~Ascending(d, i)
  BY <1>2 DEF Follows, Smaller, Larger
<1> QED BY <1>1, <1>2

LEMMA BothValues ==
  ASSUME NEW d, NEW i, NEW p1, NEW p2, NEW q1, NEW q2, Follows(d, i, p1, p2, q1, q2),
         NEW s1, s1 = Smaller(p1, q1), NEW s2, s2 = Larger(p2, q2)
  PROVE  /\ ValueAt(d, s1, s2, i) = ValueAt(d, p1, p2, i)
         /\ ValueAt(d, s1, s2, 1 - i) = ValueAt(d, q1, q2, 1 - i)
         /\ ValueAt(d, q1, q2, 1 - i) + (q2 - q1 + 1) = ValueAt(d, p1, p2, 1 - i)
<1>1. CASE Ascending(d, i)
  <2>1. s1 = p1 /\ s2 = q2 /\ q1 = p2 + 1
    BY <1>1 DEF Follows, Smaller, Larger
  <2> QED BY <1>1, <2>1, SMT DEF Follows, ValueAt, Ascending, Dirs, HORIZONTAL, VERTICAL
<1>2. CASE ~Ascending(d, i)
  <2>1. s1 = q1 /\ s2 = p2 /\ q2 = p1 - 1
    BY <1>2 DEF Follows, Smaller, Larger
  <2> QED BY <1>2, <2>1, SMT DEF Follows, ValueAt, Ascending, Dirs, HORIZONTAL, VERTICAL
<1> QED BY <1>1, <1>2

\* What portals look like after q was joined to p.
Absorbed(m, m2, p, q) ==
  /\ p \in DOMAIN m.portal /\ q \in DOMAIN m.portal /\ p # q /\ SamePair(m, p, q)
  /\ m2.area = m.area /\ m2.rect = m.rect
  /\ m2.portal = [x \in DOMAIN m2.portal |-> m2.portal[x]] /\ DOMAIN m2.portal = DOMAIN m.portal \ {q}
  /\ \A x \in DOMAIN m2.portal : x # p => m2.portal[x] = m.portal[x]
  /\ m2.portal[p] \in [dir : Dirs, area : [{0, 1} -> DOMAIN m.rect], s1 : Int, s2 : Int]
  /\ m2.portal[p].dir = m.portal[p].dir /\ m2.portal[p].area = m.portal[p].area
  /\ m2.portal[p].s1 = Smaller(m.portal[p].s1, m.portal[q].s1)
  /\ m2.portal[p].s2 = Larger(m.portal[p].s2, m.portal[q].s2)

LEMMA AbsorbDrawn ==
  ASSUME NEW m, Drawn(m, {}), NEW m2, NEW p, NEW q, NEW i, Absorbed(m, m2, p, q),
         Follows(m.portal[p].dir, i, m.portal[p].s1, m.portal[p].s2, m.portal[q].s1, m.portal[q].s2)
  PROVE  Drawn(m2, {})
<1> DEFINE P == m.portal[p]
           Q == m.portal[q]
           N == m2.portal[p]
<1>0. Rectangles(m) /\ PortalsSound(m) /\ Apart(m) /\ Covered(m, {})
  BY DEF Drawn
<1>1. /\ N.s1 \in Int /\ N.s2 \in Int /\ N.s1 <= N.s2
      /\ \A k \in Int : N.s1 <= k /\ k <= N.s2 <=> (P.s1 <= k /\ k <= P.s2) \/ (Q.s1 <= k /\ k <= Q.s2)
      /\ \A k, l \in Int : k <= l /\ N.s1 <= l /\ k <= N.s2
              => (P.s1 <= l /\ k <= P.s2) \/ (Q.s1 <= l /\ k <= Q.s2)
      /\ N.s1 \in {P.s1, Q.s1} /\ N.s2 \in {P.s2, Q.s2}
  <2>1. N.s1 = Smaller(P.s1, Q.s1) /\ N.s2 = Larger(P.s2, Q.s2)
    BY DEF Absorbed
  <2> HIDE DEF P, Q, N
  <2>2. Follows(P.dir, i, P.s1, P.s2, Q.s1, Q.s2)
    BY DEF P, Q
  <2> QED BY ONLY <2>1, <2>2, BothExtents
<1>2. /\ p \in DOMAIN m.portal /\ q \in DOMAIN m.portal /\ p # q
      /\ P.dir = Q.dir /\ P.area[0] = Q.area[0] /\ P.area[1] = Q.area[1]
      /\ m2.area = m.area /\ m2.rect = m.rect
      /\ m2.portal = [x \in DOMAIN m2.portal |-> m2.portal[x]] /\ DOMAIN m2.portal = DOMAIN m.portal \ {q}
      /\ \A x \in DOMAIN m2.portal : x # p => m2.portal[x] = m.portal[x]
      /\ N \in [dir : Dirs, area : [{0, 1} -> DOMAIN m.rect], s1 : Int, s2 : Int]
      /\ N.dir = P.dir /\ N.area = P.area
  BY DEF Absorbed, SamePair
<1>3. Rectangles(m2)
  <2>1. m2.area = m.area /\ m2.rect = m.rect
    BY <1>2
  <2> QED BY ONLY <1>0, <2>1 DEF Rectangles
<1>4. PortalsSound(m2)
  <2> SUFFICES ASSUME NEW x \in DOMAIN m2.portal PROVE x[1] \in DOMAIN m2.area /\ PortalSound(m2, x)
    BY <1>2 DEF PortalsSound
  <2>1. x \in DOMAIN m.portal /\ x[1] \in DOMAIN m.area /\ PortalSound(m, x)
    BY <1>0, <1>2 DEF PortalsSound
  <2>2. CASE x # p
    BY <1>2, <2>1, <2>2 DEF PortalSound
  <2>3. CASE x = p
    <3>1. PortalSound(m, p) /\ PortalSound(m, q)
      BY <1>0, <1>2 DEF PortalsSound
    <3> HIDE DEF N, P, Q
    <3>2. PortalSound(m2, p)
      BY <1>1, <1>2, <3>1 DEF PortalSound, N, P, Q
    <3> QED BY <1>2, <2>1, <2>3, <3>2
  <2> QED BY <2>2, <2>3
<1>5. \A x \in DOMAIN m.portal : m.portal[x].s1 \in Int /\ m.portal[x].s2 \in Int /\ m.portal[x].s1 <= m.portal[x].s2
  BY <1>0, PortalIs
\* Who overlaps the joined portal overlaps one of the two.
<1>6. ASSUME NEW x \in DOMAIN m2.portal, x # p, SamePair(m2, p, x) \/ SamePair(m2, x, p),
             N.s1 <= m2.portal[x].s2, m2.portal[x].s1 <= N.s2
      PROVE  FALSE
  <2>1. x \in DOMAIN m.portal /\ m2.portal[x] = m.portal[x] /\ x # q
    BY <1>2, <1>6
  <2>2. SamePair(m, p, x) /\ SamePair(m, q, x)
    BY <1>2, <1>6, <2>1 DEF SamePair
  <2>3. (P.s1 <= m.portal[x].s2 /\ m.portal[x].s1 <= P.s2) \/ (Q.s1 <= m.portal[x].s2 /\ m.portal[x].s1 <= Q.s2)
    <3> HIDE DEF N, P, Q
    <3> QED BY <1>1, <1>5, <1>6, <2>1
  <2>4. p = x \/ q = x
    BY <1>0, <1>2, <2>1, <2>2, <2>3 DEF Apart
  <2> QED BY <1>6, <2>1, <2>4
<1>7. Apart(m2)
  <2> SUFFICES ASSUME NEW x \in DOMAIN m2.portal, NEW y \in DOMAIN m2.portal, SamePair(m2, x, y),
                      m2.portal[x].s1 <= m2.portal[y].s2, m2.portal[y].s1 <= m2.portal[x].s2
               PROVE  x = y
    BY DEF Apart
  <2>1. CASE x # p /\ y # p
    BY <1>0, <1>2, <2>1 DEF Apart, SamePair
  <2>2. CASE x = p \/ y = p
    BY <1>6, <2>2
  <2> QED BY <2>1, <2>2
<1>8. Covered(m2, {})
  <2> SUFFICES ASSUME NEW d \in Dirs, NEW e \in Int, NEW l \in Int,
                      At(d, e, l) \in DOMAIN m2.area, At(d, e + 1, l) \in DOMAIN m2.area,
                      m2.area[At(d, e, l)] # m2.area[At(d, e + 1, l)]
               PROVE  \E x \in DOMAIN m2.portal : Leads(m2, x, d, At(d, e, l), At(d, e + 1, l), l)
    BY DEF Covered
  <2> DEFINE u == At(d, e, l)
             v == At(d, e + 1, l)
  <2>1. PICK x \in DOMAIN m.portal : Leads(m, x, d, u, v, l)
    BY <1>0, <1>2 DEF Covered
  <2> HIDE DEF u, v
  <2>2. CASE x \notin {p, q}
    BY <1>2, <2>1, <2>2 DEF Leads, u, v
  <2>3. CASE x \in {p, q}
    <3>1. /\ P.dir = d /\ P.area[0] = m.area[u] /\ P.area[1] = m.area[v]
          /\ (P.s1 <= l /\ l <= P.s2) \/ (Q.s1 <= l /\ l <= Q.s2)
      BY <1>2, <2>1, <2>3 DEF Leads
    <3>2. N.s1 <= l /\ l <= N.s2
      <4> HIDE DEF N, P, Q
      <4> QED BY <1>1, <3>1
    <3>3. Leads(m2, p, d, u, v, l)
      BY <1>2, <3>1, <3>2 DEF Leads
    <3> QED BY <1>2, <3>3 DEF u, v
  <2> QED BY <2>2, <2>3
<1> QED BY <1>3, <1>4, <1>7, <1>8 DEF Drawn

\* What Mergable says of the two portals.
LEMMA MergableIs ==
  ASSUME NEW m, MapInv(m, {}), NEW s \in Sides(m), Mergable(m, s),
         NEW p, p = s[1], NEW q, q = m.next[s][1], NEW i, i = s[2]
  PROVE  /\ s = <<p, i>> /\ m.next[s] = <<q, i>> /\ m.next[s] \in Sides(m) /\ i \in {0, 1} /\ p # q
         /\ p \in DOMAIN m.portal /\ q \in DOMAIN m.portal /\ SamePair(m, p, q)
         /\ AreaOf(m, <<p, i>>) = AreaOf(m, <<q, i>>)
         /\ AreaOf(m, <<p, 1 - i>>) = AreaOf(m, <<q, 1 - i>>)
         /\ Other(s) = <<p, 1 - i>> /\ Other(m.next[s]) = <<q, 1 - i>>
         /\ Follows(m.portal[p].dir, i, m.portal[p].s1, m.portal[p].s2, m.portal[q].s1, m.portal[q].s2)
<1> DEFINE t == m.next[s]
           area == [x \in Sides(m) |-> AreaOf(m, x)]
           val == [x \in Sides(m) |-> Value(m, x)]
<1>0. Rectangles(m) /\ PortalsSound(m) /\ Ringed(m, Sides(m))
  BY DEF MapInv
<1>1. t \in Sides(m) /\ AreaOf(m, t) = AreaOf(m, s)
  <2>1. t \in Sides(m) /\ area[t] = area[s]
    BY <1>0 DEF Ringed, Sorted, Linked
  <2> QED BY <2>1
<1>2. AreaOf(m, Other(s)) = AreaOf(m, Other(t)) /\ Value(m, s) + Span(m, s) = Value(m, t)
  BY DEF Mergable
<1> HIDE DEF t, area, val
<1> DEFINE j == t[2]
<1>3. /\ s = <<p, i>> /\ p \in DOMAIN m.portal /\ i \in {0, 1} /\ m.portal[p].dir \in Dirs
      /\ m.portal[p].s1 \in Int /\ m.portal[p].s2 \in Int /\ 0 < m.portal[p].s1
      /\ m.portal[p].s1 <= m.portal[p].s2 /\ m.portal[p].s2 < 255
      /\ Value(m, s) = ValueAt(m.portal[p].dir, m.portal[p].s1, m.portal[p].s2, i)
      /\ Span(m, s) = m.portal[p].s2 - m.portal[p].s1 + 1
      /\ AreaOf(m, s) = m.portal[p].area[i] /\ Other(s) = <<p, 1 - i>>
  BY <1>0, SideInfo
<1>4. /\ t = <<q, j>> /\ q \in DOMAIN m.portal /\ j \in {0, 1} /\ m.portal[q].dir \in Dirs
      /\ m.portal[q].s1 \in Int /\ m.portal[q].s2 \in Int /\ 0 < m.portal[q].s1
      /\ m.portal[q].s1 <= m.portal[q].s2 /\ m.portal[q].s2 < 255
      /\ Value(m, t) = ValueAt(m.portal[q].dir, m.portal[q].s1, m.portal[q].s2, j)
      /\ AreaOf(m, t) = m.portal[q].area[j] /\ Other(t) = <<q, 1 - j>>
  <2>1. q = t[1]
    BY DEF t
  <2> QED BY <1>0, <1>1, <2>1, SideInfo
<1> HIDE DEF j
<1>5. ValueAt(m.portal[p].dir, m.portal[p].s1, m.portal[p].s2, i) + (m.portal[p].s2 - m.portal[p].s1 + 1)
        = ValueAt(m.portal[q].dir, m.portal[q].s1, m.portal[q].s2, j)
  BY ONLY <1>2, <1>3, <1>4
<1>6. /\ m.portal[p].dir = m.portal[q].dir /\ i = j
      /\ Ascending(m.portal[p].dir, i) => m.portal[q].s1 = m.portal[p].s2 + 1
      /\ ~Ascending(m.portal[p].dir, i) => m.portal[q].s2 = m.portal[p].s1 - 1
  BY ONLY <1>3, <1>4, <1>5, ValuesMeet
<1>7. Follows(m.portal[p].dir, i, m.portal[p].s1, m.portal[p].s2, m.portal[q].s1, m.portal[q].s2)
  BY <1>3, <1>4, <1>6 DEF Follows
<1>8. p # q
  <2> SUFFICES ASSUME p = q PROVE FALSE
    OBVIOUS
  <2>1. m.portal[p] = m.portal[q]
    OBVIOUS
  <2>2. CASE Ascending(m.portal[p].dir, i)
    BY ONLY <1>3, <1>4, <1>6, <2>1, <2>2
  <2>3. CASE ~Ascending(m.portal[p].dir, i)
    BY ONLY <1>3, <1>4, <1>6, <2>1, <2>3
  <2> QED BY <2>2, <2>3
<1>9. AreaOf(m, <<p, i>>) = AreaOf(m, <<q, i>>) /\ AreaOf(m, <<p, 1 - i>>) = AreaOf(m, <<q, 1 - i>>)
  BY <1>1, <1>2, <1>3, <1>4, <1>6
<1>10. SamePair(m, p, q)
  <2>1. m.portal[p].area[i] = m.portal[q].area[i] /\ m.portal[p].area[1 - i] = m.portal[q].area[1 - i]
    BY <1>9 DEF AreaOf
  <2>2. CASE i = 0
    BY <1>6, <2>1, <2>2 DEF SamePair
  <2>3. CASE i = 1
    BY <1>6, <2>1, <2>3 DEF SamePair
  <2> QED BY <1>3, <2>2, <2>3
<1> QED BY <1>1, <1>3, <1>4, <1>6, <1>7, <1>8, <1>9, <1>10 DEF t

\* portalside_merge_with_neighbour.
LEMMA JoinKeeps ==
  ASSUME NEW m, MapInv(m, {}), NEW s \in Sides(m), Mergable(m, s)
  PROVE  /\ MapInv(PortalsJoined(m, s), {}) /\ Absorbed(m, PortalsJoined(m, s), s[1], m.next[s][1])
<1> DEFINE p == s[1]
           q == m.next[s][1]
           i == s[2]
           m2 == PortalsJoined(m, s)
           S == Sides(m)
           side2 == m.next[s]
           side3 == Other(side2)
           side4 == Other(s)
           L1 == Leave(m, side3, side4)
           L2 == Leave(L1, side2, s)
           N == [m.portal EXCEPT ![p] =
                   [m.portal[p] EXCEPT !.s1 = Smaller(m.portal[p].s1, m.portal[q].s1),
                                       !.s2 = Larger(m.portal[p].s2, m.portal[q].s2)]]
<1>0. IsMap(m) /\ m.sound = TRUE /\ Drawn(m, {}) /\ Ringed(m, S) /\ Rectangles(m) /\ PortalsSound(m)
  BY DEF MapInv, Drawn
<1>1. /\ s = <<p, i>> /\ side2 = <<q, i>> /\ side2 \in S /\ i \in {0, 1} /\ p # q
      /\ p \in DOMAIN m.portal /\ q \in DOMAIN m.portal /\ SamePair(m, p, q)
      /\ AreaOf(m, <<p, i>>) = AreaOf(m, <<q, i>>)
      /\ AreaOf(m, <<p, 1 - i>>) = AreaOf(m, <<q, 1 - i>>)
      /\ side4 = <<p, 1 - i>> /\ side3 = <<q, 1 - i>>
      /\ Follows(m.portal[p].dir, i, m.portal[p].s1, m.portal[p].s2, m.portal[q].s1, m.portal[q].s2)
  BY MergableIs
<1>2. m2 = IF AreaOf(m, side3) = AreaOf(m, side4) /\ m.next[side3] = side4
             THEN [L2 EXCEPT !.portal = Without(N, q)] ELSE [m EXCEPT !.sound = FALSE]
  <2>1. m2 = Asserted(m, AreaOf(m, side3) = AreaOf(m, side4) /\ m.next[side3] = side4,
               [L2 EXCEPT !.portal = Without(N, q)])
    BY DEF PortalsJoined
  <2> HIDE DEF p, q, i, m2, S, side2, side3, side4, L1, L2, N
  <2> QED BY <1>0, <2>1 DEF Asserted
<1> HIDE DEF p, q, i, m2, S, side2, side3, side4, L1, L2, N
<1>3. side3 \in S /\ side4 \in S /\ side2 # side3 /\ s # side3 /\ side4 # side3 /\ s # side2 /\ side4 # side2
      /\ s # side4 /\ s \in S
  <2>1. 1 - i \in {0, 1} /\ 1 - i # i
    BY <1>1
  <2> QED BY <1>1, <2>1 DEF S, Sides
<1>p. /\ m.portal[p].s1 \in Int /\ m.portal[p].s2 \in Int /\ m.portal[q].s1 \in Int /\ m.portal[q].s2 \in Int
      /\ m.portal[p].dir \in Dirs /\ m.portal[q].dir = m.portal[p].dir
      /\ m.portal[p].area \in [{0, 1} -> DOMAIN m.rect]
  <2>1. m.portal[q].dir = m.portal[p].dir
    BY <1>1 DEF SamePair
  <2> QED BY <1>0, <1>1, <2>1, PortalIs
<1>4. /\ Value(m, side3) = ValueAt(m.portal[p].dir, m.portal[q].s1, m.portal[q].s2, 1 - i)
      /\ Value(m, side4) = ValueAt(m.portal[p].dir, m.portal[p].s1, m.portal[p].s2, 1 - i)
      /\ Value(m, s) = ValueAt(m.portal[p].dir, m.portal[p].s1, m.portal[p].s2, i)
      /\ Span(m, side3) = m.portal[q].s2 - m.portal[q].s1 + 1
  <2>1. 1 - i \in {0, 1} /\ side3[1] = q /\ side3[2] = 1 - i /\ side4[1] = p /\ side4[2] = 1 - i
        /\ s[1] = p /\ s[2] = i
    BY <1>1 DEF p, i
  <2>2. Value(m, side3) = ValueAt(m.portal[side3[1]].dir, m.portal[side3[1]].s1, m.portal[side3[1]].s2, side3[2])
        /\ Span(m, side3) = m.portal[side3[1]].s2 - m.portal[side3[1]].s1 + 1
    BY <1>0, <1>3, SideInfo DEF S
  <2>3. Value(m, side4) = ValueAt(m.portal[side4[1]].dir, m.portal[side4[1]].s1, m.portal[side4[1]].s2, side4[2])
    BY <1>0, <1>3, SideInfo DEF S
  <2>4. Value(m, s) = ValueAt(m.portal[s[1]].dir, m.portal[s[1]].s1, m.portal[s[1]].s2, s[2])
    BY <1>0, <1>3, SideInfo DEF S
  <2> QED BY ONLY <1>p, <2>1, <2>2, <2>3, <2>4
<1> DEFINE s1 == Smaller(m.portal[p].s1, m.portal[q].s1)
           s2 == Larger(m.portal[p].s2, m.portal[q].s2)
<1>5. /\ ValueAt(m.portal[p].dir, s1, s2, i) = Value(m, s)
      /\ ValueAt(m.portal[p].dir, s1, s2, 1 - i) = Value(m, side3)
      /\ Value(m, side3) + Span(m, side3) = Value(m, side4)
  <2>1. /\ ValueAt(m.portal[p].dir, s1, s2, i) = ValueAt(m.portal[p].dir, m.portal[p].s1, m.portal[p].s2, i)
        /\ ValueAt(m.portal[p].dir, s1, s2, 1 - i) =
             ValueAt(m.portal[p].dir, m.portal[q].s1, m.portal[q].s2, 1 - i)
        /\ ValueAt(m.portal[p].dir, m.portal[q].s1, m.portal[q].s2, 1 - i) + (m.portal[q].s2 - m.portal[q].s1 + 1)
             = ValueAt(m.portal[p].dir, m.portal[p].s1, m.portal[p].s2, 1 - i)
    BY <1>1, BothValues
  <2> HIDE DEF s1, s2
  <2> QED BY ONLY <1>4, <2>1
<1>6. AreaOf(m, side3) = AreaOf(m, side4)
  BY <1>1
<1>7. m.next[side3] = side4
  BY <1>0, <1>3, <1>5, <1>6, Successor DEF S
<1>8. m2 = [L2 EXCEPT !.portal = Without(N, q)]
  BY <1>2, <1>6, <1>7
<1>9. RingsOnly(m, L1) /\ Ringed(L1, S \ {side3})
  BY <1>0, <1>3, <1>6, LeaveKeeps DEF L1
<1>10. RingsOnly(L1, L2) /\ Ringed(L2, (S \ {side3}) \ {side2})
  <2>1. AreaOf(L1, s) = AreaOf(L1, side2)
    BY <1>1, <1>9, RingsOnlyKeep
  <2>2. IsMap(L1) /\ side2 \in S \ {side3} /\ s \in S \ {side3} /\ s # side2
    BY <1>1, <1>3, <1>9 DEF RingsOnly
  <2> QED BY <1>9, <2>1, <2>2, LeaveKeeps DEF L2
<1>11. /\ IsMap(L2) /\ L2.area = m.area /\ L2.rect = m.rect /\ L2.portal = m.portal /\ L2.sound = m.sound
       /\ \A t : AreaOf(L2, t) = AreaOf(m, t) /\ Value(L2, t) = Value(m, t)
  BY <1>9, <1>10, RingsOnlyKeep DEF RingsOnly
<1>12. /\ IsMap(m2) /\ m2.area = m.area /\ m2.rect = m.rect /\ m2.first = L2.first /\ m2.next = L2.next
       /\ m2.prev = L2.prev /\ m2.portal = Without(N, q) /\ m2.sound = TRUE
  <2>0. DOMAIN L2 = Fields
    BY <1>11 DEF IsMap, Fields
  <2>1. m2 = [L2 EXCEPT !.portal = Without(N, q)]
    BY <1>8
  <2>2. DOMAIN m2 = Fields /\ m2 = [f \in DOMAIN m2 |-> m2[f]]
    BY <2>0, <2>1
  <2>3. /\ m2.area = L2.area /\ m2.rect = L2.rect /\ m2.first = L2.first /\ m2.next = L2.next
        /\ m2.prev = L2.prev /\ m2.portal = Without(N, q) /\ m2.sound = L2.sound
    BY <2>0, <2>1 DEF Fields
  <2>4. IsMap(m2)
    BY <2>2, MapFields
  <2> QED BY <1>0, <1>11, <2>3, <2>4
<1>13. /\ DOMAIN m2.portal = DOMAIN m.portal \ {q} /\ m2.portal = [x \in DOMAIN m2.portal |-> m2.portal[x]]
       /\ \A x \in DOMAIN m2.portal : x # p => m2.portal[x] = m.portal[x]
       /\ m2.portal[p] = [m.portal[p] EXCEPT !.s1 = s1, !.s2 = s2]
  <2>1. DOMAIN N = DOMAIN m.portal /\ \A x \in DOMAIN m.portal : x # p => N[x] = m.portal[x]
    BY DEF N
  <2>2. N[p] = [m.portal[p] EXCEPT !.s1 = s1, !.s2 = s2]
    BY <1>0, <1>1, <1>p DEF N, PortalsSound, PortalSound
  <2> HIDE DEF s1, s2
  <2> QED BY <1>1, <1>12, <2>1, <2>2 DEF Without
<1>14. /\ m2.portal[p] \in [dir : Dirs, area : [{0, 1} -> DOMAIN m.rect], s1 : Int, s2 : Int]
       /\ m2.portal[p].dir = m.portal[p].dir /\ m2.portal[p].area = m.portal[p].area
       /\ m2.portal[p].s1 = s1 /\ m2.portal[p].s2 = s2
  <2>1. m.portal[p] \in [dir : Dirs, area : [{0, 1} -> DOMAIN m.rect], s1 : Int, s2 : Int]
    BY <1>0, <1>1 DEF PortalsSound, PortalSound
  <2>2. s1 \in Int /\ s2 \in Int
    BY <1>p DEF Smaller, Larger
  <2> HIDE DEF s1, s2
  <2> QED BY <1>13, <2>1, <2>2
<1>15. Absorbed(m, m2, p, q)
  BY <1>1, <1>12, <1>13, <1>14 DEF Absorbed
<1>16. Drawn(m2, {})
  BY <1>0, <1>1, <1>15, AbsorbDrawn
<1> DEFINE T == (S \ {side3}) \ {side2}
<1>17. Sides(m2) = T
  <2>1. \A x \in {0, 1} : x = i \/ x = 1 - i
    BY <1>1
  <2> QED BY <1>1, <1>13, <2>1 DEF S, Sides
<1>18. \A t \in T : AreaOf(m2, t) = AreaOf(m, t)
  <2> SUFFICES ASSUME NEW t \in T PROVE AreaOf(m2, t) = AreaOf(m, t)
    OBVIOUS
  <2>1. t[1] \in DOMAIN m2.portal
    BY <1>17 DEF Sides
  <2>2. m2.portal[t[1]].area = m.portal[t[1]].area
    BY <1>13, <1>14, <2>1
  <2> QED BY <2>2 DEF AreaOf
<1>19. \A t \in T : Value(m2, t) = IF t = side4 THEN Value(m, side3) ELSE Value(m, t)
  <2> SUFFICES ASSUME NEW t \in T PROVE Value(m2, t) = IF t = side4 THEN Value(m, side3) ELSE Value(m, t)
    OBVIOUS
  <2>1. t[1] \in DOMAIN m2.portal /\ t[2] \in {0, 1} /\ t = <<t[1], t[2]>> /\ t \in Sides(m2) /\ t \in S
    BY <1>17, SideIs
  <2>2. CASE t[1] # p
    <3>1. m2.portal[t[1]] = m.portal[t[1]]
      BY <1>13, <2>1, <2>2
    <3>2. t # side4
      BY <1>1, <2>2
    <3>3. Value(m2, t) = Value(m, t)
      BY <3>1 DEF Value, Direction
    <3> QED BY <3>2, <3>3
  <2>3. CASE t[1] = p
    <3>1. Value(m2, t) = ValueAt(m2.portal[t[1]].dir, m2.portal[t[1]].s1, m2.portal[t[1]].s2, t[2])
      <4>1. Rectangles(m2) /\ PortalsSound(m2)
        BY <1>16 DEF Drawn
      <4> QED BY <2>1, <4>1, SideInfo
    <3>2. Value(m2, t) = ValueAt(m.portal[p].dir, s1, s2, t[2])
      <4> HIDE DEF s1, s2
      <4> QED BY ONLY <1>14, <2>3, <3>1
    <3> HIDE DEF s1, s2
    <3>3. CASE t[2] = i
      <4>1. t = s /\ t # side4
        BY <1>1, <1>3, <2>1, <2>3, <3>3
      <4> QED BY <1>5, <3>2, <3>3, <4>1
    <3>4. CASE t[2] # i
      <4>1. t[2] = 1 - i
        BY <1>1, <2>1, <3>4
      <4>2. t = side4
        BY <1>1, <2>1, <2>3, <4>1
      <4> QED BY <1>5, <3>2, <4>1, <4>2
    <3> QED BY <3>3, <3>4
  <2> QED BY <2>2, <2>3
<1>20. Ringed(m2, T)
  <2> DEFINE area == [t \in T |-> AreaOf(m2, t)]
             val == [t \in T |-> Value(m, t)]
             val2 == [t \in T |-> Value(m2, t)]
  <2>1. /\ [t \in T |-> AreaOf(L2, t)] = area /\ [t \in T |-> Value(L2, t)] = val
        /\ {AreaOf(L2, t) : t \in T} = {AreaOf(m2, t) : t \in T}
    BY <1>11, <1>18
  <2>2. /\ IsFiniteSet(T) /\ Sorted(T, m2.next, m2.prev, area, val)
        /\ m2.first \in [{AreaOf(m2, t) : t \in T} -> T]
    BY <1>10, <1>12, <2>1 DEF Ringed
  <2>3. \A t \in T : AreaOf(m2, m2.first[AreaOf(m2, t)]) = AreaOf(m2, t)
    <3> SUFFICES ASSUME NEW t \in T PROVE AreaOf(m2, m2.first[AreaOf(m2, t)]) = AreaOf(m2, t)
      OBVIOUS
    <3>1. AreaOf(L2, L2.first[AreaOf(L2, t)]) = AreaOf(L2, t) /\ L2.first[AreaOf(L2, t)] \in T
      BY <1>10 DEF Ringed
    <3>2. AreaOf(L2, t) = AreaOf(m2, t)
      BY <1>11, <1>18
    <3>3. m2.first[AreaOf(m2, t)] \in T /\ AreaOf(L2, m2.first[AreaOf(m2, t)]) = AreaOf(m2, t)
      BY <1>12, <3>1, <3>2
    <3> QED BY <1>11, <1>18, <3>3
  <2>4. side4 \in T
    BY <1>3
  <2>5. val2[side4] = Value(m, side3) /\ \A t \in T \ {side4} : val2[t] = val[t]
    BY <1>19, <2>4
  <2>6. \A t \in T : t # side4 /\ area[t] = area[side4] =>
          val[t] # val2[side4] /\ ~Passed(val2[side4], val[side4], val[t])
    <3> SUFFICES ASSUME NEW t \in T, t # side4, area[t] = area[side4]
                 PROVE  val[t] # val2[side4] /\ ~Passed(val2[side4], val[side4], val[t])
      OBVIOUS
    <3>1. t \in S /\ t # side3 /\ AreaOf(m, t) = AreaOf(m, side3)
      BY <1>6, <1>18, <2>4
    <3> DEFINE a == [x \in S |-> AreaOf(m, x)]
               v == [x \in S |-> Value(m, x)]
    <3>2. a[side3] = a[t] /\ v[side3] = Value(m, side3) /\ v[t] = Value(m, t) /\ v[side4] = Value(m, side4)
      BY <1>3, <3>1
    <3>3. (v[side3] = v[t] => side3 = t) /\ ~Passed(v[side3], v[m.next[side3]], v[t])
      <4>1. Ordered(S, m.next, a, v)
        BY <1>0 DEF Ringed, Sorted
      <4> HIDE DEF a, v
      <4> QED BY <1>3, <3>1, <3>2, <4>1 DEF Ordered
    <3>4. val[t] = Value(m, t) /\ val[side4] = Value(m, side4)
      BY <2>4
    <3> HIDE DEF a, v, val, val2
    <3> QED BY <1>7, <2>5, <3>1, <3>2, <3>3, <3>4
  <2>7. val2[side4] \in Int
    BY <1>0, <1>3, <2>5, SideInfo DEF S
  <2>8. Sorted(T, m2.next, m2.prev, area, val2)
    <3> HIDE DEF area, val, val2, T
    <3> QED BY <2>2, <2>4, <2>5, <2>6, <2>7, SideMoved
  <2> QED BY <2>2, <2>3, <2>8 DEF Ringed
<1>21. MapInv(m2, {})
  BY <1>12, <1>16, <1>17, <1>20 DEF MapInv, Drawn
<1> QED BY <1>15, <1>21 DEF m2, p, q

-----------------------------------------------------------------------------
(* Merging portals until none is left to merge *)

LEMMA RingOf ==
  ASSUME NEW m, MapInv(m, {}), NEW a
  PROVE  /\ RingSet(Ring(m, a)) = {t \in Sides(m) : AreaOf(m, t) = a}
         /\ \A sides : sides # {} /\ sides \subseteq RingSet(Ring(m, a)) => First(Ring(m, a), sides) \in sides
<1>1. Ringed(m, Sides(m)) /\ Drawn(m, {})
  BY DEF MapInv, Drawn
<1>2. Bounded(m, Sides(m))
  BY <1>1, AllBounded
<1>3. RingSet(Ring(m, a)) = {t \in Sides(m) : AreaOf(m, t) = a}
  BY <1>1, <1>2, RingIs
<1>4. PICK n \in Nat : DOMAIN Ring(m, a) = 1 .. n
  BY <1>1, <1>2, RingIs
<1>5. ASSUME NEW sides, sides # {}, sides \subseteq RingSet(Ring(m, a)) PROVE First(Ring(m, a), sides) \in sides
  <2>1. PICK s \in sides : s \in RingSet(Ring(m, a))
    BY <1>5
  <2> QED BY <1>4, <2>1, FirstOfRing
<1> QED BY <1>3, <1>5

LEMMA PortalsFinite == ASSUME NEW m, MapInv(m, {})
                       PROVE  IsFiniteSet(DOMAIN m.portal) /\ Cardinality(DOMAIN m.portal) \in Nat
<1>1. IsFiniteSet(Sides(m))
  BY DEF MapInv, Ringed
<1> DEFINE f == [s \in Sides(m) |-> s[1]]
<1>2. f \in Surjection(Sides(m), DOMAIN m.portal)
  <2>1. f \in [Sides(m) -> DOMAIN m.portal]
    BY DEF Sides
  <2>2. \A p \in DOMAIN m.portal : \E s \in Sides(m) : f[s] = p
    <3> SUFFICES ASSUME NEW p \in DOMAIN m.portal PROVE \E s \in Sides(m) : f[s] = p
      OBVIOUS
    <3>1. <<p, 0>> \in Sides(m) /\ f[<<p, 0>>] = p
      BY DEF Sides
    <3> QED BY <3>1
  <2> QED BY <2>1, <2>2 DEF Surjection
<1>3. IsFiniteSet(DOMAIN m.portal)
  BY <1>1, <1>2, FS_Surjection
<1> QED BY <1>3, FS_CardinalityType

\* Portals are only taken away, or become wider.
Merges(m, m2) ==
  /\ m2.area = m.area /\ m2.rect = m.rect /\ DOMAIN m2.portal \subseteq DOMAIN m.portal
  /\ \A x \in DOMAIN m2.portal : m2.portal[x].dir = m.portal[x].dir /\ m2.portal[x].area = m.portal[x].area

LEMMA MergesOn == ASSUME NEW m, NEW m1, NEW m2, Merges(m, m1), Merges(m1, m2) PROVE Merges(m, m2)
  BY DEF Merges

LEMMA MergedOnce ==
  ASSUME NEW m, MapInv(m, {}), NEW a, NEW m2, m2 = PortalsMergedOnce(m, a)
  PROVE  /\ MapInv(m2, {}) /\ Merges(m, m2)
         /\ \/ PortalsToMerge(m, a) = {} /\ m2 = m
            \/ Cardinality(DOMAIN m2.portal) + 1 = Cardinality(DOMAIN m.portal)
<1>1. CASE PortalsToMerge(m, a) = {}
  BY <1>1 DEF PortalsMergedOnce, Merges
<1>2. CASE PortalsToMerge(m, a) # {}
  <2> DEFINE s == First(Ring(m, a), PortalsToMerge(m, a))
             p == s[1]
             q == m.next[s][1]
  <2>1. s \in PortalsToMerge(m, a) /\ PortalsToMerge(m, a) \subseteq Sides(m)
    BY <1>2, RingOf DEF PortalsToMerge
  <2>2. s \in Sides(m) /\ Mergable(m, s)
    BY <2>1 DEF PortalsToMerge
  <2>3. m2 = PortalsJoined(m, s)
    BY <1>2 DEF PortalsMergedOnce
  <2> HIDE DEF s
  <2>4. MapInv(m2, {}) /\ Absorbed(m, m2, p, q)
    BY <2>2, <2>3, JoinKeeps
  <2> HIDE DEF p, q
  <2>5. DOMAIN m2.portal = DOMAIN m.portal \ {q} /\ q \in DOMAIN m.portal
    BY <2>4 DEF Absorbed
  <2>6. Cardinality(DOMAIN m2.portal) = Cardinality(DOMAIN m.portal) - 1
    BY <2>5, PortalsFinite, FS_RemoveElement
  <2>7. Merges(m, m2)
    BY <2>4 DEF Absorbed, Merges
  <2>8. Cardinality(DOMAIN m.portal) \in Nat
    BY PortalsFinite
  <2> QED BY <2>4, <2>6, <2>7, <2>8
<1> QED BY <1>1, <1>2

IsMerging(m, a, n, w) == w = [i \in 0 .. n |-> IF i = 0 THEN m ELSE PortalsMergedOnce(w[i - 1], a)]

LEMMA MergingExists == ASSUME NEW m, NEW a, NEW n \in Nat PROVE \E w : IsMerging(m, a, n, w)
<1> DEFINE Bad == {k \in Nat : ~ \E w : IsMerging(m, a, k, w)}
<1> SUFFICES ASSUME Bad # {} PROVE FALSE
  OBVIOUS
<1>1. PICK b \in Bad : \A k \in Bad : b <= k
  BY LeastOf
<1>2. b \in Nat /\ ~ \E w : IsMerging(m, a, b, w)
  OBVIOUS
<1>3. CASE b = 0
  <2> DEFINE w == [i \in 0 .. 0 |-> m]
  <2>1. IsMerging(m, a, 0, w)
    BY DEF IsMerging
  <2> QED BY <1>2, <1>3, <2>1
<1>4. CASE b # 0
  <2>1. b - 1 \in Nat /\ b - 1 \notin Bad
    BY <1>1, <1>2, <1>4
  <2>2. PICK w : IsMerging(m, a, b - 1, w)
    BY <2>1
  <2> DEFINE v == [i \in 0 .. b |-> IF i = b THEN PortalsMergedOnce(w[b - 1], a) ELSE w[i]]
  <2>3. ASSUME NEW i \in 0 .. b PROVE v[i] = IF i = 0 THEN m ELSE PortalsMergedOnce(v[i - 1], a)
    <3>1. CASE i = b
      BY <1>2, <1>4, <3>1
    <3>2. CASE i # b
      <4>1. i \in 0 .. b - 1 /\ (i # 0 => i - 1 \in 0 .. b /\ i - 1 # b)
        BY <1>2, <3>2
      <4>2. w[i] = IF i = 0 THEN m ELSE PortalsMergedOnce(w[i - 1], a)
        BY <2>2, <4>1 DEF IsMerging
      <4> QED BY <3>2, <4>1, <4>2
    <3> QED BY <3>1, <3>2
  <2>4. v = [i \in 0 .. b |-> v[i]]
    OBVIOUS
  <2> HIDE DEF v
  <2>5. IsMerging(m, a, b, v)
    BY <2>3, <2>4 DEF IsMerging
  <2> QED BY <1>2, <2>5
<1> QED BY <1>3, <1>4

\* area_merge_portals, but for what it leaves.
LEMMA MergingKeeps ==
  ASSUME NEW m, MapInv(m, {}), NEW a, NEW m2, m2 = MergePortals(m, a)
  PROVE  MapInv(m2, {}) /\ Merges(m, m2) /\ PortalsToMerge(m2, a) = {}
<1> DEFINE n == Cardinality(DOMAIN m.portal)
           w == CHOOSE x : IsMerging(m, a, n, x)
           Kept(x, i) == /\ MapInv(x, {}) /\ Merges(m, x)
                         /\ PortalsToMerge(x, a) = {} \/ Cardinality(DOMAIN x.portal) + i <= n
<1>1. n \in Nat
  BY PortalsFinite
<1>2. IsMerging(m, a, n, w)
  BY <1>1, MergingExists
<1>3. m2 = w[n]
  BY DEF MergePortals, IsMerging
<1> HIDE DEF n, w
<1>4. w[0] = m /\ \A i \in 1 .. n : w[i] = PortalsMergedOnce(w[i - 1], a)
  BY <1>1, <1>2 DEF IsMerging
<1>5. \A i \in 0 .. n : Kept(w[i], i)
  <2> DEFINE Bad == {i \in 0 .. n : ~Kept(w[i], i)}
  <2> SUFFICES ASSUME Bad # {} PROVE FALSE
    OBVIOUS
  <2>0. Bad \subseteq Nat
    BY <1>1
  <2> HIDE DEF Bad
  <2>1. PICK i \in Bad : \A k \in Bad : i <= k
    BY <2>0, LeastOf
  <2>2. i \in 0 .. n /\ ~Kept(w[i], i)
    BY DEF Bad
  <2>3. i # 0
    <3>1. Kept(m, 0)
      BY <1>1 DEF Merges, n
    <3> QED BY <1>4, <2>2, <3>1
  <2>4. i - 1 \in 0 .. n /\ i - 1 \notin Bad /\ i \in 1 .. n /\ i \in Nat
    BY <1>1, <2>1, <2>2, <2>3
  <2>5. Kept(w[i - 1], i - 1)
    BY <2>4 DEF Bad
  <2> DEFINE x == w[i - 1]
             y == w[i]
  <2>6. y = PortalsMergedOnce(x, a)
    BY <1>4, <2>4
  <2>7. MapInv(x, {}) /\ Merges(m, x) /\ (PortalsToMerge(x, a) = {} \/ Cardinality(DOMAIN x.portal) + (i - 1) <= n)
    BY <2>5
  <2> HIDE DEF x, y
  <2>8. /\ MapInv(y, {}) /\ Merges(x, y)
        /\ \/ PortalsToMerge(x, a) = {} /\ y = x
           \/ Cardinality(DOMAIN y.portal) + 1 = Cardinality(DOMAIN x.portal)
    BY <2>6, <2>7, MergedOnce
  <2>9. Merges(m, y)
    BY <2>7, <2>8, MergesOn
  <2>10. Cardinality(DOMAIN x.portal) \in Nat /\ Cardinality(DOMAIN y.portal) \in Nat
    BY <2>7, <2>8, PortalsFinite
  <2>11. PortalsToMerge(y, a) = {} \/ Cardinality(DOMAIN y.portal) + i <= n
    <3>1. CASE PortalsToMerge(x, a) = {} /\ y = x
      BY <3>1
    <3>2. CASE Cardinality(DOMAIN y.portal) + 1 = Cardinality(DOMAIN x.portal)
      <4>1. CASE PortalsToMerge(x, a) = {}
        <5>1. PortalsMergedOnce(x, a) = x
          BY <4>1 DEF PortalsMergedOnce
        <5> QED BY <2>6, <4>1, <5>1
      <4>2. CASE Cardinality(DOMAIN x.portal) + (i - 1) <= n
        BY <1>1, <2>4, <2>10, <3>2, <4>2
      <4> QED BY <2>7, <4>1, <4>2
    <3> QED BY <2>8, <3>1, <3>2
  <2>12. Kept(y, i)
    BY <2>8, <2>9, <2>11
  <2> QED BY <2>2, <2>12 DEF y
<1>6. Kept(m2, n)
  BY <1>1, <1>3, <1>5
<1>7. PortalsToMerge(m2, a) = {}
  <2>1. CASE Cardinality(DOMAIN m2.portal) + n <= n
    <3>1. IsFiniteSet(DOMAIN m2.portal) /\ Cardinality(DOMAIN m2.portal) = 0
      BY <1>1, <1>6, <2>1, PortalsFinite
    <3>2. Sides(m2) = {}
      BY <3>1, FS_EmptySet DEF Sides
    <3>3. RingSet(Ring(m2, a)) = {}
      BY <1>6, <3>2, RingOf
    <3> QED BY <3>3 DEF PortalsToMerge
  <2> QED BY <1>6, <2>1
<1> QED BY <1>6, <1>7

-----------------------------------------------------------------------------
(* What is left when no portal is left to merge *)

LEMMA ToMerge ==
  ASSUME NEW m, MapInv(m, {}), NEW a, NEW p \in DOMAIN m.portal, NEW q \in DOMAIN m.portal, SamePair(m, p, q),
         NEW i, m.portal[p].area[i] = a,
         Follows(m.portal[p].dir, i, m.portal[p].s1, m.portal[p].s2, m.portal[q].s1, m.portal[q].s2)
  PROVE  <<p, i>> \in PortalsToMerge(m, a)
<1> DEFINE s == <<p, i>>
           t == <<q, i>>
<1>0. Drawn(m, {}) /\ Ringed(m, Sides(m)) /\ Rectangles(m) /\ PortalsSound(m) /\ m.sound = TRUE
  BY DEF MapInv, Drawn
<1>1. /\ i \in {0, 1} /\ 1 - i \in {0, 1}
      /\ m.portal[q].dir = m.portal[p].dir /\ m.portal[q].area[0] = m.portal[p].area[0]
      /\ m.portal[q].area[1] = m.portal[p].area[1]
  BY DEF Follows, SamePair
<1>2. s \in Sides(m) /\ t \in Sides(m) /\ s[1] = p /\ s[2] = i /\ t[1] = q /\ t[2] = i
  BY <1>1 DEF Sides
<1>3. AreaOf(m, s) = a /\ AreaOf(m, t) = a
  <2>1. CASE i = 0
    BY <1>1, <1>2, <2>1 DEF AreaOf
  <2>2. CASE i = 1
    BY <1>1, <1>2, <2>2 DEF AreaOf
  <2> QED BY <1>1, <2>1, <2>2
<1>4. AreaOf(m, Other(s)) = AreaOf(m, Other(t))
  <2>1. Other(s)[1] = p /\ Other(s)[2] = 1 - i /\ Other(t)[1] = q /\ Other(t)[2] = 1 - i
    BY <1>2 DEF Other
  <2> HIDE DEF s, t
  <2>2. CASE i = 0
    BY <1>1, <2>1, <2>2 DEF AreaOf
  <2>3. CASE i = 1
    BY <1>1, <2>1, <2>3 DEF AreaOf
  <2> QED BY <1>1, <2>2, <2>3
<1> HIDE DEF s, t
<1>5. /\ Value(m, s) = ValueAt(m.portal[p].dir, m.portal[p].s1, m.portal[p].s2, i)
      /\ Span(m, s) = m.portal[p].s2 - m.portal[p].s1 + 1
  BY <1>0, <1>2, SideInfo
<1>6. Value(m, t) = ValueAt(m.portal[p].dir, m.portal[q].s1, m.portal[q].s2, i)
  <2>1. Value(m, t) = ValueAt(m.portal[t[1]].dir, m.portal[t[1]].s1, m.portal[t[1]].s2, t[2])
    BY <1>0, <1>2, SideInfo
  <2> QED BY ONLY <1>1, <1>2, <2>1
<1>7. Value(m, s) + Span(m, s) = Value(m, t)
  BY ONLY <1>5, <1>6, ValuesAdjoin,
     Follows(m.portal[p].dir, i, m.portal[p].s1, m.portal[p].s2, m.portal[q].s1, m.portal[q].s2) DEF Follows
<1>8. m.next[s] = t
  BY <1>0, <1>2, <1>3, <1>7, Successor
<1>9. Mergable(m, s)
  BY <1>4, <1>7, <1>8 DEF Mergable
<1>10. s \in RingSet(Ring(m, a))
  BY <1>2, <1>3, RingOf
<1> QED BY <1>0, <1>9, <1>10 DEF PortalsToMerge, s

\* Behind a portal is another one, if there is one further on.
LEMMA NextPortal ==
  ASSUME NEW m, MapInv(m, {}), NEW p \in DOMAIN m.portal, NEW q \in DOMAIN m.portal, SamePair(m, p, q),
         m.portal[p].s2 < m.portal[q].s1
  PROVE  \E r \in DOMAIN m.portal : SamePair(m, p, r) /\ m.portal[r].s1 = m.portal[p].s2 + 1
<1> DEFINE dir == m.portal[p].dir
           a == m.portal[p].area[0]
           b == m.portal[p].area[1]
           k == m.portal[p].s2 + 1
           c == Far(m.rect[a], dir)
           u == At(dir, c, k)
           v == At(dir, c + 1, k)
<1>0. Rectangles(m) /\ PortalsSound(m) /\ Apart(m) /\ Covered(m, {})
  BY DEF MapInv
<1>n. /\ c = Far(m.rect[a], dir) /\ k = m.portal[p].s2 + 1
      /\ dir = m.portal[q].dir /\ a = m.portal[q].area[0] /\ b = m.portal[q].area[1]
  BY DEF SamePair
<1>e. Ends(m, dir, a, b, m.portal[p].s1, m.portal[p].s2)
  BY <1>0, PortalEnds
<1> HIDE DEF c, k, dir, a, b
<1>f. Ends(m, dir, a, b, m.portal[q].s1, m.portal[q].s2)
  BY <1>0, <1>n, PortalEnds
<1>1. /\ dir \in Dirs /\ a \in DOMAIN m.rect /\ b \in DOMAIN m.rect /\ a # b
      /\ m.portal[p].s1 \in Int /\ m.portal[p].s2 \in Int /\ m.portal[p].s1 <= m.portal[p].s2
      /\ c + 1 = Near(m.rect[b], dir)
      /\ Low(m.rect[a], dir) <= m.portal[p].s1 /\ Low(m.rect[b], dir) <= m.portal[p].s1
  BY <1>e, <1>n DEF Ends
<1>2. /\ m.portal[q].s1 \in Int /\ m.portal[q].s2 \in Int /\ m.portal[q].s1 <= m.portal[q].s2
      /\ m.portal[q].s2 <= High(m.rect[a], dir) /\ m.portal[q].s2 <= High(m.rect[b], dir)
  BY <1>f DEF Ends
<1>3. /\ Low(m.rect[a], dir) \in Int /\ High(m.rect[a], dir) \in Int
      /\ Near(m.rect[a], dir) \in Int /\ c \in Int /\ Near(m.rect[a], dir) <= c
      /\ Low(m.rect[b], dir) \in Int /\ High(m.rect[b], dir) \in Int
      /\ Near(m.rect[b], dir) \in Int /\ Far(m.rect[b], dir) \in Int
      /\ Near(m.rect[b], dir) <= Far(m.rect[b], dir)
  BY <1>e, <1>n DEF Ends
<1> DEFINE e == c + 1
<1>4. /\ k \in Int /\ e \in Int
      /\ Low(m.rect[a], dir) <= k /\ k <= High(m.rect[a], dir)
      /\ Low(m.rect[b], dir) <= k /\ k <= High(m.rect[b], dir)
  <2>1. k = m.portal[p].s2 + 1
    BY <1>n
  <2>2. e \in Int
    BY ONLY <1>3
  <2> HIDE DEF e
  <2>3. k \in Int /\ m.portal[p].s1 <= k /\ k <= m.portal[q].s2
    BY ONLY <1>1, <1>2, <2>1, m.portal[p].s2 < m.portal[q].s1
  <2>4. Low(m.rect[a], dir) <= k /\ k <= High(m.rect[a], dir)
    BY ONLY <1>1, <1>2, <1>3, <2>3
  <2>5. Low(m.rect[b], dir) <= k /\ k <= High(m.rect[b], dir)
    BY ONLY <1>1, <1>2, <1>3, <2>3
  <2> QED BY ONLY <2>2, <2>3, <2>4, <2>5
<1>5. u \in DOMAIN m.area /\ m.area[u] = a
  BY <1>0, <1>1, <1>3, <1>4, TileIn DEF c
<1>6. v \in DOMAIN m.area /\ m.area[v] = b
  <2>1. Near(m.rect[b], dir) <= e /\ e <= Far(m.rect[b], dir)
    BY <1>1, <1>3
  <2> HIDE DEF e
  <2>2. At(dir, e, k) \in DOMAIN m.area /\ m.area[At(dir, e, k)] = b
    BY <1>0, <1>1, <1>4, <2>1, TileIn
  <2> QED BY <2>2 DEF e
<1>7. PICK r \in DOMAIN m.portal : Leads(m, r, dir, u, v, k)
  BY <1>0, <1>1, <1>3, <1>4, <1>5, <1>6 DEF Covered
<1>8. SamePair(m, p, r) /\ m.portal[r].s1 <= k /\ k <= m.portal[r].s2
  BY <1>5, <1>6, <1>7 DEF Leads, SamePair, dir, a, b
<1>9. m.portal[r].s1 \in Int /\ m.portal[r].s2 \in Int
  BY <1>0, PortalIs
<1>10. r # p
  BY <1>1, <1>8 DEF k
<1>11. m.portal[p].s1 <= m.portal[r].s2
  BY <1>1, <1>8, <1>9 DEF k
<1>12. ~(m.portal[r].s1 <= m.portal[p].s2)
  BY <1>0, <1>8, <1>10, <1>11 DEF Apart
<1> QED BY <1>1, <1>8, <1>9, <1>12 DEF k

LEMMA NoneBehind ==
  ASSUME NEW m, MapInv(m, {}), NEW a, PortalsToMerge(m, a) = {},
         NEW p \in DOMAIN m.portal, NEW q \in DOMAIN m.portal, SamePair(m, p, q),
         m.portal[p].area[0] = a \/ m.portal[p].area[1] = a, m.portal[p].s2 < m.portal[q].s1
  PROVE  FALSE
<1>1. PICK r \in DOMAIN m.portal : SamePair(m, p, r) /\ m.portal[r].s1 = m.portal[p].s2 + 1
  BY NextPortal
<1>2. PICK i \in {0, 1} : m.portal[p].area[i] = a
  OBVIOUS
<1>0. Rectangles(m) /\ PortalsSound(m)
  BY DEF MapInv
<1>3. /\ m.portal[p].dir \in Dirs
      /\ m.portal[p].s1 \in Int /\ m.portal[p].s2 \in Int
      /\ 0 < m.portal[p].s1 /\ m.portal[p].s1 <= m.portal[p].s2 /\ m.portal[p].s2 < 255
  BY <1>0, PortalIs
<1>4. /\ m.portal[r].s1 \in Int /\ m.portal[r].s2 \in Int
      /\ 0 < m.portal[r].s1 /\ m.portal[r].s1 <= m.portal[r].s2 /\ m.portal[r].s2 < 255
  BY <1>0, PortalIs
<1>5. m.portal[r].dir = m.portal[p].dir /\ m.portal[r].area[i] = a /\ SamePair(m, r, p)
  <2>1. m.portal[r].area[0] = m.portal[p].area[0] /\ m.portal[r].area[1] = m.portal[p].area[1]
    BY <1>1 DEF SamePair
  <2> QED BY <1>1, <1>2, <2>1 DEF SamePair
<1>6. CASE Ascending(m.portal[p].dir, i)
  <2>1. Follows(m.portal[p].dir, i, m.portal[p].s1, m.portal[p].s2, m.portal[r].s1, m.portal[r].s2)
    BY <1>1, <1>3, <1>4, <1>6 DEF Follows
  <2> QED BY <1>1, <1>2, <2>1, ToMerge
<1>7. CASE ~Ascending(m.portal[p].dir, i)
  <2>1. Follows(m.portal[r].dir, i, m.portal[r].s1, m.portal[r].s2, m.portal[p].s1, m.portal[p].s2)
    <3>1. m.portal[p].s2 = m.portal[r].s1 - 1
      BY <1>1, <1>3, <1>4
    <3> QED BY <1>2, <1>3, <1>4, <1>5, <1>7, <3>1 DEF Follows
  <2> QED BY <1>5, <2>1, ToMerge
<1> QED BY <1>6, <1>7

LEMMA MergedPaired ==
  ASSUME NEW m, MapInv(m, {}), NEW a, PortalsToMerge(m, a) = {}, PairedBut(m, a)
  PROVE  Paired(m)
<1> SUFFICES ASSUME NEW p \in DOMAIN m.portal, NEW q \in DOMAIN m.portal, SamePair(m, p, q), p # q PROVE FALSE
  BY DEF Paired
<1>0. Rectangles(m) /\ PortalsSound(m) /\ Apart(m)
  BY DEF MapInv
<1>1. m.portal[p].area[0] = a \/ m.portal[p].area[1] = a
  BY DEF PairedBut
<1>2. SamePair(m, q, p) /\ (m.portal[q].area[0] = a \/ m.portal[q].area[1] = a)
  BY <1>1 DEF SamePair
<1>3. m.portal[p].s1 \in Int /\ m.portal[p].s2 \in Int /\ m.portal[q].s1 \in Int /\ m.portal[q].s2 \in Int
  BY <1>0, PortalIs
<1>4. m.portal[p].s2 < m.portal[q].s1 \/ m.portal[q].s2 < m.portal[p].s1
  BY <1>0, <1>3 DEF Apart
<1> QED BY <1>1, <1>2, <1>4, NoneBehind

\* area_merge_portals after a change to area a.
LEMMA MergingPairs ==
  ASSUME NEW m, MapInv(m, {}), NEW a, PairedBut(m, a), NEW m2, m2 = MergePortals(m, a)
  PROVE  MapInv(m2, {}) /\ Merges(m, m2) /\ Paired(m2)
<1>1. MapInv(m2, {}) /\ Merges(m, m2) /\ PortalsToMerge(m2, a) = {}
  BY MergingKeeps
<1>2. PairedBut(m2, a)
  BY <1>1 DEF PairedBut, Merges, SamePair
<1> QED BY <1>1, <1>2, MergedPaired

-----------------------------------------------------------------------------
(* Two rings become one: the pointers *)

LEMMA LinkedBack == ASSUME NEW S, NEW next, NEW prev, NEW area, Linked(S, next, prev, area)
                    PROVE  Linked(S, prev, next, area)
<1>1. \A s \in S : area[prev[s]] = area[s]
  BY AreaOfPrev
<1> QED BY <1>1 DEF Linked

LEMMA AloneIs == ASSUME NEW S, NEW next, NEW prev, NEW area, Linked(S, next, prev, area), NEW s \in S
                 PROVE  next[s] = s <=> prev[s] = s
  BY DEF Linked

\* What becomes of the pointers that lead to two sides or from them.
Bridged(next, prev, s1, s2, alone1, alone2) ==
  Without(Without([next EXCEPT ![prev[s1]] = IF alone2 THEN next[s1] ELSE next[s2],
                               ![prev[s2]] = IF alone1 THEN next[s2] ELSE next[s1]], s1), s2)

LEMMA BridgedIs ==
  ASSUME NEW S, NEW next, NEW prev, NEW area, Linked(S, next, prev, area),
         NEW s1 \in S, NEW s2 \in S, area[s1] # area[s2], NEW T, T = S \ {s1, s2},
         NEW alone1, NEW alone2, alone1 <=> next[s1] = s1, alone2 <=> next[s2] = s2,
         NEW n2, n2 = Bridged(next, prev, s1, s2, alone1, alone2)
  PROVE  Across(T, next, prev, s1, s2, n2) /\ Across(T, next, prev, s2, s1, n2)
<1> DEFINE after1 == IF alone2 THEN next[s1] ELSE next[s2]
           after2 == IF alone1 THEN next[s2] ELSE next[s1]
           n1 == [next EXCEPT ![prev[s1]] = after1, ![prev[s2]] = after2]
<1>1. /\ next \in [S -> S] /\ prev \in [S -> S]
      /\ \A s \in S : prev[next[s]] = s /\ next[prev[s]] = s /\ area[next[s]] = area[s] /\ area[prev[s]] = area[s]
  BY AreaOfPrev DEF Linked
<1>2. n2 = Without(Without(n1, s1), s2)
  BY DEF Bridged
<1>3. /\ prev[s1] # prev[s2] /\ prev[s1] \in S /\ prev[s2] \in S
  BY <1>1
<1>4. DOMAIN n1 = S /\ n1[prev[s1]] = after1 /\ n1[prev[s2]] = after2
      /\ \A t \in S : t # prev[s1] /\ t # prev[s2] => n1[t] = next[t]
  <2> HIDE DEF after1, after2
  <2> QED BY <1>1, <1>3
<1> HIDE DEF n1
<1>5. DOMAIN n2 = T /\ n2 = [t \in T |-> n2[t]] /\ \A t \in T : n2[t] = n1[t]
  BY <1>2, <1>4 DEF Without
<1>6. ASSUME NEW t \in T
      PROVE  /\ n2[t] = IF t = prev[s1] THEN after1 ELSE IF t = prev[s2] THEN after2 ELSE next[t]
             /\ n2[t] \in T
  <2>1. n2[t] = IF t = prev[s1] THEN after1 ELSE IF t = prev[s2] THEN after2 ELSE next[t]
    <3> HIDE DEF after1, after2
    <3> QED BY <1>3, <1>4, <1>5
  <2>2. CASE t = prev[s1]
    <3>1. ~alone1 /\ n2[t] = after1
      BY <1>1, <2>1, <2>2
    <3>2. CASE alone2
      <4>1. next[s1] \in S /\ next[s1] # s1 /\ next[s1] # s2
        BY <1>1, <3>1
      <4> QED BY <2>1, <3>1, <3>2, <4>1
    <3>3. CASE ~alone2
      <4>1. next[s2] \in S /\ next[s2] # s2 /\ next[s2] # s1
        BY <1>1, <3>3
      <4> QED BY <2>1, <3>1, <3>3, <4>1
    <3> QED BY <2>1, <3>2, <3>3
  <2>3. CASE t = prev[s2]
    <3>1. ~alone2 /\ n2[t] = after2
      BY <1>1, <1>3, <2>1, <2>3
    <3>2. CASE alone1
      <4>1. next[s2] \in S /\ next[s2] # s2 /\ next[s2] # s1
        BY <1>1, <3>1
      <4> QED BY <2>1, <3>1, <3>2, <4>1
    <3>3. CASE ~alone1
      <4>1. next[s1] \in S /\ next[s1] # s1 /\ next[s1] # s2
        BY <1>1, <3>3
      <4> QED BY <2>1, <3>1, <3>3, <4>1
    <3> QED BY <2>1, <3>2, <3>3
  <2>4. CASE t # prev[s1] /\ t # prev[s2]
    <3>1. next[t] \in S /\ next[t] # s1 /\ next[t] # s2
      BY <1>1, <2>4
    <3> QED BY <2>1, <2>4, <3>1
  <2> QED BY <2>1, <2>2, <2>3, <2>4
<1>7. n2 \in [T -> T]
  BY <1>5, <1>6
<1>8. Across(T, next, prev, s1, s2, n2)
  BY <1>6, <1>7 DEF Across
<1>9. Across(T, next, prev, s2, s1, n2)
  BY <1>3, <1>6, <1>7 DEF Across
<1> QED BY <1>8, <1>9

-----------------------------------------------------------------------------
(* Two areas become one: rectangles and portals *)

LEMMA AcrossDir == ASSUME NEW d \in Dirs, NEW e \in Dirs, d # e, NEW r
                   PROVE  /\ Near(r, e) = Low(r, d) /\ Far(r, e) = High(r, d)
                          /\ Low(r, e) = Near(r, d) /\ High(r, e) = Far(r, d)
  BY DEF Dirs, Near, Far, Low, High, HORIZONTAL, VERTICAL

\* Portal p, between L and R, which are as wide, or as high, as each other.
Even(m, p, dir, L, R) ==
  /\ p \in DOMAIN m.portal /\ dir = m.portal[p].dir
  /\ L = m.portal[p].area[0] /\ R = m.portal[p].area[1]
  /\ Low(m.rect[L], dir) = Low(m.rect[R], dir) /\ High(m.rect[L], dir) = High(m.rect[R], dir)

LEMMA EvenIs ==
  ASSUME NEW m, Rectangles(m), PortalsSound(m), NEW p, NEW dir, NEW L, NEW R, Even(m, p, dir, L, R)
  PROVE  /\ dir \in Dirs /\ L \in DOMAIN m.rect /\ R \in DOMAIN m.rect /\ L # R
         /\ Low(m.rect[L], dir) \in Int /\ High(m.rect[L], dir) \in Int
         /\ Low(m.rect[R], dir) = Low(m.rect[L], dir) /\ High(m.rect[R], dir) = High(m.rect[L], dir)
         /\ Low(m.rect[L], dir) <= High(m.rect[L], dir)
         /\ Near(m.rect[L], dir) \in Int /\ Far(m.rect[L], dir) \in Int
         /\ Near(m.rect[L], dir) <= Far(m.rect[L], dir)
         /\ Near(m.rect[R], dir) \in Int /\ Far(m.rect[R], dir) \in Int
         /\ Near(m.rect[R], dir) <= Far(m.rect[R], dir)
         /\ Far(m.rect[L], dir) + 1 = Near(m.rect[R], dir)
<1>1. /\ dir \in Dirs /\ L \in DOMAIN m.rect /\ R \in DOMAIN m.rect /\ L # R
      /\ Far(m.rect[L], dir) + 1 = Near(m.rect[R], dir)
  BY PortalIs DEF Even
<1>2. Low(m.rect[L], dir) = Low(m.rect[R], dir) /\ High(m.rect[L], dir) = High(m.rect[R], dir)
  BY DEF Even
<1> QED BY <1>1, <1>2, RectIs

\* The common edge of the two areas has no other portal.
LEMMA EdgeOnly ==
  ASSUME NEW m, Rectangles(m), PortalsSound(m), Paired(m),
         NEW p, NEW dir, NEW L, NEW R, Even(m, p, dir, L, R), NEW q \in DOMAIN m.portal, m.portal[q].dir = dir,
         m.portal[q].area[0] = L \/ m.portal[q].area[1] = R
  PROVE  q = p
<1> DEFINE k == m.portal[q].s1
           a == m.portal[q].area[0]
           b == m.portal[q].area[1]
<1>4. a = L \/ b = R
  OBVIOUS
<1>e. Ends(m, dir, a, b, k, m.portal[q].s2)
  BY PortalEnds
<1> HIDE DEF k, a, b
<1>1. /\ dir \in Dirs /\ L \in DOMAIN m.rect /\ R \in DOMAIN m.rect /\ L # R
      /\ Low(m.rect[L], dir) \in Int /\ High(m.rect[L], dir) \in Int
      /\ Low(m.rect[R], dir) = Low(m.rect[L], dir) /\ High(m.rect[R], dir) = High(m.rect[L], dir)
      /\ Near(m.rect[L], dir) \in Int /\ Far(m.rect[L], dir) \in Int
      /\ Near(m.rect[L], dir) <= Far(m.rect[L], dir)
      /\ Near(m.rect[R], dir) \in Int /\ Far(m.rect[R], dir) \in Int
      /\ Near(m.rect[R], dir) <= Far(m.rect[R], dir)
      /\ Far(m.rect[L], dir) + 1 = Near(m.rect[R], dir)
  BY EvenIs
<1>2. /\ a \in DOMAIN m.rect /\ b \in DOMAIN m.rect /\ k \in Int
      /\ Far(m.rect[a], dir) + 1 = Near(m.rect[b], dir)
      /\ Low(m.rect[a], dir) <= k /\ Low(m.rect[b], dir) <= k
      /\ k <= High(m.rect[a], dir) /\ k <= High(m.rect[b], dir)
  BY ONLY <1>e DEF Ends
<1>3. /\ Near(m.rect[a], dir) \in Int /\ Far(m.rect[a], dir) \in Int
      /\ Near(m.rect[a], dir) <= Far(m.rect[a], dir)
      /\ Near(m.rect[b], dir) \in Int /\ Far(m.rect[b], dir) \in Int
      /\ Near(m.rect[b], dir) <= Far(m.rect[b], dir)
  BY ONLY <1>e DEF Ends
<1>5. a = L /\ b = R
  <2>1. CASE a = L
    <3> DEFINE c == Near(m.rect[R], dir)
    <3>1. m.area[At(dir, c, k)] = R
      BY <1>1, <1>2, <2>1, TileIn
    <3>2. m.area[At(dir, c, k)] = b
      BY <1>1, <1>2, <1>3, <2>1, TileIn
    <3> QED BY <2>1, <3>1, <3>2
  <2>2. CASE b = R
    <3> DEFINE c == Far(m.rect[L], dir)
    <3>1. m.area[At(dir, c, k)] = L
      BY <1>1, <1>2, <2>2, TileIn
    <3>2. Far(m.rect[a], dir) = c
      BY <1>1, <1>2, <1>3, <2>2
    <3>3. m.area[At(dir, c, k)] = a
      BY <1>1, <1>2, <1>3, <3>2, TileIn
    <3> QED BY <2>2, <3>1, <3>3
  <2> QED BY <1>4, <2>1, <2>2
<1>6. SamePair(m, p, q)
  BY <1>5 DEF SamePair, Even, a, b
<1> QED BY <1>6 DEF Paired, Even

LEMMA BetweenOnly ==
  ASSUME NEW m, Rectangles(m), PortalsSound(m), Paired(m),
         NEW p, NEW dir, NEW L, NEW R, Even(m, p, dir, L, R), NEW q \in DOMAIN m.portal,
         m.portal[q].area[0] \in {L, R}, m.portal[q].area[1] \in {L, R}
  PROVE  q = p
<1> DEFINE a == m.portal[q].area[0]
           b == m.portal[q].area[1]
           e == m.portal[q].dir
<1>1. /\ dir \in Dirs /\ L \in DOMAIN m.rect /\ R \in DOMAIN m.rect /\ L # R
      /\ Low(m.rect[L], dir) \in Int /\ High(m.rect[L], dir) \in Int
      /\ Low(m.rect[R], dir) = Low(m.rect[L], dir) /\ High(m.rect[R], dir) = High(m.rect[L], dir)
      /\ Low(m.rect[L], dir) <= High(m.rect[L], dir)
      /\ Near(m.rect[L], dir) \in Int /\ Far(m.rect[L], dir) \in Int
      /\ Near(m.rect[L], dir) <= Far(m.rect[L], dir)
      /\ Near(m.rect[R], dir) \in Int /\ Far(m.rect[R], dir) \in Int
      /\ Near(m.rect[R], dir) <= Far(m.rect[R], dir)
      /\ Far(m.rect[L], dir) + 1 = Near(m.rect[R], dir)
  BY EvenIs
<1>2. e \in Dirs /\ a # b /\ Far(m.rect[a], e) + 1 = Near(m.rect[b], e)
  BY PortalIs
<1>3. (a = L /\ b = R) \/ (a = R /\ b = L)
  BY <1>2
<1>4. CASE e = dir
  <2>1. CASE a = L
    BY <1>4, <2>1, EdgeOnly
  <2>2. CASE a = R /\ b = L
    <3> HIDE DEF a, b, e
    <3> QED BY <1>1, <1>2, <1>4, <2>2
  <2> QED BY <1>3, <2>1, <2>2
<1>5. CASE e # dir
  <2> HIDE DEF a, b, e
  <2>1. Far(m.rect[a], e) = High(m.rect[a], dir) /\ Near(m.rect[b], e) = Low(m.rect[b], dir)
    BY <1>1, <1>2, <1>5, AcrossDir
  <2>2. High(m.rect[a], dir) = High(m.rect[L], dir) /\ Low(m.rect[b], dir) = Low(m.rect[L], dir)
    BY <1>1, <1>3
  <2> QED BY <1>1, <1>2, <2>1, <2>2
<1> QED BY <1>4, <1>5

OwnerOf(L, R, keep, a) == IF a \in {L, R} THEN keep ELSE a

\* Area keep takes over both.
United(m, m1, p, dir, L, R, keep) ==
  /\ keep \in {L, R}
  /\ m1.area = [t \in DOMAIN m.area |-> OwnerOf(L, R, keep, m.area[t])]
  /\ m1.rect = [a \in DOMAIN m1.rect |-> m1.rect[a]] /\ DOMAIN m1.rect = (DOMAIN m.rect \ {L, R}) \cup {keep}
  /\ \A a \in DOMAIN m.rect \ {L, R} : m1.rect[a] = m.rect[a]
  /\ m1.rect[keep] \in Rect
  /\ Low(m1.rect[keep], dir) = Low(m.rect[L], dir) /\ High(m1.rect[keep], dir) = High(m.rect[L], dir)
  /\ Near(m1.rect[keep], dir) = Near(m.rect[L], dir) /\ Far(m1.rect[keep], dir) = Far(m.rect[R], dir)
  /\ m1.portal = [q \in DOMAIN m1.portal |-> m1.portal[q]] /\ DOMAIN m1.portal = DOMAIN m.portal \ {p}
  /\ \A q \in DOMAIN m1.portal :
       /\ m1.portal[q] \in [dir : Dirs, area : [{0, 1} -> DOMAIN m1.rect], s1 : Int, s2 : Int]
       /\ m1.portal[q].dir = m.portal[q].dir
       /\ m1.portal[q].s1 = m.portal[q].s1 /\ m1.portal[q].s2 = m.portal[q].s2
       /\ \A i \in {0, 1} : m1.portal[q].area[i] = OwnerOf(L, R, keep, m.portal[q].area[i])

LEMMA UnitedRectangles ==
  ASSUME NEW m, Rectangles(m), PortalsSound(m),
         NEW p, NEW dir, NEW L, NEW R, Even(m, p, dir, L, R), NEW keep, NEW m1, United(m, m1, p, dir, L, R, keep)
  PROVE  Rectangles(m1)
<1> DEFINE G == m1.rect[keep]
           rL == m.rect[L]
           rR == m.rect[R]
<1>1. /\ dir \in Dirs /\ L \in DOMAIN m.rect /\ R \in DOMAIN m.rect /\ L # R
      /\ Low(rR, dir) = Low(rL, dir) /\ High(rR, dir) = High(rL, dir)
      /\ Low(rL, dir) <= High(rL, dir) /\ Near(rL, dir) <= Far(rL, dir)
      /\ Near(rR, dir) <= Far(rR, dir) /\ Far(rL, dir) + 1 = Near(rR, dir)
  BY EvenIs
<1>2. /\ G \in Rect /\ Low(G, dir) = Low(rL, dir) /\ High(G, dir) = High(rL, dir)
      /\ Near(G, dir) = Near(rL, dir) /\ Far(G, dir) = Far(rR, dir)
      /\ keep \in {L, R} /\ m1.area = [t \in DOMAIN m.area |-> OwnerOf(L, R, keep, m.area[t])]
      /\ m1.rect = [a \in DOMAIN m1.rect |-> m1.rect[a]] /\ DOMAIN m1.rect = (DOMAIN m.rect \ {L, R}) \cup {keep}
      /\ \A a \in DOMAIN m.rect \ {L, R} : m1.rect[a] = m.rect[a]
  BY DEF United
<1>3. rL \in Rect /\ rR \in Rect
  BY <1>1 DEF Rectangles
<1> HIDE DEF G, rL, rR
<1>4. /\ G.x1 <= G.x2 /\ G.y1 <= G.y2
      /\ \A x, y \in Int :
           /\ G.x1 <= x /\ x <= G.x2 /\ G.y1 <= y /\ y <= G.y2
           <=> \/ rL.x1 <= x /\ x <= rL.x2 /\ rL.y1 <= y /\ y <= rL.y2
               \/ rR.x1 <= x /\ x <= rR.x2 /\ rR.y1 <= y /\ y <= rR.y2
  <2>1. CASE dir = VERTICAL
    BY <1>1, <1>2, <1>3, <2>1 DEF Near, Far, Low, High, Rect
  <2>2. CASE dir # VERTICAL
    BY <1>1, <1>2, <1>3, <2>2 DEF Near, Far, Low, High, Rect
  <2> QED BY <2>1, <2>2
<1>5. /\ DOMAIN m.area \subseteq WithinBorder /\ DOMAIN m.rect \subseteq DOMAIN m.area
      /\ m.area \in [DOMAIN m.area -> DOMAIN m.rect] /\ m.rect \in [DOMAIN m.rect -> Rect]
      /\ \A a \in DOMAIN m.rect : m.rect[a].x1 <= m.rect[a].x2 /\ m.rect[a].y1 <= m.rect[a].y2
      /\ \A a \in DOMAIN m.rect : \A x, y \in Int :
           /\ m.rect[a].x1 <= x /\ x <= m.rect[a].x2 /\ m.rect[a].y1 <= y /\ y <= m.rect[a].y2
           <=> <<x, y>> \in DOMAIN m.area /\ m.area[<<x, y>>] = a
  BY DEF Rectangles
<1>6. DOMAIN m1.area = DOMAIN m.area /\ DOMAIN m1.rect \subseteq DOMAIN m.rect
  BY <1>1, <1>2
<1>7. m1.area \in [DOMAIN m1.area -> DOMAIN m1.rect]
  BY <1>2, <1>5 DEF OwnerOf
<1>8. m1.rect \in [DOMAIN m1.rect -> Rect]
  <2>1. \A a \in DOMAIN m1.rect : m1.rect[a] \in Rect
    BY <1>2, <1>5 DEF G
  <2>2. m1.rect = [a \in DOMAIN m1.rect |-> m1.rect[a]]
    BY <1>2
  <2> QED BY ONLY <2>1, <2>2
<1>9. \A a \in DOMAIN m1.rect : m1.rect[a].x1 <= m1.rect[a].x2 /\ m1.rect[a].y1 <= m1.rect[a].y2
  BY <1>2, <1>4, <1>5 DEF G
<1>10. ASSUME NEW a \in DOMAIN m1.rect, NEW x \in Int, NEW y \in Int
       PROVE  /\ m1.rect[a].x1 <= x /\ x <= m1.rect[a].x2 /\ m1.rect[a].y1 <= y /\ y <= m1.rect[a].y2
              <=> <<x, y>> \in DOMAIN m1.area /\ m1.area[<<x, y>>] = a
  <2>1. CASE a = keep
    <3>1. /\ m1.rect[a].x1 <= x /\ x <= m1.rect[a].x2 /\ m1.rect[a].y1 <= y /\ y <= m1.rect[a].y2
          <=> \/ rL.x1 <= x /\ x <= rL.x2 /\ rL.y1 <= y /\ y <= rL.y2
              \/ rR.x1 <= x /\ x <= rR.x2 /\ rR.y1 <= y /\ y <= rR.y2
      BY <1>4, <2>1 DEF G
    <3>2. /\ rL.x1 <= x /\ x <= rL.x2 /\ rL.y1 <= y /\ y <= rL.y2
          <=> <<x, y>> \in DOMAIN m.area /\ m.area[<<x, y>>] = L
      BY <1>1, <1>5 DEF rL
    <3>3. /\ rR.x1 <= x /\ x <= rR.x2 /\ rR.y1 <= y /\ y <= rR.y2
          <=> <<x, y>> \in DOMAIN m.area /\ m.area[<<x, y>>] = R
      BY <1>1, <1>5 DEF rR
    <3>4. <<x, y>> \in DOMAIN m.area =>
            (m1.area[<<x, y>>] = keep <=> m.area[<<x, y>>] \in {L, R})
      BY <1>2 DEF OwnerOf
    <3> QED BY <1>6, <2>1, <3>1, <3>2, <3>3, <3>4
  <2>2. CASE a # keep
    <3>1. a \in DOMAIN m.rect /\ a \notin {L, R} /\ m1.rect[a] = m.rect[a]
      BY <1>2, <2>2
    <3>2. <<x, y>> \in DOMAIN m.area => (m1.area[<<x, y>>] = a <=> m.area[<<x, y>>] = a)
      BY <1>2, <2>2, <3>1 DEF OwnerOf
    <3> QED BY <1>5, <1>6, <3>1, <3>2
  <2> QED BY <2>1, <2>2
<1>11. DOMAIN m1.area \subseteq WithinBorder /\ DOMAIN m1.rect \subseteq DOMAIN m1.area
  BY <1>5, <1>6
<1> QED BY <1>7, <1>8, <1>9, <1>10, <1>11 DEF Rectangles

\* The rectangle of an area after two became one.
LEMMA UnitedExtent ==
  ASSUME NEW m, Rectangles(m), PortalsSound(m),
         NEW p, NEW dir, NEW L, NEW R, Even(m, p, dir, L, R), NEW keep, NEW m1, United(m, m1, p, dir, L, R, keep),
         NEW a \in DOMAIN m.rect, NEW e \in Dirs, NEW r, r = m1.rect[OwnerOf(L, R, keep, a)]
  PROVE  /\ OwnerOf(L, R, keep, a) \in DOMAIN m1.rect
         /\ Low(r, e) <= Low(m.rect[a], e) /\ High(m.rect[a], e) <= High(r, e)
         /\ (e # dir \/ a # R) => Near(r, e) = Near(m.rect[a], e)
         /\ (e # dir \/ a # L) => Far(r, e) = Far(m.rect[a], e)
<1> DEFINE rL == m.rect[L]
           rR == m.rect[R]
           G == m1.rect[keep]
<1>1. /\ dir \in Dirs /\ L \in DOMAIN m.rect /\ R \in DOMAIN m.rect /\ L # R
      /\ Low(rL, dir) \in Int /\ High(rL, dir) \in Int
      /\ Low(rR, dir) = Low(rL, dir) /\ High(rR, dir) = High(rL, dir)
      /\ Near(rL, dir) \in Int /\ Far(rL, dir) \in Int /\ Near(rL, dir) <= Far(rL, dir)
      /\ Near(rR, dir) \in Int /\ Far(rR, dir) \in Int /\ Near(rR, dir) <= Far(rR, dir)
      /\ Far(rL, dir) + 1 = Near(rR, dir)
  BY EvenIs
<1>2. /\ keep \in {L, R} /\ DOMAIN m1.rect = (DOMAIN m.rect \ {L, R}) \cup {keep}
      /\ \A x \in DOMAIN m.rect \ {L, R} : m1.rect[x] = m.rect[x]
      /\ Low(G, dir) = Low(rL, dir) /\ High(G, dir) = High(rL, dir)
      /\ Near(G, dir) = Near(rL, dir) /\ Far(G, dir) = Far(rR, dir)
  BY DEF United
<1>3. Low(m.rect[a], e) \in Int /\ High(m.rect[a], e) \in Int
  BY RectIs
<1> HIDE DEF rL, rR, G
<1>4. CASE a \notin {L, R}
  <2>1. OwnerOf(L, R, keep, a) = a /\ a \in DOMAIN m1.rect /\ r = m.rect[a]
    BY <1>2, <1>4 DEF OwnerOf
  <2> QED BY <1>3, <2>1
<1>5. CASE a \in {L, R}
  <2>1. OwnerOf(L, R, keep, a) = keep /\ keep \in DOMAIN m1.rect /\ r = G
    BY <1>2, <1>5 DEF OwnerOf, G
  <2>2. m.rect[a] \in {rL, rR}
    BY <1>5 DEF rL, rR
  <2>3. CASE e = dir
    <3>1. Low(r, e) = Low(m.rect[a], e) /\ High(r, e) = High(m.rect[a], e)
      BY <1>1, <1>2, <2>1, <2>2, <2>3
    <3>2. a # R => Near(r, e) = Near(m.rect[a], e)
      BY <1>2, <1>5, <2>1, <2>3 DEF rL
    <3>3. a # L => Far(r, e) = Far(m.rect[a], e)
      BY <1>2, <1>5, <2>1, <2>3 DEF rR
    <3> QED BY <1>3, <2>1, <2>3, <3>1, <3>2, <3>3
  <2>4. CASE e # dir
    <3>1. \A x : Near(x, e) = Low(x, dir) /\ Far(x, e) = High(x, dir) /\ Low(x, e) = Near(x, dir) /\ High(x, e) = Far(x, dir)
      BY <1>1, <2>4, AcrossDir
    <3>2. Near(r, e) = Near(m.rect[a], e) /\ Far(r, e) = Far(m.rect[a], e)
      BY <1>1, <1>2, <2>1, <2>2, <3>1
    <3>3. Low(r, e) <= Low(m.rect[a], e) /\ High(m.rect[a], e) <= High(r, e)
      <4>1. CASE m.rect[a] = rL
        BY <1>1, <1>2, <2>1, <3>1, <4>1
      <4>2. CASE m.rect[a] = rR
        BY <1>1, <1>2, <2>1, <3>1, <4>2
      <4> QED BY <2>2, <4>1, <4>2
    <3> QED BY <2>1, <3>2, <3>3
  <2> QED BY <2>3, <2>4
<1> QED BY <1>4, <1>5

LEMMA UnitedPortals ==
  ASSUME NEW m, Rectangles(m), PortalsSound(m), Paired(m),
         NEW p, NEW dir, NEW L, NEW R, Even(m, p, dir, L, R), NEW keep, NEW m1, United(m, m1, p, dir, L, R, keep)
  PROVE  PortalsSound(m1)
<1>1. /\ m1.portal = [q \in DOMAIN m1.portal |-> m1.portal[q]] /\ DOMAIN m1.portal = DOMAIN m.portal \ {p}
      /\ DOMAIN m1.area = DOMAIN m.area
  BY DEF United
<1>2. ASSUME NEW q \in DOMAIN m1.portal PROVE q[1] \in DOMAIN m1.area /\ PortalSound(m1, q)
  <2> DEFINE e == m.portal[q].dir
             a == m.portal[q].area[0]
             b == m.portal[q].area[1]
             s1 == m.portal[q].s1
             s2 == m.portal[q].s2
             r0 == m1.rect[m1.portal[q].area[0]]
             r1 == m1.rect[m1.portal[q].area[1]]
  <2>1. q \in DOMAIN m.portal /\ q # p /\ q[1] \in DOMAIN m1.area
    BY <1>1 DEF PortalsSound
  <2>2. /\ e \in Dirs /\ a \in DOMAIN m.rect /\ b \in DOMAIN m.rect
        /\ s1 \in Int /\ s2 \in Int /\ s1 <= s2
        /\ Far(m.rect[a], e) + 1 = Near(m.rect[b], e)
        /\ Low(m.rect[a], e) <= s1 /\ Low(m.rect[b], e) <= s1
        /\ s2 <= High(m.rect[a], e) /\ s2 <= High(m.rect[b], e)
    <3>1. Ends(m, e, a, b, s1, s2)
      BY <2>1, PortalEnds
    <3> HIDE DEF e, a, b, s1, s2
    <3> QED BY ONLY <3>1 DEF Ends
  <2>3. ~(e = dir /\ a = L) /\ ~(e = dir /\ b = R)
    BY <2>1, EdgeOnly
  <2>4. /\ m1.portal[q] \in [dir : Dirs, area : [{0, 1} -> DOMAIN m1.rect], s1 : Int, s2 : Int]
        /\ m1.portal[q].dir = e /\ m1.portal[q].s1 = s1 /\ m1.portal[q].s2 = s2
        /\ m1.portal[q].area[0] = OwnerOf(L, R, keep, a) /\ m1.portal[q].area[1] = OwnerOf(L, R, keep, b)
    BY DEF United
  <2> HIDE DEF e, a, b, s1, s2
  <2>5. /\ OwnerOf(L, R, keep, a) \in DOMAIN m1.rect
        /\ Low(r0, e) <= Low(m.rect[a], e) /\ High(m.rect[a], e) <= High(r0, e) /\ Far(r0, e) = Far(m.rect[a], e)
    BY <2>2, <2>3, <2>4, UnitedExtent
  <2>6. /\ OwnerOf(L, R, keep, b) \in DOMAIN m1.rect
        /\ Low(r1, e) <= Low(m.rect[b], e) /\ High(m.rect[b], e) <= High(r1, e) /\ Near(r1, e) = Near(m.rect[b], e)
    BY <2>2, <2>3, <2>4, UnitedExtent
  <2>7. /\ Low(m.rect[a], e) \in Int /\ High(m.rect[a], e) \in Int
        /\ Low(m.rect[b], e) \in Int /\ High(m.rect[b], e) \in Int
    BY <2>2, RectIs
  <2>8. /\ Low(r0, e) \in Int /\ High(r0, e) \in Int /\ Low(r1, e) \in Int /\ High(r1, e) \in Int
    <3>1. Rectangles(m1)
      BY UnitedRectangles
    <3> QED BY <2>2, <2>4, <2>5, <2>6, <3>1, RectIs
  <2>9. PortalSound(m1, q)
    <3>1. /\ Low(r0, e) <= s1 /\ Low(r1, e) <= s1 /\ s2 <= High(r0, e) /\ s2 <= High(r1, e)
          /\ Far(r0, e) + 1 = Near(r1, e)
      <4> HIDE DEF r0, r1
      <4> QED BY <2>2, <2>5, <2>6, <2>7, <2>8
    <3> QED BY <2>2, <2>4, <3>1 DEF PortalSound
  <2> QED BY <2>1, <2>9
<1> QED BY <1>1, <1>2 DEF PortalsSound

LEMMA UnitedApart ==
  ASSUME NEW m, Rectangles(m), PortalsSound(m), Apart(m), Paired(m),
         NEW p, NEW dir, NEW L, NEW R, Even(m, p, dir, L, R), NEW keep, NEW m1, United(m, m1, p, dir, L, R, keep)
  PROVE  Apart(m1) /\ PairedBut(m1, keep)
<1>1. ASSUME NEW x \in DOMAIN m1.portal, NEW y \in DOMAIN m1.portal, SamePair(m1, x, y)
      PROVE  /\ x \in DOMAIN m.portal /\ y \in DOMAIN m.portal /\ x # p /\ y # p
             /\ m.portal[x].dir = m.portal[y].dir
             /\ \A i \in {0, 1} :
                  /\ OwnerOf(L, R, keep, m.portal[x].area[i]) = OwnerOf(L, R, keep, m.portal[y].area[i])
                  /\ m1.portal[x].area[i] = OwnerOf(L, R, keep, m.portal[x].area[i])
             /\ m1.portal[x].s1 = m.portal[x].s1 /\ m1.portal[x].s2 = m.portal[x].s2
             /\ m1.portal[y].s1 = m.portal[y].s1 /\ m1.portal[y].s2 = m.portal[y].s2
  BY <1>1 DEF United, SamePair
<1>2. keep \in {L, R}
  BY DEF United
<1>3. ASSUME NEW x \in DOMAIN m1.portal, NEW y \in DOMAIN m1.portal, SamePair(m1, x, y),
             m1.portal[x].s1 <= m1.portal[y].s2, m1.portal[y].s1 <= m1.portal[x].s2
      PROVE  x = y
  <2>1. CASE \E i \in {0, 1} : m.portal[x].area[i] = m.portal[y].area[i]
    BY <1>1, <1>3, <2>1, EdgeShared
  <2>2. CASE ~ \E i \in {0, 1} : m.portal[x].area[i] = m.portal[y].area[i]
    <3>1. \A i \in {0, 1} : m.portal[x].area[i] \in {L, R}
      BY <1>1, <1>2, <1>3, <2>2 DEF OwnerOf
    <3> QED BY <1>1, <1>3, <3>1, BetweenOnly
  <2> QED BY <2>1, <2>2
<1>4. ASSUME NEW x \in DOMAIN m1.portal, NEW y \in DOMAIN m1.portal, SamePair(m1, x, y),
             m1.portal[x].area[0] # keep, m1.portal[x].area[1] # keep
      PROVE  x = y
  <2>1. \A i \in {0, 1} : m.portal[x].area[i] = m.portal[y].area[i]
    BY <1>1, <1>2, <1>4 DEF OwnerOf
  <2>2. SamePair(m, x, y)
    BY <1>1, <1>4, <2>1 DEF SamePair
  <2> QED BY <1>1, <1>4, <2>2 DEF Paired
<1> QED BY <1>3, <1>4 DEF Apart, PairedBut

LEMMA UnitedCovered ==
  ASSUME NEW m, Rectangles(m), Covered(m, {}),
         NEW p, NEW dir, NEW L, NEW R, Even(m, p, dir, L, R), NEW keep, NEW m1, United(m, m1, p, dir, L, R, keep)
  PROVE  Covered(m1, {})
<1> SUFFICES ASSUME NEW d \in Dirs, NEW e \in Int, NEW l \in Int,
                    At(d, e, l) \in DOMAIN m1.area, At(d, e + 1, l) \in DOMAIN m1.area,
                    m1.area[At(d, e, l)] # m1.area[At(d, e + 1, l)]
             PROVE  \E q \in DOMAIN m1.portal : Leads(m1, q, d, At(d, e, l), At(d, e + 1, l), l)
  BY DEF Covered
<1> DEFINE x == At(d, e, l)
           y == At(d, e + 1, l)
<1>1. /\ m1.area = [t \in DOMAIN m.area |-> OwnerOf(L, R, keep, m.area[t])]
      /\ DOMAIN m1.portal = DOMAIN m.portal \ {p}
  BY DEF United
<1>2. x \in DOMAIN m.area /\ y \in DOMAIN m.area /\ OwnerOf(L, R, keep, m.area[x]) # OwnerOf(L, R, keep, m.area[y])
  BY <1>1
<1>3. m.area[x] # m.area[y]
  BY <1>2
<1>4. PICK q \in DOMAIN m.portal : Leads(m, q, d, x, y, l)
  BY <1>2, <1>3 DEF Covered
<1> HIDE DEF x, y
<1>5. q # p
  BY <1>2, <1>4 DEF Leads, Even, OwnerOf
<1>6. q \in DOMAIN m1.portal
  BY <1>1, <1>5
<1>7. Leads(m1, q, d, x, y, l)
  BY <1>1, <1>2, <1>4, <1>6 DEF Leads, United
<1> QED BY <1>6, <1>7 DEF x, y

-----------------------------------------------------------------------------
(* Two areas become one: rings *)

\* The values of the sides of an area whose rectangle starts at n, but for those on the left
\* or above, are between these two, and the values of the sides of one that ends before n,
\* but for those on the right or below, are not.
LowAt(dir, n) == IF dir = VERTICAL THEN n ELSE 100000 + n
HighAt(dir, n) == IF dir = VERTICAL THEN 300000 - n ELSE 400000 - n

LEMMA ValuesOutside ==
  ASSUME NEW dir \in Dirs, NEW n \in Int, 0 < n, n < 255,
         NEW d \in Dirs, NEW s1 \in Int, NEW s2 \in Int, 0 < s1, s1 <= s2, s2 < 255, NEW j \in {0, 1},
         d # dir => s2 < n, d = dir => j = 1
  PROVE  ValueAt(d, s1, s2, j) < LowAt(dir, n) \/ HighAt(dir, n) < ValueAt(d, s1, s2, j)
  BY SMT DEF ValueAt, Dirs, HORIZONTAL, VERTICAL, LowAt, HighAt

LEMMA ValuesInside ==
  ASSUME NEW dir \in Dirs, NEW n \in Int, 0 < n, n < 255,
         NEW d \in Dirs, NEW s1 \in Int, NEW s2 \in Int, 0 < s1, s1 <= s2, s2 < 255, NEW j \in {0, 1},
         d # dir => n <= s1, d = dir => j = 0
  PROVE  LowAt(dir, n) <= ValueAt(d, s1, s2, j) /\ ValueAt(d, s1, s2, j) <= HighAt(dir, n)
  BY SMT DEF ValueAt, Dirs, HORIZONTAL, VERTICAL, LowAt, HighAt

LEMMA BoundsAreInt == ASSUME NEW dir \in Dirs, NEW n \in Int PROVE LowAt(dir, n) \in Int /\ HighAt(dir, n) \in Int
  BY SMT DEF LowAt, HighAt

LEMMA SortedAgree ==
  ASSUME NEW S, NEW next, NEW prev, NEW area, NEW val, Sorted(S, next, prev, area, val),
         NEW area2, Agree(S, area, area2), NEW val2, Agree(S, val, val2)
  PROVE  Sorted(S, next, prev, area2, val2)
<1>1. Linked(S, next, prev, area2)
  BY DEF Sorted, Linked, Agree
<1>2. next \in [S -> S]
  BY DEF Sorted, Linked
<1>3. \A s \in S : val2[s] \in Int
  BY DEF Sorted, Agree
<1>4. Ordered(S, next, area2, val2)
  BY <1>2 DEF Sorted, Ordered, Agree
<1> QED BY <1>1, <1>3, <1>4 DEF Sorted

\* The sides of the two areas, as places around them.
LEMMA SidesOfPair ==
  ASSUME NEW m, MapInv(m, {}), Paired(m), NEW p, NEW dir, NEW L, NEW R, Even(m, p, dir, L, R),
         NEW t \in Sides(m), NEW n, n = Near(m.rect[R], dir)
  PROVE  /\ AreaOf(m, t) = L /\ t # <<p, 0>> => Value(m, t) < LowAt(dir, n) \/ HighAt(dir, n) < Value(m, t)
         /\ AreaOf(m, t) = R /\ t # <<p, 1>> => LowAt(dir, n) <= Value(m, t) /\ Value(m, t) <= HighAt(dir, n)
         /\ t = <<p, 0>> => LowAt(dir, n) <= Value(m, t) /\ Value(m, t) <= HighAt(dir, n)
         /\ t = <<p, 1>> => Value(m, t) < LowAt(dir, n) \/ HighAt(dir, n) < Value(m, t)
<1> DEFINE q == t[1]
           j == t[2]
           d == m.portal[q].dir
           s1 == m.portal[q].s1
           s2 == m.portal[q].s2
<1>0. Rectangles(m) /\ PortalsSound(m)
  BY DEF MapInv
<1>1. /\ dir \in Dirs /\ L \in DOMAIN m.rect /\ R \in DOMAIN m.rect /\ L # R
      /\ Near(m.rect[L], dir) \in Int /\ Far(m.rect[L], dir) \in Int
      /\ n \in Int /\ Far(m.rect[L], dir) + 1 = n
  BY <1>0, EvenIs
<1>2. 0 < n /\ n < 255
  <2>1. 0 < n /\ Far(m.rect[R], dir) < 255 /\ n <= Far(m.rect[R], dir) /\ Far(m.rect[R], dir) \in Int
    BY <1>0, <1>1, RectIs
  <2> QED BY <1>1, <2>1
<1>3. /\ t = <<q, j>> /\ q \in DOMAIN m.portal /\ j \in {0, 1} /\ d \in Dirs
      /\ s1 \in Int /\ s2 \in Int /\ 0 < s1 /\ s1 <= s2 /\ s2 < 255
      /\ Value(m, t) = ValueAt(d, s1, s2, j) /\ AreaOf(m, t) = m.portal[q].area[j]
  BY <1>0, SideInfo
<1>4. /\ Low(m.rect[AreaOf(m, t)], d) <= s1 /\ s2 <= High(m.rect[AreaOf(m, t)], d)
  <2>1. Ends(m, d, m.portal[q].area[0], m.portal[q].area[1], s1, s2)
    BY <1>0, <1>3, PortalEnds
  <2>2. /\ Low(m.rect[m.portal[q].area[0]], d) <= s1 /\ Low(m.rect[m.portal[q].area[1]], d) <= s1
        /\ s2 <= High(m.rect[m.portal[q].area[0]], d) /\ s2 <= High(m.rect[m.portal[q].area[1]], d)
    BY ONLY <2>1 DEF Ends
  <2> HIDE DEF q, j, d, s1, s2
  <2>3. CASE j = 0
    BY ONLY <1>3, <2>2, <2>3
  <2>4. CASE j = 1
    BY ONLY <1>3, <2>2, <2>4
  <2> QED BY ONLY <1>3, <2>3, <2>4
<1>5. d # dir => Low(m.rect[AreaOf(m, t)], d) = Near(m.rect[AreaOf(m, t)], dir)
                 /\ High(m.rect[AreaOf(m, t)], d) = Far(m.rect[AreaOf(m, t)], dir)
  BY <1>1, <1>3, AcrossDir
<1> HIDE DEF q, j, d, s1, s2
<1>6. d = dir /\ AreaOf(m, t) = L /\ t # <<p, 0>> => j = 1
  <2> SUFFICES ASSUME d = dir, AreaOf(m, t) = L, j = 0 PROVE t = <<p, 0>>
    BY <1>3
  <2>1. m.portal[q].area[0] = L
    BY <1>3
  <2>2. q = p
    BY <1>0, <1>3, <2>1, EdgeOnly DEF d
  <2> QED BY <1>3, <2>2
<1>7. d = dir /\ AreaOf(m, t) = R /\ t # <<p, 1>> => j = 0
  <2> SUFFICES ASSUME d = dir, AreaOf(m, t) = R, j = 1 PROVE t = <<p, 1>>
    BY <1>3
  <2>1. m.portal[q].area[1] = R
    BY <1>3
  <2>2. q = p
    BY <1>0, <1>3, <2>1, EdgeOnly DEF d
  <2> QED BY <1>3, <2>2
<1>8. q = p => d = dir
  BY DEF Even, d
<1>9. ASSUME AreaOf(m, t) = L, t # <<p, 0>> PROVE Value(m, t) < LowAt(dir, n) \/ HighAt(dir, n) < Value(m, t)
  <2>1. d # dir => s2 < n
    BY <1>1, <1>3, <1>4, <1>5, <1>9
  <2>2. d = dir => j = 1
    BY <1>6, <1>9
  <2>3. ValueAt(d, s1, s2, j) < LowAt(dir, n) \/ HighAt(dir, n) < ValueAt(d, s1, s2, j)
    BY ONLY <1>1, <1>2, <1>3, <2>1, <2>2, ValuesOutside
  <2> QED BY ONLY <1>3, <2>3
<1>10. ASSUME AreaOf(m, t) = R, t # <<p, 1>> PROVE LowAt(dir, n) <= Value(m, t) /\ Value(m, t) <= HighAt(dir, n)
  <2>1. d # dir => n <= s1
    BY <1>1, <1>3, <1>4, <1>5, <1>10
  <2>2. d = dir => j = 0
    BY <1>7, <1>10
  <2>3. LowAt(dir, n) <= ValueAt(d, s1, s2, j) /\ ValueAt(d, s1, s2, j) <= HighAt(dir, n)
    BY ONLY <1>1, <1>2, <1>3, <2>1, <2>2, ValuesInside
  <2> QED BY ONLY <1>3, <2>3
<1>11. ASSUME t = <<p, 0>> PROVE LowAt(dir, n) <= Value(m, t) /\ Value(m, t) <= HighAt(dir, n)
  <2>1. d = dir /\ j = 0
    BY <1>3, <1>8, <1>11
  <2>2. d # dir => n <= s1
    BY <2>1
  <2>3. LowAt(dir, n) <= ValueAt(d, s1, s2, j) /\ ValueAt(d, s1, s2, j) <= HighAt(dir, n)
    BY ONLY <1>1, <1>2, <1>3, <2>1, <2>2, ValuesInside
  <2> QED BY ONLY <1>3, <2>3
<1>12. ASSUME t = <<p, 1>> PROVE Value(m, t) < LowAt(dir, n) \/ HighAt(dir, n) < Value(m, t)
  <2>1. d = dir /\ j = 1
    BY <1>3, <1>8, <1>12
  <2>2. d # dir => s2 < n
    BY <2>1
  <2>3. ValueAt(d, s1, s2, j) < LowAt(dir, n) \/ HighAt(dir, n) < ValueAt(d, s1, s2, j)
    BY ONLY <1>1, <1>2, <1>3, <2>1, <2>2, ValuesOutside
  <2> QED BY ONLY <1>3, <2>3
<1> QED BY <1>9, <1>10, <1>11, <1>12

LEMMA UnitedSides ==
  ASSUME NEW m, PortalsSound(m), NEW p, NEW dir, NEW L, NEW R, Even(m, p, dir, L, R),
         NEW keep, NEW m1, United(m, m1, p, dir, L, R, keep)
  PROVE  /\ Sides(m1) = Sides(m) \ {<<p, 0>>, <<p, 1>>} /\ <<p, 0>> \in Sides(m) /\ <<p, 1>> \in Sides(m)
         /\ AreaOf(m, <<p, 0>>) = L /\ AreaOf(m, <<p, 1>>) = R
         /\ \A t \in Sides(m1) : /\ AreaOf(m1, t) = OwnerOf(L, R, keep, AreaOf(m, t))
                                 /\ Value(m1, t) = Value(m, t)
<1>1. DOMAIN m1.portal = DOMAIN m.portal \ {p} /\ p \in DOMAIN m.portal
  BY DEF United, Even
<1>2. Sides(m1) = Sides(m) \ {<<p, 0>>, <<p, 1>>} /\ <<p, 0>> \in Sides(m) /\ <<p, 1>> \in Sides(m)
  BY <1>1 DEF Sides
<1>3. AreaOf(m, <<p, 0>>) = L /\ AreaOf(m, <<p, 1>>) = R
  BY DEF AreaOf, Even
<1>4. ASSUME NEW t \in Sides(m1)
      PROVE  AreaOf(m1, t) = OwnerOf(L, R, keep, AreaOf(m, t)) /\ Value(m1, t) = Value(m, t)
  <2>1. t[1] \in DOMAIN m1.portal /\ t[2] \in {0, 1}
    BY DEF Sides
  <2>2. /\ m1.portal[t[1]].dir = m.portal[t[1]].dir
        /\ m1.portal[t[1]].s1 = m.portal[t[1]].s1 /\ m1.portal[t[1]].s2 = m.portal[t[1]].s2
        /\ m1.portal[t[1]].area[t[2]] = OwnerOf(L, R, keep, m.portal[t[1]].area[t[2]])
    BY <2>1 DEF United
  <2> QED BY <2>2 DEF AreaOf, Value, Direction
<1> QED BY <1>2, <1>3, <1>4

LEMMA UnitedSorted ==
  ASSUME NEW m, MapInv(m, {}), Paired(m), NEW p, NEW dir, NEW L, NEW R, Even(m, p, dir, L, R),
         NEW keep, NEW m1, United(m, m1, p, dir, L, R, keep), NEW T, T = Sides(m1), NEW X, X = <<p, 0>>, NEW Y, Y = <<p, 1>>,
         Across(T, m.next, m.prev, X, Y, m1.next), Across(T, m.prev, m.next, X, Y, m1.prev)
  PROVE  Sorted(T, m1.next, m1.prev, [t \in T |-> AreaOf(m1, t)], [t \in T |-> Value(m1, t)])
<1> DEFINE S == Sides(m)
           n == Near(m.rect[R], dir)
           low == LowAt(dir, n)
           high == HighAt(dir, n)
           area == [t \in S |-> AreaOf(m, t)]
           val == [t \in S |-> Value(m, t)]
           area2 == [t \in T |-> AreaOf(m1, t)]
           val2 == [t \in T |-> Value(m1, t)]
<1>0. Rectangles(m) /\ PortalsSound(m) /\ Sorted(S, m.next, m.prev, area, val)
  BY DEF MapInv, Ringed
<1>1. /\ T = S \ {X, Y} /\ X \in S /\ Y \in S /\ AreaOf(m, X) = L /\ AreaOf(m, Y) = R
      /\ \A t \in T : AreaOf(m1, t) = OwnerOf(L, R, keep, AreaOf(m, t)) /\ Value(m1, t) = Value(m, t)
  BY <1>0, UnitedSides
<1>2. dir \in Dirs /\ n \in Int /\ L # R /\ keep \in {L, R}
  BY <1>0, EvenIs DEF United
<1>3. low \in Int /\ high \in Int
  BY <1>2, BoundsAreInt
<1>4. /\ \A t \in S : area[t] = AreaOf(m, t) /\ val[t] = Value(m, t)
      /\ \A t \in T : area2[t] = AreaOf(m1, t) /\ val2[t] = Value(m1, t)
  OBVIOUS
<1>5. \A t \in S :
         /\ AreaOf(m, t) = L /\ t # X => Value(m, t) < low \/ high < Value(m, t)
         /\ AreaOf(m, t) = R /\ t # Y => low <= Value(m, t) /\ Value(m, t) <= high
         /\ t = X => low <= Value(m, t) /\ Value(m, t) <= high
         /\ t = Y => Value(m, t) < low \/ high < Value(m, t)
  BY SidesOfPair
<1> HIDE DEF S, n, low, high, area, val, area2, val2
<1>6. area[X] # area[Y] /\ area[X] = L /\ area[Y] = R
  BY <1>1, <1>2, <1>4
<1>7. low <= val[X] /\ val[X] <= high /\ (val[Y] < low \/ high < val[Y])
  BY <1>1, <1>4, <1>5
<1>8. Outside(T, area, area[X], val, low, high)
  BY <1>1, <1>4, <1>5, <1>6 DEF Outside
<1>9. Inside(T, area, area[Y], val, low, high)
  BY <1>1, <1>4, <1>5, <1>6 DEF Inside
<1>10. OneArea(T, area, area[X], area[Y], area2)
  <2> SUFFICES ASSUME NEW t \in T, NEW u \in T
               PROVE  area2[t] = area2[u] <=> area[t] = area[u] \/ {area[t], area[u]} = {area[X], area[Y]}
    BY DEF OneArea
  <2>1. area2[t] = OwnerOf(L, R, keep, area[t]) /\ area2[u] = OwnerOf(L, R, keep, area[u])
    BY <1>1, <1>4
  <2> QED BY <1>2, <1>6, <2>1 DEF OwnerOf
<1>11. Sorted(T, m1.next, m1.prev, area2, val)
  BY ONLY <1>0, <1>1, <1>3, <1>6, <1>7, <1>8, <1>9, <1>10, RingsSpliced,
     Across(T, m.next, m.prev, X, Y, m1.next), Across(T, m.prev, m.next, X, Y, m1.prev)
<1>12. Agree(T, val, val2) /\ Agree(T, area2, area2)
  BY <1>1, <1>4 DEF Agree
<1>13. Sorted(T, m1.next, m1.prev, area2, val2)
  BY <1>11, <1>12, SortedAgree
<1> QED BY <1>13 DEF area2, val2

LEMMA AloneRing ==
  ASSUME NEW m, MapInv(m, {}), NEW s \in Sides(m), m.next[s] = s,
         NEW t \in Sides(m), AreaOf(m, t) = AreaOf(m, s)
  PROVE  t = s
<1> DEFINE area == [x \in Sides(m) |-> AreaOf(m, x)]
           val == [x \in Sides(m) |-> Value(m, x)]
<1>1. Sorted(Sides(m), m.next, m.prev, area, val)
  BY DEF MapInv, Ringed
<1>2. area[s] = area[t]
  OBVIOUS
<1> HIDE DEF area, val
<1>3. val[s] \in Int /\ val[t] \in Int
  BY <1>1 DEF Sorted
<1>4. (val[s] = val[t] => s = t) /\ ~Passed(val[s], val[s], val[t])
  BY <1>1, <1>2 DEF Sorted, Ordered
<1> QED BY <1>3, <1>4 DEF Passed

\* Where the ring of two areas starts.
FirstAfter(m, s1, s2, keep, gone, alone1, alone2) ==
  IF alone1 /\ alone2 THEN Without(Without(m.first, gone), keep)
  ELSE [Without(m.first, gone) EXCEPT ![keep] = IF alone1 THEN m.next[s2] ELSE m.next[s1]]

\* The sides T by area, when area keep has taken over area gone.
TakenOver(m, T, keep, gone, area) ==
  \A t \in T : area[t] = IF AreaOf(m, t) = gone THEN keep ELSE AreaOf(m, t)

FirstsOf(T, area, first) ==
  first \in [{area[t] : t \in T} -> T] /\ \A t \in T : area[first[area[t]]] = area[t]

LEMMA FirstsAfter ==
  ASSUME NEW m, MapInv(m, {}), NEW S, S = Sides(m), NEW s1 \in S, NEW s2 \in S, NEW T, T = S \ {s1, s2},
         NEW keep, keep = AreaOf(m, s1), NEW gone, gone = AreaOf(m, s2), keep # gone,
         NEW alone1, NEW alone2, alone1 <=> m.next[s1] = s1, alone2 <=> m.next[s2] = s2,
         NEW first, first = FirstAfter(m, s1, s2, keep, gone, alone1, alone2),
         NEW area, TakenOver(m, T, keep, gone, area)
  PROVE  FirstsOf(T, area, first)
<1> USE DEF TakenOver, FirstsOf
<1> DEFINE after == IF alone1 THEN m.next[s2] ELSE m.next[s1]
           A == {AreaOf(m, t) : t \in S}
           B == {area[t] : t \in T}
<1>1. /\ m.first \in [A -> S] /\ \A a \in A : AreaOf(m, m.first[a]) = a
      /\ \A t \in S : m.next[t] \in S /\ AreaOf(m, m.next[t]) = AreaOf(m, t)
  <2>1. Ringed(m, S)
    BY DEF MapInv
  <2>2. \A t \in S : m.next[t] \in S /\ AreaOf(m, m.next[t]) = AreaOf(m, t)
    BY <2>1 DEF Ringed, Sorted, Linked
  <2> QED BY <2>1, <2>2 DEF Ringed
<1>2. keep \in A /\ gone \in A
  OBVIOUS
<1>3. B \subseteq A \ {gone}
  BY <1>2
<1>4. \A a \in A \ {keep, gone} : a \in B /\ m.first[a] \in T /\ area[m.first[a]] = a
  <2> SUFFICES ASSUME NEW a \in A \ {keep, gone} PROVE a \in B /\ m.first[a] \in T /\ area[m.first[a]] = a
    OBVIOUS
  <2>1. m.first[a] \in S /\ AreaOf(m, m.first[a]) = a
    BY <1>1
  <2>2. m.first[a] \in T
    BY <2>1
  <2>3. area[m.first[a]] = a
    BY <2>1, <2>2
  <2> QED BY <2>2, <2>3
<1> HIDE DEF A
<1>5. CASE alone1 /\ alone2
  <2>1. first = Without(Without(m.first, gone), keep)
    BY <1>5 DEF FirstAfter
  <2>2. DOMAIN first = A \ {keep, gone} /\ first = [a \in A \ {keep, gone} |-> m.first[a]]
    BY <1>1, <2>1 DEF Without
  <2>3. keep \notin B
    <3> SUFFICES ASSUME NEW t \in T, area[t] = keep PROVE FALSE
      OBVIOUS
    <3>1. AreaOf(m, t) = keep \/ AreaOf(m, t) = gone
      OBVIOUS
    <3>2. t = s1 \/ t = s2
      BY <1>5, <3>1, AloneRing
    <3> QED BY <3>2
  <2>4. B = A \ {keep, gone}
    BY <1>3, <1>4, <2>3
  <2> QED BY <1>4, <2>2, <2>4
<1>6. CASE ~(alone1 /\ alone2)
  <2>1. after \in T /\ area[after] = keep
    <3>1. CASE alone1
      <4>1. m.next[s2] \in S /\ AreaOf(m, m.next[s2]) = gone /\ m.next[s2] # s2
        BY <1>1, <1>6, <3>1
      <4>2. after = m.next[s2] /\ after \in T
        BY <3>1, <4>1
      <4> QED BY <4>1, <4>2
    <3>2. CASE ~alone1
      <4>1. m.next[s1] \in S /\ AreaOf(m, m.next[s1]) = keep /\ m.next[s1] # s1
        BY <1>1, <3>2
      <4>2. after = m.next[s1] /\ after \in T
        BY <3>2, <4>1
      <4> QED BY <4>1, <4>2
    <3> QED BY <3>1, <3>2
  <2>2. first = [Without(m.first, gone) EXCEPT ![keep] = after]
    BY <1>6 DEF FirstAfter
  <2> HIDE DEF after
  <2>3. /\ DOMAIN first = A \ {gone} /\ first = [a \in A \ {gone} |-> first[a]]
        /\ first[keep] = after /\ \A a \in A \ {keep, gone} : first[a] = m.first[a]
    BY <1>1, <1>2, <2>2 DEF Without
  <2>4. keep \in B
    BY <2>1
  <2>5. B = A \ {gone}
    BY <1>3, <1>4, <2>4
  <2>6. \A b \in B : first[b] \in T /\ area[first[b]] = b
    BY <1>4, <2>1, <2>3, <2>5
  <2>7. first \in [B -> T]
    <3> HIDE DEF B
    <3> QED BY <2>3, <2>5, <2>6
  <2> QED BY <2>6, <2>7
<1> QED BY <1>5, <1>6

\* What map_zap_portal makes of the rings.
Joined(m, m1, s1, s2, keep, gone, alone1, alone2) ==
  /\ m1.next = Bridged(m.next, m.prev, s1, s2, alone1, alone2)
  /\ m1.prev = Bridged(m.prev, m.next, s1, s2, alone1, alone2)
  /\ m1.first = FirstAfter(m, s1, s2, keep, gone, alone1, alone2)

LEMMA UnitedRinged ==
  ASSUME NEW m, MapInv(m, {}), Paired(m), NEW p, NEW dir, NEW L, NEW R, Even(m, p, dir, L, R),
         NEW keep, NEW m1, United(m, m1, p, dir, L, R, keep),
         NEW s1 \in Sides(m), s1[1] = p, NEW s2, s2 = Other(s1), keep = AreaOf(m, s1), NEW gone, gone = AreaOf(m, s2),
         NEW alone1, NEW alone2, alone1 <=> m.next[s1] = s1, alone2 <=> m.next[s2] = s2,
         Joined(m, m1, s1, s2, keep, gone, alone1, alone2)
  PROVE  Ringed(m1, Sides(m1))
<1> DEFINE S == Sides(m)
           T == Sides(m1)
           X == <<p, 0>>
           Y == <<p, 1>>
           area == [t \in S |-> AreaOf(m, t)]
           val == [t \in S |-> Value(m, t)]
           area1 == [t \in T |-> AreaOf(m1, t)]
<1>0. Rectangles(m) /\ PortalsSound(m) /\ Ringed(m, S)
  BY DEF MapInv
<1>1. /\ T = S \ {X, Y} /\ X \in S /\ Y \in S /\ AreaOf(m, X) = L /\ AreaOf(m, Y) = R
      /\ \A t \in T : AreaOf(m1, t) = OwnerOf(L, R, keep, AreaOf(m, t)) /\ Value(m1, t) = Value(m, t)
  BY <1>0, UnitedSides
<1>2. L # R /\ keep \in {L, R}
  BY <1>0, EvenIs DEF United
<1>3. (s1 = X /\ s2 = Y) \/ (s1 = Y /\ s2 = X)
  BY DEF Sides, Other
<1>4. s2 \in S /\ T = S \ {s1, s2} /\ gone \in {L, R} /\ keep # gone
  BY <1>1, <1>2, <1>3
<1>5. Linked(S, m.next, m.prev, area) /\ IsFiniteSet(S)
  BY <1>0 DEF Ringed, Sorted
<1>6. Linked(S, m.prev, m.next, area)
  BY <1>5, LinkedBack
<1>7. area[s1] # area[s2]
  BY <1>4
<1>a. \A t \in T : area1[t] = AreaOf(m1, t)
  OBVIOUS
<1>b. {AreaOf(m1, t) : t \in T} = {area1[t] : t \in T}
  BY <1>a
<1> HIDE DEF S, T, X, Y, area, area1
<1>8. (alone1 <=> m.prev[s1] = s1) /\ (alone2 <=> m.prev[s2] = s2)
  BY <1>4, <1>5, AloneIs DEF S
<1>9. Across(T, m.next, m.prev, s1, s2, m1.next) /\ Across(T, m.next, m.prev, s2, s1, m1.next)
  BY <1>4, <1>5, <1>7, BridgedIs DEF Joined, S
<1>10. Across(T, m.prev, m.next, s1, s2, m1.prev) /\ Across(T, m.prev, m.next, s2, s1, m1.prev)
  BY <1>4, <1>6, <1>7, <1>8, BridgedIs DEF Joined, S
<1>11. Across(T, m.next, m.prev, X, Y, m1.next) /\ Across(T, m.prev, m.next, X, Y, m1.prev)
  BY <1>3, <1>9, <1>10
<1>12. Sorted(T, m1.next, m1.prev, [t \in T |-> AreaOf(m1, t)], [t \in T |-> Value(m1, t)])
  BY <1>11, UnitedSorted DEF T, X, Y
<1>13. TakenOver(m, T, keep, gone, area1)
  BY <1>1, <1>2, <1>4, <1>a DEF OwnerOf, TakenOver
<1>14. m1.first = FirstAfter(m, s1, s2, keep, gone, alone1, alone2)
  BY DEF Joined
<1>15. m1.first \in [{area1[t] : t \in T} -> T] /\ \A t \in T : area1[m1.first[area1[t]]] = area1[t]
  <2>1. FirstsOf(T, area1, m1.first)
    BY <1>4, <1>13, <1>14, FirstsAfter DEF S
  <2> QED BY <2>1 DEF FirstsOf
<1>16. m1.first \in [{AreaOf(m1, t) : t \in T} -> T]
  BY <1>b, <1>15
<1>17. \A t \in T : AreaOf(m1, m1.first[AreaOf(m1, t)]) = AreaOf(m1, t)
  <2> SUFFICES ASSUME NEW t \in T PROVE AreaOf(m1, m1.first[AreaOf(m1, t)]) = AreaOf(m1, t)
    OBVIOUS
  <2>1. m1.first[area1[t]] \in T
    BY <1>15
  <2> QED BY <1>15, <1>a, <2>1
<1>18. IsFiniteSet(T)
  BY <1>1, <1>5, FS_Subset
<1> QED BY <1>12, <1>16, <1>17, <1>18 DEF Ringed, T

LEMMA BoxIs ==
  ASSUME NEW m, Rectangles(m), NEW a \in DOMAIN m.rect, NEW t
  PROVE  t \in Box(m.rect[a]) <=> t \in DOMAIN m.area /\ m.area[t] = a
<1>0. /\ DOMAIN m.area \subseteq WithinBorder /\ m.rect[a] \in Rect
      /\ \A x, y \in Int :
           /\ m.rect[a].x1 <= x /\ x <= m.rect[a].x2 /\ m.rect[a].y1 <= y /\ y <= m.rect[a].y2
           <=> <<x, y>> \in DOMAIN m.area /\ m.area[<<x, y>>] = a
  BY DEF Rectangles
<1>1. ASSUME t \in Box(m.rect[a]) PROVE t \in DOMAIN m.area /\ m.area[t] = a
  <2>1. PICK x \in m.rect[a].x1 .. m.rect[a].x2, y \in m.rect[a].y1 .. m.rect[a].y2 : t = <<x, y>>
    BY <1>1 DEF Box
  <2>2. x \in Int /\ y \in Int /\ m.rect[a].x1 <= x /\ x <= m.rect[a].x2 /\ m.rect[a].y1 <= y /\ y <= m.rect[a].y2
    BY <1>0 DEF Rect
  <2> QED BY <1>0, <2>1, <2>2
<1>2. ASSUME t \in DOMAIN m.area, m.area[t] = a PROVE t \in Box(m.rect[a])
  <2>1. PICK x \in Int, y \in Int : t = <<x, y>>
    BY <1>0, <1>2, SizeAssumption DEF WithinBorder
  <2>2. m.rect[a].x1 <= x /\ x <= m.rect[a].x2 /\ m.rect[a].y1 <= y /\ y <= m.rect[a].y2
    BY <1>0, <1>2, <2>1
  <2>3. x \in m.rect[a].x1 .. m.rect[a].x2 /\ y \in m.rect[a].y1 .. m.rect[a].y2
    BY <1>0, <2>2 DEF Rect
  <2> QED BY <2>1, <2>3 DEF Box
<1> QED BY <1>1, <1>2

LEMMA GrownIs ==
  ASSUME NEW r1 \in Rect, NEW r2 \in Rect, NEW dir \in Dirs, NEW G, G = Grown(r1, r2, dir)
  PROVE  /\ G \in Rect /\ Low(G, dir) = Low(r1, dir) /\ High(G, dir) = High(r1, dir)
         /\ Near(G, dir) = Smaller(Near(r1, dir), Near(r2, dir))
         /\ Far(G, dir) = Larger(Far(r1, dir), Far(r2, dir))
<1>1. CASE dir = HORIZONTAL
  <2>0. dir # VERTICAL
    BY <1>1 DEF HORIZONTAL, VERTICAL
  <2>1. G = [r1 EXCEPT !.y1 = Smaller(r1.y1, r2.y1), !.y2 = Larger(r1.y2, r2.y2)]
    BY <1>1 DEF Grown
  <2>2. Smaller(r1.y1, r2.y1) \in Int /\ Larger(r1.y2, r2.y2) \in Int
    BY DEF Rect, Smaller, Larger
  <2> QED BY <2>0, <2>1, <2>2 DEF Rect, Low, High, Near, Far
<1>2. CASE dir # HORIZONTAL
  <2>0. dir = VERTICAL
    BY <1>2 DEF Dirs
  <2>1. G = [r1 EXCEPT !.x1 = Smaller(r1.x1, r2.x1), !.x2 = Larger(r1.x2, r2.x2)]
    BY <1>2 DEF Grown
  <2>2. Smaller(r1.x1, r2.x1) \in Int /\ Larger(r1.x2, r2.x2) \in Int
    BY DEF Rect, Smaller, Larger
  <2> QED BY <2>0, <2>1, <2>2 DEF Rect, Low, High, Near, Far
<1> QED BY <1>1, <1>2

LEMMA SplicedIs ==
  ASSUME NEW m, IsMap(m), NEW s1, NEW s2, NEW x, x = Spliced(m, s1, s2)
  PROVE  /\ DOMAIN x = Fields /\ x = [f \in DOMAIN x |-> x[f]]
         /\ Joined(m, x, s1, s2, AreaOf(m, s1), AreaOf(m, s2), m.next[s1] = s1, m.next[s2] = s2)
         /\ x.sound = m.sound
<1> DEFINE alone1 == m.next[s1] = s1
           alone2 == m.next[s2] = s2
           n == Bridged(m.next, m.prev, s1, s2, alone1, alone2)
           q == Bridged(m.prev, m.next, s1, s2, alone1, alone2)
           f == FirstAfter(m, s1, s2, AreaOf(m, s1), AreaOf(m, s2), alone1, alone2)
<1>0. DOMAIN m = Fields
  BY DEF IsMap, Fields
<1>1. x = [m EXCEPT !.next = n, !.prev = q, !.first = f]
  BY DEF Spliced, Bridged, FirstAfter
<1>2. DOMAIN x = Fields /\ x = [y \in DOMAIN x |-> x[y]]
  <2> HIDE DEF n, q, f
  <2> QED BY <1>0, <1>1
<1>3. x.next = n /\ x.prev = q /\ x.first = f /\ x.sound = m.sound
  <2> HIDE DEF n, q, f
  <2> QED BY <1>0, <1>1 DEF Fields
<1> QED BY <1>2, <1>3 DEF Joined

\* What m1 is when the area of side s of portal p has taken over the one on the other side.
AreaTaken(m, m1, s, p, dir, L, R) ==
  /\ Even(m, p, dir, L, R) /\ United(m, m1, p, dir, L, R, AreaOf(m, s))
  /\ IsMap(m1) /\ m1.sound = TRUE
  /\ Joined(m, m1, s, Other(s), AreaOf(m, s), AreaOf(m, Other(s)),
            m.next[s] = s, m.next[Other(s)] = Other(s))

\* The area of side s takes over the one on the other side.
LEMMA JoinedIs ==
  ASSUME NEW m, MapInv(m, {}), NEW s \in Sides(m), SameSide(m, s), NEW m1, m1 = AreasJoined(m, s),
         NEW p, p = s[1], NEW dir, dir = m.portal[p].dir,
         NEW L, L = m.portal[p].area[0], NEW R, R = m.portal[p].area[1]
  PROVE  AreaTaken(m, m1, s, p, dir, L, R)
<1> DEFINE i == s[2]
           a1 == AreaOf(m, s)
           a2 == AreaOf(m, Other(s))
           taken == RingSet(Ring(m, a2))
           own(q) == [j \in {0, 1} |-> IF <<q, j>> \in taken THEN a1 ELSE m.portal[q].area[j]]
           area == [t \in DOMAIN m.area |-> IF t \in Box(m.rect[a2]) THEN a1 ELSE m.area[t]]
           grown == Grown(m.rect[a1], m.rect[a2], dir)
           rect == Without([m.rect EXCEPT ![a1] = grown], a2)
           moved == [q \in DOMAIN m.portal |-> [m.portal[q] EXCEPT !.area = own(q)]]
           x == Spliced(m, s, Other(s))
<1>0. IsMap(m) /\ m.sound = TRUE /\ Rectangles(m) /\ PortalsSound(m)
  BY DEF MapInv
<1>1. m1 = [x EXCEPT !.area = area, !.rect = rect, !.portal = Without(moved, p)]
  BY DEF AreasJoined
<1>2. p \in DOMAIN m.portal /\ i \in {0, 1} /\ a1 = m.portal[p].area[i] /\ a2 = m.portal[p].area[1 - i]
  BY <1>0, SideInfo DEF AreaOf, Other
<1>3. (a1 = L /\ a2 = R) \/ (a1 = R /\ a2 = L)
  BY <1>2
<1>4. dir \in Dirs /\ L \in DOMAIN m.rect /\ R \in DOMAIN m.rect /\ L # R
      /\ Far(m.rect[L], dir) + 1 = Near(m.rect[R], dir)
  <2>1. Ends(m, dir, L, R, m.portal[p].s1, m.portal[p].s2)
    BY <1>0, <1>2, PortalEnds
  <2> QED BY ONLY <2>1 DEF Ends
<1>5. Low(m.rect[a1], dir) = Low(m.rect[a2], dir) /\ High(m.rect[a1], dir) = High(m.rect[a2], dir)
  <2>1. CASE dir = HORIZONTAL
    BY <2>1 DEF SameSide, Low, High, HORIZONTAL, VERTICAL
  <2>2. CASE dir # HORIZONTAL
    BY <1>4, <2>2 DEF SameSide, Low, High, Dirs
  <2> QED BY <2>1, <2>2
<1>6. taken = {t \in Sides(m) : AreaOf(m, t) = a2}
  BY RingOf
<1> HIDE DEF i, a1, a2, taken
<1>7. Even(m, p, dir, L, R)
  BY <1>2, <1>3, <1>5 DEF Even
<1>8. area = [t \in DOMAIN m.area |-> OwnerOf(L, R, a1, m.area[t])]
  <2>1. a2 \in DOMAIN m.rect
    BY <1>3, <1>4
  <2>2. \A t \in DOMAIN m.area : t \in Box(m.rect[a2]) <=> m.area[t] = a2
    BY <1>0, <2>1, BoxIs
  <2>3. ASSUME NEW t \in DOMAIN m.area
        PROVE  (IF t \in Box(m.rect[a2]) THEN a1 ELSE m.area[t]) = OwnerOf(L, R, a1, m.area[t])
    BY <1>3, <2>2 DEF OwnerOf
  <2> QED BY <2>3
<1>9. /\ Low(m.rect[L], dir) \in Int /\ High(m.rect[L], dir) \in Int
      /\ Low(m.rect[L], dir) = Low(m.rect[R], dir) /\ High(m.rect[L], dir) = High(m.rect[R], dir)
      /\ Near(m.rect[L], dir) \in Int /\ Far(m.rect[L], dir) \in Int
      /\ Near(m.rect[L], dir) <= Far(m.rect[L], dir)
      /\ Near(m.rect[R], dir) \in Int /\ Far(m.rect[R], dir) \in Int
      /\ Near(m.rect[R], dir) <= Far(m.rect[R], dir)
  BY ONLY <1>0, <1>7, EvenIs
<1>10. /\ grown \in Rect
       /\ Low(grown, dir) = Low(m.rect[L], dir) /\ High(grown, dir) = High(m.rect[L], dir)
       /\ Near(grown, dir) = Near(m.rect[L], dir) /\ Far(grown, dir) = Far(m.rect[R], dir)
  <2>1. m.rect[a1] \in Rect /\ m.rect[a2] \in Rect
    BY <1>0, <1>3, <1>4 DEF Rectangles
  <2>2. /\ grown \in Rect /\ Low(grown, dir) = Low(m.rect[a1], dir) /\ High(grown, dir) = High(m.rect[a1], dir)
        /\ Near(grown, dir) = Smaller(Near(m.rect[a1], dir), Near(m.rect[a2], dir))
        /\ Far(grown, dir) = Larger(Far(m.rect[a1], dir), Far(m.rect[a2], dir))
    <3> DEFINE b1 == m.rect[a1]
               b2 == m.rect[a2]
    <3>1. grown = Grown(b1, b2, dir) /\ b1 \in Rect /\ b2 \in Rect
      BY <2>1
    <3> HIDE DEF grown, b1, b2
    <3>2. /\ grown \in Rect /\ Low(grown, dir) = Low(b1, dir) /\ High(grown, dir) = High(b1, dir)
          /\ Near(grown, dir) = Smaller(Near(b1, dir), Near(b2, dir))
          /\ Far(grown, dir) = Larger(Far(b1, dir), Far(b2, dir))
      BY ONLY <1>4, <3>1, GrownIs
    <3> QED BY <3>2 DEF b1, b2
  <2> HIDE DEF grown
  <2>3. CASE a1 = L /\ a2 = R
    BY ONLY <1>4, <1>9, <2>2, <2>3 DEF Smaller, Larger
  <2>4. CASE a1 = R /\ a2 = L
    BY ONLY <1>4, <1>9, <2>2, <2>4 DEF Smaller, Larger
  <2> QED BY <1>3, <2>3, <2>4
<1> HIDE DEF area, grown
<1>11. /\ rect = [a \in DOMAIN rect |-> rect[a]] /\ DOMAIN rect = (DOMAIN m.rect \ {L, R}) \cup {a1}
       /\ \A a \in DOMAIN m.rect \ {L, R} : rect[a] = m.rect[a]
       /\ rect[a1] = grown
  <2>1. a1 \in DOMAIN m.rect /\ a1 # a2 /\ {L, R} = {a1, a2}
    BY <1>3, <1>4
  <2>2. DOMAIN rect = DOMAIN m.rect \ {a2}
    BY DEF Without
  <2>3. rect = [a \in DOMAIN rect |-> rect[a]]
    BY DEF Without
  <2>4. \A a \in DOMAIN rect : rect[a] = IF a = a1 THEN grown ELSE m.rect[a]
    BY <2>1 DEF Without
  <2> HIDE DEF rect
  <2> QED BY <2>1, <2>2, <2>3, <2>4
<1> HIDE DEF rect
<1> DEFINE portal == Without(moved, p)
<1>12. portal = [q \in DOMAIN portal |-> portal[q]] /\ DOMAIN portal = DOMAIN m.portal \ {p}
  BY DEF Without
<1>13. ASSUME NEW q \in DOMAIN m.portal \ {p}
       PROVE  /\ portal[q] \in [dir : Dirs, area : [{0, 1} -> DOMAIN rect], s1 : Int, s2 : Int]
              /\ portal[q].dir = m.portal[q].dir
              /\ portal[q].s1 = m.portal[q].s1 /\ portal[q].s2 = m.portal[q].s2
              /\ \A j \in {0, 1} : portal[q].area[j] = OwnerOf(L, R, a1, m.portal[q].area[j])
  <2>1. portal[q] = [m.portal[q] EXCEPT !.area = own(q)]
    BY DEF Without
  <2>2. m.portal[q] \in [dir : Dirs, area : [{0, 1} -> DOMAIN m.rect], s1 : Int, s2 : Int]
    BY <1>0 DEF PortalsSound, PortalSound
  <2>3. ASSUME NEW j \in {0, 1} PROVE own(q)[j] = OwnerOf(L, R, a1, m.portal[q].area[j])
    <3>1. <<q, j>> \in taken <=> m.portal[q].area[j] = a2
      BY <1>6 DEF Sides, AreaOf
    <3> QED BY <1>3, <3>1 DEF OwnerOf
  <2>4. \A j \in {0, 1} : m.portal[q].area[j] \in DOMAIN m.rect
    BY <2>2
  <2>5. own(q) \in [{0, 1} -> DOMAIN rect]
    <3>1. \A j \in {0, 1} : own(q)[j] \in DOMAIN rect
      BY ZenonT(60), <1>11, <2>3, <2>4 DEF OwnerOf
    <3> QED BY <3>1
  <2> HIDE DEF own, portal
  <2> QED BY <2>1, <2>2, <2>3, <2>5
<1> HIDE DEF portal, moved
<1>14. /\ DOMAIN x = Fields /\ x = [f \in DOMAIN x |-> x[f]]
       /\ Joined(m, x, s, Other(s), a1, a2, m.next[s] = s, m.next[Other(s)] = Other(s))
       /\ x.sound = m.sound
  BY <1>0, SplicedIs DEF a1, a2
<1> HIDE DEF x
<1>15. m1 = [x EXCEPT !.area = area, !.rect = rect, !.portal = portal]
  BY <1>1 DEF portal
<1>16. DOMAIN m1 = Fields /\ m1 = [f \in DOMAIN m1 |-> m1[f]]
  BY <1>14, <1>15
<1>17. /\ m1.area = area /\ m1.rect = rect /\ m1.portal = portal /\ m1.sound = TRUE
       /\ m1.next = x.next /\ m1.prev = x.prev /\ m1.first = x.first
  BY <1>0, <1>14, <1>15 DEF Fields
<1>18. IsMap(m1)
  BY <1>16, MapFields
<1>19. United(m, m1, p, dir, L, R, a1)
  <2>1. /\ a1 \in {L, R} /\ m1.area = [t \in DOMAIN m.area |-> OwnerOf(L, R, a1, m.area[t])]
        /\ m1.rect = [a \in DOMAIN m1.rect |-> m1.rect[a]] /\ DOMAIN m1.rect = (DOMAIN m.rect \ {L, R}) \cup {a1}
        /\ \A a \in DOMAIN m.rect \ {L, R} : m1.rect[a] = m.rect[a]
    BY ZenonT(60), <1>3, <1>8, <1>11, <1>17
  <2>2. /\ m1.rect[a1] \in Rect
        /\ Low(m1.rect[a1], dir) = Low(m.rect[L], dir) /\ High(m1.rect[a1], dir) = High(m.rect[L], dir)
        /\ Near(m1.rect[a1], dir) = Near(m.rect[L], dir) /\ Far(m1.rect[a1], dir) = Far(m.rect[R], dir)
    BY ZenonT(60), <1>10, <1>11, <1>17
  <2>3. /\ m1.portal = [q \in DOMAIN m1.portal |-> m1.portal[q]] /\ DOMAIN m1.portal = DOMAIN m.portal \ {p}
        /\ \A q \in DOMAIN m1.portal :
             /\ m1.portal[q] \in [dir : Dirs, area : [{0, 1} -> DOMAIN m1.rect], s1 : Int, s2 : Int]
             /\ m1.portal[q].dir = m.portal[q].dir
             /\ m1.portal[q].s1 = m.portal[q].s1 /\ m1.portal[q].s2 = m.portal[q].s2
             /\ \A j \in {0, 1} : m1.portal[q].area[j] = OwnerOf(L, R, a1, m.portal[q].area[j])
    BY <1>12, <1>13, <1>17
  <2> QED BY ONLY <2>1, <2>2, <2>3 DEF United
<1>20. Joined(m, m1, s, Other(s), a1, a2, m.next[s] = s, m.next[Other(s)] = Other(s))
  BY <1>14, <1>17 DEF Joined
<1> QED BY <1>7, <1>17, <1>18, <1>19, <1>20 DEF a1, a2, AreaTaken

-----------------------------------------------------------------------------
(* Merging areas until none is left to merge *)

LEMMA SameSideKept ==
  ASSUME NEW m, NEW m2, NEW q, m2.portal[q].dir = m.portal[q].dir,
         m2.portal[q].area[0] = m.portal[q].area[0], m2.portal[q].area[1] = m.portal[q].area[1],
         m2.rect[m.portal[q].area[0]] = m.rect[m.portal[q].area[0]],
         m2.rect[m.portal[q].area[1]] = m.rect[m.portal[q].area[1]]
  PROVE  SameSide(m2, <<q, 0>>) <=> SameSide(m, <<q, 0>>)
<1> DEFINE s == <<q, 0>>
<1>1. s[1] = q /\ s[2] = 0 /\ Other(s)[1] = q /\ Other(s)[2] = 1
  BY DEF Other
<1> HIDE DEF s
<1>2. /\ AreaOf(m, s) = m.portal[q].area[0] /\ AreaOf(m2, s) = m.portal[q].area[0]
      /\ AreaOf(m, Other(s)) = m.portal[q].area[1] /\ AreaOf(m2, Other(s)) = m.portal[q].area[1]
  BY <1>1 DEF AreaOf
<1>3. SameSide(m2, s) <=> SameSide(m, s)
  BY <1>1, <1>2 DEF SameSide
<1> QED BY <1>3 DEF s

LEMMA SameSideOther == ASSUME NEW m, NEW p, NEW i \in {0, 1}
                       PROVE  SameSide(m, <<p, i>>) <=> SameSide(m, <<p, 0>>)
<1>1. CASE i = 0
  BY <1>1
<1>2. CASE i = 1
  <2>1. Other(<<p, 1>>) = <<p, 0>> /\ Other(<<p, 0>>) = <<p, 1>>
    BY DEF Other
  <2> QED BY <1>2, <2>1 DEF SameSide
<1> QED BY <1>1, <1>2

\* Only area a may have neighbours to merge with.
Settled(m, a) ==
  \A q \in DOMAIN m.portal :
    m.portal[q].area[0] # a /\ m.portal[q].area[1] # a => ~SameSide(m, <<q, 0>>)

LEMMA UnitedSettled ==
  ASSUME NEW m, PortalsSound(m), NEW p, NEW dir, NEW L, NEW R, NEW a, Settled(m, a),
         NEW m1, United(m, m1, p, dir, L, R, a)
  PROVE  Settled(m1, a)
<1> SUFFICES ASSUME NEW q \in DOMAIN m1.portal, m1.portal[q].area[0] # a, m1.portal[q].area[1] # a
             PROVE  ~SameSide(m1, <<q, 0>>)
  BY DEF Settled
<1>1. /\ q \in DOMAIN m.portal /\ a \in {L, R} /\ m1.portal[q].dir = m.portal[q].dir
      /\ \A i \in {0, 1} : m1.portal[q].area[i] = OwnerOf(L, R, a, m.portal[q].area[i])
      /\ \A b \in DOMAIN m.rect \ {L, R} : m1.rect[b] = m.rect[b]
  BY DEF United
<1>2. \A i \in {0, 1} : m.portal[q].area[i] \in DOMAIN m.rect
  BY <1>1 DEF PortalsSound, PortalSound
<1>3. \A i \in {0, 1} : m.portal[q].area[i] \notin {L, R} /\ m1.portal[q].area[i] = m.portal[q].area[i]
  BY <1>1 DEF OwnerOf
<1>4. ~SameSide(m, <<q, 0>>)
  BY <1>1, <1>3 DEF Settled
<1>5. /\ m1.portal[q].area[0] = m.portal[q].area[0] /\ m1.portal[q].area[1] = m.portal[q].area[1]
      /\ m1.rect[m.portal[q].area[0]] = m.rect[m.portal[q].area[0]]
      /\ m1.rect[m.portal[q].area[1]] = m.rect[m.portal[q].area[1]]
  BY <1>1, <1>2, <1>3
<1> QED BY <1>1, <1>4, <1>5, SameSideKept

LEMMA MergesSettled == ASSUME NEW m, NEW m2, Merges(m, m2), NEW a, Settled(m, a) PROVE Settled(m2, a)
<1> SUFFICES ASSUME NEW q \in DOMAIN m2.portal, m2.portal[q].area[0] # a, m2.portal[q].area[1] # a
             PROVE  ~SameSide(m2, <<q, 0>>)
  BY DEF Settled
<1>1. q \in DOMAIN m.portal /\ m2.portal[q].dir = m.portal[q].dir /\ m2.portal[q].area = m.portal[q].area
      /\ m2.rect = m.rect
  BY DEF Merges
<1>2. ~SameSide(m, <<q, 0>>)
  BY <1>1 DEF Settled
<1> QED BY <1>1, <1>2, SameSideKept

\* map_zap_portal.
LEMMA ZapKeeps ==
  ASSUME NEW m, MapInv(m, {}), Paired(m), NEW s \in Sides(m), SameSide(m, s),
         NEW a, a = AreaOf(m, s), Settled(m, a), NEW m2, m2 = Zap(m, s)
  PROVE  /\ MapInv(m2, {}) /\ Paired(m2) /\ Settled(m2, a) /\ DOMAIN m2.area = DOMAIN m.area
         /\ Cardinality(DOMAIN m2.portal) + 1 <= Cardinality(DOMAIN m.portal)
<1> DEFINE m1 == AreasJoined(m, s)
           p == s[1]
           dir == m.portal[p].dir
           L == m.portal[p].area[0]
           R == m.portal[p].area[1]
           b == AreaOf(m, Other(s))
           alone1 == m.next[s] = s
           alone2 == m.next[Other(s)] = Other(s)
<1>0. m.sound = TRUE /\ Rectangles(m) /\ PortalsSound(m) /\ Apart(m) /\ Covered(m, {})
  BY DEF MapInv
<1>1. /\ Even(m, p, dir, L, R) /\ United(m, m1, p, dir, L, R, a)
      /\ IsMap(m1) /\ m1.sound = TRUE
      /\ Joined(m, m1, s, Other(s), a, b, alone1, alone2)
  <2>1. m1 = AreasJoined(m, s) /\ p = s[1] /\ dir = m.portal[p].dir /\ L = m.portal[p].area[0]
        /\ R = m.portal[p].area[1]
    OBVIOUS
  <2> HIDE DEF m1, p, dir, L, R, b, alone1, alone2
  <2>2. AreaTaken(m, m1, s, p, dir, L, R)
    BY ONLY SMTT(30), <2>1, JoinedIs, MapInv(m, {}), s \in Sides(m), SameSide(m, s)
  <2> QED BY ONLY <2>2, a = AreaOf(m, s) DEF b, alone1, alone2, AreaTaken
<1>2. a # b /\ b \in DOMAIN m.rect /\ p \in DOMAIN m.portal
  <2>1. Other(s) \in Sides(m) /\ a # b /\ p \in DOMAIN m.portal
    BY <1>0, SideInfo
  <2> QED BY <1>0, <2>1, SideInfo
<1>3. \A t \in Box(m.rect[b]) : m.area[t] = b
  BY <1>0, <1>2, BoxIs
<1>4. m2 = MergePortals(m1, a)
  BY <1>0, <1>2, <1>3 DEF Zap, Asserted
<1> HIDE DEF m1, p, dir, L, R, b, alone1, alone2
<1>5. Rectangles(m1) /\ PortalsSound(m1) /\ Apart(m1) /\ PairedBut(m1, a) /\ Covered(m1, {}) /\ Settled(m1, a)
  BY <1>0, <1>1, UnitedRectangles, UnitedPortals, UnitedApart, UnitedCovered, UnitedSettled
<1>6. Ringed(m1, Sides(m1))
  <2>1. s[1] = p /\ Other(s) = Other(s) /\ b = AreaOf(m, Other(s)) /\ (alone1 <=> m.next[s] = s)
        /\ (alone2 <=> m.next[Other(s)] = Other(s))
    BY DEF p, b, alone1, alone2
  <2> QED BY <1>1, <2>1, UnitedRinged
<1>7. MapInv(m1, {})
  BY <1>1, <1>5, <1>6 DEF MapInv
<1>8. MapInv(m2, {}) /\ Merges(m1, m2) /\ Paired(m2)
  BY <1>4, <1>5, <1>7, MergingPairs
<1>9. Settled(m2, a)
  BY <1>5, <1>8, MergesSettled
<1>10. DOMAIN m1.area = DOMAIN m.area /\ DOMAIN m1.portal = DOMAIN m.portal \ {p}
  BY <1>1 DEF United
<1>11. DOMAIN m2.area = DOMAIN m.area /\ DOMAIN m2.portal \subseteq DOMAIN m.portal \ {p}
  BY <1>8, <1>10 DEF Merges
<1>12. IsFiniteSet(DOMAIN m.portal) /\ Cardinality(DOMAIN m.portal) \in Nat
  BY PortalsFinite
<1>13. /\ IsFiniteSet(DOMAIN m.portal \ {p})
       /\ Cardinality(DOMAIN m.portal \ {p}) = Cardinality(DOMAIN m.portal) - 1
  BY <1>2, <1>12, FS_RemoveElement
<1>14. Cardinality(DOMAIN m2.portal) <= Cardinality(DOMAIN m.portal \ {p})
  BY <1>11, <1>13, FS_Subset
<1>15. Cardinality(DOMAIN m2.portal) \in Nat
  BY <1>8, PortalsFinite
<1> QED BY <1>8, <1>9, <1>11, <1>12, <1>13, <1>14, <1>15

\* What holds between two turns of map_area_merge.
Merging(m, a) == MapInv(m, {}) /\ Paired(m) /\ Settled(m, a)

LEMMA AreaMergedOnceKeeps ==
  ASSUME NEW m, NEW a, Merging(m, a), NEW m2, m2 = AreaMergedOnce(m, a)
  PROVE  /\ Merging(m2, a) /\ DOMAIN m2.area = DOMAIN m.area
         /\ \/ AreasToMerge(m, a) = {} /\ m2 = m
            \/ Cardinality(DOMAIN m2.portal) + 1 <= Cardinality(DOMAIN m.portal)
<1>1. CASE AreasToMerge(m, a) = {}
  BY <1>1 DEF AreaMergedOnce
<1>2. CASE AreasToMerge(m, a) # {}
  <2> DEFINE s == First(Ring(m, a), AreasToMerge(m, a))
  <2>0. MapInv(m, {}) /\ Paired(m) /\ Settled(m, a)
    BY DEF Merging
  <2>1. /\ s \in AreasToMerge(m, a)
        /\ AreasToMerge(m, a) \subseteq {t \in Sides(m) : AreaOf(m, t) = a}
    BY <1>2, <2>0, RingOf DEF AreasToMerge
  <2>2. s \in Sides(m) /\ AreaOf(m, s) = a /\ SameSide(m, s)
    BY <2>1 DEF AreasToMerge
  <2>3. m2 = Zap(m, s)
    BY <1>2 DEF AreaMergedOnce
  <2> HIDE DEF s
  <2>4. /\ MapInv(m2, {}) /\ Paired(m2) /\ Settled(m2, a) /\ DOMAIN m2.area = DOMAIN m.area
        /\ Cardinality(DOMAIN m2.portal) + 1 <= Cardinality(DOMAIN m.portal)
    BY <2>0, <2>2, <2>3, ZapKeeps
  <2> QED BY <2>4 DEF Merging
<1> QED BY <1>1, <1>2

IsAreaMerging(m, a, n, w) == w = [i \in 0 .. n |-> IF i = 0 THEN m ELSE AreaMergedOnce(w[i - 1], a)]

LEMMA AreaMergingExists == ASSUME NEW m, NEW a, NEW n \in Nat PROVE \E w : IsAreaMerging(m, a, n, w)
<1> DEFINE Bad == {k \in Nat : ~ \E w : IsAreaMerging(m, a, k, w)}
<1> SUFFICES ASSUME Bad # {} PROVE FALSE
  OBVIOUS
<1>1. PICK b \in Bad : \A k \in Bad : b <= k
  BY LeastOf
<1>2. b \in Nat /\ ~ \E w : IsAreaMerging(m, a, b, w)
  OBVIOUS
<1>3. CASE b = 0
  <2> DEFINE w == [i \in 0 .. 0 |-> m]
  <2>1. IsAreaMerging(m, a, 0, w)
    BY DEF IsAreaMerging
  <2> QED BY <1>2, <1>3, <2>1
<1>4. CASE b # 0
  <2>1. b - 1 \in Nat /\ b - 1 \notin Bad
    BY <1>1, <1>2, <1>4
  <2>2. PICK w : IsAreaMerging(m, a, b - 1, w)
    BY <2>1
  <2> DEFINE v == [i \in 0 .. b |-> IF i = b THEN AreaMergedOnce(w[b - 1], a) ELSE w[i]]
  <2>3. ASSUME NEW i \in 0 .. b PROVE v[i] = IF i = 0 THEN m ELSE AreaMergedOnce(v[i - 1], a)
    <3>1. CASE i = b
      BY <1>2, <1>4, <3>1
    <3>2. CASE i # b
      <4>1. i \in 0 .. b - 1 /\ (i # 0 => i - 1 \in 0 .. b /\ i - 1 # b)
        BY <1>2, <3>2
      <4>2. w[i] = IF i = 0 THEN m ELSE AreaMergedOnce(w[i - 1], a)
        BY <2>2, <4>1 DEF IsAreaMerging
      <4> QED BY <3>2, <4>1, <4>2
    <3> QED BY <3>1, <3>2
  <2>4. v = [i \in 0 .. b |-> v[i]]
    OBVIOUS
  <2> HIDE DEF v
  <2>5. IsAreaMerging(m, a, b, v)
    BY <2>3, <2>4 DEF IsAreaMerging
  <2> QED BY <1>2, <2>5
<1> QED BY <1>3, <1>4

\* map_area_merge.
LEMMA AreaMergedKeeps ==
  ASSUME NEW m, NEW a, Merging(m, a), NEW m2, m2 = AreaMerged(m, a)
  PROVE  Merging(m2, a) /\ DOMAIN m2.area = DOMAIN m.area /\ AreasToMerge(m2, a) = {}
<1> DEFINE n == Cardinality(DOMAIN m.portal)
           w == CHOOSE x : IsAreaMerging(m, a, n, x)
           Kept(x, i) == /\ Merging(x, a) /\ DOMAIN x.area = DOMAIN m.area
                         /\ AreasToMerge(x, a) = {} \/ Cardinality(DOMAIN x.portal) + i <= n
<1>0. \A x : Merging(x, a) => MapInv(x, {})
  BY DEF Merging
<1>1. n \in Nat
  BY <1>0, PortalsFinite
<1>2. IsAreaMerging(m, a, n, w)
  BY <1>1, AreaMergingExists
<1>3. m2 = w[n]
  BY DEF AreaMerged, IsAreaMerging
<1> HIDE DEF n, w
<1>4. w[0] = m /\ \A i \in 1 .. n : w[i] = AreaMergedOnce(w[i - 1], a)
  BY <1>1, <1>2 DEF IsAreaMerging
<1>5. \A i \in 0 .. n : Kept(w[i], i)
  <2> DEFINE Bad == {i \in 0 .. n : ~Kept(w[i], i)}
  <2> SUFFICES ASSUME Bad # {} PROVE FALSE
    OBVIOUS
  <2>0. Bad \subseteq Nat
    BY <1>1
  <2> HIDE DEF Bad
  <2>1. PICK i \in Bad : \A k \in Bad : i <= k
    BY <2>0, LeastOf
  <2>2. i \in 0 .. n /\ ~Kept(w[i], i)
    BY DEF Bad
  <2>3. i # 0
    <3>1. Kept(m, 0)
      BY <1>1 DEF n
    <3> QED BY <1>4, <2>2, <3>1
  <2>4. i - 1 \in 0 .. n /\ i - 1 \notin Bad /\ i \in 1 .. n /\ i \in Nat
    BY <1>1, <2>1, <2>2, <2>3
  <2>5. Kept(w[i - 1], i - 1)
    BY <2>4 DEF Bad
  <2> DEFINE x == w[i - 1]
             y == w[i]
  <2>6. y = AreaMergedOnce(x, a)
    BY <1>4, <2>4
  <2>7. /\ Merging(x, a) /\ DOMAIN x.area = DOMAIN m.area
        /\ AreasToMerge(x, a) = {} \/ Cardinality(DOMAIN x.portal) + (i - 1) <= n
    BY <2>5
  <2> HIDE DEF x, y
  <2>8. /\ Merging(y, a) /\ DOMAIN y.area = DOMAIN x.area
        /\ \/ AreasToMerge(x, a) = {} /\ y = x
           \/ Cardinality(DOMAIN y.portal) + 1 <= Cardinality(DOMAIN x.portal)
    BY <2>6, <2>7, AreaMergedOnceKeeps
  <2>10. Cardinality(DOMAIN x.portal) \in Nat /\ Cardinality(DOMAIN y.portal) \in Nat
    BY <1>0, <2>7, <2>8, PortalsFinite
  <2>11. AreasToMerge(y, a) = {} \/ Cardinality(DOMAIN y.portal) + i <= n
    <3>1. CASE AreasToMerge(x, a) = {}
      <4>1. AreaMergedOnce(x, a) = x
        BY <3>1 DEF AreaMergedOnce
      <4> QED BY <2>6, <3>1, <4>1
    <3>2. CASE AreasToMerge(x, a) # {}
      BY <1>1, <2>4, <2>7, <2>8, <2>10, <3>2
    <3> QED BY <3>1, <3>2
  <2>12. Kept(y, i)
    BY <2>7, <2>8, <2>11
  <2> QED BY <2>2, <2>12 DEF y
<1>6. Kept(m2, n)
  BY <1>1, <1>3, <1>5
<1>7. AreasToMerge(m2, a) = {}
  <2>1. CASE Cardinality(DOMAIN m2.portal) + n <= n
    <3>0. MapInv(m2, {})
      BY <1>0, <1>6
    <3>1. IsFiniteSet(DOMAIN m2.portal) /\ Cardinality(DOMAIN m2.portal) = 0
      BY <1>1, <2>1, <3>0, PortalsFinite
    <3>2. Sides(m2) = {}
      BY <3>1, FS_EmptySet DEF Sides
    <3>3. RingSet(Ring(m2, a)) = {}
      BY <3>0, <3>2, RingOf
    <3> QED BY <3>3 DEF AreasToMerge
  <2> QED BY <1>6, <2>1
<1> QED BY <1>6, <1>7

-----------------------------------------------------------------------------
(* A dig *)

\* Nothing is left to merge.
MapGood(m) == MapInv(m, {}) /\ Paired(m) /\ \A p \in DOMAIN m.portal : ~SameSide(m, <<p, 0>>)

LEMMA NoAreasGood == MapGood(NoAreas)
<1> DEFINE m == NoAreas
<1>0. /\ m.area = <<>> /\ m.rect = <<>> /\ m.first = <<>> /\ m.next = <<>> /\ m.prev = <<>>
      /\ m.portal = <<>> /\ m.sound = TRUE
  BY DEF NoAreas
<1>1. IsMap(m)
  BY DEF NoAreas, IsMap
<1> HIDE DEF m
<1>2. DOMAIN <<>> = {} /\ <<>> \in [{} -> {}]
  OBVIOUS
<1>3. Rectangles(m)
  BY <1>0, <1>2 DEF Rectangles
<1>4. PortalsSound(m)
  <2>1. <<>> = [p \in {} |-> m.portal[p]]
    OBVIOUS
  <2> QED BY <1>0, <1>2, <2>1 DEF PortalsSound
<1>5. Apart(m) /\ Covered(m, {}) /\ Paired(m)
  BY <1>0, <1>2 DEF Apart, Covered, Paired
<1>6. Sides(m) = {}
  BY <1>0, <1>2 DEF Sides
<1>7. Ringed(m, {})
  <2>1. IsFiniteSet({})
    BY FS_EmptySet
  <2>2. {AreaOf(m, s) : s \in {}} = {}
    OBVIOUS
  <2>3. Sorted({}, m.next, m.prev, [s \in {} |-> AreaOf(m, s)], [s \in {} |-> Value(m, s)])
    BY <1>0, <1>2 DEF Sorted, Linked, Ordered
  <2> QED BY <1>0, <1>2, <2>1, <2>2, <2>3 DEF Ringed
<1>8. \A p \in DOMAIN m.portal : ~SameSide(m, <<p, 0>>)
  BY <1>0, <1>2
<1> QED BY <1>0, <1>1, <1>3, <1>4, <1>5, <1>6, <1>7, <1>8 DEF MapGood, MapInv, m

\* A portal of an area of one tile is as wide as that tile.
LEMMA SinglePortal ==
  ASSUME NEW m, MapInv(m, {}), NEW t, Single(m, t), NEW p \in DOMAIN m.portal, NEW i \in {0, 1},
         m.portal[p].area[i] = t
  PROVE  /\ m.portal[p].s1 \in Int /\ m.portal[p].s2 \in Int /\ m.portal[p].dir \in Dirs
         /\ m.portal[p].s1 = Low(m.rect[t], m.portal[p].dir)
         /\ m.portal[p].s2 = Low(m.rect[t], m.portal[p].dir)
<1> DEFINE q == m.portal[p]
           r == m.rect[t]
<1>1. /\ q.dir \in Dirs /\ q.s1 \in Int /\ q.s2 \in Int /\ q.s1 <= q.s2
      /\ Low(m.rect[q.area[0]], q.dir) <= q.s1 /\ Low(m.rect[q.area[1]], q.dir) <= q.s1
      /\ q.s2 <= High(m.rect[q.area[0]], q.dir) /\ q.s2 <= High(m.rect[q.area[1]], q.dir)
  <2>1. Ends(m, q.dir, q.area[0], q.area[1], q.s1, q.s2)
    BY PortalEnds DEF MapInv
  <2> HIDE DEF q
  <2> QED BY ONLY <2>1 DEF Ends
<1>2. Low(r, q.dir) = High(r, q.dir) /\ Low(r, q.dir) \in Int
  BY DEF Single, Low, High
<1>3. Low(r, q.dir) <= q.s1 /\ q.s2 <= High(r, q.dir)
  BY <1>1
<1> HIDE DEF q, r
<1>4. q.s1 = Low(r, q.dir) /\ q.s2 = Low(r, q.dir)
  BY <1>1, <1>2, <1>3
<1> QED BY <1>1, <1>4 DEF q, r

LEMMA AddedMerging ==
  ASSUME NEW m, MapGood(m), NEW t \in WithinBorder, t \notin DOMAIN m.area,
         Met(t) = Neighbours(t) \cap DOMAIN m.area, NEW m2, m2 = AreaAdd(m, t)
  PROVE  Merging(m2, t) /\ DOMAIN m2.area = DOMAIN m.area \cup {t}
<1> DEFINE n == NewArea(m, t)
<1>1. MapInv(m, {}) /\ Paired(m) /\ \A p \in DOMAIN m.portal : ~SameSide(m, <<p, 0>>)
  BY DEF MapGood
<1>2. MapInv(m2, {}) /\ Single(m2, t) /\ Grows(n, m2, t)
  BY <1>1, AddKeeps
<1>3. /\ n.portal = m.portal /\ DOMAIN n.area = DOMAIN m.area \cup {t}
      /\ \A a \in DOMAIN m.rect : n.rect[a] = m.rect[a]
  BY <1>1, NewAreaKeeps
<1> HIDE DEF n
<1>4. /\ m2.area = n.area /\ m2.rect = n.rect
      /\ \A p \in DOMAIN m2.portal : m2.portal[p].area[0] # t /\ m2.portal[p].area[1] # t
           => p \in DOMAIN m.portal /\ m2.portal[p] = m.portal[p]
  BY <1>2, <1>3 DEF Grows
<1>5. Paired(m2)
  <2> SUFFICES ASSUME NEW p \in DOMAIN m2.portal, NEW q \in DOMAIN m2.portal, SamePair(m2, p, q)
               PROVE  p = q
    BY DEF Paired
  <2>1. ASSUME NEW i \in {0, 1}, m2.portal[p].area[i] = t PROVE p = q
    <3>1. m2.portal[q].area[i] = t /\ m2.portal[p].dir = m2.portal[q].dir
      BY <2>1 DEF SamePair
    <3>2. /\ m2.portal[p].s1 = m2.portal[q].s2 /\ m2.portal[q].s1 = m2.portal[p].s2
          /\ m2.portal[p].s1 \in Int /\ m2.portal[q].s1 \in Int
      BY <1>2, <2>1, <3>1, SinglePortal
    <3>3. m2.portal[p].s1 <= m2.portal[q].s2 /\ m2.portal[q].s1 <= m2.portal[p].s2
      BY <3>2
    <3>4. Apart(m2)
      BY <1>2 DEF MapInv
    <3> QED BY <3>3, <3>4 DEF Apart
  <2>2. CASE m2.portal[p].area[0] # t /\ m2.portal[p].area[1] # t
    <3>1. m2.portal[q].area[0] # t /\ m2.portal[q].area[1] # t
      BY <2>2 DEF SamePair
    <3>2. /\ p \in DOMAIN m.portal /\ m2.portal[p] = m.portal[p]
          /\ q \in DOMAIN m.portal /\ m2.portal[q] = m.portal[q]
      BY <1>4, <2>2, <3>1
    <3>3. SamePair(m, p, q)
      BY <3>2 DEF SamePair
    <3> QED BY <1>1, <3>2, <3>3 DEF Paired
  <2> QED BY <2>1, <2>2
<1>6. Settled(m2, t)
  <2> SUFFICES ASSUME NEW q \in DOMAIN m2.portal, m2.portal[q].area[0] # t, m2.portal[q].area[1] # t
               PROVE  ~SameSide(m2, <<q, 0>>)
    BY DEF Settled
  <2>1. q \in DOMAIN m.portal /\ m2.portal[q] = m.portal[q]
    BY <1>4
  <2>2. m.portal[q].area[0] \in DOMAIN m.rect /\ m.portal[q].area[1] \in DOMAIN m.rect
    BY <1>1, <2>1, PortalIs DEF MapInv
  <2>3. /\ m2.rect[m.portal[q].area[0]] = m.rect[m.portal[q].area[0]]
        /\ m2.rect[m.portal[q].area[1]] = m.rect[m.portal[q].area[1]]
    BY <1>3, <1>4, <2>2
  <2>4. SameSide(m2, <<q, 0>>) <=> SameSide(m, <<q, 0>>)
    BY <2>1, <2>3, SameSideKept
  <2> QED BY <1>1, <2>1, <2>4
<1> QED BY <1>2, <1>3, <1>4, <1>5, <1>6 DEF Merging

\* map_dig, but for the regions.
LEMMA DigGood ==
  ASSUME NEW m, MapGood(m), NEW t \in WithinBorder, t \notin DOMAIN m.area,
         Met(t) = Neighbours(t) \cap DOMAIN m.area, NEW m2, m2 = AreaMerged(AreaAdd(m, t), t)
  PROVE  MapGood(m2) /\ DOMAIN m2.area = DOMAIN m.area \cup {t}
<1> DEFINE n == AreaAdd(m, t)
<1>1. Merging(n, t) /\ DOMAIN n.area = DOMAIN m.area \cup {t}
  BY AddedMerging
<1>2. m2 = AreaMerged(n, t)
  OBVIOUS
<1> HIDE DEF n
<1>3. Merging(m2, t) /\ DOMAIN m2.area = DOMAIN n.area /\ AreasToMerge(m2, t) = {}
  BY <1>1, <1>2, AreaMergedKeeps
<1>4. MapInv(m2, {}) /\ Paired(m2) /\ Settled(m2, t)
  BY <1>3 DEF Merging
<1>5. ASSUME NEW p \in DOMAIN m2.portal PROVE ~SameSide(m2, <<p, 0>>)
  <2>1. ASSUME NEW i \in {0, 1}, m2.portal[p].area[i] = t PROVE ~SameSide(m2, <<p, 0>>)
    <3>1. <<p, i>> \in Sides(m2) /\ AreaOf(m2, <<p, i>>) = t
      BY <2>1 DEF Sides, AreaOf
    <3>2. <<p, i>> \in RingSet(Ring(m2, t))
      BY <1>4, <3>1, RingOf
    <3>3. m2.sound = TRUE
      BY <1>4 DEF MapInv
    <3>4. ~SameSide(m2, <<p, i>>)
      BY <1>3, <3>2, <3>3 DEF AreasToMerge
    <3> QED BY <3>4, SameSideOther
  <2> QED BY <1>4, <2>1 DEF Settled
<1> QED BY <1>1, <1>3, <1>4, <1>5 DEF MapGood

-----------------------------------------------------------------------------
(* The inductive invariant *)

MapInd == RegionInd /\ MapGood(map) /\ DOMAIN map.area = walkable

LEMMA MapIndInit == Init => MapInd
<1> SUFFICES ASSUME Init PROVE MapInd
  OBVIOUS
<1>1. RegionInd /\ map = NoAreas /\ walkable = {}
  BY RegionIndInit DEF Init, RegionInit
<1>2. DOMAIN map.area = {}
  BY <1>1 DEF NoAreas
<1> QED BY <1>1, <1>2, NoAreasGood DEF MapInd

LEMMA MapIndNext == MapInd /\ [Next]_mapVars => MapInd'
<1> SUFFICES ASSUME MapInd, [Next]_mapVars PROVE MapInd'
  OBVIOUS
<1>0. RegionInd /\ MapGood(map) /\ DOMAIN map.area = walkable /\ RegionTypeOK
  BY DEF MapInd, RegionInd
<1>1. ASSUME NEW t \in WithinBorder, Dig(t) PROVE MapInd'
  <2>1. DigRegion(t) /\ map' = AreaMerged(AreaAdd(map, t), t)
    BY <1>1 DEF Dig
  <2>2. [RegionNext]_regionVars
    BY <2>1 DEF RegionNext
  <2>3. RegionInd'
    BY <1>0, <2>2, RegionIndNext
  <2>4. t \notin walkable /\ walkable' = walkable \cup {t}
    BY <2>1 DEF DigRegion
  <2>5. Met(t) = Neighbours(t) \cap DOMAIN map.area
    BY <1>0, MetIsWalkable
  <2>6. MapGood(map') /\ DOMAIN map'.area = DOMAIN map.area \cup {t}
    BY <1>0, <2>1, <2>4, <2>5, DigGood
  <2>7. MapGood(map)'
    BY <2>6 
  <2> QED BY <1>0, <2>3, <2>4, <2>6, <2>7 DEF MapInd
<1>2. CASE UNCHANGED mapVars
  <2>1. [RegionNext]_regionVars /\ map' = map /\ walkable' = walkable
    BY <1>2 DEF mapVars, regionVars
  <2>2. RegionInd'
    BY <1>0, <2>1, RegionIndNext
  <2> QED BY <1>0, <2>1, <2>2 DEF MapInd
<1> QED BY <1>1, <1>2 DEF Next

LEMMA MapIndAlways == Spec => []MapInd
  BY MapIndInit, MapIndNext, PTL DEF Spec

-----------------------------------------------------------------------------
(* What the invariant says *)

\* The values of R rise but at one side.
Turns(m, R) == \E s \in R : \A t \in R : Value(m, m.next[t]) <= Value(m, t) <=> t = s

\* Only the side with the greatest value of a ring is not followed by a greater one.
LEMMA RingTurns ==
  ASSUME NEW m, MapInv(m, {}), NEW a, NEW R, R = {t \in Sides(m) : AreaOf(m, t) = a}, R # {}
  PROVE  Turns(m, R)
<1> DEFINE S == Sides(m)
           area == [s \in S |-> AreaOf(m, s)]
           val == [s \in S |-> Value(m, s)]
           X == {val[t] : t \in R}
<1>1. Sorted(S, m.next, m.prev, area, val) /\ Bounded(m, S)
  BY AllBounded DEF MapInv, Ringed, Drawn
<1>2. Full \in Nat
  BY SMT DEF Full
<1>3. \A t \in R : t \in S /\ area[t] = a /\ val[t] \in 0 .. Full /\ val[t] = Value(m, t)
  BY <1>1 DEF Bounded
<1>4. \A t \in R : m.next[t] \in R /\ Value(m, m.next[t]) = val[m.next[t]]
  <2> SUFFICES ASSUME NEW t \in R PROVE m.next[t] \in R /\ Value(m, m.next[t]) = val[m.next[t]]
    OBVIOUS
  <2>1. m.next[t] \in S /\ area[m.next[t]] = area[t]
    BY <1>1, <1>3 DEF Sorted, Linked
  <2> QED BY <1>3, <2>1
<1>5. \A t, u \in R : /\ val[t] = val[u] => t = u
                      /\ ~Passed(val[t], val[m.next[t]], val[u])
  BY <1>1, <1>3 DEF Sorted, Ordered
<1> HIDE DEF S, area, val
<1>6. X \subseteq 0 .. Full /\ X # {}
  BY <1>3
<1>7. PICK n \in X : \A k \in X : k <= n
  <2> HIDE DEF X
  <2> QED BY <1>2, <1>6, GreatestOf
<1>8. PICK s \in R : n = val[s]
  OBVIOUS
<1>9. ASSUME NEW t \in R PROVE val[m.next[t]] <= val[t] <=> t = s
  <2>1. val[t] \in Int /\ val[m.next[t]] \in Int /\ val[s] \in Int /\ val[t] <= val[s] /\ val[m.next[t]] <= val[s]
    BY <1>2, <1>3, <1>4, <1>7, <1>8
  <2>2. ASSUME t # s, val[m.next[t]] <= val[t] PROVE FALSE
    <3>1. val[t] # val[s] /\ ~Passed(val[t], val[m.next[t]], val[s])
      BY <1>5, <2>2
    <3> QED BY <2>1, <2>2, <3>1 DEF Passed
  <2> QED BY <2>1, <2>2
<1> QED BY <1>3, <1>4, <1>9 DEF Turns

LEMMA RingsFollow == MapInd => RingsAreSound
<1> SUFFICES ASSUME MapInd PROVE RingsAreSound
  OBVIOUS
<1>1. MapInv(map, {}) /\ DOMAIN map.area = walkable
  BY DEF MapInd, MapGood
<1>2. Rectangles(map) /\ Ringed(map, Sides(map)) /\ Bounded(map, Sides(map))
  BY <1>1, AllBounded DEF MapInv, Drawn
<1>3. {map.area[t] : t \in walkable} = Areas
  <2>1. \A t \in walkable : map.area[t] \in Areas
    BY <1>1, <1>2 DEF Rectangles, Areas
  <2>2. ASSUME NEW a \in Areas PROVE \E t \in walkable : map.area[t] = a
    <3> DEFINE t == <<map.rect[a].x1, map.rect[a].y1>>
    <3>1. map.rect[a] \in Rect /\ map.rect[a].x1 <= map.rect[a].x2 /\ map.rect[a].y1 <= map.rect[a].y2
      BY <1>2 DEF Rectangles, Areas
    <3>2. t \in Box(map.rect[a])
      BY <3>1 DEF Rect, Box
    <3> HIDE DEF t
    <3>3. t \in walkable /\ map.area[t] = a
      BY <1>1, <1>2, <3>2, BoxIs DEF Areas
    <3> QED BY <3>3
  <2> QED BY <2>1, <2>2
<1>4. ASSUME NEW a \in Areas
      PROVE  /\ TilesOf(a) = Box(map.rect[a])
             /\ RingSet(Ring(map, a)) = {s \in Portals \X {0, 1} : AreaOf(map, s) = a}
             /\ \A i, j \in DOMAIN Ring(map, a) : Ring(map, a)[i] = Ring(map, a)[j] => i = j
             /\ Clockwise(Ring(map, a))
  <2> DEFINE R == {s \in Sides(map) : AreaOf(map, s) = a}
  <2>1. \A t : t \in Box(map.rect[a]) <=> t \in TilesOf(a)
    BY <1>1, <1>2, BoxIs DEF Areas, TilesOf
  <2>2. RingSet(Ring(map, a)) = R
    BY <1>2, RingIs
  <2>3. \A i, j \in DOMAIN Ring(map, a) : Ring(map, a)[i] = Ring(map, a)[j] => i = j
    BY <1>2, RingIs
  <2>4. Ring(map, a) # <<>> => R # {}
    BY <1>2, RingIs
  <2>5. R # {} => Turns(map, R)
    <3>1. R = {s \in Sides(map) : AreaOf(map, s) = a}
      OBVIOUS
    <3> HIDE DEF R
    <3> QED BY ONLY <1>1, <3>1, RingTurns
  <2>6. Clockwise(Ring(map, a))
    BY <2>2, <2>4, <2>5 DEF Clockwise, Turns
  <2>7. R = {s \in Portals \X {0, 1} : AreaOf(map, s) = a}
    BY DEF Sides, Portals
  <2> QED BY <2>1, <2>2, <2>3, <2>6, <2>7
<1> QED BY <1>1, <1>3, <1>4 DEF RingsAreSound

LEMMA TouchingIs ==
  ASSUME MapInd, NEW a \in Areas, NEW b \in Areas, NEW dir \in Dirs, NEW k
  PROVE  k \in Touching(a, b, dir) <=>
           k \in Int /\ \E c \in Int : /\ At(dir, c, k) \in walkable /\ map.area[At(dir, c, k)] = a
                                       /\ At(dir, c + 1, k) \in walkable /\ map.area[At(dir, c + 1, k)] = b
<1>1. walkable \subseteq WithinBorder
  BY DEF MapInd, MapGood, MapInv, Rectangles
<1>2. \A t \in walkable : t[1] \in Int /\ t[2] \in Int /\ t = <<t[1], t[2]>>
  BY <1>1, SizeAssumption DEF WithinBorder
<1>3. CASE dir = VERTICAL
  BY <1>2, <1>3 DEF Touching, TilesOf, At, Right
<1>4. CASE dir # VERTICAL
  BY <1>2, <1>4 DEF Touching, TilesOf, At, Down
<1> QED BY <1>3, <1>4

LEMMA PortalsFollow == MapInd => PortalsFitAreas
<1> SUFFICES ASSUME MapInd, NEW a \in Areas, NEW b \in Areas, NEW dir \in Dirs
             PROVE  LET here == {p \in Portals : /\ map.portal[p].dir = dir
                                                 /\ map.portal[p].area[0] = a /\ map.portal[p].area[1] = b}
                    IN IF a = b \/ Touching(a, b, dir) = {} THEN here = {}
                       ELSE \E p \in here :
                              here = {p} /\ map.portal[p].s1 .. map.portal[p].s2 = Touching(a, b, dir)
  BY DEF PortalsFitAreas, Dirs
<1> DEFINE here == {p \in Portals : /\ map.portal[p].dir = dir
                                    /\ map.portal[p].area[0] = a /\ map.portal[p].area[1] = b}
<1>1. /\ DOMAIN map.area = walkable /\ Rectangles(map) /\ PortalsSound(map) /\ Covered(map, {})
      /\ Paired(map) /\ a \in DOMAIN map.rect /\ b \in DOMAIN map.rect
  BY DEF MapInd, MapGood, MapInv, Areas
<1>2. ASSUME NEW p \in here, NEW q \in here PROVE p = q
  BY <1>1, <1>2 DEF Paired, SamePair, Portals
<1>3. ASSUME NEW p \in here
      PROVE  /\ a # b /\ map.portal[p].s1 \in Int /\ map.portal[p].s2 \in Int
             /\ map.portal[p].s1 <= map.portal[p].s2
             /\ \A k \in map.portal[p].s1 .. map.portal[p].s2 : k \in Touching(a, b, dir)
  <2>0. /\ p \in DOMAIN map.portal /\ map.portal[p].dir = dir
        /\ map.portal[p].area[0] = a /\ map.portal[p].area[1] = b
    BY DEF Portals
  <2> DEFINE ra == map.rect[a]
             rb == map.rect[b]
             c == Far(ra, dir)
  <2>1. /\ a # b /\ map.portal[p].s1 \in Int /\ map.portal[p].s2 \in Int
        /\ map.portal[p].s1 <= map.portal[p].s2 /\ c + 1 = Near(rb, dir)
        /\ Low(ra, dir) <= map.portal[p].s1 /\ Low(rb, dir) <= map.portal[p].s1
        /\ map.portal[p].s2 <= High(ra, dir) /\ map.portal[p].s2 <= High(rb, dir)
    BY <1>1, <2>0, PortalIs
  <2>2. /\ Low(ra, dir) \in Int /\ High(ra, dir) \in Int /\ Near(ra, dir) <= c /\ c \in Int
        /\ Near(ra, dir) \in Int
    BY <1>1, RectIs
  <2>3. /\ Low(rb, dir) \in Int /\ High(rb, dir) \in Int /\ Near(rb, dir) <= Far(rb, dir) /\ Far(rb, dir) \in Int
        /\ Near(rb, dir) \in Int
    BY <1>1, RectIs
  <2>4. ASSUME NEW k \in map.portal[p].s1 .. map.portal[p].s2 PROVE k \in Touching(a, b, dir)
    <3> HIDE DEF ra, rb, c
    <3>1. /\ k \in Int /\ Low(ra, dir) <= k /\ k <= High(ra, dir)
          /\ Low(rb, dir) <= k /\ k <= High(rb, dir) /\ c <= c /\ c + 1 \in Int
          /\ Near(rb, dir) <= c + 1 /\ c + 1 <= Far(rb, dir)
      BY <2>1, <2>2, <2>3
    <3>2. At(dir, c, k) \in DOMAIN map.area /\ map.area[At(dir, c, k)] = a
      BY <1>1, <2>2, <3>1, TileIn DEF ra, c
    <3>3. At(dir, c + 1, k) \in DOMAIN map.area /\ map.area[At(dir, c + 1, k)] = b
      BY <1>1, <2>2, <3>1, TileIn DEF rb
    <3> QED BY <1>1, <2>2, <3>1, <3>2, <3>3, TouchingIs
  <2> QED BY <2>1, <2>4
<1>4. ASSUME a # b, NEW k \in Touching(a, b, dir)
      PROVE  \E p \in here : k \in map.portal[p].s1 .. map.portal[p].s2
  <2>1. k \in Int
    BY TouchingIs
  <2>2. PICK c \in Int : /\ At(dir, c, k) \in walkable /\ map.area[At(dir, c, k)] = a
                         /\ At(dir, c + 1, k) \in walkable /\ map.area[At(dir, c + 1, k)] = b
    BY TouchingIs
  <2> DEFINE u == At(dir, c, k)
             v == At(dir, c + 1, k)
  <2>3. \E p \in DOMAIN map.portal : Leads(map, p, dir, u, v, k)
    BY <1>1, <1>4, <2>1, <2>2 DEF Covered
  <2>4. PICK p \in DOMAIN map.portal : Leads(map, p, dir, u, v, k)
    BY <2>3
  <2>5. p \in here /\ map.portal[p].s1 <= k /\ k <= map.portal[p].s2
    BY <2>2, <2>4 DEF Leads, Portals
  <2>6. map.portal[p].s1 \in Int /\ map.portal[p].s2 \in Int
    BY <1>3, <2>5
  <2> QED BY <2>1, <2>5, <2>6
<1> HIDE DEF here
<1>5. CASE a = b \/ Touching(a, b, dir) = {}
  <2>1. ASSUME NEW p \in here PROVE FALSE
    <3>1. map.portal[p].s1 \in map.portal[p].s1 .. map.portal[p].s2
      BY <1>3
    <3> QED BY <1>3, <1>5, <3>1
  <2> QED BY <1>5, <2>1 DEF here
<1>6. CASE a # b /\ Touching(a, b, dir) # {}
  <2>1. PICK p : p \in here
    BY <1>4, <1>6
  <2>2. here = {p}
    BY <1>2, <2>1
  <2>3. \A k : k \in map.portal[p].s1 .. map.portal[p].s2 <=> k \in Touching(a, b, dir)
    BY <1>3, <1>4, <1>6, <2>1, <2>2
  <2>4. map.portal[p].s1 .. map.portal[p].s2 = Touching(a, b, dir)
    BY <2>3
  <2> QED BY <1>6, <2>1, <2>2, <2>4 DEF here
<1> QED BY <1>5, <1>6

\* A search enters an area at any side and goes around it once, clockwise, whatever merges
\* its ring was spliced from, and the area is just the rectangle that it is taken for
\* (map.c:225 to 290, 479 to 599).
THEOREM RingsStaySound == Spec => []RingsAreSound
<1> QED BY MapIndAlways, RingsFollow, PTL

\* Between two areas that touch there is one portal, exactly as wide as the way between
\* them, in whatever order tiles are dug and portals and areas merged (map.c:110 to 167).
THEOREM PortalsStayExact == Spec => []PortalsFitAreas
<1> QED BY MapIndAlways, PortalsFollow, PTL

\* A dig merges areas until no two are one rectangle, though it only looks around the area
\* that it changes (map.c:604 to 639).
THEOREM MergingIsComplete == Spec => []NothingLeftToMerge
<1>1. MapInd => NothingLeftToMerge
  BY DEF MapInd, MapGood, NothingLeftToMerge, Portals
<1> QED BY <1>1, MapIndAlways, PTL

\* No assertion on what is merged fails: the sides of portals that are merged are neighbours in both
\* areas, and areas that are merged are two, the tiles of each its own (map.c:125, 128, 486, 505).
THEOREM MapAssertionsHold == Spec => []AssertionsHold
<1>1. MapInd => AssertionsHold
  BY Zenon DEF MapInd, MapGood, MapInv, AssertionsHold
<1> QED BY <1>1, MapIndAlways, PTL
================================================================================
