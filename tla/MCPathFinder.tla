------------------------------- MODULE MCPathFinder ----------------------------
(***************************************************************************)
(* The path finder on a small world.                                       *)
(*                                                                         *)
(* Areas and portals are named after the digs that made them, and nothing  *)
(* but equality is asked of a name: states that differ in names only have  *)
(* the same future.  Shape is a state without them.                        *)
(***************************************************************************)
EXTENDS PathFinder

\* Ways are looked for between any two tiles.
MCStarts == WithinBorder

\* No square is that large here.
MCOverflown(n) == 0

\* Where a portal is, and which side of it s is.
Place(p) ==
  [dir |-> map.portal[p].dir, s1 |-> map.portal[p].s1, s2 |-> map.portal[p].s2,
   between |-> [i \in {0, 1} |-> map.rect[map.portal[p].area[i]]]]

PlaceOf(s) == <<Place(s[1]), s[2]>>

\* The type invariant is always TRUE; TLC evaluates region to see it.
Shape ==
  [typed |-> RegionTypeOK, regions |-> {{u \in walkable : region[u] = region[t]} : t \in walkable},
   areas |-> {<<map.rect[a], TilesOf(a)>> : a \in Areas},
   portals |-> Cardinality(Portals),
   first |-> {<<map.rect[a], PlaceOf(map.first[a])>> : a \in DOMAIN map.first},
   links |-> {<<PlaceOf(s), PlaceOf(map.next[s]), PlaceOf(map.prev[s])>> : s \in DOMAIN map.next},
   sound |-> map.sound]
================================================================================
