--------------------------------- MODULE MapAreas ------------------------------
(***************************************************************************)
(* The rectangles of walkable tiles and the portals between them: the      *)
(* graph that the path finder searches, kept by map.c while tiles are dug. *)
(*                                                                         *)
(* An area is named after the tile that was dug when it was allocated, a   *)
(* portal after the tile and the direction of the connection, and a side   *)
(* of a portal <<p, i>> after the portal and its index there.  The map is  *)
(* one record, as a dig is a chain of changes to it; next and prev link    *)
(* the sides of an area to a ring, which starts at first.                  *)
(***************************************************************************)
EXTENDS Regions, Integers, FiniteSets

VARIABLE map      \* [area, rect, first, next, prev, portal, sound]

mapVars == <<regionVars, map>>

HORIZONTAL == "horizontal"
VERTICAL == "vertical"

Larger(a, b) == IF a > b THEN a ELSE b
Smaller(a, b) == IF a < b THEN a ELSE b

\* What malloc and free do to what is kept of an object.
With(f, x, v) == [y \in DOMAIN f \cup {x} |-> IF y = x THEN v ELSE f[y]]
Without(f, x) == [y \in DOMAIN f \ {x} |-> f[y]]

\* A failed assertion ends the program.
Asserted(m, holds, after) == IF m.sound /\ holds THEN after ELSE [m EXCEPT !.sound = FALSE]

-----------------------------------------------------------------------------
(* Sides of portals *)

Other(s) == <<s[1], 1 - s[2]>>
AreaOf(m, s) == m.portal[s[1]].area[s[2]]
Span(m, s) == m.portal[s[1]].s2 - m.portal[s[1]].s1 + 1

\* portalside_direction: side 0 is that of the area on the left or above.
Direction(m, s) ==
  IF s[2] = 0
    THEN IF m.portal[s[1]].dir = HORIZONTAL THEN "down" ELSE "right"
    ELSE IF m.portal[s[1]].dir = HORIZONTAL THEN "up" ELSE "left"

ValueOfStart(m, s) ==
  LET s1 == m.portal[s[1]].s1
  IN CASE Direction(m, s) = "up"    -> s1
       [] Direction(m, s) = "right" -> 100000 + s1
       [] Direction(m, s) = "down"  -> 300000 - s1
       [] Direction(m, s) = "left"  -> 400000 - s1

\* portalside_to_value: the place of a side on a walk around its area, clockwise.
Value(m, s) ==
  CASE Direction(m, s) = "up"    -> m.portal[s[1]].s1
    [] Direction(m, s) = "right" -> 100000 + m.portal[s[1]].s1
    [] Direction(m, s) = "down"  -> 300000 - m.portal[s[1]].s2
    [] Direction(m, s) = "left"  -> 400000 - m.portal[s[1]].s2

\* The walks of map.c: from s along the next pointers, until it is s again.
Walk(m, s) ==
  LET walk[i \in 0 .. Cardinality(DOMAIN m.next)] == IF i = 0 THEN s ELSE m.next[walk[i - 1]]
  IN walk

Round(m, s) ==
  CHOOSE n \in 1 .. Cardinality(DOMAIN m.next) :
    Walk(m, s)[n] = s /\ \A i \in 1 .. n - 1 : Walk(m, s)[i] # s

RingFrom(m, s) == [i \in 1 .. Round(m, s) |-> Walk(m, s)[i - 1]]

\* The sides of area a from area->portals on; none if that is NULL.
Ring(m, a) == IF a \in DOMAIN m.first THEN RingFrom(m, m.first[a]) ELSE <<>>

\* The first side of a ring that is in a set, if there is one.
First(ring, sides) ==
  ring[CHOOSE i \in DOMAIN ring : ring[i] \in sides /\ \A j \in 1 .. i - 1 : ring[j] \notin sides]

RingSet(ring) == {ring[i] : i \in DOMAIN ring}

-----------------------------------------------------------------------------
(* Connecting a new area *)

\* Between the value of a side and that of the next one, wherever the ring wraps around.
FitsAtAnyEnd(cur, next, new) == cur < new /\ new < next
Fits(cur, next, new) ==
  \/ next < cur /\ (cur < new \/ new < next)
  \/ cur < new /\ new < next

\* Side s alone in its area, and s behind side cur.
Alone(m, s) ==
  [m EXCEPT !.first = With(@, AreaOf(m, s), s), !.next = With(@, s, s), !.prev = With(@, s, s)]

Behind(m, cur, s) ==
  [m EXCEPT !.next = With(With(@, cur, s), s, m.next[cur]),
            !.prev = With(With(@, m.next[cur], s), s, cur)]

\* What area_connect does with each of the two areas.  Where there are two sides already,
\* the new one becomes the first and goes behind the first one after which it fits.
InsertSide(m, s) ==
  LET a == AreaOf(m, s)
      ring == Ring(m, a)
      places == {t \in RingSet(ring) : Fits(Value(m, t), Value(m, m.next[t]), Value(m, s))}
  IN IF ring = <<>> THEN Alone(m, s)
     ELSE IF m.next[m.first[a]] = m.first[a] THEN Behind(m, m.first[a], s)
     ELSE IF places = {} THEN Alone(m, s)
     ELSE [Behind(m, First(ring, places), s) EXCEPT !.first = With(@, a, s)]

\* The portal that area_connect puts between a1, on the left or above, and a2.
PortalBetween(m, a1, a2) ==
  LET r1 == m.rect[a1]
      r2 == m.rect[a2]
      both == [i \in {0, 1} |-> IF i = 0 THEN a1 ELSE a2]
  IN IF r1.x2 + 1 = r2.x1
       THEN [dir |-> VERTICAL, area |-> both,
             s1 |-> Larger(r1.y1, r2.y1), s2 |-> Smaller(r1.y2, r2.y2)]
       ELSE [dir |-> HORIZONTAL, area |-> both,
             s1 |-> Larger(r1.x1, r2.x1), s2 |-> Smaller(r1.x2, r2.x2)]

Connect(m, p, a1, a2) ==
  LET m1 == [m EXCEPT !.portal = With(@, p, PortalBetween(m, a1, a2))]
  IN InsertSide(InsertSide(m1, <<p, 0>>), <<p, 1>>)

\* The new area t meets the one of a neighbour, if that is dug.
Meet(m, t, d, n) ==
  IF n \notin Met(t) THEN m
  ELSE IF d \in {"right", "down"} THEN Connect(m, <<t, d>>, t, m.area[n])
  ELSE Connect(m, <<t, d>>, m.area[n], t)

\* map_area_add: an area of one tile, connected up, right, down and left.
NewArea(m, t) ==
  [m EXCEPT !.area = With(@, t, t),
            !.rect = With(@, t, [x1 |-> t[1], x2 |-> t[1], y1 |-> t[2], y2 |-> t[2]])]

AreaAdd(m, t) ==
  LET up    == Meet(NewArea(m, t), t, "up", Up(t))
      right == Meet(up, t, "right", Right(t))
      down  == Meet(right, t, "down", Down(t))
  IN Meet(down, t, "left", Left(t))

-----------------------------------------------------------------------------
(* Merging portals *)

\* portal_is_mergable_with_neighbour.
MergableIfNarrow(m, s) ==
  /\ AreaOf(m, Other(s)) = AreaOf(m, Other(m.next[s]))
  /\ Value(m, s) + 1 = Value(m, m.next[s])
Mergable(m, s) ==
  /\ AreaOf(m, Other(s)) = AreaOf(m, Other(m.next[s]))
  /\ Value(m, s) + Span(m, s) = Value(m, m.next[s])

\* Side s is taken out of its ring and freed; if it was the first one, heir is the first now.
Leave(m, s, heir) ==
  LET a == AreaOf(m, s)
  IN [m EXCEPT !.next = Without([@ EXCEPT ![m.prev[s]] = m.next[s]], s),
               !.prev = Without([@ EXCEPT ![m.next[s]] = m.prev[s]], s),
               !.first = IF @[a] = s THEN [@ EXCEPT ![a] = heir] ELSE @]

\* portalside_merge_with_neighbour.
PortalsJoined(m, side1) ==
  LET side2 == m.next[side1]
      side3 == Other(side2)
      side4 == Other(side1)
      one == m.portal[side1[1]]
      two == m.portal[side2[1]]
      both == [one EXCEPT !.s1 = Smaller(one.s1, two.s1), !.s2 = Larger(one.s2, two.s2)]
      left == Leave(Leave(m, side3, side4), side2, side1)
  IN Asserted(m, AreaOf(m, side3) = AreaOf(m, side4) /\ m.next[side3] = side4,
       [left EXCEPT !.portal = Without([m.portal EXCEPT ![side1[1]] = both], side2[1])])

PortalsToMerge(m, a) == {s \in RingSet(Ring(m, a)) : m.sound /\ Mergable(m, s)}

PortalsMergedOnce(m, a) ==
  LET found == PortalsToMerge(m, a)
  IN IF found = {} THEN m ELSE PortalsJoined(m, First(Ring(m, a), found))

\* area_merge_portals: again from the first side after every merge, each of which frees a
\* portal.
MergePortals(m, a) ==
  LET merged[n \in 0 .. Cardinality(DOMAIN m.portal)] ==
        IF n = 0 THEN m ELSE PortalsMergedOnce(merged[n - 1], a)
  IN merged[Cardinality(DOMAIN m.portal)]

-----------------------------------------------------------------------------
(* Merging areas *)

Box(r) == (r.x1 .. r.x2) \X (r.y1 .. r.y2)

Grown(r1, r2, dir) ==
  IF dir = HORIZONTAL THEN [r1 EXCEPT !.y1 = Smaller(@, r2.y1), !.y2 = Larger(@, r2.y2)]
  ELSE [r1 EXCEPT !.x1 = Smaller(@, r2.x1), !.x2 = Larger(@, r2.x2)]

\* Both rings without the two sides, one behind the other, are the ring of the area of side1.
Spliced(m, side1, side2) ==
  LET a1 == AreaOf(m, side1)
      alone1 == m.next[side1] = side1
      alone2 == m.next[side2] = side2
      after1 == IF alone2 THEN m.next[side1] ELSE m.next[side2]
      after2 == IF alone1 THEN m.next[side2] ELSE m.next[side1]
      before1 == IF alone2 THEN m.prev[side1] ELSE m.prev[side2]
      before2 == IF alone1 THEN m.prev[side2] ELSE m.prev[side1]
      next == [m.next EXCEPT ![m.prev[side1]] = after1, ![m.prev[side2]] = after2]
      prev == [m.prev EXCEPT ![m.next[side1]] = before1, ![m.next[side2]] = before2]
      first == Without(m.first, AreaOf(m, side2))
  IN [m EXCEPT !.next = Without(Without(next, side1), side2),
               !.prev = Without(Without(prev, side1), side2),
               !.first = IF alone1 /\ alone2 THEN Without(first, a1)
                         ELSE [first EXCEPT ![a1] = after2]]

\* The area of side1 takes over the area on the other side.
AreasJoined(m, side1) ==
  LET side2 == Other(side1)
      a1 == AreaOf(m, side1)
      a2 == AreaOf(m, side2)
      taken == RingSet(Ring(m, a2))
      Owner(p) == [i \in {0, 1} |-> IF <<p, i>> \in taken THEN a1 ELSE m.portal[p].area[i]]
      area == [t \in DOMAIN m.area |-> IF t \in Box(m.rect[a2]) THEN a1 ELSE m.area[t]]
      grown == Grown(m.rect[a1], m.rect[a2], m.portal[side1[1]].dir)
      moved == [p \in DOMAIN m.portal |-> [m.portal[p] EXCEPT !.area = Owner(p)]]
  IN [Spliced(m, side1, side2) EXCEPT
        !.area = area, !.rect = Without([m.rect EXCEPT ![a1] = grown], a2),
        !.portal = Without(moved, side1[1])]

\* map_zap_portal.
Zap(m, side1) ==
  LET a1 == AreaOf(m, side1)
      a2 == AreaOf(m, Other(side1))
  IN Asserted(m, a1 # a2 /\ \A t \in Box(m.rect[a2]) : m.area[t] = a2,
       MergePortals(AreasJoined(m, side1), a1))

\* Areas on both sides of a portal that are as wide, or as high, as each other.
SameSide(m, s) ==
  LET r1 == m.rect[AreaOf(m, s)]
      r2 == m.rect[AreaOf(m, Other(s))]
  IN IF m.portal[s[1]].dir = HORIZONTAL THEN r1.x1 = r2.x1 /\ r1.x2 = r2.x2
     ELSE r1.y1 = r2.y1 /\ r1.y2 = r2.y2

AreasToMerge(m, a) == {s \in RingSet(Ring(m, a)) : m.sound /\ SameSide(m, s)}

AreaMergedOnce(m, a) ==
  LET found == AreasToMerge(m, a)
  IN IF found = {} THEN m ELSE Zap(m, First(Ring(m, a), found))

\* map_area_merge: again from the first side after every merge, each of which frees a portal.
AreaMerged(m, a) ==
  LET merged[n \in 0 .. Cardinality(DOMAIN m.portal)] ==
        IF n = 0 THEN m ELSE AreaMergedOnce(merged[n - 1], a)
  IN merged[Cardinality(DOMAIN m.portal)]

-----------------------------------------------------------------------------
\* map_init.
NoAreas == [area |-> <<>>, rect |-> <<>>, first |-> <<>>, next |-> <<>>, prev |-> <<>>,
            portal |-> <<>>, sound |-> TRUE]

Init == RegionInit /\ map = NoAreas

\* map_dig.
Dig(t) ==
  /\ map.sound
  /\ DigRegion(t)
  /\ map' = AreaMerged(AreaAdd(map, t), t)

Next == \E t \in WithinBorder : Dig(t)

Spec == Init /\ [][Next]_mapVars

-----------------------------------------------------------------------------
(* Properties *)

Areas == DOMAIN map.rect
Portals == DOMAIN map.portal
TilesOf(a) == {t \in walkable : map.area[t] = a}

\* The values of a ring, from its smallest one on.
Clockwise(ring) ==
  ring # <<>> =>
    LET sides == RingSet(ring)
    IN \E s \in sides : \A t \in sides : Value(map, map.next[t]) <= Value(map, t) <=> t = s

\* The walkable tiles are divided into rectangles, and rings are what the search and the
\* next merge take them for: each side once, clockwise (map.c:552).
RingsAreSound ==
  /\ DOMAIN map.area = walkable /\ {map.area[t] : t \in walkable} = Areas
  /\ \A a \in Areas :
       LET ring == Ring(map, a)
       IN /\ TilesOf(a) = Box(map.rect[a])
          /\ RingSet(ring) = {s \in Portals \X {0, 1} : AreaOf(map, s) = a}
          /\ \A i, j \in DOMAIN ring : ring[i] = ring[j] => i = j
          /\ Clockwise(ring)

\* Coordinates along which two areas touch, the first on the left of, or above, the second.
Touching(a, b, dir) ==
  LET Beyond(t) == IF dir = VERTICAL THEN Right(t) ELSE Down(t)
      edge == {t \in TilesOf(a) : Beyond(t) \in walkable /\ map.area[Beyond(t)] = b}
  IN {IF dir = VERTICAL THEN t[2] ELSE t[1] : t \in edge}

\* Two areas that touch have one portal and it is as wide as the way between them; no
\* portal leads anywhere else.
PortalsFitAreas ==
  \A a, b \in Areas, dir \in {HORIZONTAL, VERTICAL} :
    LET here == {p \in Portals : /\ map.portal[p].dir = dir
                                 /\ map.portal[p].area[0] = a /\ map.portal[p].area[1] = b}
    IN IF a = b \/ Touching(a, b, dir) = {} THEN here = {}
       ELSE \E p \in here :
              here = {p} /\ map.portal[p].s1 .. map.portal[p].s2 = Touching(a, b, dir)

\* No two areas are left that would be one rectangle together: one dig merges as far as
\* merging goes, though it only looks at the neighbours of the area that it changes.
NothingLeftToMerge == \A p \in Portals : ~SameSide(map, <<p, 0>>)

\* No assertion of map.c on what is merged fails: sides that are joined are next to each other in
\* both areas, and an area that is taken over is another one and owns its tiles.
AssertionsHold == map.sound
================================================================================
