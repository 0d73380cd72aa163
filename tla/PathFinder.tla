-------------------------------- MODULE PathFinder -----------------------------
(***************************************************************************)
(* path.c: the search for a way over the portals of the map, from the end  *)
(* back to the start.  path_id, cost_from_start and path_prev of a portal  *)
(* live in the map, but a search only believes those that carry its own    *)
(* path_id, which no earlier search had: here a search has a record of its *)
(* own, and a portal is known to it if it is in the domain of cost.        *)
(*                                                                         *)
(* A loop is a function of the number of turns it has made.                *)
(***************************************************************************)
EXTENDS MapAreas, Sequences

CONSTANTS
  MaxOpen,         \* finder->maxopen
  Overflown(_),    \* the root that is taken of a square that an int cannot hold
  Starts           \* bound: tiles from which ways are looked for

ASSUME FinderAssumption == MaxOpen \in Nat /\ Starts \subseteq WithinBorder

TILE_SCALE == 256
Middle(t) == <<t[1] * TILE_SCALE + TILE_SCALE \div 2, t[2] * TILE_SCALE + TILE_SCALE \div 2>>
TileAt(p) == <<p[1] \div TILE_SCALE, p[2] \div TILE_SCALE>>
Distance(a, b) == IF a < b THEN b - a ELSE a - b
Least(numbers) == CHOOSE n \in numbers : \A k \in numbers : n <= k

MAX_INT == 2147483647

\* The root r of l * l + s * s is l + s * s / (l + r): from a bound of it that is not too small,
\* one that is not too great, and the other way around.
NotAbove(long, short, r) == long + (short * short) \div (long + r + 1)
NotBelow(long, short, r) == long + (short * short) \div (long + r)

\* sqrt, of which the fraction is cut off, with l the longer leg of the triangle and s the other.
Root(long, short) ==
  LET square == long * long + short * short
      low == NotAbove(long, short, NotBelow(long, short, long))
      high == NotBelow(long, short, low)
  IN CHOOSE r \in NotAbove(long, short, high) .. high : r * r <= square /\ square < (r + 1) * (r + 1)

\* path_calc_cost.
Cost(p, q) ==
  LET dx == Distance(p[1], q[1])
      dy == Distance(p[2], q[2])
      square == dx * dx + dy * dy
  IN IF square > MAX_INT THEN Overflown(square)
     ELSE IF dx = 0 \/ dy = 0 THEN Larger(dx, dy)
     ELSE Root(Larger(dx, dy), Smaller(dx, dy))

\* portal_update_center, and the fixed part that area_connect sets.
Center(m, p) ==
  LET portal == m.portal[p]
      along == portal.s1 * TILE_SCALE + ((portal.s2 - portal.s1 + 1) * TILE_SCALE) \div 2
      first == m.rect[portal.area[0]]
  IN IF portal.dir = VERTICAL THEN <<(first.x2 + 1) * TILE_SCALE - 1, along>>
     ELSE <<along, (first.y2 + 1) * TILE_SCALE - 1>>

-----------------------------------------------------------------------------
(* The open set, a heap: the children of element i are 2i and 2i + 1 *)

Swapped(set, i, j) == [set EXCEPT ![i] = set[j], ![j] = set[i]]

\* A turn of the loop of finder_openset_moveup, where at is curidx, ...
MovedUp(h) ==
  LET lower == h.at \div 2
  IN IF h.at = 1 \/ h.set[h.at].cost >= h.set[lower].cost THEN h
     ELSE [set |-> Swapped(h.set, h.at, lower), at |-> lower]

\* ... each of which halves it.
MoveUp(set, i) ==
  LET moved[k \in 0 .. i] == IF k = 0 THEN [set |-> set, at |-> i] ELSE MovedUp(moved[k - 1])
  IN moved[i].set

\* The cheaper child, if there are two.
Child(set, i) ==
  IF 2 * i < Len(set) /\ set[2 * i].cost >= set[2 * i + 1].cost THEN 2 * i + 1 ELSE 2 * i

\* A turn of the loop of finder_openset_shift.
MovedDown(h) ==
  LET child == Child(h.set, h.at)
  IN IF h.at > Len(h.set) \div 2 \/ h.set[h.at].cost <= h.set[child].cost THEN h
     ELSE [set |-> Swapped(h.set, h.at, child), at |-> child]

MoveDown(set) ==
  LET moved[k \in 0 .. Len(set)] ==
        IF k = 0 THEN [set |-> set, at |-> 1] ELSE MovedDown(moved[k - 1])
  IN moved[Len(set)].set

\* finder_openset_add: what does not fit is left out.
Added(set, entry) ==
  IF Len(set) >= MaxOpen THEN set ELSE MoveUp(Append(set, entry), Len(set) + 1)

\* finder_openset_update.
Updated(set, i, entry) == MoveUp([set EXCEPT ![i] = entry], i)

\* finder_openset_shift: the last element becomes the first one and sinks.
Shifted(set) ==
  LET n == Len(set) - 1
  IN IF n = 0 THEN <<>> ELSE MoveDown([SubSeq(set, 1, n) EXCEPT ![1] = set[n + 1]])

-----------------------------------------------------------------------------
(* finder_find *)

\* NULL, the empty list of nodes, and the portal that is none: the others are named after tiles
\* within the border.
NULL == <<>>
NoPortal == <<<<0, 0>>, "none">>

\* No portal is known yet.
Clean == [open |-> <<>>, cost |-> <<>>, prev |-> <<>>]

Entry(m, p, a, cost, s) ==
  [portal |-> p, fromside |-> IF m.portal[p].area[1] = a THEN 1 ELSE 0,
   cost |-> cost + Cost(Center(m, p), s)]

\* A way to portal p that costs this much.
OnlyNew(f, p, cost) == p \notin DOMAIN f.cost
Better(f, p, cost) == p \notin DOMAIN f.cost \/ cost < f.cost[p]

\* From a point of area a, to which portal prev leads and the way costs so much already, portal
\* p of a is reached.  At the end, where no portal leads from, none is known yet.
Reached(m, f, way, p, s) ==
  LET cost == way.cost + Cost(way.from, Center(m, p))
      entry == Entry(m, p, way.area, cost, s)
      places == {i \in DOMAIN f.open : f.open[i].portal = p}
  IN IF p = way.prev \/ ~Better(f, p, cost) THEN f
     ELSE [open |-> IF places = {} THEN Added(f.open, entry)
                    ELSE Updated(f.open, Least(places), entry),
           cost |-> With(f.cost, p, cost),
           prev |-> With(f.prev, p, way.prev)]

\* All portals of a ring, one after the other.
Along(m, f, way, ring, s) ==
  LET n == Cardinality(DOMAIN ring)
      reached[k \in 0 .. n] == IF k = 0 THEN f ELSE Reached(m, reached[k - 1], way, ring[k][1], s)
  IN reached[n]

Started(m, b, s, e) ==
  Along(m, Clean, [area |-> b, from |-> e, cost |-> 0, prev |-> NoPortal], Ring(m, b), s)

Of(m, p) == {m.portal[p].area[0], m.portal[p].area[1]}

Ended(m, f, a) == f.open = <<>> \/ a \in Of(m, f.open[1].portal)

\* A turn of the search: the other portals of the area behind the first one of the open set.
Expanded(m, f, a, s) ==
  LET p == f.open[1].portal
      behind == <<p, 1 - f.open[1].fromside>>
      way == [area |-> AreaOf(m, behind), from |-> Center(m, p), cost |-> f.cost[p], prev |-> p]
  IN IF Ended(m, f, a) THEN f ELSE Along(m, [f EXCEPT !.open = Shifted(@)], way, RingFrom(m, behind), s)

\* So many turns; one after the end changes nothing.
Turned(m, f, a, s, n) ==
  LET after[k \in 0 .. n] == IF k = 0 THEN f ELSE Expanded(m, after[k - 1], a, s)
  IN after[n]

\* A portal is not taken out of the open set twice at the same cost, and no cost is greater
\* than that of a way with the longest possible leg to every portal.
MAX_COST == 46340
MaxTurns(m) ==
  LET portals == Cardinality(DOMAIN m.portal) IN portals * (portals * MAX_COST + 1)

\* The loop until its end, which is looked for in strides of some turns.
Search(m, f, a, s) ==
  LET after[k \in 0 .. MaxTurns(m)] ==
        IF k = 0 THEN f ELSE Turned(m, after[k - 1], a, s, Cardinality(DOMAIN m.portal))
      last[k \in 0 .. MaxTurns(m)] == IF Ended(m, after[k], a) THEN after[k] ELSE last[k + 1]
  IN last[0]

\* pathportal: the portal at which the search from b to a ended.
Found(f) == IF f.open = <<>> THEN NoPortal ELSE f.open[1].portal

CrossingForward(m, p, from) ==
  LET c == Center(m, p)
  IN <<c, IF m.portal[p].dir = HORIZONTAL THEN <<c[1], c[2] + 1>> ELSE <<c[1] + 1, c[2]>> >>

\* The last pixel of one tile and the first one of the next, seen from where we come.
Crossing(m, p, from) ==
  LET c == Center(m, p)
      there == IF m.portal[p].dir = HORIZONTAL THEN <<c[1], c[2] + 1>> ELSE <<c[1] + 1, c[2]>>
      i == IF m.portal[p].dir = HORIZONTAL THEN 2 ELSE 1
  IN IF from[i] > c[i] THEN <<there, c>> ELSE <<c, there>>

\* A turn of the loop that collects the nodes, last of which is the point we come from.
Crossed(m, prev, path) ==
  LET crossing == Crossing(m, path.portal, path.last)
  IN IF path.portal = NoPortal THEN path
     ELSE [portal |-> prev[path.portal], last |-> crossing[2],
           nodes |-> Append(Append(path.nodes, crossing[1]), crossing[2])]

\* The nodes from s up to the end, over the portal that was found and those before it.
Nodes(m, f, s) ==
  LET n == Cardinality(DOMAIN f.prev)
      path[k \in 0 .. n] ==
        IF k = 0 THEN [portal |-> Found(f), last |-> s, nodes |-> <<>>]
        ELSE Crossed(m, f.prev, path[k - 1])
  IN path[CHOOSE k \in 0 .. n : path[k].portal = NoPortal].nodes

\* A list of nodes; the empty one is NULL.
FinderFind(m, s, e) ==
  LET a == m.area[TileAt(s)]
      b == m.area[TileAt(e)]
      f == Search(m, Started(m, b, s, e), a, s)
  IN IF s = e THEN <<e>>
     ELSE IF region[TileAt(s)] # region[TileAt(e)] THEN NULL
     ELSE IF TileAt(e) \in Neighbours(TileAt(s)) \/ a = b THEN <<e>>
     ELSE IF Found(f) = NoPortal THEN NULL
     ELSE Append(Nodes(m, f, s), e)

-----------------------------------------------------------------------------
(* Properties *)

\* A way ends where it was to lead to; there is none exactly if the regions differ.
LeadsThere(t, u, path) ==
  IF region[t] # region[u] THEN path = NULL ELSE path # NULL /\ path[Len(path)] = Middle(u)

\* From the middle of a dug tile a way is found to that of any other one of its region, and to no
\* other one (path.c:148 to 182).
WaysAreFound ==
  \A t \in Starts \cap walkable, u \in walkable :
    LeadsThere(t, u, FinderFind(map, Middle(t), Middle(u)))

\* Every tile of the box around two points is dug, which a leg between them needs.
Straight(p, q) ==
  LET t == TileAt(p)
      u == TileAt(q)
  IN \A x \in Smaller(t[1], u[1]) .. Larger(t[1], u[1]),
        y \in Smaller(t[2], u[2]) .. Larger(t[2], u[2]) : <<x, y>> \in walkable

\* The same, and no leg of a way leads over a tile that is not dug, though a leg is a straight
\* line from portal to portal, and whoever walks it checks nothing (path.c:300 to 327).  A bound
\* variable has its value computed once.
PathsAreWalkable ==
  \A t \in Starts \cap walkable, u \in walkable :
    \A path \in {FinderFind(map, Middle(t), Middle(u))} :
      /\ LeadsThere(t, u, path)
      /\ path # NULL => /\ Straight(Middle(t), path[1])
                        /\ \A i \in 1 .. Len(path) - 1 : Straight(path[i], path[i + 1])

\* Costs of the chains of portals to an area, each portal of an area of the one before, by
\* relaxation, a portal more with every turn: the reference that has neither a heap nor a
\* direction.
Meeting(m, p, q) == Of(m, p) \cap Of(m, q) # {}
Relaxed(m, costs, legs) ==
  [p \in {q \in DOMAIN m.portal : \E r \in DOMAIN costs : Meeting(m, r, q)} |->
     Least({costs[r] + legs[<<r, p>>] : r \in {q \in DOMAIN costs : Meeting(m, q, p)}})]

Legs(m) == [l \in (DOMAIN m.portal) \X (DOMAIN m.portal) |-> Cost(Center(m, l[1]), Center(m, l[2]))]

CostsFrom(m, b, e, legs) ==
  LET n == Cardinality(DOMAIN m.portal)
      costs[k \in 0 .. n] ==
        IF k = 0 THEN [p \in {q \in DOMAIN m.portal : b \in Of(m, q)} |-> Cost(e, Center(m, p))]
        ELSE Relaxed(m, costs[k - 1], legs)
  IN costs[n]

\* The search stops at the first portal of the area of the start that comes out of the heap:
\* no other chain of portals is cheaper (path.c:92, path.c:233), but for a pixel a portal at
\* most: what is cut off from the root of a leg is missing in its cost and not in the estimate
\* of what is ahead, which may be too great by as much (path.c:34, path.c:267 to 290).
PathsAreShort ==
  LET legs == Legs(map)
  IN \A u \in walkable :
       LET e == Middle(u)
           b == map.area[u]
           costs == CostsFrom(map, b, e, legs)
       IN \A t \in Starts \cap walkable :
            LET s == Middle(t)
                a == map.area[t]
            IN region[t] = region[u] /\ a # b /\ u \notin Neighbours(t) =>
                 \A f \in {Search(map, Started(map, b, s, e), a, s)} :
                   /\ Found(f) # NoPortal
                   /\ \A q \in DOMAIN costs : a \in Of(map, q) =>
                        f.cost[Found(f)] + Cost(Center(map, Found(f)), s)
                          <= costs[q] + Cost(Center(map, q), s) + Cardinality(Portals)
================================================================================
