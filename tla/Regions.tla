---------------------------------- MODULE Regions ------------------------------
(***************************************************************************)
(* Tiles that are dug and the regions of tiles that are connected: the     *)
(* first part of map.c.  finder_find looks at regions only to tell whether *)
(* there is a way at all.                                                  *)
(***************************************************************************)
EXTENDS Naturals

CONSTANTS Width, Height   \* of the world, its border included

ASSUME SizeAssumption == Width \in 3 .. 255 /\ Height \in 3 .. 255

REGION_NONE == 0

Tiles == (0 .. Width - 1) \X (0 .. Height - 1)
WithinBorder == (1 .. Width - 2) \X (1 .. Height - 2)

VARIABLES
  walkable,     \* tiles that are dug
  region,       \* tile -> region, or REGION_NONE
  next_region

regionVars == <<walkable, region, next_region>>

-----------------------------------------------------------------------------
\* map->dir: up, right, down and left of a tile, in this order.
Up(t) == <<t[1], t[2] - 1>>
Right(t) == <<t[1] + 1, t[2]>>
Down(t) == <<t[1], t[2] + 1>>
Left(t) == <<t[1] - 1, t[2]>>
Neighbours(t) == {Up(t), Right(t), Down(t), Left(t)}

\* Neighbours that have a region.
Met(t) == {n \in Neighbours(t) : region[n] # REGION_NONE}

\* The first of them gives its region to the tile, ...
Heir(t) ==
  IF Up(t) \in Met(t) THEN Up(t)
  ELSE IF Right(t) \in Met(t) THEN Right(t)
  ELSE IF Down(t) \in Met(t) THEN Down(t) ELSE Left(t)

NewRegion(t) == IF Met(t) = {} THEN next_region ELSE region[Heir(t)]

\* ... and map_changeregion gives it to every tile of the regions of the others.
NotMerged(t, u) == FALSE
Merged(t, u) == \E n \in Met(t) : region[u] = region[n]

Counted(t) == IF Met(t) = {} THEN next_region + 1 ELSE next_region

\* map_set_region.
SetRegion(t) ==
  /\ region' = [u \in Tiles |-> IF u = t \/ Merged(t, u) THEN NewRegion(t) ELSE region[u]]
  /\ next_region' = Counted(t)

\* map_init.
RegionInit ==
  /\ walkable = {}
  /\ region = [t \in Tiles |-> REGION_NONE]
  /\ next_region = 1

\* map_dig of a tile within the border, which is all that world_set_type asks for; a tile
\* that is dug already is left alone.
DigRegion(t) ==
  /\ t \notin walkable
  /\ walkable' = walkable \cup {t}
  /\ SetRegion(t)

RegionNext == \E t \in WithinBorder : DigRegion(t)

RegionSpec == RegionInit /\ [][RegionNext]_regionVars

-----------------------------------------------------------------------------
(* Properties *)

\* The tiles that are dug are those with a region, and the next one was never given.
RegionTypeOK ==
  /\ walkable \subseteq WithinBorder
  /\ region \in [Tiles -> Nat] /\ next_region \in Nat
  /\ \A t \in Tiles : /\ t \in walkable <=> region[t] # REGION_NONE
                      /\ region[t] < next_region

\* A set of walkable tiles that no step to a walkable neighbour leaves, ...
Closed(S) == \A t \in S : Neighbours(t) \cap walkable \subseteq S

\* ... and one that has all tiles of a region or none.
Whole(S) == \A t \in S, u \in walkable : region[t] = region[u] => u \in S

\* Two tiles are of one region exactly if one can walk from one to the other, that is, if no
\* closed set parts them: what finder_find relies on to give up at once, and not to search
\* in vain (path.c:147).
RegionsAreComponents == \A S \in SUBSET walkable : Closed(S) <=> Whole(S)
================================================================================
