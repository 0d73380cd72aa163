\* Nine tiles dug in every order: one to nine areas, with up to eight portals.
SPECIFICATION Spec
CHECK_DEADLOCK FALSE
CONSTANTS
  Width = 5
  Height = 5
  MaxOpen = 16384
  Starts <- MCStarts
  Overflown <- MCOverflown
VIEW Shape
INVARIANTS
  RegionsAreComponents
  RingsAreSound
  PortalsFitAreas
  NothingLeftToMerge
  AssertionsHold
  PathsAreWalkable
  PathsAreShort
