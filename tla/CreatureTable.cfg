\* Three slots, two buckets, ids 0 .. 4, two players.
SPECIFICATION Spec
CONSTANTS
  p1 = p1
  p2 = p2
  Players = {p1, p2}
  NoPlayer = NoPlayer
  Null = Null
  MAXCREATURES = 3
  HASHTABLE_SIZE = 2
  MaxVmId = 4
INVARIANTS
  TypeOK
  TableInv
  LookupExact
  CountsAgree
PROPERTIES
  RegistryImplemented
