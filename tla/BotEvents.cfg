\* Both apis, two ids that a new game gives out again, programs that are cut off anywhere.
SPECIFICATION FairSpec
CONSTANTS
  MaxVmId = 2
  MaxEvents = 5
  Apis = {"oo", "state"}
  Actions = {"heal"}
  Overruns = TRUE
INVARIANTS
  CreaturesExact
  EventsFit
  Manned
PROPERTIES
  NewbornsAreManned
