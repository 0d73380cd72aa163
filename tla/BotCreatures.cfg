\* The api for which creature:restart() resets the creature, programs that are never cut off.
SPECIFICATION Spec
CONSTANTS
  MaxVmId = 2
  MaxEvents = 6
  Apis = {"oo"}
  Actions = {"heal"}
  Overruns = FALSE
INVARIANT AllYourCreatures
