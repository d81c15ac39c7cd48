\* EventReactor: a loop thread run twice against a control thread.
CONSTANTS
  TimerIds = {f1, f2}
  MaxRuns = 2
  MaxCtlOps = 4
SPECIFICATION FairSpec
INVARIANTS
  ArmedTimersListed
PROPERTIES
  LoopEndsAfterSwitchOff
