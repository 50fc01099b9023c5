SPECIFICATION FairSpec
CONSTANTS
  Count = 4
  GlobalInterval = 2
  PollInterval <- FourIntervals
  Blank = Blank
  Bad = Bad
  MaxAge <- MCMaxAge
  PollTime = 2
  Hanging = {1}
INVARIANTS TypeOK LoopInv StoreOpenDuringPolls HealthyWhenPunctual NothingAgesOut
PROPERTIES KeepsPolling ShutdownEnds
