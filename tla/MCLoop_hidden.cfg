SPECIFICATION Spec
CONSTANTS
  Count = 2
  GlobalInterval = 2
  PollInterval <- SameIntervals
  Blank = Blank
  Bad = Bad
  MaxAge <- NoMaxAge
  PollTime = 1
  Hanging = {1}
INVARIANT HungPollReported
