SPECIFICATION LoopSpec
CONSTANTS
  MaxFd = 4
  Budget = 2
  Slice = 1
  Paths = {"card", "keyboard"}
  Card = "card"
  MaxSeatEvents = 2
  MaxPending = 2
INVARIANT EventsAreHeard
PROPERTY BoundedWaitEnds
CHECK_DEADLOCK FALSE
