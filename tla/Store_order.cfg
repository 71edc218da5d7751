SPECIFICATION Spec
CONSTANTS
  Channels = {"c1"}
  Queues = {"q", "d"}
  Bound = {"q", "d"}
  Limited = "q"
  DeadLetters = "d"
  Consumed = {}
  SegSize = 3
  PageSize = 1
  AckMax = 1
  MaxMessages = 3
  MaxCrashes = 0
  MaxEvents = 3
  PowerLoss = FALSE
  Workload = {"drop"}
CHECK_DEADLOCK FALSE
INVARIANTS InOrder
