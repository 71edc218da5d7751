SPECIFICATION FairSpec
CONSTANTS
  Channels = {"c1", "c2"}
  Queues = {"q", "d"}
  Bound = {"q"}
  Limited = "q"
  DeadLetters = "d"
  Consumed = {"q"}
  SegSize = 1
  PageSize = 1
  AckMax = 1
  MaxMessages = 2
  MaxCrashes = 0
  MaxEvents = 2
  PowerLoss = FALSE
  Workload = {"purge", "no_ack"}
CHECK_DEADLOCK FALSE
INVARIANTS IndexExact
PROPERTIES ConfirmsEventually
