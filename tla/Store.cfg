SPECIFICATION Spec
CONSTANTS
  Channels = {"c1"}
  Queues = {"q", "d"}
  Bound = {"q"}
  Limited = "q"
  DeadLetters = "d"
  Consumed = {"q"}
  SegSize = 2
  PageSize = 1
  AckMax = 1
  MaxMessages = 4
  MaxCrashes = 2
  MaxEvents = 5
  PowerLoss = TRUE
  Workload = {"ack", "drop", "reject"}
CHECK_DEADLOCK FALSE
INVARIANTS StoreTypeOK IndexExact InOrder ReferencedOnDisk ConfirmedSurvives
PROPERTIES RestartExact
