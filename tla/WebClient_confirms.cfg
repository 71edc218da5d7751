SPECIFICATION FairSpec
CONSTANTS
  Ids <- OneId
  Workload = {"select", "publish", "consume", "disconnect"}
  Troubles = {"refuse", "error", "direct reply", "user id", "stop"}
  MaxObjects = 2
  MaxCalls = 5
  MaxMessages = 2
  MaxBody = 1
  IntBits = 4
  FloatBits = 3
  Numbers <- SmallNumbers
  Fractions <- SmallFractions
  FrameMax = 6
  Overhead = 2
INVARIANTS ConfirmsMatch MessagesWhole
CHECK_DEADLOCK FALSE
PROPERTIES EveryCallSettles
