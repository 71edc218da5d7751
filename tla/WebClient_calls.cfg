SPECIFICATION Spec
CONSTANTS
  Ids <- OneId
  Workload = {"topology", "mode", "consume", "cancel", "get", "wait", "settle", "tx", "close", "exchange", "purge"}
  Troubles = {"error", "cancel", "lost"}
  MaxObjects = 2
  MaxCalls = 5
  MaxMessages = 1
  MaxBody = 1
  IntBits = 4
  FloatBits = 3
  Numbers <- SmallNumbers
  Fractions <- SmallFractions
  FrameMax = 6
  Overhead = 2
INVARIANTS TypeOK RepliesMatch NoDeliveryDropped NoReplyAfterClose NoCallForgotten TablesReadBack PropertiesReadBack BodiesWhole
CHECK_DEADLOCK FALSE
