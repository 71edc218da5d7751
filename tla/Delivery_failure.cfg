SPECIFICATION Spec
CONSTANTS
  q1 = q1  q2 = q2  ch1 = ch1  ch2 = ch2  c1 = c1  c2 = c2
  NoConsumer = NoConsumer
  Queues <- OneQueue
  Channels = {ch1, ch2}
  Consumers = {c1, c2}
  ChannelOf <- EachOnItsChannel
  QueueOf <- SameQueue
  NoAck = {c1}
  Workload = {"ack", "cancel", "get", "purge", "close channel", "disconnect", "write error"}
  QosValues <- Unlimited
  MaxSp = 2
  MaxTag = 2
INVARIANTS NoLoss OnePlace NoStrandedMessages ListsAgree
PROPERTIES KeepsContract
CHECK_DEADLOCK FALSE
