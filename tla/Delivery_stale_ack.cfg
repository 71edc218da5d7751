SPECIFICATION Spec
CONSTANTS
  q1 = q1  q2 = q2  ch1 = ch1  ch2 = ch2  c1 = c1  c2 = c2
  NoConsumer = NoConsumer
  Queues <- OneQueue
  Channels = {ch1}
  Consumers = {c1, c2}
  ChannelOf <- BothOnOneChannel
  QueueOf <- SameQueue
  NoAck = {}
  Workload = {"ack", "stale tag"}
  QosValues <- Unlimited
  MaxSp = 2
  MaxTag = 2
PROPERTIES AckSettlesItsTag
CHECK_DEADLOCK FALSE
