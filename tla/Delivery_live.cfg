SPECIFICATION FairSpec
CONSTANTS
  q1 = q1  q2 = q2  ch1 = ch1  ch2 = ch2  c1 = c1  c2 = c2
  NoConsumer = NoConsumer
  Queues <- OneQueue
  Channels = {ch1}
  Consumers = {c1, c2}
  ChannelOf <- BothOnOneChannel
  QueueOf <- SameQueue
  NoAck = {}
  Workload = {"ack", "qos"}
  QosValues <- OneOrTwo
  MaxSp = 4
  MaxTag = 4
INVARIANTS ConsumerWakeup
PROPERTIES AllDisposed
CHECK_DEADLOCK FALSE
