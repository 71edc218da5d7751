SPECIFICATION Spec
CONSTANTS
  q1 = q1  q2 = q2  ch1 = ch1  ch2 = ch2  c1 = c1  c2 = c2
  NoConsumer = NoConsumer
  Queues <- TwoQueues
  Channels = {ch1}
  Consumers = {c1, c2}
  ChannelOf <- BothOnOneChannel
  QueueOf <- QueueEach
  NoAck = {}
  Workload = {"ack", "qos", "flow", "redeliver"}
  QosValues <- Mixed
  MaxSp = 2
  MaxTag = 3
PROPERTIES PrefetchRespected
CHECK_DEADLOCK FALSE
