SPECIFICATION Spec
CONSTANTS
  q1 = q1  q2 = q2  ch1 = ch1  ch2 = ch2  c1 = c1  c2 = c2
  NoConsumer = NoConsumer
  Queues <- OneQueue
  Channels = {ch1, ch2}
  Consumers = {c1, c2}
  ChannelOf <- EachOnItsChannel
  QueueOf <- SameQueue
  NoAck = {}
  Workload = {"ack", "multiple", "reject", "requeue", "get", "recover"}
  QosValues <- Two
  MaxSp = 2
  MaxTag = 4
INVARIANTS TypeOK CounterExact MessageWakeup
PROPERTIES AckSettlesItsTag
SYMMETRY Swap
CHECK_DEADLOCK FALSE
