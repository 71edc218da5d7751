------------------------------ MODULE Delivery ------------------------------
(***************************************************************************)
(* How a message travels from a queue to a consumer and back: the deliver  *)
(* loop fiber of every queue, the lists of unacknowledged messages kept by *)
(* the queue and by the channel, the prefetch accounting of the consumers, *)
(* and everything a client can do to a delivery: acknowledge, reject, get, *)
(* cancel, recover, change the prefetch, close the channel or vanish.      *)
(*                                                                         *)
(* The broker is one thread of cooperating fibers.  A fiber is switched    *)
(* out only where it blocks.  The deliver loop blocks on its two wake-up   *)
(* channels and in the middle of a delivery, while the frames are written  *)
(* to the client's socket; a handler of the read loop blocks while it      *)
(* writes its reply.  Only Basic.Qos and Basic.Recover have work left then *)
(* and take two steps.  For the others the reply is first or last, and the *)
(* next frame of the channel just comes later.                             *)
(*                                                                         *)
(* Abstracted: bodies and headers (a message is its segment position),     *)
(* statistics, the @requeued flags, queue policies (no TTL, no length      *)
(* limit, no delivery limit, no dead letter exchange), pausing, exclusive  *)
(* consumers, consumer priorities (which accepting consumer is served next *)
(* is left open), and connections with more than one channel.              *)
(*                                                                         *)
(* An operator named Faulty... is the operator after it with a plausible   *)
(* mistake; nothing uses it.  It documents what a property would catch.    *)
(***************************************************************************)
EXTENDS Integers, FiniteSets, Functions

CONSTANTS
  Queues,       \* the queues
  Channels,     \* the channels, each on a connection of its own
  Consumers,    \* Consumer objects, one for each Basic.Consume frame
  NoConsumer,   \* the nil consumer of a message fetched with Basic.Get
  ChannelOf,    \* the channel a consumer was created on
  QueueOf,      \* the queue it consumes from
  NoAck,        \* the consumers that asked for no_ack deliveries
  Workload,     \* what the clients and the network do in this instance
  QosValues,    \* the <<prefetch_count, global>> pairs the clients use
  MaxSp,        \* bound: messages published
  MaxTag        \* bound: delivery tags handed out by one channel

Operations ==
  { "ack", "multiple", "stale tag", "unknown tag", "reject", "requeue",
    "get", "cancel", "qos", "flow", "recover", "redeliver", "purge",
    "close channel", "disconnect", "write error" }

ASSUME DeliveryAssumption ==
  /\ IsFiniteSet(Queues)
  /\ IsFiniteSet(Consumers)
  /\ NoConsumer \notin Consumers
  /\ ChannelOf \in [Consumers -> Channels]
  /\ QueueOf \in [Consumers -> Queues]
  /\ NoAck \subseteq Consumers
  /\ Workload \subseteq Operations
  /\ QosValues \subseteq Nat \X BOOLEAN
  /\ MaxSp \in Nat
  /\ MaxTag \in Nat

VARIABLES
  lastSp,       \* the segment position of the last published message
  ready,        \* Queue#@ready: how often each position is in the deque
  unacked,      \* Queue#@unacked of all queues: {[q, sp, c]}
  msgToken,     \* Queue#@message_available holds a token
  consToken,    \* Queue#@consumer_available holds a token
  pc,           \* where the deliver loop of a queue stands
  inflight,     \* the delivery a deliver loop is writing to a socket
  chState,      \* the state of a channel and of its connection
  chUnacked,    \* Channel#@unacked: {[tag, q, sp, c]}
  deliveryTag,  \* Channel#@delivery_tag, the last tag handed out
  qos,          \* Channel#@prefetch_count and #@global_prefetch
  flow,         \* Channel#@client_flow
  reply,        \* the handler of a channel writes its reply, then tells the queues
  cState,       \* where a consumer is in its life
  cUnacked,     \* Consumer#@unacked
  pending,      \* history: <<q, sp>> routed to q and not yet disposed of
  raced         \* history: a write failed after its delivery was taken back

loopVars == <<msgToken, consToken, pc, inflight>>
queueVars == <<ready, unacked>>
channelVars == <<chState, chUnacked, deliveryTag, qos, flow, reply>>
consumerVars == <<cState, cUnacked>>
vars == <<lastSp, queueVars, loopVars, channelVars, consumerVars, pending, raced>>

-----------------------------------------------------------------------------
(* Positions.  Every operation of the sorted deques orders by position, so *)
(* the ready deque is fully described by the number of copies of each one. *)

Sp == 1..MaxSp
Holder == Consumers \union {NoConsumer}
Unack == [q : Queues, sp : Sp, c : Holder]
ChannelUnack == [tag : Nat, q : Queues, sp : Sp, c : Holder]
NoDelivery == [sp |-> 0, c |-> NoConsumer, up |-> FALSE]

ReadyEmpty(q) == \A sp \in Sp : ready[q][sp] = 0

FaultyInsertAtEnd(q, sp) == ready[q][sp] > 0

IsHead(q, sp) ==
  /\ ready[q][sp] > 0
  /\ \A x \in Sp : ready[q][x] > 0 => sp <= x

\* The consumers a channel, respectively a queue, knows of.  The two lists
\* are changed together in every handler modelled here.
ChannelConsumers(ch) == {c \in Consumers : cState[c] = "active" /\ ChannelOf[c] = ch}
QueueConsumers(q) == {c \in Consumers : cState[c] = "active" /\ QueueOf[c] = q}

FaultyAcceptsOneMore(c) ==
  LET ch == ChannelOf[c]
      held == IF qos[ch].global
              THEN SumFunctionOnSet(cUnacked, ChannelConsumers(ch))
              ELSE cUnacked[c]
  IN  flow[ch] /\ (qos[ch].count = 0 \/ held <= qos[ch].count)

Accepts(c) ==
  LET ch == ChannelOf[c]
      held == IF qos[ch].global
              THEN SumFunctionOnSet(cUnacked, ChannelConsumers(ch))
              ELSE cUnacked[c]
  IN  flow[ch] /\ (qos[ch].count = 0 \/ held < qos[ch].count)

\* How many of the entries E there are for each queue and position.
Copies(E) ==
  [q \in Queues |-> [sp \in Sp |-> Cardinality({e \in E : e.q = q /\ e.sp = sp})]]

\* What can be left of E when each of the messages in U is deleted once.  The
\* binary search finds some entry of that position, whoever holds it.
Deleted(E, U) ==
  LET Match == {e \in E : \E u \in U : e.q = u.q /\ e.sp = u.sp}
      Same(e, f) == e.q = f.q /\ e.sp = f.sp
  IN  {E \ D : D \in {X \in SUBSET Match :
                        \A e \in Match : \E d \in X : /\ Same(d, e)
                                                      /\ \A f \in X : Same(f, e) => f = d}}

\* Queue#message_available and #consumer_available, called on each of the queues
\* Q: the wake-up channels hold one token, sending to a full one does nothing.
MessageAvailable(Q) == msgToken' = [q \in Queues |-> msgToken[q] \/ q \in Q]
FaultyConsumerNotAnnounced(Q) == UNCHANGED consToken
ConsumerAvailable(Q) == consToken' = [q \in Queues |-> consToken[q] \/ q \in Q]

\* Messages are put into the ready deques, n[q][sp] copies each; the queues that
\* were empty are the ones whose deliver loops must be told.
Insert(n) == ready' = [q \in Queues |-> [sp \in Sp |-> ready[q][sp] + n[q][sp]]]
FaultyOnlyForOne(n) ==
  {q \in Queues : ReadyEmpty(q) /\ SumFunction(n[q]) = 1}
NoLongerEmpty(n) == {q \in Queues : ReadyEmpty(q) /\ \E sp \in Sp : n[q][sp] > 0}

FaultyReleaseOnce(S) ==
  cUnacked' = [c \in Consumers |-> cUnacked[c] - (IF \E u \in S : u.c = c THEN 1 ELSE 0)]

\* Consumer#ack and Consumer#reject, once for each of the settled entries.
ReleaseConsumers(S) ==
  cUnacked' = [c \in Consumers |-> cUnacked[c] - Cardinality({u \in S : u.c = c})]

Messages(E) == {<<e.q, e.sp>> : e \in E}

-----------------------------------------------------------------------------
Init ==
  /\ lastSp = 0
  /\ ready = [q \in Queues |-> [sp \in Sp |-> 0]]
  /\ unacked = {}
  /\ msgToken = [q \in Queues |-> FALSE]
  /\ consToken = [q \in Queues |-> FALSE]
  /\ pc = [q \in Queues |-> "top"]
  /\ inflight = [q \in Queues |-> NoDelivery]
  /\ chState = [ch \in Channels |-> "open"]
  /\ chUnacked = [ch \in Channels |-> {}]
  /\ deliveryTag = [ch \in Channels |-> 0]
  /\ qos \in [Channels -> {[count |-> v[1], global |-> v[2]] : v \in QosValues}]
  /\ flow = [ch \in Channels |-> TRUE]
  /\ reply = [ch \in Channels |-> "none"]
  /\ cState = [c \in Consumers |-> "new"]
  /\ cUnacked = [c \in Consumers |-> 0]
  /\ pending = {}
  /\ raced = FALSE

-----------------------------------------------------------------------------
(* Publishing: the message has been written to the segment file at the next *)
(* position and is pushed to every queue it is routed to.                   *)

Publish(qs) ==
  /\ lastSp < MaxSp
  /\ lastSp' = lastSp + 1
  /\ LET n == [q \in Queues |-> [sp \in Sp |-> IF q \in qs /\ sp = lastSp + 1 THEN 1 ELSE 0]]
     IN  Insert(n) /\ MessageAvailable(NoLongerEmpty(n))
  /\ pending' = pending \union {<<q, lastSp + 1>> : q \in qs}
  /\ UNCHANGED <<unacked, consToken, pc, inflight, channelVars, consumerVars, raced>>

-----------------------------------------------------------------------------
(* The deliver loop of queue q.  It re-checks the ready deque at the top of *)
(* an iteration, and goes straight on to the consumers ("woken") once it    *)
(* has received a message token.                                            *)

AtConsumers(q) == pc[q] = "woken" \/ (pc[q] = "top" /\ ~ReadyEmpty(q))

AwaitMessage(q) ==
  /\ pc[q] = "top"
  /\ ReadyEmpty(q)
  /\ pc' = [pc EXCEPT ![q] = "awaitMessage"]
  /\ UNCHANGED <<lastSp, queueVars, msgToken, consToken, inflight, channelVars, consumerVars, pending, raced>>

ReceiveMessageToken(q) ==
  /\ pc[q] = "awaitMessage"
  /\ msgToken[q]
  /\ msgToken' = [msgToken EXCEPT ![q] = FALSE]
  /\ pc' = [pc EXCEPT ![q] = "woken"]
  /\ UNCHANGED <<lastSp, queueVars, consToken, inflight, channelVars, consumerVars, pending, raced>>

AwaitConsumer(q) ==
  /\ AtConsumers(q)
  /\ \A c \in QueueConsumers(q) : ~Accepts(c)
  /\ pc' = [pc EXCEPT ![q] = "awaitConsumer"]
  /\ UNCHANGED <<lastSp, queueVars, msgToken, consToken, inflight, channelVars, consumerVars, pending, raced>>

ReceiveConsumerToken(q) ==
  /\ pc[q] = "awaitConsumer"
  /\ consToken[q]
  /\ consToken' = [consToken EXCEPT ![q] = FALSE]
  /\ pc' = [pc EXCEPT ![q] = "top"]
  /\ UNCHANGED <<lastSp, queueVars, msgToken, inflight, channelVars, consumerVars, pending, raced>>

FaultyTakeForgetsGets(q, sp, c, noAck) ==
  /\ IsHead(q, sp)
  /\ ready' = [ready EXCEPT ![q][sp] = @ - 1]
  /\ unacked' = IF noAck \/ c = NoConsumer THEN unacked
                ELSE unacked \union {[q |-> q, sp |-> sp, c |-> c]}

\* Queue#get: the head of the ready deque, remembered as unacknowledged
\* unless the receiver does not acknowledge.
Take(q, sp, c, noAck) ==
  /\ IsHead(q, sp)
  /\ ready' = [ready EXCEPT ![q][sp] = @ - 1]
  /\ unacked' = IF noAck THEN unacked ELSE unacked \union {[q |-> q, sp |-> sp, c |-> c]}

NextDeliveryTag(ch, q, sp, c, noAck) ==
  /\ deliveryTag[ch] < MaxTag
  /\ deliveryTag' = [deliveryTag EXCEPT ![ch] = @ + 1]
  /\ chUnacked' =
       IF noAck THEN chUnacked
       ELSE [chUnacked EXCEPT ![ch] =
               @ \union {[tag |-> deliveryTag[ch] + 1, q |-> q, sp |-> sp, c |-> c]}]

\* A message is taken, accounted for and given a tag; then the fiber may block
\* writing it to the socket.
StartDelivery(q, c) ==
  /\ AtConsumers(q)
  /\ c \in QueueConsumers(q)
  /\ Accepts(c)
  /\ \E sp \in Sp :
       /\ Take(q, sp, c, c \in NoAck)
       /\ NextDeliveryTag(ChannelOf[c], q, sp, c, c \in NoAck)
       /\ inflight' = [inflight EXCEPT ![q] = [sp |-> sp, c |-> c, up |-> chState[ChannelOf[c]] = "open"]]
  /\ cUnacked' = IF c \in NoAck THEN cUnacked ELSE [cUnacked EXCEPT ![c] = @ + 1]
  /\ pc' = [pc EXCEPT ![q] = "deliver"]
  /\ UNCHANGED <<lastSp, msgToken, consToken, chState, qos, flow, reply, cState, pending, raced>>

\* A consumer was found, but no message.
FoundNoMessage(q, c) ==
  /\ pc[q] = "woken"
  /\ ReadyEmpty(q)
  /\ c \in QueueConsumers(q)
  /\ Accepts(c)
  /\ pc' = [pc EXCEPT ![q] = "top"]
  /\ UNCHANGED <<lastSp, queueVars, msgToken, consToken, inflight, channelVars, consumerVars, pending, raced>>

\* The frames have been written, maybe just before the socket was closed; a
\* client that is not running any more is not written to.  A no_ack message is
\* deleted now.
DeliveryDone(q) ==
  LET d == inflight[q]
  IN  /\ pc[q] = "deliver"
      /\ d.up
      /\ pending' = IF d.c \in NoAck THEN pending \ {<<q, d.sp>>} ELSE pending
      /\ pc' = [pc EXCEPT ![q] = "top"]
      /\ inflight' = [inflight EXCEPT ![q] = NoDelivery]
      /\ UNCHANGED <<lastSp, queueVars, msgToken, consToken, channelVars, consumerVars, raced>>

\* The socket was closed before or during the write.  Client#deliver marks the
\* client as not running, but the channel and its entry stay until the read
\* loop cleans up; the message goes back to the ready deque, without a token,
\* since the deliver loop goes on by itself.
FaultyStillOpen(s) == s
SocketLost(s) == CASE s = "open" -> "lost" [] s = "closed" -> "gone" [] OTHER -> s

DeliveryFailed(q) ==
  LET d == inflight[q]
      ch == ChannelOf[d.c]
  IN  /\ pc[q] = "deliver"
      /\ "write error" \in Workload \/ chState[ch] \in {"lost", "gone"}
      /\ unacked' \in Deleted(unacked, {[q |-> q, sp |-> d.sp]})
      /\ ready' = [ready EXCEPT ![q][d.sp] = @ + 1]
      /\ chState' = [chState EXCEPT ![ch] = SocketLost(@)]
      /\ pc' = [pc EXCEPT ![q] = "top"]
      /\ inflight' = [inflight EXCEPT ![q] = NoDelivery]
      /\ raced' = \/ raced
                  \/ /\ d.c \notin NoAck
                     /\ \/ cState[d.c] # "active"
                        \/ [q |-> q, sp |-> d.sp, c |-> d.c] \notin unacked
      /\ UNCHANGED <<lastSp, msgToken, consToken, chUnacked, deliveryTag, qos, flow, reply, consumerVars, pending>>

-----------------------------------------------------------------------------
(* What a client does to its channel.  Frames are only processed while the  *)
(* channel is running and its connection is not closed, one after another:  *)
(* none as long as the handler of an earlier one is writing its reply.      *)

Consume(c) ==
  /\ cState[c] = "new"
  /\ chState[ChannelOf[c]] = "open"
  /\ reply[ChannelOf[c]] = "none"
  /\ cState' = [cState EXCEPT ![c] = "active"]
  /\ ConsumerAvailable({QueueOf[c]})
  /\ UNCHANGED <<lastSp, queueVars, msgToken, pc, inflight, channelVars, cUnacked, pending, raced>>

\* A cancelled consumer gets nothing more; what it holds stays unacknowledged.
CancelConsumer(c) ==
  /\ "cancel" \in Workload
  /\ cState[c] = "active"
  /\ chState[ChannelOf[c]] = "open"
  /\ reply[ChannelOf[c]] = "none"
  /\ cState' = [cState EXCEPT ![c] = "cancelled"]
  /\ UNCHANGED <<lastSp, queueVars, loopVars, channelVars, cUnacked, pending, raced>>

BasicGet(ch, q, noAck) ==
  /\ "get" \in Workload
  /\ chState[ch] = "open"
  /\ reply[ch] = "none"
  /\ \E sp \in Sp : /\ Take(q, sp, NoConsumer, noAck)
                    /\ NextDeliveryTag(ch, q, sp, NoConsumer, noAck)
                    /\ pending' = IF noAck THEN pending \ {<<q, sp>>} ELSE pending
  /\ UNCHANGED <<lastSp, loopVars, chState, qos, flow, reply, consumerVars, raced>>

\* The entry a binary search for the tag stops at: the first one that is not
\* below it.
FirstNotBelow(ch, tag) ==
  {u \in chUnacked[ch] : u.tag >= tag /\ \A v \in chUnacked[ch] : v.tag >= tag => u.tag <= v.tag}

FaultySettlesOne(ch, tag, multiple) ==
  IF multiple /\ tag = 0 THEN chUnacked[ch] ELSE FirstNotBelow(ch, tag)

\* Channel#delete_unacked and #delete_multiple_unacked.
Settled(ch, tag, multiple) ==
  IF ~multiple THEN FirstNotBelow(ch, tag)
  ELSE IF tag = 0 THEN chUnacked[ch]
  ELSE {u \in chUnacked[ch] : \E v \in FirstNotBelow(ch, tag) : u.tag <= v.tag}

\* The tags a client settles: the ones it holds, 0 for all of them and, if the
\* workload says so, one that was settled before or one it never got.
TagsSent(ch, multiple) ==
  {u.tag : u \in chUnacked[ch]}
    \union (IF multiple THEN {0} ELSE {})
    \union (IF "stale tag" \in Workload THEN 0..deliveryTag[ch] ELSE {})
    \union (IF "unknown tag" \in Workload THEN {deliveryTag[ch] + 1} ELSE {})

MaySettle(ch, tag, multiple) ==
  /\ chState[ch] = "open"
  /\ reply[ch] = "none"
  /\ multiple => "multiple" \in Workload
  /\ tag \in TagsSent(ch, multiple)

FaultyRemoveNothing(ch, S) == UNCHANGED chUnacked
RemoveFromChannel(ch, S) == chUnacked' = [chUnacked EXCEPT ![ch] = @ \ S]

\* Basic.Ack: the messages are deleted and their queues told that a consumer
\* may have become available.
BasicAck(ch, tag, multiple) ==
  LET S == Settled(ch, tag, multiple)
  IN  /\ "ack" \in Workload
      /\ MaySettle(ch, tag, multiple)
      /\ S # {}
      /\ RemoveFromChannel(ch, S)
      /\ ReleaseConsumers(S)
      /\ unacked' \in Deleted(unacked, S)
      /\ pending' = pending \ Messages(S)
      /\ ConsumerAvailable({u.q : u \in S})
      /\ UNCHANGED <<lastSp, ready, msgToken, pc, inflight, chState, deliveryTag, qos, flow, reply, cState, raced>>

\* Basic.Reject, and Basic.Nack with or without multiple.  A message that is
\* not requeued is deleted.
BasicReject(ch, tag, multiple, requeue) ==
  LET S == Settled(ch, tag, multiple)
  IN  /\ (IF requeue THEN "requeue" ELSE "reject") \in Workload
      /\ MaySettle(ch, tag, multiple)
      /\ S # {}
      /\ RemoveFromChannel(ch, S)
      /\ ReleaseConsumers(S)
      /\ unacked' \in Deleted(unacked, S)
      /\ IF requeue
         THEN /\ Insert(Copies(S))
              /\ MessageAvailable(NoLongerEmpty(Copies(S)))
              /\ UNCHANGED pending
         ELSE pending' = pending \ Messages(S) /\ UNCHANGED <<ready, msgToken>>
      /\ UNCHANGED <<lastSp, consToken, pc, inflight, chState, deliveryTag, qos, flow, reply, cState, raced>>

\* Basic.Qos: the prefetch count is in force at once.  The queues of the channel
\* are told of a larger one, but only after QosOk has been written.
FaultyTellsWhenLowered(ch, count) == count < qos[ch].count /\ count > 0
TellsConsumers(ch, count) == qos[ch].count > 0 /\ (count > qos[ch].count \/ count = 0)

BasicQos(ch, v) ==
  /\ "qos" \in Workload
  /\ chState[ch] = "open"
  /\ reply[ch] = "none"
  /\ qos' = [qos EXCEPT ![ch] = [count |-> v[1], global |-> v[2]]]
  /\ reply' = [reply EXCEPT ![ch] = IF TellsConsumers(ch, v[1]) THEN "consumers" ELSE "none"]
  /\ UNCHANGED <<lastSp, queueVars, loopVars, chState, chUnacked, deliveryTag, flow, consumerVars,
                 pending, raced>>

ChannelQueues(ch) == {QueueOf[c] : c \in ChannelConsumers(ch)}

\* QosOk or RecoverOk has been written, or could not be: the handler goes on.
ReplyWritten(ch) ==
  /\ reply[ch] # "none"
  /\ reply' = [reply EXCEPT ![ch] = "none"]
  /\ ConsumerAvailable(ChannelQueues(ch))
  /\ MessageAvailable(IF reply[ch] = "both" THEN ChannelQueues(ch) ELSE {})
  /\ UNCHANGED <<lastSp, queueVars, pc, inflight, chState, chUnacked, deliveryTag, qos, flow,
                 consumerVars, pending, raced>>

\* Channel.Flow: the queues are told before FlowOk is written.
ClientFlow(ch, active) ==
  /\ "flow" \in Workload
  /\ chState[ch] = "open"
  /\ reply[ch] = "none"
  /\ flow' = [flow EXCEPT ![ch] = active]
  /\ ConsumerAvailable(IF active THEN ChannelQueues(ch) ELSE {})
  /\ UNCHANGED <<lastSp, queueVars, msgToken, pc, inflight, chState, chUnacked, deliveryTag, qos,
                 reply, consumerVars, pending, raced>>

\* Queue#purge: what is ready is dropped.
Purge(q) ==
  /\ "purge" \in Workload
  /\ ready' = [ready EXCEPT ![q] = [sp \in Sp |-> 0]]
  /\ pending' = pending \ {<<q, sp>> : sp \in {x \in Sp : ready[q][x] > 0}}
  /\ UNCHANGED <<lastSp, unacked, loopVars, channelVars, consumerVars, raced>>

-----------------------------------------------------------------------------
(* Basic.Recover.  With requeue, every message held by a consumer of the     *)
(* channel, and every one fetched with Basic.Get, is rejected and requeued.  *)
(* All other entries, those of cancelled consumers, are dropped from the     *)
(* channel: the queue still counts their messages as unacknowledged.  With   *)
(* requeue the queues of the channel are told after RecoverOk was written.   *)

HeldByConsumers(ch) == {u \in chUnacked[ch] : u.c \in ChannelConsumers(ch)}

BasicRecover(ch, requeue) ==
  LET S == {u \in chUnacked[ch] : u.c = NoConsumer} \union HeldByConsumers(ch)
  IN  /\ (IF requeue THEN "recover" ELSE "redeliver") \in Workload
      /\ chState[ch] = "open"
      /\ reply[ch] = "none"
      /\ requeue \/ HeldByConsumers(ch) = {}
      /\ RemoveFromChannel(ch, chUnacked[ch])
      /\ ReleaseConsumers(HeldByConsumers(ch))
      /\ unacked' \in Deleted(unacked, S)
      /\ Insert(Copies(S))
      /\ MessageAvailable(NoLongerEmpty(Copies(S)))
      /\ reply' = [reply EXCEPT ![ch] = IF requeue THEN "both" ELSE "none"]
      /\ UNCHANGED <<lastSp, consToken, pc, inflight, chState, deliveryTag, qos, flow, cState, pending, raced>>

\* Without requeue the messages should be sent again to the consumers that hold
\* them.  That asks for a new tag under the lock that Channel#recover holds
\* already: the checked mutex raises, and the client is sent an internal error,
\* which closes its connection.
RecoverRaises(ch) ==
  /\ "redeliver" \in Workload
  /\ chState[ch] = "open"
  /\ reply[ch] = "none"
  /\ HeldByConsumers(ch) # {}
  /\ chState' = [chState EXCEPT ![ch] = "lost"]
  /\ UNCHANGED <<lastSp, queueVars, loopVars, chUnacked, deliveryTag, qos, flow, reply, consumerVars, pending, raced>>

-----------------------------------------------------------------------------
(* The end of a channel.  Channel#close forgets the entries of its consumers *)
(* and has each queue take back everything that queue holds for them; the    *)
(* entries left, of cancelled consumers and of Basic.Get, are requeued.      *)

FaultyLeftOverAll(ch) == chUnacked[ch]
FaultyLeftOverOfConsumers(ch) == {u \in chUnacked[ch] \ HeldByConsumers(ch) : u.c # NoConsumer}
LeftOver(ch) == chUnacked[ch] \ HeldByConsumers(ch)

CloseChannel(ch, s) ==
  LET C == ChannelConsumers(ch)
      held == {e \in unacked : e.c \in C}
      n == Copies(held \union LeftOver(ch))
  IN  /\ chState' = [chState EXCEPT ![ch] = s]
      /\ unacked' \in Deleted(unacked \ held, LeftOver(ch))
      /\ Insert(n)
      /\ MessageAvailable(NoLongerEmpty(n))
      /\ RemoveFromChannel(ch, chUnacked[ch])
      /\ cState' = [c \in Consumers |-> IF ChannelOf[c] = ch THEN "closed" ELSE cState[c]]
      /\ cUnacked' = [c \in Consumers |-> IF ChannelOf[c] = ch THEN 0 ELSE cUnacked[c]]
      /\ UNCHANGED <<lastSp, consToken, pc, inflight, deliveryTag, qos, flow, reply, pending, raced>>

\* The client closes the channel, its connection stays.
ChannelClose(ch) ==
  /\ "close channel" \in Workload
  /\ chState[ch] = "open"
  /\ reply[ch] = "none"
  /\ CloseChannel(ch, "closed")

\* An acknowledgement or rejection that matches no entry closes the channel.
UnknownTag(ch, tag, multiple) ==
  /\ Workload \intersect {"ack", "reject", "requeue"} # {}
  /\ MaySettle(ch, tag, multiple)
  /\ Settled(ch, tag, multiple) = {}
  /\ CloseChannel(ch, "closed")

\* The read loop sees the end of the stream, or a closed socket, and cleans up.
Disconnect(ch) ==
  /\ "disconnect" \in Workload
  /\ chState[ch] \in {"open", "closed"}
  /\ reply[ch] = "none"
  /\ CloseChannel(ch, "gone")

Cleanup(ch) ==
  /\ chState[ch] = "lost"
  /\ reply[ch] = "none"
  /\ CloseChannel(ch, "gone")

\* Any other frame could not be written: the socket is closed.
WriteError(ch) ==
  /\ "write error" \in Workload
  /\ chState[ch] \in {"open", "closed"}
  /\ chState' = [chState EXCEPT ![ch] = SocketLost(@)]
  /\ UNCHANGED <<lastSp, queueVars, loopVars, chUnacked, deliveryTag, qos, flow, reply, consumerVars, pending, raced>>

-----------------------------------------------------------------------------
DeliverLoop(q) ==
  \/ AwaitMessage(q)
  \/ ReceiveMessageToken(q)
  \/ AwaitConsumer(q)
  \/ ReceiveConsumerToken(q)
  \/ \E c \in Consumers : StartDelivery(q, c) \/ FoundNoMessage(q, c)
  \/ DeliveryDone(q)

Settle(ch) ==
  \E tag \in 0..(MaxTag + 1), multiple \in BOOLEAN :
    \/ BasicAck(ch, tag, multiple)
    \/ \E requeue \in BOOLEAN : BasicReject(ch, tag, multiple, requeue)
    \/ UnknownTag(ch, tag, multiple)

Client(ch) ==
  \/ \E q \in Queues, noAck \in BOOLEAN : BasicGet(ch, q, noAck)
  \/ \E v \in QosValues : BasicQos(ch, v)
  \/ ReplyWritten(ch)
  \/ \E active \in BOOLEAN : ClientFlow(ch, active)
  \/ \E requeue \in BOOLEAN : BasicRecover(ch, requeue)
  \/ RecoverRaises(ch)
  \/ ChannelClose(ch)
  \/ Disconnect(ch)
  \/ Cleanup(ch)
  \/ WriteError(ch)

Next ==
  \/ \E qs \in (SUBSET Queues) \ {{}} : Publish(qs)
  \/ \E q \in Queues : DeliverLoop(q) \/ DeliveryFailed(q) \/ Purge(q)
  \/ \E c \in Consumers : Consume(c) \/ CancelConsumer(c)
  \/ \E ch \in Channels : Settle(ch) \/ Client(ch)

Spec == Init /\ [][Next]_vars

-----------------------------------------------------------------------------
(* Properties *)

\* Every variable keeps its type; in particular the unsigned counter of a
\* consumer never goes below zero, which raises in the code.
TypeOK ==
  /\ lastSp \in 0..MaxSp
  /\ ready \in [Queues -> [Sp -> Nat]]
  /\ unacked \subseteq Unack
  /\ msgToken \in [Queues -> BOOLEAN]
  /\ consToken \in [Queues -> BOOLEAN]
  /\ pc \in [Queues -> {"top", "woken", "awaitMessage", "awaitConsumer", "deliver"}]
  /\ inflight \in [Queues -> [sp : 0..MaxSp, c : Holder, up : BOOLEAN]]
  /\ \A q \in Queues : pc[q] = "deliver" => inflight[q].sp \in Sp /\ inflight[q].c \in Consumers
  /\ chState \in [Channels -> {"open", "lost", "closed", "gone"}]
  /\ \A ch \in Channels : chUnacked[ch] \subseteq ChannelUnack /\ IsFiniteSet(chUnacked[ch])
  /\ DOMAIN chUnacked = Channels
  /\ deliveryTag \in [Channels -> Nat]
  /\ qos \in [Channels -> [count : Nat, global : BOOLEAN]]
  /\ flow \in [Channels -> BOOLEAN]
  /\ reply \in [Channels -> {"none", "consumers", "both"}]
  /\ cState \in [Consumers -> {"new", "active", "cancelled", "closed"}]
  /\ cUnacked \in [Consumers -> Nat]
  /\ pending \subseteq Queues \X Sp
  /\ raced \in BOOLEAN

\* A message routed to a queue and not disposed of is always somewhere: in the
\* ready deque, in the list of unacknowledged messages, or in the hands of the
\* deliver loop on its way to a no_ack consumer.  Failed deliveries, requeues,
\* channels that close and consumers that go away never lose it.
InDelivery(q, sp) == pc[q] = "deliver" /\ inflight[q].sp = sp /\ inflight[q].c \in NoAck
Holders(q, sp) == {e \in unacked : e.q = q /\ e.sp = sp}

NoLoss ==
  \A q \in Queues, sp \in Sp :
    <<q, sp>> \in pending =>
      ready[q][sp] > 0 \/ Holders(q, sp) # {} \/ InDelivery(q, sp)

\* A message is at one place only: one copy in the ready deque, or one holder,
\* or on its way to a no_ack consumer; and once it has been acknowledged,
\* rejected or purged it is nowhere, so it is never delivered again.  The one
\* exception is a write that fails after the delivery was taken back (raced).
Exclusive(q, sp) ==
  /\ ready[q][sp] <= 1
  /\ \A e, f \in Holders(q, sp) : e = f
  /\ ready[q][sp] = 0 \/ Holders(q, sp) = {}
  /\ InDelivery(q, sp) => ready[q][sp] = 0 /\ Holders(q, sp) = {}
  /\ <<q, sp>> \notin pending => ready[q][sp] = 0 /\ Holders(q, sp) = {}

OnePlace == ~raced => \A q \in Queues, sp \in Sp : Exclusive(q, sp)

\* The counter that the prefetch check reads is the number of deliveries the
\* channel waits for on behalf of the consumer.
HeldBy(c) == {u \in chUnacked[ChannelOf[c]] : u.c = c}

CounterExact == \A c \in Consumers : cState[c] = "active" => cUnacked[c] = Cardinality(HeldBy(c))

\* A new delivery never brings a consumer, or with a global prefetch the
\* consumers of its channel together, above the prefetch count.
PrefetchRespected ==
  [][ \A c \in Consumers :
        LET ch == ChannelOf[c]
            group == IF qos[ch].global THEN HeldByConsumers(ch) ELSE HeldBy(c)
        IN  Cardinality(HeldBy(c)') > Cardinality(HeldBy(c)) /\ qos[ch].count > 0
              => Cardinality(group) < qos[ch].count ]_vars

\* Whatever a queue holds as unacknowledged is known to a channel that can
\* still settle or return it.  A message that is not would stay in the queue,
\* undeliverable, until the broker restarts.
NoStrandedMessages ==
  ~raced => \A e \in unacked : \E ch \in Channels :
    /\ chState[ch] \in {"open", "lost"}
    /\ \E u \in chUnacked[ch] : u.q = e.q /\ u.sp = e.sp /\ u.c = e.c

\* The two lists agree: an entry of a channel that will be settled or returned
\* message by message stands for a message the queue holds for that consumer, and
\* no other such entry does.  The entries of the consumers of a connection that
\* is lost are exempt, closing the channel forgets them.
Owed(ch, u) ==
  chState[ch] = "open" \/ u.c = NoConsumer \/ cState[u.c] # "active"

Matched ==
  \A ch \in Channels : \A u \in chUnacked[ch] :
    Owed(ch, u) => [q |-> u.q, sp |-> u.sp, c |-> u.c] \in unacked

Unique ==
  \A ch, k \in Channels : \A u \in chUnacked[ch], v \in chUnacked[k] :
    Owed(ch, u) /\ Owed(k, v) /\ u.q = v.q /\ u.sp = v.sp => ch = k /\ u = v

ListsAgree == ~raced => Matched /\ Unique

\* A deliver loop waiting for a message has a token to receive if there is one.
MessageWakeup ==
  \A q \in Queues : pc[q] = "awaitMessage" /\ ~ReadyEmpty(q) => msgToken[q]

\* When a deliver loop waits for a consumer and one accepts, the loop has a token
\* to receive, or will be sent one by a handler that is still writing its reply to
\* a client that consumes from this queue.
ToldSoon(q) == \E c \in QueueConsumers(q) : reply[ChannelOf[c]] # "none"

ConsumerWakeup ==
  \A q \in Queues : pc[q] = "awaitConsumer" /\ (\E c \in QueueConsumers(q) : Accepts(c))
                      => consToken[q] \/ ToldSoon(q)

\* An acknowledgement settles the delivery with its tag, with multiple all those
\* up to it, and no other.
Named(ch, tag, multiple) ==
  {u \in chUnacked[ch] : IF multiple THEN tag = 0 \/ u.tag <= tag ELSE u.tag = tag}

AckSettlesItsTag ==
  [][ \A ch \in Channels :
        LET settled == chUnacked[ch] \ chUnacked'[ch]
        IN  settled # {} =>
              \A tag \in 0..(MaxTag + 1), multiple \in BOOLEAN :
                BasicAck(ch, tag, multiple) => settled = Named(ch, tag, multiple) ]_vars

\* The queues keep their contract as long as no write fails after its delivery
\* was taken back: the steps of the deliver loop, the clients and the network
\* move messages as QueueContract allows, in order and never back from "gone".
Place(m) ==
  LET q == m[1]
      sp == m[2]
  IN  CASE sp > lastSp -> "unpublished"
        [] sp <= lastSp /\ ready[q][sp] > 0 -> "ready"
        [] sp <= lastSp /\ ready[q][sp] = 0 /\ (Holders(q, sp) # {} \/ InDelivery(q, sp)) -> "held"
        [] OTHER -> "gone"

places == [m \in Queues \X Sp |-> Place(m)]

Contract == INSTANCE QueueContract WITH place <- places

KeepsContract == Contract!Init /\ [][Contract!Next \/ raced']_places

-----------------------------------------------------------------------------
(* Fairness: a runnable fiber is scheduled, a client reads what is written  *)
(* to it, so that no write blocks for ever, consumes, and settles what it   *)
(* holds.  Its frames may have to wait for the replies to any number of     *)
(* others, but are read in their turn: strong fairness.                     *)

FairSpec ==
  /\ Spec
  /\ \A q \in Queues : WF_vars(DeliverLoop(q))
  /\ \A c \in Consumers : SF_vars(Consume(c))
  /\ \A ch \in Channels : WF_vars(ReplyWritten(ch)) /\ SF_vars(Settle(ch))

\* With consumers that settle every delivery, each message is disposed of.
AllDisposed == \A q \in Queues, sp \in Sp : (<<q, sp>> \in pending) ~> (<<q, sp>> \notin pending)

=============================================================================
