------------------------------ MODULE WebClient ------------------------------
(***************************************************************************)
(* The AMQP client that the web pages of the broker load, talking to the   *)
(* broker over a WebSocket: promises for replies and for confirms, channel *)
(* objects and the channel ids they reuse, consumers, the assembly of      *)
(* messages from frames, and the ways a channel or the connection ends.    *)
(*                                                                         *)
(* The browser runs one task at a time: a call by the page or one WebSocket *)
(* message.  What a promise triggers is a microtask (a job), and the jobs  *)
(* run in order before the next message is parsed.  The broker writes one  *)
(* frame per message.  The broker's side is kept to what the client can    *)
(* observe: the answers of a connection's read loop, its deliveries, its   *)
(* confirms.                                                               *)
(*                                                                         *)
(* Abstracted: names, arguments and codes; which of the allowed outcomes a *)
(* request has is left open.  Left out: Connection.Blocked, which this      *)
(* broker does not send, heartbeats, which the client turns off, the        *)
(* timeout of a wait, channel(id) for an id in use, which returns the       *)
(* object kept and does nothing else.                                      *)
(*                                                                         *)
(* Faulty... operators are plausible mistakes that nothing uses.           *)
(***************************************************************************)
EXTENDS Integers, Sequences, FiniteSets

CONSTANTS
  Ids,          \* channel ids
  Workload,     \* the kinds of requests the page makes in this instance
  Troubles,     \* which of the broker's and network's mishaps can happen
  MaxObjects,   \* bound: channel objects created
  MaxCalls,     \* bound: calls the page makes, connect() included
  MaxMessages,  \* bound: messages the broker sends
  MaxBody       \* bound: body frames of a message

Requests ==
  { "topology", "exchange", "purge", "consume", "cancel", "get", "wait",
    "publish", "select", "mode", "settle", "tx", "close", "disconnect" }

Mishaps == { "refuse", "error", "user id", "direct reply", "cancel", "stop", "lost" }

ASSUME WebClientAssumption ==
  /\ Ids \subseteq Nat \ {0} /\ IsFiniteSet(Ids)
  /\ Workload \subseteq Requests
  /\ Troubles \subseteq Mishaps
  /\ {MaxObjects, MaxCalls, MaxMessages, MaxBody} \subseteq Nat
  /\ MaxCalls > 0

VARIABLES
  calls,      \* the calls made, in order; the promise each has returned
  objs,       \* the AMQPChannel objects created, in order
  channels,   \* AMQPBaseClient#channels: id -> object, 0 for a hole
  client,     \* AMQPBaseClient: socket, closed, connectPromise, closePromise
  jobs,       \* the microtask queue
  toServer,   \* frames on their way to the broker
  toClient,   \* frames on their way to the client
  broker,     \* the broker's Client and its Channels
  verdict,    \* history: what the broker decided on the publish of a call
  lastMsg,    \* the number of the last message the broker sent
  odd,        \* history: the known gaps this behaviour ran into
  faults      \* history: what the client threw or dropped

vars == <<calls, objs, channels, client, jobs, toServer, toClient, broker,
          verdict, lastMsg, odd, faults>>

-----------------------------------------------------------------------------
(* Data *)

NoMessage == [n |-> 0, whole |-> TRUE, size |-> 0, pos |-> 0, tag |-> 0]

\* What the page is given for a call: a promise, settled at most once; by is the
\* call whose answer settled it.
Call(op, o, st) == [op |-> op, obj |-> o, st |-> st, by |-> 0]

NewObject(id) ==
  [id |-> id, closed |-> FALSE, promises |-> << >>, unconfirmed |-> << >>,
   confirmId |-> -1, consumers |-> {}, delivery |-> NoMessage,
   getMessage |-> NoMessage, returned |-> NoMessage]

NoChannel == [running |-> FALSE, confirm |-> FALSE, published |-> << >>,
              waiting |-> FALSE, consumers |-> {}]

Init ==
  /\ calls = <<Call("connect", 0, "pending")>>
  /\ objs = << >>
  /\ channels = [i \in Ids |-> 0]
  /\ client = [socket |-> "open", closed |-> FALSE, connect |-> 1, closing |-> 0]
  /\ jobs = << >>
  /\ toServer = <<[op |-> "header", ch |-> 0, call |-> 1, tag |-> 0]>>
  /\ toClient = << >>
  /\ broker = [state |-> "handshake", ch |-> [i \in Ids |-> NoChannel], due |-> {}]
  /\ verdict = [k \in 1..MaxCalls |-> "none"]
  /\ lastMsg = 0
  /\ odd = {}
  /\ faults = {}

-----------------------------------------------------------------------------
(* Promises *)

Pending(k) == calls[k].st = "pending"

\* resolve or reject of the promises of the calls K; settling twice does nothing.
Settled(K, st, by) ==
  [k \in DOMAIN calls |->
     IF k \in K /\ Pending(k) THEN [calls[k] EXCEPT !.st = st, !.by = by] ELSE calls[k]]

FaultyTakesLatest(o, obj, by, tag) ==
  LET k == obj.promises[Len(obj.promises)]
  IN  IF obj.promises = << >>
      THEN objs' = [objs EXCEPT ![o] = obj] /\ UNCHANGED <<calls, jobs>>
      ELSE /\ objs' = [objs EXCEPT ![o] =
                         [obj EXCEPT !.promises = SubSeq(@, 1, Len(@) - 1)]]
           /\ calls' = Settled({k}, "resolved", by)
           /\ UNCHANGED jobs

\* AMQPChannel#resolvePromise, on object o whose fields are now obj: the oldest
\* promise gets the value.  basicConsume and basicCancel go on in a job.
ResolvePromise(o, obj, by, tag) ==
  IF obj.promises = << >>
  THEN objs' = [objs EXCEPT ![o] = obj] /\ UNCHANGED <<calls, jobs>>
  ELSE LET k == Head(obj.promises) IN
       /\ objs' = [objs EXCEPT ![o] = [obj EXCEPT !.promises = Tail(@)]]
       /\ IF calls[k].op \in {"consume", "cancel"}
          THEN /\ jobs' = Append(jobs, [do |-> calls[k].op, obj |-> o, call |-> k,
                                        by |-> by, tag |-> tag])
               /\ UNCHANGED calls
          ELSE calls' = Settled({k}, "resolved", by) /\ UNCHANGED jobs

SeqRange(s) == {s[i] : i \in DOMAIN s}
Unconfirmed(obj) == {obj.unconfirmed[i].call : i \in DOMAIN obj.unconfirmed}
Waiters(obj) == {c.waiter : c \in obj.consumers} \ {0}

\* The calls that AMQPChannel#setClosed settles on an object that is not closed.
FaultyForgetsWaits(o) ==
  IF objs[o].closed THEN {}
  ELSE SeqRange(objs[o].promises) \union Unconfirmed(objs[o])

CutOff(o) ==
  IF objs[o].closed THEN {}
  ELSE SeqRange(objs[o].promises) \union Unconfirmed(objs[o]) \union Waiters(objs[o])

SetClosed(o) ==
  IF objs[o].closed THEN objs[o]
  ELSE [objs[o] EXCEPT !.closed = TRUE, !.consumers = {}, !.promises = << >>]

\* What is still expected of an object and never comes once it is dropped.
Expected(o) ==
  {k \in SeqRange(objs[o].promises) \union Unconfirmed(objs[o]) \union Waiters(objs[o]) :
     Pending(k)}

-----------------------------------------------------------------------------
(* The calls of the page *)

NextCall == Len(calls) + 1
Connected == calls[1].st = "resolved"

\* The page holds a channel object from the moment its channel() call resolves.
Held(o) == \E k \in DOMAIN calls :
  calls[k].op = "open" /\ calls[k].obj = o /\ calls[k].st = "resolved" /\ calls[k].by = k

May(request) == request \in Workload /\ Connected /\ Len(calls) < MaxCalls

\* AMQPWebSocketClient#send: a socket that is closed drops what it is given.
Send(fs) == toServer' = IF client.socket = "open" THEN toServer \o fs ELSE toServer

Frame(op, id, call, tag) == [op |-> op, ch |-> id, call |-> call, tag |-> tag]
Job(do, o, call) == [do |-> do, obj |-> o, call |-> call, by |-> call, tag |-> 0]

\* AMQPChannel#rejectClosed
RejectClosed(op, o) ==
  /\ calls' = Append(calls, Call(op, o, "rejected"))
  /\ UNCHANGED <<jobs, toServer>>

\* AMQPChannel#sendRpc: the promise is queued by a job, after the frame was sent.
SendRpc(op, o, tag) ==
  /\ calls' = Append(calls, Call(op, o, "pending"))
  /\ Send(<<Frame(op, objs[o].id, NextCall, tag)>>)
  /\ jobs' = Append(jobs, Job("await", o, NextCall))

Request(op, o, tag) ==
  /\ Held(o)
  /\ IF objs[o].closed THEN RejectClosed(op, o) ELSE SendRpc(op, o, tag)
  /\ UNCHANGED <<objs, channels, client, toClient, broker, verdict, lastMsg, faults>>

Topology(o) == May("topology") /\ Request("topology", o, 0) /\ UNCHANGED odd
QueueDeclare(o) == Topology(o)
QueueDelete(o) == Topology(o)
QueueBind(o) == Topology(o)
QueueUnbind(o) == Topology(o)
ExchangeBind(o) == Topology(o)
ExchangeUnbind(o) == Topology(o)

\* The two that do not look at closed: on a closed object they send the frame
\* for an id that by then can belong to another object.
UncheckedRpc(o) ==
  /\ May("exchange") /\ Held(o)
  /\ SendRpc("topology", o, 0)
  /\ odd' = IF objs[o].closed THEN odd \union {"unchecked"} ELSE odd
  /\ UNCHANGED <<objs, channels, client, toClient, broker, verdict, lastMsg, faults>>
ExchangeDeclare(o) == UncheckedRpc(o)
ExchangeDelete(o) == UncheckedRpc(o)

\* Asks for no reply (no_wait) and waits for one.
QueuePurge(o) ==
  /\ May("purge") /\ Request("purge", o, 0)
  /\ odd' = IF objs[o].closed THEN odd ELSE odd \union {"purge"}

Mode(o) == May("mode") /\ Request("mode", o, 0) /\ UNCHANGED odd
BasicQos(o) == Mode(o)
BasicFlow(o) == Mode(o)
BasicRecover(o) == Mode(o)

ConfirmSelect(o) ==
  /\ May("select") /\ Request("select", o, 0)
  /\ odd' = IF objs[o].confirmId >= 0 THEN odd \union {"select"} ELSE odd

TxMethod(o) == May("tx") /\ Request("tx", o, 0) /\ UNCHANGED odd

BasicGet(o) == May("get") /\ Request("get", o, 0) /\ UNCHANGED odd
BasicConsume(o) == May("consume") /\ Request("consume", o, NextCall) /\ UNCHANGED odd
BasicCancel(o) ==
  \E c \in objs[o].consumers :
    May("cancel") /\ Request("cancel", o, c.tag) /\ UNCHANGED odd

\* basicAck, basicNack, basicReject: nothing to wait for but the send.
Settle(o) ==
  /\ May("settle") /\ Held(o)
  /\ IF objs[o].closed THEN RejectClosed("settle", o)
     ELSE /\ calls' = Append(calls, Call("settle", o, "resolved"))
          /\ Send(<<Frame("settle", objs[o].id, NextCall, 0)>>)
          /\ UNCHANGED jobs
  /\ UNCHANGED <<objs, channels, client, toClient, broker, verdict, lastMsg, odd, faults>>
BasicAck(o) == Settle(o)
BasicNack(o) == Settle(o)
BasicReject(o) == Settle(o)

\* The method, header and body frames go out in one task.  The mode is read here:
\* the confirm is expected only if SelectOk was parsed before.
BasicPublish(o) ==
  /\ May("publish") /\ Held(o)
  /\ LET op == IF objs[o].confirmId >= 0 THEN "confirm" ELSE "publish" IN
     IF objs[o].closed THEN RejectClosed(op, o)
     ELSE /\ calls' = Append(calls, Call(op, o, "pending"))
          /\ Send(<<Frame("publish", objs[o].id, NextCall, 0)>>)
          /\ jobs' = Append(jobs, Job(IF op = "confirm" THEN "count" ELSE "sent", o, NextCall))
  /\ odd' = IF \E k \in DOMAIN calls : calls[k].op = "select" /\ calls[k].obj = o /\ Pending(k)
            THEN odd \union {"select"} ELSE odd
  /\ UNCHANGED <<objs, channels, client, toClient, broker, verdict, lastMsg, faults>>

\* AMQPConsumer#wait, once for a consumer.  It does not look at the channel: after
\* the page closed it, nothing ends the wait.
Wait(o) ==
  /\ May("wait") /\ Held(o)
  /\ \E c \in objs[o].consumers :
       /\ c.waiter = 0
       /\ objs' = [objs EXCEPT ![o].consumers = (@ \ {c}) \union {[c EXCEPT !.waiter = NextCall]}]
  /\ calls' = Append(calls, Call("wait", o, "pending"))
  /\ odd' = IF objs[o].closed THEN odd \union {"closed by page"} ELSE odd
  /\ UNCHANGED <<channels, client, jobs, toServer, toClient, broker, verdict, lastMsg, faults>>

\* AMQPChannel#close marks the object closed at once.
CloseChannel(o) ==
  /\ May("close") /\ Held(o)
  /\ IF objs[o].closed THEN RejectClosed("close", o) /\ UNCHANGED objs
     ELSE /\ objs' = [objs EXCEPT ![o].closed = TRUE]
          /\ SendRpc("close", o, 0)
  /\ UNCHANGED <<channels, client, toClient, broker, verdict, lastMsg, odd, faults>>

\* AMQPBaseClient#channel without an id takes the first hole of the list.
OpenChannel ==
  /\ Connected /\ Len(calls) < MaxCalls /\ Len(objs) < MaxObjects
  /\ IF client.closed
     THEN RejectClosed("open", 0) /\ UNCHANGED <<objs, channels>>
     ELSE \E id \in Ids :
          /\ channels[id] = 0 /\ \A i \in Ids : channels[i] = 0 => id <= i
          /\ objs' = Append(objs, NewObject(id))
          /\ channels' = [channels EXCEPT ![id] = Len(objs) + 1]
          /\ calls' = Append(calls, Call("open", Len(objs) + 1, "pending"))
          /\ Send(<<Frame("open", id, NextCall, 0)>>)
          /\ jobs' = Append(jobs, Job("await", Len(objs) + 1, NextCall))
  /\ UNCHANGED <<client, toClient, broker, verdict, lastMsg, odd, faults>>

\* AMQPBaseClient#close
CloseConnection ==
  /\ May("disconnect")
  /\ IF client.closed THEN RejectClosed("disconnect", 0) /\ UNCHANGED client
     ELSE /\ client' = [client EXCEPT !.closed = TRUE]
          /\ calls' = Append(calls, Call("disconnect", 0, "pending"))
          /\ Send(<<Frame("disconnect", 0, NextCall, 0)>>)
          /\ jobs' = Append(jobs, Job("closing", 0, NextCall))
  /\ UNCHANGED <<objs, channels, toClient, broker, verdict, lastMsg, odd, faults>>

-----------------------------------------------------------------------------
(* Jobs *)

HeadJob(do) == jobs # << >> /\ Head(jobs).do = do

FaultyAwaitFirst ==
  /\ HeadJob("await")
  /\ LET j == Head(jobs) IN
     objs' = [objs EXCEPT ![j.obj].promises = <<j.call>> \o @]
  /\ UNCHANGED <<calls, client>>

RunAwait ==
  /\ HeadJob("await")
  /\ LET j == Head(jobs) IN
     objs' = [objs EXCEPT ![j.obj].promises = Append(@, j.call)]
  /\ UNCHANGED <<calls, client>>

RunClosing ==
  /\ HeadJob("closing")
  /\ client' = [client EXCEPT !.closing = Head(jobs).call]
  /\ UNCHANGED <<calls, objs>>

RunSent ==
  /\ HeadJob("sent")
  /\ calls' = Settled({Head(jobs).call}, "resolved", Head(jobs).call)
  /\ UNCHANGED <<objs, client>>

\* basicPublish, in confirm mode: number the publish and queue its promise.
RunCount ==
  /\ HeadJob("count")
  /\ LET j == Head(jobs) IN
     objs' = [objs EXCEPT
       ![j.obj].unconfirmed = Append(@, [tag |-> objs[j.obj].confirmId + 1, call |-> j.call]),
       ![j.obj].confirmId = @ + 1]
  /\ UNCHANGED <<calls, client>>

RunConsume ==
  /\ HeadJob("consume")
  /\ LET j == Head(jobs) IN
     /\ objs' = [objs EXCEPT ![j.obj].consumers = @ \union {[tag |-> j.tag, waiter |-> 0]}]
     /\ calls' = Settled({j.call}, "resolved", j.by)
  /\ UNCHANGED client

\* Cancelling: the consumer's wait() ends; a consumer that is not there throws,
\* and the throw rejects the call.
RunCancel ==
  /\ HeadJob("cancel")
  /\ LET j == Head(jobs)
         cs == {c \in objs[j.obj].consumers : c.tag = j.tag}
         ended == {c.waiter : c \in cs} \ {0}
     IN /\ objs' = [objs EXCEPT ![j.obj].consumers = @ \ cs]
        /\ calls' = [k \in DOMAIN calls |->
             IF k \in ended THEN [calls[k] EXCEPT !.st = "resolved", !.by = k]
             ELSE IF k = j.call
                  THEN [calls[k] EXCEPT !.st = IF cs = {} THEN "rejected" ELSE "resolved",
                                        !.by = j.by]
                  ELSE calls[k]]
  /\ UNCHANGED client

RunJob ==
  /\ \/ RunAwait \/ RunClosing \/ RunSent \/ RunCount \/ RunConsume \/ RunCancel
  /\ jobs' = Tail(jobs)
  /\ UNCHANGED <<channels, toServer, toClient, broker, verdict, lastMsg, odd, faults>>

-----------------------------------------------------------------------------
(* Frames: one action for the message of each kind *)

FaultyFramesBatched == client.socket = "open"
MayParse == client.socket = "open" /\ jobs = << >>

\* The frame m is the next one to parse.
Parse(m) ==
  /\ MayParse /\ toClient # << >> /\ Head(toClient).m = m
  /\ toClient' = Tail(toClient)
  /\ UNCHANGED <<broker, verdict, lastMsg>>

Arrived == Head(toClient)
Addressed == channels[Arrived.ch]

\* Connection.Start, Connection.Tune: answered in the handler.
OnStart ==
  /\ Parse("start") /\ Send(<<Frame("startOk", 0, 1, 0)>>)
  /\ UNCHANGED <<calls, objs, channels, client, jobs, odd, faults>>

OnTune ==
  /\ Parse("tune") /\ Send(<<Frame("tuneOk", 0, 1, 0), Frame("connOpen", 0, 1, 0)>>)
  /\ UNCHANGED <<calls, objs, channels, client, jobs, odd, faults>>

OnConnectionOpenOk ==
  /\ Parse("connOpenOk")
  /\ calls' = Settled({client.connect}, "resolved", 1)
  /\ client' = [client EXCEPT !.connect = 0]
  /\ UNCHANGED <<objs, channels, jobs, toServer, odd, faults>>

Listed == {o \in DOMAIN objs : \E id \in Ids : channels[id] = o}

\* Connection.Close: every listed channel is closed with the error, CloseOk is sent,
\* and rejectConnect ends a connect() under way and closes the socket.  A close()
\* under way gets no answer.
OnConnectionClose ==
  /\ MayParse /\ toClient # << >> /\ Arrived.m = "connClose"
  /\ calls' = Settled(UNION {CutOff(o) : o \in Listed} \union ({client.connect} \ {0}),
                      "rejected", 0)
  /\ objs' = [o \in DOMAIN objs |-> IF o \in Listed THEN SetClosed(o) ELSE objs[o]]
  /\ channels' = [id \in Ids |-> 0]
  /\ client' = [client EXCEPT !.socket = "closed", !.closed = TRUE, !.connect = 0]
  /\ toClient' = << >>
  /\ toServer' = Append(toServer, Frame("connCloseOk", 0, 0, 0))
  /\ odd' = odd \union (IF client.closing # 0 THEN {"closes crossed"} ELSE {})
                \union (IF \E o \in Listed : objs[o].closed /\ Expected(o) # {}
                        THEN {"closed by page"} ELSE {})
  /\ UNCHANGED <<jobs, broker, verdict, lastMsg, faults>>

OnConnectionCloseOk ==
  /\ MayParse /\ toClient # << >> /\ Arrived.m = "connCloseOk"
  /\ calls' = [k \in DOMAIN calls |->
       IF k = client.closing THEN [calls[k] EXCEPT !.st = "resolved", !.by = k]
       ELSE Settled(UNION {CutOff(o) : o \in Listed}, "rejected", 0)[k]]
  /\ objs' = [o \in DOMAIN objs |-> IF o \in Listed THEN SetClosed(o) ELSE objs[o]]
  /\ channels' = [id \in Ids |-> 0]
  /\ client' = [client EXCEPT !.socket = "closed", !.closing = 0]
  /\ toClient' = << >>
  /\ odd' = IF \E o \in Listed : objs[o].closed /\ Expected(o) # {}
            THEN odd \union {"closed by page"} ELSE odd
  /\ UNCHANGED <<jobs, toServer, broker, verdict, lastMsg, faults>>

\* The replies whose handler is channel.resolvePromise: without a channel it throws.
Reply(m) ==
  /\ Parse(m)
  /\ IF Addressed = 0
     THEN faults' = faults \union {"no channel"} /\ UNCHANGED <<calls, objs, jobs>>
     ELSE /\ ResolvePromise(Addressed, objs[Addressed], Arrived.call, Arrived.tag)
          /\ UNCHANGED faults
  /\ UNCHANGED <<channels, client, toServer, odd>>

OnChannelOpenOk == Reply("openOk")
OnTopologyOk == Reply("topologyOk")   \* exchange and queue methods
OnFlowOk == Reply("modeOk")           \* FlowOk, QosOk, RecoverOk
OnConsumerOk == Reply("consumerOk")   \* ConsumeOk, CancelOk
OnGetEmpty == Reply("getEmpty")

\* Confirm.SelectOk: the count of publishes starts again.
OnSelectOk ==
  /\ Parse("selectOk")
  /\ IF Addressed = 0
     THEN faults' = faults \union {"no channel"} /\ UNCHANGED <<calls, objs, jobs, odd>>
     ELSE /\ ResolvePromise(Addressed, [objs[Addressed] EXCEPT !.confirmId = 0],
                            Arrived.call, 0)
          /\ odd' = IF objs[Addressed].confirmId >= 0 THEN odd \union {"select"} ELSE odd
          /\ UNCHANGED faults
  /\ UNCHANGED <<channels, client, toServer>>

\* Channel.Close: an object the page has closed itself is dropped as it is.
OnChannelClose ==
  /\ Parse("close")
  /\ Send(<<Frame("closeOk", Arrived.ch, 0, 0)>>)
  /\ IF Addressed = 0 THEN UNCHANGED <<calls, objs, channels, odd>>
     ELSE /\ calls' = Settled(CutOff(Addressed), "rejected", 0)
          /\ objs' = [objs EXCEPT ![Addressed] = SetClosed(Addressed)]
          /\ channels' = [channels EXCEPT ![Arrived.ch] = 0]
          /\ odd' = IF objs[Addressed].closed THEN odd \union {"closes crossed"} ELSE odd
  /\ UNCHANGED <<client, jobs, faults>>

\* Channel.CloseOk: setClosed does nothing on an object the page has closed; then the
\* oldest promise is resolved.  Without an object this.rejectPromise throws.
OnChannelCloseOk ==
  /\ Parse("closeOk")
  /\ IF Addressed = 0
     THEN faults' = faults \union {"no channel"} /\ UNCHANGED <<calls, objs, channels, jobs, odd>>
     ELSE LET o == Addressed
              rest == SetClosed(o)
          IN /\ IF objs[o].closed
                THEN ResolvePromise(o, rest, Arrived.call, 0)
                ELSE /\ calls' = Settled(CutOff(o), "rejected", 0)
                     /\ objs' = [objs EXCEPT ![o] = rest]
                     /\ UNCHANGED jobs
             /\ channels' = [channels EXCEPT ![Arrived.ch] = 0]
             /\ odd' = IF objs[o].closed /\ Expected(o) \ {Arrived.call} # {}
                       THEN odd \union {"closed by page"} ELSE odd
             /\ UNCHANGED faults
  /\ UNCHANGED <<client, toServer>>

\* Basic.Ack and Basic.Nack of publishes: publishConfirmed.  A tag that is not in the
\* list, because it was confirmed before, settles nothing, multiple or not.
FaultyConfirmsAll(u, i, multiple) == {u[j].call : j \in 1..i}
ConfirmedBy(u, i, multiple) == {u[j].call : j \in {x \in 1..i : multiple \/ x = i}}
Spliced(u, i, multiple) ==
  (IF multiple THEN << >> ELSE SubSeq(u, 1, i - 1)) \o SubSeq(u, i + 1, Len(u))

PublishConfirmed(m, st) ==
  /\ Parse(m)
  /\ LET u == objs[Addressed].unconfirmed
         found == {i \in DOMAIN u : u[i].tag = Arrived.tag}
         i == CHOOSE x \in found : \A y \in found : x <= y
     IN IF Addressed = 0 \/ found = {} THEN UNCHANGED <<calls, objs>>
        ELSE /\ objs' = [objs EXCEPT ![Addressed].unconfirmed =
                          Spliced(u, i, Arrived.multiple)]
             /\ calls' = Settled(ConfirmedBy(u, i, Arrived.multiple), st, Arrived.call)
  /\ UNCHANGED <<channels, client, jobs, toServer, odd, faults>>
OnAck == PublishConfirmed("ack", "resolved")
OnNack == PublishConfirmed("nack", "rejected")

\* Basic.Cancel by the broker: not among the methods the client knows.
OnCancel ==
  /\ Parse("cancel")
  /\ UNCHANGED <<calls, objs, channels, client, jobs, toServer, odd, faults>>

-----------------------------------------------------------------------------
(* Messages *)

NewMessage == [NoMessage EXCEPT !.n = Arrived.n, !.tag = Arrived.tag]

StartMessage(m, slot) ==
  /\ Parse(m)
  /\ IF Addressed = 0 THEN UNCHANGED objs
     ELSE objs' = [objs EXCEPT ![Addressed] = [@ EXCEPT ![slot] = NewMessage]]
  /\ UNCHANGED <<calls, channels, client, jobs, toServer, odd, faults>>
OnReturn == StartMessage("return", "returned")
OnDeliver == StartMessage("deliver", "delivery")
OnGetOk == StartMessage("getOk", "getMessage")

\* channel.delivery || channel.getMessage || channel.returned
Slot(obj) == IF obj.delivery.n # 0 THEN "delivery"
             ELSE IF obj.getMessage.n # 0 THEN "getMessage" ELSE "returned"

FaultyKeepsDelivery(o, msg) ==
  LET obj == [objs[o] EXCEPT ![Slot(objs[o])] =
                IF Slot(objs[o]) = "delivery" THEN msg ELSE NoMessage]
      bad == IF msg.whole THEN {} ELSE {"mixed"}
  IN  /\ IF Slot(objs[o]) = "getMessage"
         THEN ResolvePromise(o, obj, msg.tag, 0)
         ELSE objs' = [objs EXCEPT ![o] = obj] /\ UNCHANGED <<calls, jobs>>
      /\ faults' = faults \union bad

\* AMQPChannel#onMessageReady: a delivery goes to its consumer, if it is known, the
\* message of a get resolves the oldest promise, a returned one goes to onReturn.
OnMessageReady(o, msg) ==
  LET slot == Slot(objs[o])
      obj == [objs[o] EXCEPT ![slot] = NoMessage]
      lost == slot = "delivery" /\ ~\E c \in obj.consumers : c.tag = msg.tag
  IN  /\ IF slot = "getMessage"
         THEN ResolvePromise(o, obj, msg.tag, 0)
         ELSE objs' = [objs EXCEPT ![o] = obj] /\ UNCHANGED <<calls, jobs>>
      /\ faults' = faults \union (IF msg.whole THEN {} ELSE {"mixed"})
                          \union (IF lost THEN {"dropped"} ELSE {})

\* The message the frame belongs to has grown to msg; complete, it is handed over.
\* A frame that belongs to none throws, one for no channel is ignored.
Part(msg) ==
  IF Addressed = 0 THEN UNCHANGED <<calls, objs, jobs, faults>>
  ELSE IF msg.n = 0 THEN faults' = faults \union {"no message"} /\ UNCHANGED <<calls, objs, jobs>>
  ELSE IF msg.pos = msg.size THEN OnMessageReady(Addressed, msg)
  ELSE /\ objs' = [objs EXCEPT ![Addressed] = [@ EXCEPT ![Slot(@)] = msg]]
       /\ UNCHANGED <<calls, jobs, faults>>

OnHeader ==
  /\ Parse("header")
  /\ Part(LET old == objs[Addressed][Slot(objs[Addressed])] IN
       [old EXCEPT !.size = Arrived.size, !.pos = 0, !.whole = (old.n = Arrived.n)])
  /\ UNCHANGED <<channels, client, toServer, odd>>

OnBody ==
  /\ Parse("body")
  /\ Part(LET old == objs[Addressed][Slot(objs[Addressed])] IN
       [old EXCEPT !.pos = @ + 1, !.whole = @ /\ old.n = Arrived.n])
  /\ UNCHANGED <<channels, client, toServer, odd>>

-----------------------------------------------------------------------------
(* The broker *)

Out(m, f, tag) == <<[m |-> m, ch |-> f.ch, call |-> f.call, tag |-> tag]>>

\* A message is written as one piece, under the write lock of the connection.
MessageFrames(m, f, tag, body) ==
  LET part == [ch |-> f.ch, n |-> lastMsg + 1, size |-> body, tag |-> tag]
      As(name) == [m |-> name, ch |-> part.ch, n |-> part.n, size |-> body, tag |-> tag]
  IN  <<As(m), As("header")>> \o [i \in 1..body |-> As("body")]

Asked == Head(toServer)
On == broker.ch[Asked.ch]

Reads(op) ==
  /\ broker.state = "running" /\ toServer # << >> /\ Asked.op = op
  /\ toServer' = Tail(toServer)
  /\ UNCHANGED <<calls, objs, channels, client, jobs, faults>>

Answers(frames) == toClient' = toClient \o frames
Sets(ch) == broker' = [broker EXCEPT !.ch[Asked.ch] = ch]

FaultyKeepsRunning ==
  /\ "error" \in Troubles /\ On.running
  /\ Answers(Out("close", Asked, 0))
  /\ UNCHANGED <<broker, verdict, lastMsg, odd>>

\* Client#close_channel: the channel is gone as soon as Close is written, so nothing
\* is left of it by the time the client's late frames and CloseOk arrive.
RefusesChannel ==
  /\ "error" \in Troubles
  /\ IF On.running THEN Answers(Out("close", Asked, 0)) ELSE UNCHANGED toClient
  /\ Sets(NoChannel)
  /\ UNCHANGED <<verdict, lastMsg, odd>>

\* Client#close_connection
ClosesConnection ==
  /\ Answers(Out("connClose", Asked, 0))
  /\ broker' = [broker EXCEPT !.state = "closing"]
  /\ UNCHANGED <<verdict, lastMsg, odd>>

\* Client#with_channel, for a frame that is not part of a publish.
NotOpen == ~On.running /\ ClosesConnection

Says(m, tag) == Answers(Out(m, Asked, tag)) /\ UNCHANGED <<verdict, lastMsg, odd>>
Nothing == UNCHANGED <<toClient, broker, verdict, lastMsg, odd>>

BrokerOpen == Reads("open") /\ Sets([NoChannel EXCEPT !.running = TRUE]) /\ Says("openOk", 0)
BrokerClose == Reads("close") /\ Sets(NoChannel) /\ Says("closeOk", 0)
BrokerCloseOk == Reads("closeOk") /\ Sets(NoChannel) /\ UNCHANGED <<toClient, verdict, lastMsg, odd>>

\* The declarations and bindings do not look the channel up: client.send drops an
\* answer for a channel that is not there.
BrokerTopology ==
  /\ Reads("topology")
  /\ \/ On.running /\ Says("topologyOk", 0) /\ UNCHANGED broker
     \/ ~On.running /\ Nothing
     \/ RefusesChannel

BrokerPurge == Reads("purge") /\ (Nothing \/ RefusesChannel)

BrokerConsume ==
  /\ Reads("consume")
  /\ \/ /\ On.running
        /\ Sets([On EXCEPT !.consumers = @ \union {Asked.tag}])
        /\ Says("consumerOk", Asked.tag)
     \/ NotOpen
     \/ RefusesChannel

BrokerCancel ==
  /\ Reads("cancel")
  /\ \/ /\ On.running
        /\ Sets([On EXCEPT !.consumers = @ \ {Asked.tag}])
        /\ Says("consumerOk", Asked.tag)
     \/ NotOpen

BrokerMode ==
  /\ Reads("mode")
  /\ \/ On.running /\ Says("modeOk", 0) /\ UNCHANGED broker
     \/ NotOpen

BrokerSelect ==
  /\ Reads("select")
  /\ \/ On.running /\ Sets([On EXCEPT !.confirm = TRUE]) /\ Says("selectOk", 0)
     \/ NotOpen

BrokerSettle ==
  /\ Reads("settle")
  /\ \/ On.running /\ (Nothing \/ RefusesChannel)
     \/ NotOpen

BrokerTx == Reads("tx") /\ ClosesConnection

\* Channel#deliver sends the publish confirms first: here no confirm is outstanding.
NoConfirmDue == \A id \in Ids : ~broker.ch[id].waiting

BrokerGet ==
  /\ Reads("get")
  /\ \/ On.running /\ Says("getEmpty", 0) /\ UNCHANGED broker
     \/ /\ On.running /\ NoConfirmDue /\ lastMsg < MaxMessages
        /\ \E body \in 0..MaxBody : Answers(MessageFrames("getOk", Asked, Asked.call, body))
        /\ lastMsg' = lastMsg + 1
        /\ UNCHANGED <<broker, verdict, odd>>
     \/ NotOpen
     \/ RefusesChannel

\* The verdict of the broker on the publishes of tags 1..n, in one acknowledgement.
AckedUpTo(n, published) ==
  [k \in DOMAIN verdict |->
     IF verdict[k] = "none" /\ k \in {published[i] : i \in 1..n} THEN "ack" ELSE verdict[k]]

ConfirmFrame(m, id, call, tag, multiple) ==
  <<[m |-> m, ch |-> id, call |-> call, tag |-> tag, multiple |-> multiple]>>

\* The tag the publish that is being read gets.
Total == Len(On.published) + 1
Counted == [On EXCEPT !.published = Append(@, Asked.call)]

BrokerRoutes ==
  IF On.confirm THEN Sets([Counted EXCEPT !.waiting = TRUE])
                     /\ UNCHANGED <<toClient, verdict, lastMsg, odd>>
                ELSE Nothing

\* Rejected by a full queue: a nack of its own.
BrokerRejects ==
  IF On.confirm
  THEN /\ Sets(Counted)
       /\ Answers(ConfirmFrame("nack", Asked.ch, Asked.call, Total, FALSE))
       /\ verdict' = [verdict EXCEPT ![Asked.call] = "nack"]
       /\ UNCHANGED <<lastMsg, odd>>
  ELSE Nothing

\* Not routed: returned if it is mandatory (which sends the confirms that are due
\* first, and they cover this publish), then acknowledged on its own.
BrokerReturns ==
  \E mandatory \in BOOLEAN :
    /\ mandatory => lastMsg < MaxMessages
    /\ lastMsg' = IF mandatory THEN lastMsg + 1 ELSE lastMsg
    /\ LET due == mandatory /\ On.waiting
           first == IF due THEN ConfirmFrame("ack", Asked.ch, Asked.call, Total, TRUE) ELSE << >>
           message == IF mandatory THEN MessageFrames("return", Asked, 0, 0) ELSE << >>
           alone == IF On.confirm THEN ConfirmFrame("ack", Asked.ch, Asked.call, Total, FALSE)
                    ELSE << >>
       IN /\ Answers(first \o message \o alone)
          /\ IF On.confirm
             THEN /\ Sets([Counted EXCEPT !.waiting = @ /\ ~due])
                  /\ verdict' = IF due THEN AckedUpTo(Total, Counted.published)
                                ELSE [verdict EXCEPT ![Asked.call] = "ack"]
             ELSE UNCHANGED <<broker, verdict>>
    /\ UNCHANGED odd

\* A message with another user's id: Close is written, but the channel goes on.
BrokerRefusesUser ==
  /\ "user id" \in Troubles
  /\ Answers(Out("close", Asked, 0))
  /\ odd' = odd \union {"half closed"}
  /\ UNCHANGED <<broker, verdict, lastMsg>>

\* A publish to a direct reply queue is delivered, but neither counted nor confirmed.
BrokerRepliesDirectly ==
  /\ "direct reply" \in Troubles /\ On.confirm
  /\ odd' = odd \union {"direct reply"}
  /\ UNCHANGED <<toClient, broker, verdict, lastMsg>>

BrokerPublish ==
  /\ Reads("publish")
  /\ \/ ~On.running /\ Nothing
     \/ /\ On.running
        /\ \/ BrokerRoutes \/ BrokerRejects \/ BrokerReturns
           \/ BrokerRefusesUser \/ BrokerRepliesDirectly
           \/ RefusesChannel

\* VHost#send_publish_confirms: one acknowledgement up to the last publish counted.
FaultyAcksOnlyLast(id) ==
  ConfirmFrame("ack", id, 0, Len(broker.ch[id].published), FALSE)
ConfirmsUpTo(id) ==
  ConfirmFrame("ack", id, 0, Len(broker.ch[id].published), TRUE)

BrokerConfirms(id) ==
  LET b == broker.ch[id] IN
  /\ broker.state = "running" /\ b.waiting
  /\ Answers(ConfirmsUpTo(id))
  /\ broker' = [broker EXCEPT !.ch[id].waiting = FALSE]
  /\ verdict' = AckedUpTo(Len(b.published), b.published)
  /\ odd' = IF verdict[b.published[Len(b.published)]] # "none"
            THEN odd \union {"last confirmed before"} ELSE odd
  /\ UNCHANGED <<calls, objs, channels, client, jobs, toServer, lastMsg, faults>>

\* Channel#deliver finds the channel running.  It then waits for the lock of the
\* confirms and for that of the socket, and looks at nothing again.
BrokerChecks(id) ==
  /\ broker.state = "running" /\ lastMsg < MaxMessages
  /\ \E tag \in broker.ch[id].consumers :
       broker' = [broker EXCEPT !.due = @ \union {[ch |-> id, tag |-> tag]}]
  /\ UNCHANGED <<calls, objs, channels, client, jobs, toServer, toClient, verdict, lastMsg,
                 odd, faults>>

\* ... and writes the message, also when CancelOk, Close or CloseOk was written in
\* between.  The confirms it sends first may come at any time here.  What is written
\* after Connection.Close is left out: the client has closed its socket by then.
BrokerDelivers(id) ==
  /\ broker.state = "running" /\ lastMsg < MaxMessages
  /\ \E d \in broker.due, body \in 0..MaxBody :
       /\ d.ch = id
       /\ Answers(MessageFrames("deliver", d, d.tag, body))
       /\ broker' = [broker EXCEPT !.due = @ \ {d}]
       /\ odd' = IF d.tag \in broker.ch[id].consumers THEN odd ELSE odd \union {"late delivery"}
  /\ lastMsg' = lastMsg + 1
  /\ UNCHANGED <<calls, objs, channels, client, jobs, toServer, verdict, faults>>

\* The consumer's queue was deleted: Consumer#cancel.
BrokerCancelsConsumer(id) ==
  /\ broker.state = "running" /\ "cancel" \in Troubles
  /\ \E tag \in broker.ch[id].consumers :
       /\ Answers(<<[m |-> "cancel", ch |-> id, tag |-> tag]>>)
       /\ broker' = [broker EXCEPT !.ch[id].consumers = @ \ {tag}]
  /\ UNCHANGED <<calls, objs, channels, client, jobs, toServer, verdict, lastMsg, odd, faults>>

\* The broker is stopped: Client#close.
BrokerStops ==
  /\ broker.state = "running" /\ "stop" \in Troubles
  /\ Answers(<<[m |-> "connClose", ch |-> 0]>>)
  /\ broker' = [broker EXCEPT !.state = "closing"]
  /\ UNCHANGED <<calls, objs, channels, client, jobs, toServer, verdict, lastMsg, odd, faults>>

\* AMQPConnection.start
Handshake(op, reply, state) ==
  /\ broker.state = "handshake" /\ toServer # << >> /\ Asked.op = op
  /\ toServer' = Tail(toServer)
  /\ Answers(reply)
  /\ broker' = [broker EXCEPT !.state = state]
  /\ UNCHANGED <<calls, objs, channels, client, jobs, verdict, lastMsg, odd, faults>>

Simple(m) == <<[m |-> m, ch |-> 0]>>

BrokerHandshakes ==
  \/ Handshake("header", Simple("start"), "handshake")
  \/ Handshake("startOk", Simple("tune"), "handshake")
  \/ Handshake("tuneOk", << >>, "handshake")
  \/ Handshake("connOpen", Simple("connOpenOk"), "running")
  \/ /\ "refuse" \in Troubles
     /\ \E op \in {"startOk", "connOpen"} : Handshake(op, Simple("connClose"), "closing")

\* Connection.Close of the client: answered only while the broker has not begun to
\* close the connection itself.
BrokerDisconnects ==
  /\ broker.state \in {"running", "closing"} /\ toServer # << >>
  /\ Asked.op \in {"disconnect", "connCloseOk"}
  /\ IF Asked.op = "disconnect" /\ broker.state = "running"
     THEN Answers(Simple("connCloseOk")) ELSE UNCHANGED toClient
  /\ broker' = [state |-> "gone", ch |-> [id \in Ids |-> NoChannel], due |-> {}]
  /\ toServer' = << >>
  /\ odd' = IF Asked.op = "disconnect" /\ broker.state = "closing"
            THEN odd \union {"closes crossed"} ELSE odd
  /\ UNCHANGED <<calls, objs, channels, client, jobs, verdict, lastMsg, faults>>

\* Waiting for CloseOk the broker throws away whatever else it reads.
BrokerDiscards ==
  /\ broker.state = "closing" /\ toServer # << >>
  /\ Asked.op \notin {"disconnect", "connCloseOk"}
  /\ toServer' = Tail(toServer)
  /\ UNCHANGED <<calls, objs, channels, client, jobs, toClient, broker, verdict, lastMsg,
                 odd, faults>>

\* The socket breaks.  Its onclose is the reject of connect() and nothing else.
SocketLost ==
  /\ "lost" \in Troubles /\ client.socket = "open"
  /\ client' = [client EXCEPT !.socket = "closed"]
  /\ calls' = Settled({1}, "rejected", 0)
  /\ odd' = IF Connected THEN odd \union {"lost"} ELSE odd
  /\ toServer' = << >> /\ toClient' = << >>
  /\ broker' = [state |-> "gone", ch |-> [id \in Ids |-> NoChannel], due |-> {}]
  /\ UNCHANGED <<objs, channels, jobs, verdict, lastMsg, faults>>

-----------------------------------------------------------------------------
(* The system *)

PageCall ==
  \/ OpenChannel \/ CloseConnection
  \/ \E o \in DOMAIN objs :
       \/ QueueDeclare(o) \/ QueueDelete(o) \/ QueueBind(o) \/ QueueUnbind(o) \/ QueuePurge(o)
       \/ ExchangeDeclare(o) \/ ExchangeDelete(o) \/ ExchangeBind(o) \/ ExchangeUnbind(o)
       \/ BasicQos(o) \/ BasicFlow(o) \/ BasicRecover(o) \/ ConfirmSelect(o) \/ TxMethod(o)
       \/ BasicGet(o) \/ BasicConsume(o) \/ BasicCancel(o) \/ Wait(o)
       \/ BasicAck(o) \/ BasicNack(o) \/ BasicReject(o) \/ BasicPublish(o)
       \/ CloseChannel(o)

ParseFrame ==
  \/ OnStart \/ OnTune \/ OnConnectionOpenOk \/ OnConnectionClose \/ OnConnectionCloseOk
  \/ OnChannelOpenOk \/ OnTopologyOk \/ OnFlowOk \/ OnConsumerOk \/ OnGetEmpty \/ OnSelectOk
  \/ OnChannelClose \/ OnChannelCloseOk \/ OnAck \/ OnNack \/ OnCancel
  \/ OnReturn \/ OnDeliver \/ OnGetOk \/ OnHeader \/ OnBody

BrokerReads ==
  \/ BrokerOpen \/ BrokerClose \/ BrokerCloseOk \/ BrokerTopology \/ BrokerPurge
  \/ BrokerConsume \/ BrokerCancel \/ BrokerMode \/ BrokerSelect \/ BrokerSettle
  \/ BrokerTx \/ BrokerGet \/ BrokerPublish
  \/ BrokerHandshakes \/ BrokerDisconnects \/ BrokerDiscards

Next ==
  \/ PageCall \/ RunJob \/ ParseFrame \/ BrokerReads
  \/ \E id \in Ids : \/ BrokerConfirms(id) \/ BrokerChecks(id) \/ BrokerDelivers(id)
                     \/ BrokerCancelsConsumer(id)
  \/ BrokerStops \/ SocketLost

Spec == Init /\ [][Next]_vars

\* The browser runs its jobs and its messages, the broker's read loop reads on, and
\* the fiber that sends the confirms gets its turn.  Nothing is said of the page.
FairSpec ==
  /\ Spec
  /\ WF_vars(RunJob) /\ WF_vars(ParseFrame) /\ WF_vars(BrokerReads)
  /\ \A id \in Ids : WF_vars(BrokerConfirms(id))

-----------------------------------------------------------------------------
(* Properties *)

\* The objects, the calls and the ids refer to each other as the code assumes: an id
\* names at most one object, an object listed under an id carries it, the promises
\* queued on an object are of calls made on it, in the order they were made.
TypeOK ==
  /\ Len(calls) <= MaxCalls
  /\ \A k \in DOMAIN calls : /\ calls[k].st \in {"pending", "resolved", "rejected"}
                             /\ calls[k].obj \in 0..Len(objs)
  /\ channels \in [Ids -> 0..Len(objs)]
  /\ \A id \in Ids : channels[id] # 0 => objs[channels[id]].id = id
  /\ \A o \in DOMAIN objs : \A i \in DOMAIN objs[o].promises :
       /\ calls[objs[o].promises[i]].obj = o
       /\ i > 1 => objs[o].promises[i - 1] < objs[o].promises[i]
  /\ client.socket \in {"open", "closed"}
  /\ broker.state \in {"handshake", "running", "closing", "gone"}
  /\ broker.due \subseteq [ch : Ids, tag : Nat]
\* A promise is resolved by the reply to its own request and by no other, although
\* replies carry no request number and ids are used again.  Not so after a purge, an
\* exchange operation on a closed channel, closes that crossed, or a Close the broker
\* did not act on: each of these shifts the queue of promises.
RepliesMatch ==
  odd \intersect {"purge", "unchecked", "closes crossed", "half closed"} = {}
    => \A k \in DOMAIN calls : calls[k].st = "resolved"
         /\ calls[k].op \in {"open", "topology", "mode", "select", "consume", "cancel", "get", "close"}
         => calls[k].by = k

\* A publish in confirm mode is reported confirmed only if the broker acknowledged it,
\* and the one reported lost on an open channel is one it refused, although both sides
\* count the publishes on their own.  Not so when the two counts differ from the start
\* (mode changed around a publish) or the broker leaves one out.
ConfirmsMatch ==
  odd \intersect {"select", "direct reply", "half closed", "closes crossed", "purge", "unchecked"} = {}
    => \A k \in DOMAIN calls : calls[k].op = "confirm" =>
         /\ calls[k].st = "resolved" => verdict[k] = "ack"
         /\ calls[k].st = "rejected" /\ calls[k].obj # 0 /\ ~objs[calls[k].obj].closed
              => verdict[k] = "nack"

\* A delivery that the broker writes while it has the consumer finds it in the client:
\* the consumer is registered before the first one is parsed, and the client forgets it
\* only for a frame written after the last.  Not so for a delivery that was under way
\* when the consumer or its channel went, and after the gaps named.
NoDeliveryDropped ==
  odd \intersect {"purge", "unchecked", "closes crossed", "half closed", "late delivery"} = {}
    => "dropped" \notin faults

\* The parts of a message that is handed over belong together, although deliveries,
\* answers to gets and returned messages share the channel, and whatever the broker
\* writes after CloseOk.  A part never comes to a channel that did not get the start of
\* its message, except after the gaps named: a delivery written after CloseOk can be
\* parsed half before and half after the page opens the id again.
MessagesWhole ==
  /\ "mixed" \notin faults
  /\ odd \intersect {"closes crossed", "half closed", "late delivery"} = {}
       => "no message" \notin faults

\* No reply to a request is parsed for a channel the client no longer has, which throws
\* out of the read loop, except after the gaps named.  Deliveries, returned messages and
\* confirms for such a channel are ignored and not counted here.
NoReplyAfterClose ==
  odd \intersect {"closes crossed", "half closed"} = {} => "no channel" \notin faults

\* Every call that is not settled is held where some frame or job will find it.
Kept(k) ==
  LET o == calls[k].obj IN
  \/ \E i \in DOMAIN jobs : jobs[i].call = k
  \/ k \in {client.connect, client.closing}
  \/ o # 0 /\ k \in Expected(o) /\ \E id \in Ids : channels[id] = o
Gaps == {"purge", "unchecked", "closes crossed", "half closed", "closed by page", "lost",
         "select", "direct reply", "last confirmed before"}
NoCallForgotten == odd \intersect Gaps = {} => \A k \in DOMAIN calls : Pending(k) => Kept(k)

\* Every call is settled in the end, also when the channel or the connection is closed
\* under it; only a wait lasts as long as its consumer.
EveryCallSettles ==
  \A k \in 1..MaxCalls :
    (k \in DOMAIN calls /\ calls[k].op # "wait")
      ~> (odd \intersect Gaps # {} \/ (k \in DOMAIN calls => ~Pending(k)))
=============================================================================
