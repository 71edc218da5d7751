---------------------------- MODULE WebClient_proofs ----------------------------
(***************************************************************************)
(* Proofs about WebClient for every value of its constants: every variable *)
(* has its type, and the calls, the channel objects, the jobs and the      *)
(* frames refer to each other as the code assumes.                         *)
(***************************************************************************)
EXTENDS WebClient, SequenceTheorems, WellFoundedInduction, TLAPS

-----------------------------------------------------------------------------
(* Sequences. *)

\* What Append, Tail and \o make of the elements.
LEMMA AppendSeq ==
  ASSUME NEW S, NEW s \in Seq(S), NEW e \in S
  PROVE  /\ Append(s, e) \in Seq(S) /\ Len(Append(s, e)) = Len(s) + 1
         /\ DOMAIN Append(s, e) = 1..Len(s) + 1 /\ DOMAIN s = 1..Len(s) /\ Len(s) \in Nat
         /\ \A i \in DOMAIN s : Append(s, e)[i] = s[i]
         /\ Append(s, e)[Len(s) + 1] = e
         /\ \A i \in DOMAIN Append(s, e) : i \in DOMAIN s \/ i = Len(s) + 1
OBVIOUS

\* A nonempty set of numbers has a least element.
LEMMA LeastElement ==
  ASSUME NEW S \in SUBSET Nat, S # {}
  PROVE  \E n \in S : \A m \in S : n <= m
<1> DEFINE R == OpToRel(<, Nat)
<1>1. IsWellFoundedOn(R, Nat)
  BY NatLessThanWellFounded
<1>2. \A x, y \in Nat : <<x, y>> \in R <=> x < y
  BY DEF OpToRel
<1> HIDE DEF R
<1>3. PICK x \in S : \A y \in S : <<y, x>> \notin R
  BY <1>1, WFMin
<1>4. ASSUME NEW y \in S PROVE x <= y
  <2>1. ~(y < x) /\ x \in Nat /\ y \in Nat
    BY <1>2, <1>3
  <2> QED
    BY <2>1
<1> QED
  BY <1>4

-----------------------------------------------------------------------------
(* The types. *)

\* The calls whose promise waits in the list of a channel object.
Awaited == {"open", "topology", "purge", "consume", "cancel", "mode", "select",
            "tx", "get", "close"}
ChannelOps == Awaited \union {"settle", "publish", "closeOk"}

ReplyKinds == {"openOk", "topologyOk", "modeOk", "consumerOk", "getEmpty", "selectOk", "closeOk"}
StartKinds == {"return", "deliver", "getOk"}
MessageKinds == StartKinds \union {"header", "body"}
ChannelKinds == ReplyKinds \union MessageKinds \union {"close", "ack", "nack", "cancel"}

CallOps == Awaited \union {"connect", "wait", "settle", "publish", "confirm", "disconnect"}
CallRecords ==
  [op : CallOps, obj : Nat, st : {"pending", "resolved", "rejected"}, by : Nat]

Messages == [n : Nat, whole : BOOLEAN, size : Nat, pos : Nat, tag : Nat]

Objects ==
  [id : Ids, closed : BOOLEAN, promises : Seq(Nat), unconfirmed : Seq([tag : Nat, call : Nat]),
   confirmId : Nat \union {-1}, consumers : SUBSET [tag : Nat, waiter : Nat],
   delivery : Messages, getMessage : Messages, returned : Messages]

Clients == [socket : {"open", "closed"}, closed : BOOLEAN, connect : Nat, closing : Nat]

JobRecords ==
  [do : {"await", "closing", "sent", "count", "consume", "cancel"},
   obj : Nat, call : Nat, by : Nat, tag : Nat]

ServerOps == ChannelOps \union {"header", "startOk", "tuneOk", "connOpen", "disconnect", "connCloseOk"}
ServerFrames == [op : ServerOps, ch : Nat, call : Nat, tag : Nat]

ReplyFrames == [m : ReplyKinds \union {"close", "connClose"}, ch : Nat, call : Nat, tag : Nat]
AckFrames == [m : {"ack", "nack"}, ch : Nat, call : Nat, tag : Nat, multiple : BOOLEAN]
PartFrames == [m : MessageKinds, ch : Nat, n : Nat, size : Nat, tag : Nat]
CancelFrames == [m : {"cancel"}, ch : Nat, tag : Nat]
ConnectionFrames == [m : {"start", "tune", "connOpenOk", "connClose", "connCloseOk"}, ch : {0}]
ClientFrames ==
  ReplyFrames \union AckFrames \union PartFrames \union CancelFrames \union ConnectionFrames

Channels ==
  [running : BOOLEAN, confirm : BOOLEAN, published : Seq(Nat), waiting : BOOLEAN,
   consumers : SUBSET Nat]
Deliveries == [ch : Ids, tag : Nat]
Brokers == [state : {"handshake", "running", "closing", "gone"}, ch : [Ids -> Channels], due : SUBSET Deliveries]

WebTypes ==
  /\ calls \in Seq(CallRecords)
  /\ objs \in Seq(Objects)
  /\ channels \in [Ids -> Nat]
  /\ client \in Clients
  /\ jobs \in Seq(JobRecords)
  /\ toServer \in Seq(ServerFrames)
  /\ toClient \in Seq(ClientFrames)
  /\ broker \in Brokers
  /\ verdict \in [1..MaxCalls -> {"none", "ack", "nack"}]
  /\ lastMsg \in Nat

-----------------------------------------------------------------------------
(* The references. *)

\* Among the calls cs, k is one of the operations ops on object o.
Made(cs, k, o, ops) == k \in DOMAIN cs /\ cs[k].obj = o /\ cs[k].op \in ops

CallsLinked ==
  /\ Len(calls) \in 1..MaxCalls
  /\ calls[1].op = "connect" /\ calls[1].obj = 0
  /\ \A k \in DOMAIN calls : calls[k].obj <= Len(objs)

ChannelsLinked ==
  \A id \in Ids : channels[id] <= Len(objs) /\ (channels[id] # 0 => objs[channels[id]].id = id)

\* The promises of an object are those of calls on it, in the order of the calls.
ObjectLinked(cs, obj, o) ==
  /\ \A i \in DOMAIN obj.promises : Made(cs, obj.promises[i], o, Awaited)
  /\ \A i, j \in DOMAIN obj.promises : i < j => obj.promises[i] < obj.promises[j]
  /\ \A i \in DOMAIN obj.unconfirmed : Made(cs, obj.unconfirmed[i].call, o, {"confirm"})
  /\ \A c \in obj.consumers : c.waiter # 0 => Made(cs, c.waiter, o, {"wait"})

ObjectsLinked == \A o \in DOMAIN objs : ObjectLinked(calls, objs[o], o)

JobOps(do) == IF do = "await" THEN Awaited
              ELSE IF do = "sent" THEN {"publish"}
              ELSE IF do = "count" THEN {"confirm"} ELSE {do}

JobLinked(cs, objects, j) ==
  IF j.do = "closing" THEN Made(cs, j.call, 0, {"disconnect"})
  ELSE j.obj \in 1..objects /\ Made(cs, j.call, j.obj, JobOps(j.do))

Waits(j, o) == j.do = "await" /\ j.obj = o

\* The jobs that queue promises run in the order of the calls.
JobsSorted(js) ==
  \A i, j \in DOMAIN js : i < j /\ js[i].do = "await" /\ js[j].do = "await" => js[i].call < js[j].call

JobsLinked == JobsSorted(jobs) /\ \A i \in DOMAIN jobs : JobLinked(calls, Len(objs), jobs[i])

\* What is queued on an object was called before what jobs will queue there.
PromisesFirst ==
  \A o \in DOMAIN objs : \A i \in DOMAIN objs[o].promises : \A j \in DOMAIN jobs :
    Waits(jobs[j], o) => objs[o].promises[i] < jobs[j].call

ClientLinked ==
  /\ client.connect \in {0, 1}
  /\ client.closing # 0 => Made(calls, client.closing, 0, {"disconnect"})

ServerLinked ==
  \A i \in DOMAIN toServer : /\ toServer[i].op \in ChannelOps => toServer[i].ch \in Ids
                             /\ toServer[i].call <= Len(calls)
Channelled(s) == \A i \in DOMAIN s : s[i].m \in ChannelKinds => s[i].ch \in Ids

TypeInv ==
  /\ WebTypes /\ CallsLinked /\ ChannelsLinked /\ ObjectsLinked /\ JobsLinked /\ PromisesFirst
  /\ ClientLinked /\ ServerLinked /\ Channelled(toClient)

\* TypeOK is what TypeInv says to a reader.
LEMMA TypesSuffice == TypeInv => TypeOK
<1> SUFFICES ASSUME TypeInv PROVE TypeOK
  OBVIOUS
<1>1. /\ Len(calls) <= MaxCalls
      /\ client.socket \in {"open", "closed"}
      /\ broker.state \in {"handshake", "running", "closing", "gone"}
  BY WebClientAssumption DEF TypeInv, WebTypes, CallsLinked, Clients, Brokers
<1>2. \A k \in DOMAIN calls : /\ calls[k].st \in {"pending", "resolved", "rejected"}
                              /\ calls[k].obj \in 0..Len(objs)
  <2> SUFFICES ASSUME NEW k \in DOMAIN calls
               PROVE  /\ calls[k].st \in {"pending", "resolved", "rejected"}
                      /\ calls[k].obj \in 0..Len(objs)
    OBVIOUS
  <2>1. calls[k] \in CallRecords /\ Len(objs) \in Nat /\ calls[k].obj <= Len(objs)
    BY DEF TypeInv, WebTypes, CallsLinked
  <2> QED
    BY <2>1 DEF CallRecords
<1>3. channels \in [Ids -> 0..Len(objs)]
  BY DEF TypeInv, WebTypes, ChannelsLinked
<1>4. \A id \in Ids : channels[id] # 0 => objs[channels[id]].id = id
  BY DEF TypeInv, ChannelsLinked
<1>6. broker.due \subseteq [ch : Ids, tag : Nat]
  BY DEF TypeInv, WebTypes, Brokers, Deliveries
<1>5. ASSUME NEW o \in DOMAIN objs, NEW i \in DOMAIN objs[o].promises
      PROVE  /\ calls[objs[o].promises[i]].obj = o
             /\ i > 1 => objs[o].promises[i - 1] < objs[o].promises[i]
  <2>0. objs[o] \in Objects /\ ObjectLinked(calls, objs[o], o)
    BY DEF TypeInv, WebTypes, ObjectsLinked
  <2>1. objs[o].promises \in Seq(Nat)
    BY <2>0 DEF Objects
  <2>2. i \in Nat /\ i \in 1..Len(objs[o].promises) /\ DOMAIN objs[o].promises = 1..Len(objs[o].promises)
    BY <2>1
  <2>3. i > 1 => i - 1 \in DOMAIN objs[o].promises /\ i - 1 < i
    BY <2>2
  <2> QED
    BY <2>0, <2>3 DEF ObjectLinked, Made
<1> QED
  BY <1>1, <1>2, <1>3, <1>4, <1>5, <1>6 DEF TypeOK

\* The records of calls and of frames to the broker.
LEMMA CallType ==
  ASSUME NEW op \in CallOps, NEW o \in Nat, NEW st \in {"pending", "resolved", "rejected"}
  PROVE  /\ Call(op, o, st) \in CallRecords
         /\ Call(op, o, st).op = op /\ Call(op, o, st).obj = o /\ Call(op, o, st).st = st
BY DEF Call, CallRecords

\* Likewise a frame to the broker.
LEMMA FrameType ==
  ASSUME NEW op \in ServerOps, NEW ch \in Nat, NEW call \in Nat, NEW tag \in Nat
  PROVE  /\ Frame(op, ch, call, tag) \in ServerFrames
         /\ Frame(op, ch, call, tag).op = op /\ Frame(op, ch, call, tag).ch = ch
         /\ Frame(op, ch, call, tag).call = call /\ Frame(op, ch, call, tag).tag = tag
BY DEF Frame, ServerFrames

\* The constants' values in the initial state have their types.
LEMMA TypeInit == Init => TypeInv
<1> SUFFICES ASSUME Init PROVE TypeInv
  OBVIOUS
<1> USE DEF Init, Call
<1>1. WebTypes
  <2> DEFINE c == Call("connect", 0, "pending")
             f == Frame("header", 0, 1, 0)
  <2>0. c \in CallRecords /\ f \in ServerFrames
    <3> HIDE DEF Init
    <3>1. c \in CallRecords
      BY CallType DEF CallOps, Awaited
    <3>2. f \in ServerFrames
      BY FrameType DEF ServerOps
    <3> QED
      BY <3>1, <3>2
  <2>1. calls \in Seq(CallRecords) /\ objs \in Seq(Objects) /\ jobs \in Seq(JobRecords)
    <3>1. calls = <<c>> /\ objs = << >> /\ jobs = << >>
      OBVIOUS
    <3> HIDE DEF Init, c
    <3> QED
      BY <3>1, <2>0
  <2>2. channels \in [Ids -> Nat] /\ client \in Clients /\ lastMsg \in Nat
    BY DEF Clients
  <2>3. toServer \in Seq(ServerFrames) /\ toClient \in Seq(ClientFrames)
    <3>1. toServer = <<f>> /\ toClient = << >>
      BY DEF Frame
    <3> HIDE DEF Init, f
    <3> QED
      BY <3>1, <2>0
  <2>4. NoChannel \in Channels
    BY DEF Channels, NoChannel
  <2>5. broker \in Brokers
    BY <2>4 DEF Brokers
  <2>6. verdict \in [1..MaxCalls -> {"none", "ack", "nack"}]
    OBVIOUS
  <2> QED
    BY <2>1, <2>2, <2>3, <2>5, <2>6 DEF WebTypes
<1>2. CallsLinked
  BY WebClientAssumption DEF CallsLinked
<1>3. ChannelsLinked /\ ObjectsLinked /\ JobsLinked /\ PromisesFirst /\ Channelled(toClient)
  BY WebClientAssumption DEF ChannelsLinked, ObjectsLinked, JobsLinked, JobsSorted, PromisesFirst, Channelled
<1>4. ClientLinked /\ ServerLinked
  BY WebClientAssumption DEF ClientLinked, ServerLinked, ChannelOps, Awaited
<1> QED
  BY <1>1, <1>2, <1>3, <1>4 DEF TypeInv

-----------------------------------------------------------------------------
(* What a step may do to the calls, the objects and the jobs. *)

\* No call is taken back, and none changes but in its promise.
Extends(cs, ds) ==
  /\ cs \in Seq(CallRecords) /\ ds \in Seq(CallRecords) /\ Len(cs) <= Len(ds)
  /\ \A k \in DOMAIN cs : ds[k].op = cs[k].op /\ ds[k].obj = cs[k].obj

\* Calls that go on stay what they are,
LEMMA MadeStays ==
  ASSUME NEW cs, NEW ds, Extends(cs, ds), NEW k, NEW o, NEW ops, Made(cs, k, o, ops)
  PROVE  Made(ds, k, o, ops)
BY DEF Extends, Made

\* so what an object refers to is still there,
LEMMA ObjectStays ==
  ASSUME NEW cs, NEW ds, Extends(cs, ds), NEW obj, NEW o, ObjectLinked(cs, obj, o)
  PROVE  ObjectLinked(ds, obj, o)
BY MadeStays DEF ObjectLinked

\* and what a job does.
LEMMA JobStays ==
  ASSUME NEW cs, NEW ds, Extends(cs, ds), NEW n \in Nat, NEW m \in Nat, n <= m,
         NEW j, JobLinked(cs, n, j)
  PROVE  JobLinked(ds, m, j)
BY MadeStays DEF JobLinked

CallsStep ==
  /\ Extends(calls, calls') /\ Len(calls') <= MaxCalls
  /\ \A k \in DOMAIN calls' \ DOMAIN calls : calls'[k].obj <= Len(objs')

\* Promises are only taken off the lists, but for the one that a job queues.
QueuedNow(k) == HeadJob("await") /\ jobs' = Tail(jobs) /\ k = Head(jobs).call

Fewer(old, obj) ==
  /\ obj.id = old.id
  /\ \A i \in DOMAIN obj.promises :
       QueuedNow(obj.promises[i]) \/ \E j \in DOMAIN old.promises : obj.promises[i] = old.promises[j]

ObjectsStep ==
  /\ objs' \in Seq(Objects) /\ Len(objs) <= Len(objs')
  /\ \A o \in DOMAIN objs : Fewer(objs[o], objs'[o])
  /\ \A o \in DOMAIN objs' \ DOMAIN objs : objs'[o].promises = << >>
  /\ \A o \in DOMAIN objs' : ObjectLinked(calls', objs'[o], o)

\* A new job is one of the call that is made or queues nothing.
JobsStep ==
  /\ jobs' \in Seq(JobRecords)
  /\ JobsSorted(jobs') /\ \A i \in DOMAIN jobs' : JobLinked(calls', Len(objs'), jobs'[i])
  /\ \A j \in DOMAIN jobs' : jobs'[j].do = "await" =>
       \/ \E i \in DOMAIN jobs : jobs[i] = jobs'[j]
       \/ jobs'[j].call = Len(calls) + 1

\* Calls are added and settled, never taken back.
LEMMA CallsLinkedStep ==
  ASSUME TypeInv, CallsStep, ObjectsStep
  PROVE  CallsLinked'
<1>1. /\ Len(calls) \in 1..MaxCalls /\ Len(calls') \in Nat /\ Len(objs) \in Nat /\ Len(objs') \in Nat
      /\ MaxCalls \in Nat /\ Len(calls) <= Len(calls') /\ Len(objs) <= Len(objs') /\ Len(calls') <= MaxCalls
      /\ DOMAIN calls = 1..Len(calls) /\ DOMAIN calls' = 1..Len(calls')
  BY WebClientAssumption DEF TypeInv, WebTypes, CallsLinked, CallsStep, Extends, ObjectsStep
<1>2. ASSUME NEW k \in DOMAIN calls' PROVE calls'[k].obj <= Len(objs')
  <2>1. CASE k \in DOMAIN calls
    <3>1. calls'[k].obj = calls[k].obj /\ calls[k].obj <= Len(objs)
      BY <2>1 DEF CallsStep, Extends, TypeInv, CallsLinked
    <3>2. calls[k] \in CallRecords
      BY <2>1 DEF TypeInv, WebTypes
    <3> QED
      BY <3>1, <3>2, <1>1 DEF CallRecords
  <2>2. CASE k \notin DOMAIN calls
    BY <2>2 DEF CallsStep
  <2> QED
    BY <2>1, <2>2
<1>3. calls'[1].op = "connect" /\ calls'[1].obj = 0
  BY <1>1 DEF CallsStep, Extends, TypeInv, CallsLinked
<1> QED
  BY <1>1, <1>2, <1>3 DEF CallsLinked

\* Promises are queued from the front of the jobs, and new jobs are for new calls.
LEMMA PromisesFirstStep ==
  ASSUME TypeInv, CallsStep, ObjectsStep, JobsStep
  PROVE  PromisesFirst'
<1> SUFFICES ASSUME NEW o \in DOMAIN objs', NEW i \in DOMAIN objs'[o].promises, NEW j \in DOMAIN jobs',
                    Waits(jobs'[j], o)
             PROVE  objs'[o].promises[i] < jobs'[j].call
  BY DEF PromisesFirst
<1>1. o \in DOMAIN objs
  BY DEF ObjectsStep
<1>2. CASE QueuedNow(objs'[o].promises[i])
  <2>1. jobs \in Seq(JobRecords) /\ Head(jobs).do = "await" /\ jobs # << >> /\ jobs' = Tail(jobs)
    BY <1>2 DEF TypeInv, WebTypes, QueuedNow, HeadJob
  <2>2. /\ 1 \in DOMAIN jobs /\ jobs[1] = Head(jobs) /\ j \in Nat /\ 1 < j + 1
        /\ j + 1 \in DOMAIN jobs /\ jobs'[j] = jobs[j + 1]
    BY <2>1
  <2> QED
    BY <1>2, <2>1, <2>2 DEF TypeInv, JobsLinked, JobsSorted, QueuedNow, Waits
<1>3. CASE \E h \in DOMAIN objs[o].promises : objs'[o].promises[i] = objs[o].promises[h]
  <2> PICK h \in DOMAIN objs[o].promises : objs'[o].promises[i] = objs[o].promises[h]
    BY <1>3
  <2>1. CASE \E x \in DOMAIN jobs : jobs[x] = jobs'[j]
    BY <1>1, <2>1 DEF TypeInv, PromisesFirst
  <2>2. CASE jobs'[j].call = Len(calls) + 1
    <3>1. objs[o].promises[h] \in DOMAIN calls
      BY <1>1 DEF TypeInv, ObjectsLinked, ObjectLinked, Made
    <3>2. calls \in Seq(CallRecords)
      BY DEF TypeInv, WebTypes
    <3> QED
      BY <2>2, <3>1, <3>2
  <2> QED
    BY <2>1, <2>2 DEF JobsStep, Waits
<1> QED
  BY <1>1, <1>2, <1>3 DEF ObjectsStep, Fewer

\* The variables beside the calls, the objects and the jobs.
ChannelsTyped == channels' \in [Ids -> Nat] /\ ChannelsLinked'
ClientTyped == client' \in Clients /\ ClientLinked'
ServerTyped == toServer' \in Seq(ServerFrames) /\ ServerLinked'
ClientFramesTyped == toClient' \in Seq(ClientFrames) /\ Channelled(toClient')
BrokerTyped == /\ broker' \in Brokers /\ lastMsg' \in Nat
               /\ verdict' \in [1..MaxCalls -> {"none", "ack", "nack"}]

\* TypeInv, part by part.
LEMMA TypeKept ==
  ASSUME TypeInv, CallsStep, ObjectsStep, JobsStep, ChannelsTyped, ClientTyped, ServerTyped,
         ClientFramesTyped, BrokerTyped
  PROVE  TypeInv'
<1>1. CallsLinked' /\ PromisesFirst'
  BY CallsLinkedStep, PromisesFirstStep
<1>2. JobsLinked' /\ ObjectsLinked'
  BY DEF JobsStep, JobsLinked, ObjectsStep, ObjectsLinked
<1>3. WebTypes'
  BY DEF WebTypes, CallsStep, Extends, ObjectsStep, JobsStep, ChannelsTyped, ClientTyped,
         ServerTyped, ClientFramesTyped, BrokerTyped
<1> QED
  BY <1>1, <1>2, <1>3 DEF TypeInv, ChannelsTyped, ClientTyped, ServerTyped, ClientFramesTyped

\* Calls that do not change.
LEMMA CallsSame ==
  ASSUME TypeInv, UNCHANGED calls
  PROVE  CallsStep
BY DEF TypeInv, WebTypes, CallsLinked, CallsStep, Extends

\* A new call is the last one.
LEMMA CallMade ==
  ASSUME TypeInv, NEW op \in CallOps, NEW o \in Nat, NEW st \in {"pending", "resolved", "rejected"},
         Len(calls) < MaxCalls, calls' = Append(calls, Call(op, o, st)), o <= Len(objs')
  PROVE  CallsStep /\ Len(calls') = Len(calls) + 1 /\ Made(calls', Len(calls) + 1, o, {op})
<1> DEFINE c == Call(op, o, st)
<1>1. c \in CallRecords /\ c.op = op /\ c.obj = o
  BY CallType
<1> HIDE DEF c
<1>2. calls \in Seq(CallRecords) /\ MaxCalls \in Nat
  BY WebClientAssumption DEF TypeInv, WebTypes
<1>3. /\ calls' \in Seq(CallRecords) /\ Len(calls') = Len(calls) + 1
      /\ calls'[Len(calls) + 1] = c /\ \A k \in DOMAIN calls : calls'[k] = calls[k]
      /\ DOMAIN calls' = 1..Len(calls) + 1 /\ DOMAIN calls = 1..Len(calls) /\ Len(calls) \in Nat
  BY <1>1, <1>2 DEF c
<1>4. Extends(calls, calls')
  BY <1>2, <1>3 DEF Extends
<1>5. \A k \in DOMAIN calls' \ DOMAIN calls : k = Len(calls) + 1
  BY <1>3
<1> QED
  BY <1>1, <1>2, <1>3, <1>4, <1>5 DEF CallsStep, Made

\* What resolve and reject may make of the calls.
LEMMA CallsMapped ==
  ASSUME TypeInv, DOMAIN calls' = DOMAIN calls, calls' = [k \in DOMAIN calls |-> calls'[k]],
         \A k \in DOMAIN calls : /\ calls'[k] \in CallRecords
                                 /\ calls'[k].op = calls[k].op /\ calls'[k].obj = calls[k].obj
  PROVE  CallsStep /\ Len(calls') = Len(calls)
<1>1. calls \in Seq(CallRecords) /\ Len(calls) <= MaxCalls
  BY DEF TypeInv, WebTypes, CallsLinked
<1>2. DOMAIN calls = 1..Len(calls) /\ Len(calls) \in Nat
  BY <1>1
<1>3. calls' \in [1..Len(calls) -> CallRecords]
  BY <1>2
<1>4. calls' \in Seq(CallRecords) /\ Len(calls') = Len(calls)
  BY <1>2, <1>3
<1> QED
  BY <1>1, <1>2, <1>4 DEF CallsStep, Extends

\* Settling a call changes its state only.
LEMMA SettledTyped ==
  ASSUME TypeInv, NEW K, NEW st \in {"pending", "resolved", "rejected"}, NEW by \in Nat, NEW k \in DOMAIN calls
  PROVE  /\ Settled(K, st, by)[k] \in CallRecords
         /\ Settled(K, st, by)[k].op = calls[k].op /\ Settled(K, st, by)[k].obj = calls[k].obj
<1>1. calls[k] \in CallRecords
  BY DEF TypeInv, WebTypes
<1> QED
  BY <1>1 DEF Settled, CallRecords

\* So calls that are settled are still the same calls.
LEMMA CallsSettled ==
  ASSUME TypeInv, NEW K, NEW st \in {"pending", "resolved", "rejected"}, NEW by \in Nat,
         calls' = Settled(K, st, by)
  PROVE  CallsStep /\ Len(calls') = Len(calls)
<1>1. DOMAIN calls' = DOMAIN calls /\ calls' = [k \in DOMAIN calls |-> calls'[k]]
  BY DEF Settled
<1> QED
  BY <1>1, SettledTyped, CallsMapped

\* Objects that do not change.
LEMMA ObjectsSame ==
  ASSUME TypeInv, CallsStep, UNCHANGED objs
  PROVE  ObjectsStep
BY ObjectStays DEF TypeInv, WebTypes, ObjectsLinked, CallsStep, ObjectsStep, Fewer

\* What TypeInv says of an object.
LEMMA ObjectTypes ==
  ASSUME TypeInv, NEW o \in DOMAIN objs
  PROVE  /\ objs[o] \in Objects /\ ObjectLinked(calls, objs[o], o) /\ o \in Nat \ {0}
         /\ o <= Len(objs) /\ objs[o].id \in Ids /\ objs[o].id \in Nat
<1>1. objs \in Seq(Objects) /\ ObjectLinked(calls, objs[o], o)
  BY DEF TypeInv, WebTypes, ObjectsLinked
<1>2. objs[o] \in Objects /\ o \in 1..Len(objs) /\ Len(objs) \in Nat
  BY <1>1
<1>3. objs[o].id \in Ids
  BY <1>2 DEF Objects
<1>4. objs[o].id \in Nat
  BY <1>3, WebClientAssumption
<1> QED
  BY <1>1, <1>2, <1>3, <1>4

\* An object that loses promises, or nothing, in a step.
LEMMA ObjectSet ==
  ASSUME TypeInv, CallsStep, NEW o \in DOMAIN objs, NEW obj \in Objects,
         Fewer(objs[o], obj), ObjectLinked(calls', obj, o), objs' = [objs EXCEPT ![o] = obj]
  PROVE  ObjectsStep
<1>1. objs \in Seq(Objects)
  BY DEF TypeInv, WebTypes
<1>2. /\ objs' \in Seq(Objects) /\ Len(objs') = Len(objs) /\ DOMAIN objs' = DOMAIN objs
      /\ \A p \in DOMAIN objs : objs'[p] = IF p = o THEN obj ELSE objs[p]
  BY <1>1, ExceptSeq
<1>3. \A p \in DOMAIN objs : Fewer(objs[p], objs[p]) /\ ObjectLinked(calls', objs[p], p)
  BY ObjectStays DEF TypeInv, ObjectsLinked, CallsStep, Fewer
<1> QED
  BY <1>1, <1>2, <1>3 DEF ObjectsStep

\* Jobs that do not change.
LEMMA JobsSame ==
  ASSUME TypeInv, CallsStep, ObjectsStep, UNCHANGED jobs
  PROVE  JobsStep
BY JobStays DEF TypeInv, WebTypes, JobsLinked, CallsStep, ObjectsStep, JobsStep

\* The first job is done.
LEMMA JobDone ==
  ASSUME TypeInv, CallsStep, ObjectsStep, jobs # << >>, jobs' = Tail(jobs)
  PROVE  JobsStep
<1>1. jobs \in Seq(JobRecords) /\ Len(objs) \in Nat /\ Len(objs') \in Nat /\ Len(objs) <= Len(objs')
  BY DEF TypeInv, WebTypes, ObjectsStep
<1>2. /\ jobs' \in Seq(JobRecords)
      /\ \A i \in DOMAIN jobs' : i + 1 \in DOMAIN jobs /\ jobs'[i] = jobs[i + 1] /\ i \in Int
  BY <1>1
<1>3. JobsSorted(jobs')
  <2> SUFFICES ASSUME NEW i \in DOMAIN jobs', NEW j \in DOMAIN jobs', i < j,
                      jobs'[i].do = "await", jobs'[j].do = "await"
               PROVE  jobs'[i].call < jobs'[j].call
    BY DEF JobsSorted
  <2>1. i + 1 < j + 1
    BY <1>2
  <2> QED
    BY <1>2, <2>1 DEF TypeInv, JobsLinked, JobsSorted
<1>4. \A i \in DOMAIN jobs' : JobLinked(calls', Len(objs'), jobs'[i])
  BY <1>1, <1>2, JobStays DEF TypeInv, JobsLinked, CallsStep
<1> QED
  BY <1>2, <1>3, <1>4 DEF JobsStep

\* A job for a new call.
LEMMA JobAdded ==
  ASSUME TypeInv, CallsStep, ObjectsStep, NEW j \in JobRecords, JobLinked(calls', Len(objs'), j),
         j.do = "await" => j.call = Len(calls) + 1, jobs' = Append(jobs, j)
  PROVE  JobsStep
<1>1. jobs \in Seq(JobRecords) /\ Len(objs) \in Nat /\ Len(objs') \in Nat /\ Len(objs) <= Len(objs')
  BY DEF TypeInv, WebTypes, ObjectsStep
<1>2. /\ jobs' \in Seq(JobRecords) /\ DOMAIN jobs' = 1..Len(jobs) + 1 /\ DOMAIN jobs = 1..Len(jobs)
      /\ jobs'[Len(jobs) + 1] = j /\ Len(jobs) \in Nat
      /\ \A i \in DOMAIN jobs : jobs'[i] = jobs[i]
  BY <1>1
<1>3. \A i \in DOMAIN jobs' : i \in DOMAIN jobs \/ i = Len(jobs) + 1
  BY <1>2
<1>4. JobsSorted(jobs')
  <2> SUFFICES ASSUME NEW x \in DOMAIN jobs', NEW y \in DOMAIN jobs', x < y,
                      jobs'[x].do = "await", jobs'[y].do = "await"
               PROVE  jobs'[x].call < jobs'[y].call
    BY DEF JobsSorted
  <2>1. x \in DOMAIN jobs
    BY <1>2
  <2>2. CASE y \in DOMAIN jobs
    BY <1>2, <2>1, <2>2 DEF TypeInv, JobsLinked, JobsSorted
  <2>3. CASE y = Len(jobs) + 1
    <3>1. JobLinked(calls, Len(objs), jobs[x]) /\ jobs[x].do = "await" /\ jobs'[x] = jobs[x]
      BY <1>2, <2>1 DEF TypeInv, JobsLinked
    <3>2. jobs[x].call \in DOMAIN calls /\ calls \in Seq(CallRecords)
      BY <3>1 DEF JobLinked, Made, TypeInv, WebTypes
    <3> QED
      BY <1>2, <2>3, <3>1, <3>2
  <2> QED
    BY <1>3, <2>2, <2>3
<1>5. \A i \in DOMAIN jobs' : JobLinked(calls', Len(objs'), jobs'[i])
  BY <1>1, <1>2, <1>3, JobStays DEF TypeInv, JobsLinked, CallsStep
<1> QED
  BY <1>2, <1>3, <1>4, <1>5 DEF JobsStep

\* What TypeInv says of a frame to the broker.
LEMMA ServerFrameTypes ==
  ASSUME TypeInv, NEW i \in DOMAIN toServer
  PROVE  /\ toServer[i] \in ServerFrames /\ toServer[i].op \in ServerOps /\ toServer[i].ch \in Nat
         /\ toServer[i].call \in Nat /\ toServer[i].tag \in Nat /\ toServer[i].call <= Len(calls)
         /\ toServer[i].op \in ChannelOps => toServer[i].ch \in Ids
<1>1. toServer[i] \in ServerFrames
  BY DEF TypeInv, WebTypes
<1>2. toServer[i].op \in ServerOps /\ toServer[i].ch \in Nat /\ toServer[i].call \in Nat /\ toServer[i].tag \in Nat
  BY <1>1 DEF ServerFrames
<1> QED
  BY <1>1, <1>2 DEF TypeInv, ServerLinked

\* The variables a step leaves alone keep their types.
LEMMA OthersSame ==
  ASSUME TypeInv, CallsStep, ObjectsStep
  PROVE  /\ UNCHANGED channels => ChannelsTyped
         /\ UNCHANGED client => ClientTyped
         /\ UNCHANGED toServer => ServerTyped
         /\ UNCHANGED toClient => ClientFramesTyped
         /\ UNCHANGED <<broker, verdict, lastMsg>> => BrokerTyped
<1>1. /\ Len(objs) \in Nat /\ Len(objs') \in Nat /\ Len(objs) <= Len(objs') /\ Len(calls) <= Len(calls')
      /\ DOMAIN objs = 1..Len(objs) /\ DOMAIN objs' = 1..Len(objs')
      /\ Len(calls) \in Nat /\ Len(calls') \in Nat
  BY DEF TypeInv, WebTypes, ObjectsStep, CallsStep, Extends
<1>2. ASSUME UNCHANGED channels PROVE ChannelsTyped
  <2>1. channels \in [Ids -> Nat]
    BY DEF TypeInv, WebTypes
  <2>2. ASSUME NEW id \in Ids
        PROVE  channels'[id] <= Len(objs') /\ (channels'[id] # 0 => objs'[channels'[id]].id = id)
    <3>1. channels[id] \in Nat /\ channels[id] <= Len(objs) /\ channels[id] <= Len(objs')
      BY <1>1, <2>1 DEF TypeInv, ChannelsLinked
    <3>2. channels[id] # 0 => channels[id] \in DOMAIN objs
      BY <1>1, <3>1
    <3>3. channels[id] # 0 => objs'[channels[id]].id = objs[channels[id]].id
      BY <3>2 DEF ObjectsStep, Fewer
    <3> QED
      BY <1>2, <3>1, <3>3 DEF TypeInv, ChannelsLinked
  <2> QED
    BY <1>2, <2>1, <2>2 DEF ChannelsTyped, ChannelsLinked
<1>3. ASSUME UNCHANGED client PROVE ClientTyped
  BY <1>3, MadeStays DEF TypeInv, WebTypes, ClientLinked, ClientTyped, CallsStep
<1>4. ASSUME UNCHANGED toServer PROVE ServerTyped
  <2>1. toServer \in Seq(ServerFrames) /\ ServerLinked
    BY DEF TypeInv, WebTypes
  <2>3. \A i \in DOMAIN toServer : toServer[i].call <= Len(calls')
    BY <1>1, ServerFrameTypes
  <2> QED
    BY <1>4, <2>1, <2>3 DEF ServerLinked, ServerTyped
<1> QED
  BY <1>2, <1>3, <1>4 DEF TypeInv, WebTypes, Channelled, ClientFramesTyped, BrokerTyped

\* One more frame to the broker.
LEMMA SendTyped ==
  ASSUME TypeInv, CallsStep, NEW f \in ServerFrames, Send(<<f>>),
         f.op \in ChannelOps => f.ch \in Ids, f.call <= Len(calls')
  PROVE  ServerTyped
<1>1. toServer \in Seq(ServerFrames) /\ ServerLinked
  BY DEF TypeInv, WebTypes
<1>2. Len(calls) \in Nat /\ Len(calls') \in Nat /\ Len(calls) <= Len(calls')
  BY DEF CallsStep, Extends
<1>4. \A i \in DOMAIN toServer : toServer[i].call <= Len(calls')
  BY <1>2, ServerFrameTypes
<1>5. CASE toServer' = toServer
  BY <1>1, <1>4, <1>5 DEF ServerLinked, ServerTyped
<1>6. CASE toServer' = toServer \o <<f>>
  <2>1. /\ toServer' \in Seq(ServerFrames)
        /\ \A i \in DOMAIN toServer' : toServer'[i] = f \/ (i \in DOMAIN toServer /\ toServer'[i] = toServer[i])
    BY <1>1, <1>6
  <2> QED
    BY <1>1, <1>4, <2>1 DEF ServerLinked, ServerTyped
<1> QED
  BY <1>5, <1>6 DEF Send

-----------------------------------------------------------------------------
(* The calls of the page. *)

\* A call on a closed object is rejected at once.
LEMMA RejectTyped ==
  ASSUME TypeInv, NEW op \in CallOps, NEW o \in Nat, o <= Len(objs), Len(calls) < MaxCalls,
         RejectClosed(op, o), UNCHANGED <<objs, channels, client, toClient, broker, verdict, lastMsg>>
  PROVE  TypeInv'
<1>1. CallsStep
  BY CallMade DEF RejectClosed
<1>2. ObjectsStep /\ JobsStep
  BY <1>1, ObjectsSame, JobsSame DEF RejectClosed
<1> QED
  BY <1>1, <1>2, OthersSame, TypeKept DEF RejectClosed

\* A call that appends a job and sends a frame.
LEMMA CallSent ==
  ASSUME TypeInv, NEW op \in CallOps, NEW o \in Nat, o <= Len(objs'), Len(calls) < MaxCalls,
         calls' = Append(calls, Call(op, o, "pending")),
         NEW fop \in ServerOps, NEW ch \in Nat, fop \in ChannelOps => ch \in Ids, NEW tag \in Nat,
         Send(<<Frame(fop, ch, NextCall, tag)>>),
         NEW do \in {"await", "closing", "sent", "count"},
         IF do = "closing" THEN op = "disconnect" /\ o = 0 ELSE op \in JobOps(do) /\ o # 0,
         jobs' = Append(jobs, Job(do, o, NextCall)),
         CallsStep => ObjectsStep /\ ChannelsTyped /\ ClientTyped,
         UNCHANGED <<toClient, broker, verdict, lastMsg>>
  PROVE  TypeInv'
<1>1. CallsStep /\ Len(calls') = Len(calls) + 1 /\ Made(calls', NextCall, o, {op})
  BY CallMade DEF NextCall
<1>2. NextCall \in Nat /\ NextCall = Len(calls) + 1 /\ Len(objs') \in Nat
  BY <1>1 DEF NextCall, TypeInv, WebTypes, ObjectsStep
<1>3. ServerTyped
  <2> DEFINE f == Frame(fop, ch, NextCall, tag)
  <2>1. f \in ServerFrames /\ f.op = fop /\ f.ch = ch /\ f.call = NextCall
    BY <1>2 DEF Frame, ServerFrames
  <2> HIDE DEF f
  <2>2. Send(<<f>>)
    BY DEF f
  <2> QED
    BY <1>1, <1>2, <2>1, <2>2, SendTyped
<1>4. JobsStep
  <2> DEFINE j == Job(do, o, NextCall)
  <2>1. j \in JobRecords /\ j.do = do /\ j.obj = o /\ j.call = NextCall
    BY <1>2 DEF Job, JobRecords
  <2> HIDE DEF j
  <2>2. jobs' = Append(jobs, j)
    BY DEF j
  <2>3. JobLinked(calls', Len(objs'), j)
    BY <1>1, <1>2, <2>1 DEF JobLinked, Made
  <2> QED
    BY <1>1, <1>2, <2>1, <2>2, <2>3, JobAdded
<1> QED
  BY <1>1, <1>3, <1>4, OthersSame, TypeKept

\* sendRpc sends a frame and leaves a job that will queue its promise.
LEMMA RpcTyped ==
  ASSUME TypeInv, NEW op \in Awaited, NEW o \in DOMAIN objs, NEW tag \in Nat, Len(calls) < MaxCalls,
         SendRpc(op, o, tag), o <= Len(objs'), CallsStep => ObjectsStep,
         UNCHANGED <<channels, client, toClient, broker, verdict, lastMsg>>
  PROVE  TypeInv'
<1> DEFINE id == objs[o].id
<1>1. id \in Ids /\ id \in Nat /\ o \in Nat \ {0}
  BY ObjectTypes
<1>2. op \in CallOps /\ op \in ServerOps /\ op \in JobOps("await") /\ "await" \in {"await", "closing", "sent", "count"}
  BY DEF CallOps, ServerOps, ChannelOps, JobOps
<1> HIDE DEF id
<1>3. /\ calls' = Append(calls, Call(op, o, "pending")) /\ Send(<<Frame(op, id, NextCall, tag)>>)
      /\ jobs' = Append(jobs, Job("await", o, NextCall))
  BY DEF SendRpc, id
<1>4. CallsStep => ObjectsStep /\ ChannelsTyped /\ ClientTyped
  BY OthersSame
<1> QED
  BY <1>1, <1>2, <1>3, <1>4, CallSent

\* A call that sends one request, or is rejected.
LEMMA RequestTyped ==
  ASSUME TypeInv, NEW op \in Awaited, NEW o \in DOMAIN objs, NEW tag \in Nat, Len(calls) < MaxCalls,
         Request(op, o, tag)
  PROVE  TypeInv'
<1>1. o \in Nat /\ o <= Len(objs) /\ op \in CallOps
  BY ObjectTypes DEF CallOps
<1>2. CallsStep => ObjectsStep
  BY ObjectsSame DEF Request
<1> QED
  BY <1>1, <1>2, RejectTyped, RpcTyped DEF Request

\* basicAck, basicNack and basicReject.
LEMMA SettleTyped ==
  ASSUME TypeInv, NEW o \in DOMAIN objs, Settle(o)
  PROVE  TypeInv'
<1> DEFINE id == objs[o].id
           f == Frame("settle", id, NextCall, 0)
<1>1. id \in Ids /\ id \in Nat /\ o \in Nat \ {0} /\ o <= Len(objs) /\ "settle" \in CallOps
      /\ Len(calls) < MaxCalls
  BY ObjectTypes DEF CallOps, Settle, May
<1>2. CASE objs[o].closed
  BY <1>1, <1>2, RejectTyped DEF Settle
<1>3. CASE ~objs[o].closed
  <2>1. calls' = Append(calls, Call("settle", o, "resolved")) /\ Send(<<f>>)
        /\ UNCHANGED <<objs, jobs, channels, client, toClient, broker, verdict, lastMsg>>
    BY <1>3 DEF Settle
  <2>2. CallsStep /\ Len(calls') = Len(calls) + 1
    BY <1>1, <2>1, CallMade
  <2>3. ObjectsStep /\ JobsStep
    BY <2>1, <2>2, ObjectsSame, JobsSame
  <2>4. ServerTyped
    <3>1. NextCall \in Nat /\ NextCall <= Len(calls')
      BY <2>2 DEF NextCall, TypeInv, WebTypes
    <3>2. f \in ServerFrames /\ f.ch = id /\ f.call = NextCall
      BY <1>1, <3>1 DEF Frame, ServerFrames, ServerOps, ChannelOps
    <3> HIDE DEF f, id
    <3> QED
      BY <1>1, <2>1, <2>2, <3>1, <3>2, SendTyped
  <2> QED
    BY <2>1, <2>2, <2>3, <2>4, OthersSame, TypeKept
<1> QED
  BY <1>2, <1>3

\* basicPublish, with and without confirms.
LEMMA PublishTyped ==
  ASSUME TypeInv, NEW o \in DOMAIN objs, BasicPublish(o)
  PROVE  TypeInv'
<1> DEFINE id == objs[o].id
           op == IF objs[o].confirmId >= 0 THEN "confirm" ELSE "publish"
           do == IF op = "confirm" THEN "count" ELSE "sent"
<1>1. id \in Ids /\ id \in Nat /\ o \in Nat \ {0} /\ o <= Len(objs) /\ op \in CallOps
      /\ Len(calls) < MaxCalls
  BY ObjectTypes DEF CallOps, BasicPublish, May
<1>2. op \in JobOps(do) /\ do # "closing" /\ do \in {"await", "closing", "sent", "count"}
      /\ "publish" \in ServerOps /\ o <= Len(objs')
  BY <1>1 DEF ServerOps, ChannelOps, JobOps, BasicPublish
<1>3. CallsStep => ObjectsStep /\ ChannelsTyped /\ ClientTyped
  BY ObjectsSame, OthersSame DEF BasicPublish
<1>4. CASE objs[o].closed
  BY <1>1, <1>4, RejectTyped DEF BasicPublish
<1>5. CASE ~objs[o].closed
  <2>1. /\ calls' = Append(calls, Call(op, o, "pending")) /\ Send(<<Frame("publish", id, NextCall, 0)>>)
        /\ jobs' = Append(jobs, Job(do, o, NextCall))
        /\ UNCHANGED <<toClient, broker, verdict, lastMsg>>
    BY <1>5 DEF BasicPublish
  <2> HIDE DEF op, do, id
  <2> QED
    BY <1>1, <1>2, <1>3, <2>1, CallSent
<1> QED
  BY <1>4, <1>5

\* An object gets other consumers.
LEMMA ConsumersSet ==
  ASSUME TypeInv, CallsStep, NEW o \in DOMAIN objs, NEW cs \in SUBSET [tag : Nat, waiter : Nat],
         \A c \in cs : c.waiter # 0 => Made(calls', c.waiter, o, {"wait"}),
         objs' = [objs EXCEPT ![o].consumers = cs]
  PROVE  ObjectsStep
<1> DEFINE obj == [objs[o] EXCEPT !.consumers = cs]
<1>1. objs[o] \in Objects /\ ObjectLinked(calls', objs[o], o)
  BY ObjectTypes, ObjectStays DEF CallsStep
<1>2. /\ obj \in Objects /\ obj.id = objs[o].id /\ obj.promises = objs[o].promises
      /\ obj.unconfirmed = objs[o].unconfirmed /\ obj.consumers = cs
  BY <1>1 DEF Objects
<1>3. objs' = [objs EXCEPT ![o] = obj]
  OBVIOUS
<1> HIDE DEF obj
<1>4. ObjectLinked(calls', obj, o) /\ Fewer(objs[o], obj)
  BY <1>1, <1>2 DEF ObjectLinked, Fewer
<1> QED
  BY <1>2, <1>3, <1>4, ObjectSet

\* wait of a consumer.
LEMMA WaitTyped ==
  ASSUME TypeInv, NEW o \in DOMAIN objs, Wait(o)
  PROVE  TypeInv'
<1>1. /\ calls' = Append(calls, Call("wait", o, "pending")) /\ Len(calls) < MaxCalls
      /\ UNCHANGED <<channels, client, jobs, toServer, toClient, broker, verdict, lastMsg>>
  BY DEF Wait, May
<1>2. PICK c \in objs[o].consumers :
        objs' = [objs EXCEPT ![o].consumers = (objs[o].consumers \ {c}) \union {[c EXCEPT !.waiter = NextCall]}]
  BY DEF Wait
<1>3. o \in Nat /\ o <= Len(objs) /\ objs[o] \in Objects /\ ObjectLinked(calls, objs[o], o) /\ "wait" \in CallOps
  BY ObjectTypes DEF CallOps
<1>4. Len(objs') = Len(objs)
  BY <1>2, <1>3, ExceptSeq DEF TypeInv, WebTypes
<1>5. CallsStep /\ NextCall \in Nat /\ Made(calls', NextCall, o, {"wait"})
  <2>1. o <= Len(objs') /\ NextCall = Len(calls) + 1 /\ Len(calls) \in Nat
    BY <1>3, <1>4 DEF NextCall, TypeInv, WebTypes
  <2>2. "pending" \in {"pending", "resolved", "rejected"}
    OBVIOUS
  <2> QED
    BY <1>1, <1>3, <2>1, <2>2, CallMade
<1>6. ObjectsStep
  <2> DEFINE cs == (objs[o].consumers \ {c}) \union {[c EXCEPT !.waiter = NextCall]}
  <2>1. objs[o].consumers \in SUBSET [tag : Nat, waiter : Nat]
    BY <1>3 DEF Objects
  <2>2. cs \in SUBSET [tag : Nat, waiter : Nat] /\ [c EXCEPT !.waiter = NextCall].waiter = NextCall
    BY <1>5, <2>1
  <2>3. \A d \in objs[o].consumers : d.waiter # 0 => Made(calls', d.waiter, o, {"wait"})
    BY <1>3, <1>5, MadeStays DEF ObjectLinked, CallsStep
  <2>4. \A d \in cs : d.waiter # 0 => Made(calls', d.waiter, o, {"wait"})
    BY <1>5, <2>2, <2>3
  <2>5. objs' = [objs EXCEPT ![o].consumers = cs]
    BY <1>2
  <2> HIDE DEF cs
  <2> QED
    BY <1>5, <2>2, <2>4, <2>5, ConsumersSet
<1> QED
  BY <1>1, <1>5, <1>6, JobsSame, OthersSame, TypeKept

\* close of a channel.
LEMMA CloseChannelTyped ==
  ASSUME TypeInv, NEW o \in DOMAIN objs, CloseChannel(o)
  PROVE  TypeInv'
<1>1. /\ Len(calls) < MaxCalls /\ "close" \in Awaited /\ "close" \in CallOps
      /\ UNCHANGED <<channels, client, toClient, broker, verdict, lastMsg>>
  BY DEF CloseChannel, May, Awaited, CallOps
<1>2. o \in Nat /\ o <= Len(objs) /\ objs[o] \in Objects /\ ObjectLinked(calls, objs[o], o)
  BY ObjectTypes
<1>3. CASE objs[o].closed
  BY <1>1, <1>2, <1>3, RejectTyped DEF CloseChannel
<1>4. CASE ~objs[o].closed
  <2> DEFINE obj == [objs[o] EXCEPT !.closed = TRUE]
  <2>1. objs' = [objs EXCEPT ![o] = obj] /\ SendRpc("close", o, 0)
    BY <1>4 DEF CloseChannel
  <2>2. /\ obj \in Objects /\ obj.id = objs[o].id /\ obj.promises = objs[o].promises
        /\ obj.unconfirmed = objs[o].unconfirmed /\ obj.consumers = objs[o].consumers
    BY <1>2 DEF Objects
  <2> HIDE DEF obj
  <2>3. CallsStep => ObjectsStep
    <3> SUFFICES ASSUME CallsStep PROVE ObjectsStep
      OBVIOUS
    <3>1. ObjectLinked(calls', objs[o], o)
      BY <1>2, ObjectStays DEF CallsStep
    <3>2. ObjectLinked(calls', obj, o) /\ Fewer(objs[o], obj)
      BY <2>2, <3>1 DEF ObjectLinked, Fewer
    <3> QED
      BY <2>1, <2>2, <3>2, ObjectSet
  <2>4. o <= Len(objs')
    BY <1>2, <2>1, <2>2, ExceptSeq DEF TypeInv, WebTypes
  <2> QED
    BY <1>1, <2>1, <2>3, <2>4, RpcTyped
<1> QED
  BY <1>3, <1>4

\* channel() lists a new object under a free id.
LEMMA OpenChannelTyped ==
  ASSUME TypeInv, OpenChannel
  PROVE  TypeInv'
<1>1. /\ Len(calls) < MaxCalls /\ "open" \in CallOps /\ "open" \in ServerOps /\ "open" \in JobOps("await")
      /\ UNCHANGED <<client, toClient, broker, verdict, lastMsg>>
  BY DEF OpenChannel, CallOps, Awaited, ServerOps, ChannelOps, JobOps
<1>2. objs \in Seq(Objects) /\ Len(objs) \in Nat /\ channels \in [Ids -> Nat]
  BY DEF TypeInv, WebTypes
<1>3. CASE client.closed
  BY <1>1, <1>2, <1>3, RejectTyped DEF OpenChannel
<1>4. CASE ~client.closed
  <2>1. PICK id \in Ids :
          /\ objs' = Append(objs, NewObject(id)) /\ channels' = [channels EXCEPT ![id] = Len(objs) + 1]
          /\ calls' = Append(calls, Call("open", Len(objs) + 1, "pending"))
          /\ Send(<<Frame("open", id, NextCall, 0)>>)
          /\ jobs' = Append(jobs, Job("await", Len(objs) + 1, NextCall))
    BY <1>4 DEF OpenChannel
  <2> DEFINE obj == NewObject(id)
             o == Len(objs) + 1
  <2>2. /\ obj \in Objects /\ obj.id = id /\ obj.promises = << >>
        /\ obj.unconfirmed = << >> /\ obj.consumers = {}
    <3>1. NoMessage \in Messages
      BY DEF NoMessage, Messages
    <3>2. obj \in Objects
      BY <3>1 DEF NewObject, Objects
    <3>3. obj.id = id /\ obj.promises = << >> /\ obj.unconfirmed = << >> /\ obj.consumers = {}
      BY DEF NewObject
    <3> QED
      BY <3>2, <3>3
  <2> HIDE DEF obj
  <2>3. /\ objs' \in Seq(Objects) /\ Len(objs') = o /\ objs'[o] = obj
        /\ \A p \in DOMAIN objs : objs'[p] = objs[p]
        /\ DOMAIN objs = 1..Len(objs) /\ DOMAIN objs' = 1..o
    BY <1>2, <2>1, <2>2 DEF obj
  <2>4. o \in Nat /\ o # 0 /\ o <= Len(objs') /\ id \in Nat /\ "await" \in {"await", "closing", "sent", "count"}
    BY <1>2, <2>3, WebClientAssumption
  <2>5. ASSUME CallsStep
        PROVE  ObjectsStep
    <3>1. \A p \in DOMAIN objs' : p \in DOMAIN objs \/ p = o
      BY <1>2, <2>3
    <3>2. ObjectLinked(calls', obj, o)
      BY <2>2 DEF ObjectLinked
    <3>3. \A p \in DOMAIN objs : ObjectLinked(calls', objs[p], p) /\ Fewer(objs[p], objs'[p])
      BY <2>3, <2>5, ObjectStays DEF TypeInv, ObjectsLinked, CallsStep, Fewer
    <3>4. \A p \in DOMAIN objs' : ObjectLinked(calls', objs'[p], p)
      BY <2>3, <3>1, <3>2, <3>3
    <3>5. Len(objs) <= Len(objs') /\ \A p \in DOMAIN objs' \ DOMAIN objs : objs'[p].promises = << >>
      BY <1>2, <2>2, <2>3, <3>1
    <3> QED
      BY <2>3, <3>3, <3>4, <3>5 DEF ObjectsStep
  <2>6. ChannelsTyped
    <3>1. channels' \in [Ids -> Nat] /\ channels'[id] = o
      BY <1>2, <2>1, <2>4
    <3>2. ASSUME NEW i \in Ids
          PROVE  channels'[i] <= Len(objs') /\ (channels'[i] # 0 => objs'[channels'[i]].id = i)
      <4>1. CASE i = id
        BY <2>2, <2>3, <2>4, <3>1, <4>1
      <4>2. CASE i # id
        <5>1. channels'[i] = channels[i] /\ channels[i] \in Nat /\ channels[i] <= Len(objs)
              /\ (channels[i] # 0 => objs[channels[i]].id = i)
          BY <1>2, <2>1, <4>2 DEF TypeInv, ChannelsLinked
        <5>2. channels[i] # 0 => channels[i] \in DOMAIN objs
          BY <1>2, <2>3, <5>1
        <5> QED
          BY <1>2, <2>3, <5>1, <5>2
      <4> QED
        BY <4>1, <4>2
    <3> QED
      BY <3>1, <3>2 DEF ChannelsTyped, ChannelsLinked
  <2>7. CallsStep => ObjectsStep /\ ChannelsTyped /\ ClientTyped
    BY <1>1, <2>5, <2>6, OthersSame
  <2> HIDE DEF o
  <2>8. /\ calls' = Append(calls, Call("open", o, "pending")) /\ jobs' = Append(jobs, Job("await", o, NextCall))
    BY <2>1 DEF o
  <2> QED
    BY <1>1, <2>1, <2>4, <2>7, <2>8, CallSent
<1> QED
  BY <1>3, <1>4

\* close of the connection.
LEMMA CloseConnectionTyped ==
  ASSUME TypeInv, CloseConnection
  PROVE  TypeInv'
<1>1. /\ Len(calls) < MaxCalls /\ "disconnect" \in CallOps /\ "disconnect" \in ServerOps
      /\ "disconnect" \notin ChannelOps
      /\ UNCHANGED <<objs, channels, toClient, broker, verdict, lastMsg>>
  BY DEF CloseConnection, May, CallOps, ServerOps, ChannelOps, Awaited
<1>2. objs \in Seq(Objects) /\ Len(objs) \in Nat /\ Len(objs') = Len(objs) /\ client \in Clients
  BY <1>1 DEF TypeInv, WebTypes
<1>3. CASE client.closed
  BY <1>1, <1>2, <1>3, RejectTyped DEF CloseConnection
<1>4. CASE ~client.closed
  <2>1. /\ client' = [client EXCEPT !.closed = TRUE]
        /\ calls' = Append(calls, Call("disconnect", 0, "pending"))
        /\ Send(<<Frame("disconnect", 0, NextCall, 0)>>)
        /\ jobs' = Append(jobs, Job("closing", 0, NextCall))
    BY <1>4 DEF CloseConnection
  <2>2. client' \in Clients /\ client'.connect = client.connect /\ client'.closing = client.closing
    BY <1>2, <2>1 DEF Clients
  <2>3. ASSUME CallsStep PROVE ObjectsStep /\ ChannelsTyped /\ ClientTyped
    <3>1. ObjectsStep
      BY <1>1, <2>3, ObjectsSame
    <3>2. ClientTyped
      BY <2>2, <2>3, MadeStays DEF ClientTyped, ClientLinked, TypeInv, CallsStep
    <3> QED
      BY <1>1, <2>3, <3>1, <3>2, OthersSame
  <2>4. 0 \in Nat /\ 0 <= Len(objs') /\ "closing" \in {"await", "closing", "sent", "count"}
    BY <1>2
  <2> QED
    BY <1>1, <2>1, <2>3, <2>4, CallSent
<1> QED
  BY <1>3, <1>4

\* A request for an exchange or a queue, checked or not.
LEMMA CallsOnObjectTyped ==
  ASSUME TypeInv, NEW o \in DOMAIN objs, NEW op \in {"topology", "purge", "mode", "select", "tx", "get"},
         (May(op) /\ Request(op, o, 0)) \/ UncheckedRpc(o)
  PROVE  TypeInv'
<1>1. op \in Awaited /\ "topology" \in Awaited /\ 0 \in Nat /\ Len(calls) < MaxCalls /\ o \in Nat /\ o <= Len(objs)
  BY ObjectTypes DEF Awaited, May, UncheckedRpc
<1>2. CASE Request(op, o, 0)
  BY <1>1, <1>2, RequestTyped
<1>3. CASE UncheckedRpc(o)
  <2>1. SendRpc("topology", o, 0) /\ UNCHANGED <<objs, channels, client, toClient, broker, verdict, lastMsg>>
    BY <1>3 DEF UncheckedRpc
  <2> QED
    BY <1>1, <2>1, ObjectsSame, RpcTyped
<1> QED
  BY <1>2, <1>3

\* basicConsume and basicCancel.
LEMMA ConsumerCallTyped ==
  ASSUME TypeInv, NEW o \in DOMAIN objs, BasicConsume(o) \/ BasicCancel(o)
  PROVE  TypeInv'
<1>1. "consume" \in Awaited /\ "cancel" \in Awaited
  BY DEF Awaited
<1>2. CASE BasicConsume(o)
  <2>1. NextCall \in Nat
    BY DEF NextCall, TypeInv, WebTypes
  <2> QED
    BY <1>1, <1>2, <2>1, RequestTyped DEF BasicConsume, May
<1>3. CASE BasicCancel(o)
  <2>1. PICK c \in objs[o].consumers : May("cancel") /\ Request("cancel", o, c.tag)
    BY <1>3 DEF BasicCancel
  <2>2. objs[o] \in Objects
    BY ObjectTypes
  <2>3. c.tag \in Nat
    BY <2>2 DEF Objects
  <2> QED
    BY <1>1, <2>1, <2>3, RequestTyped DEF May
<1> QED
  BY <1>2, <1>3

\* So every call of the page keeps the types.
LEMMA PageCallTyped ==
  ASSUME TypeInv, PageCall
  PROVE  TypeInv'
<1>1. CASE OpenChannel \/ CloseConnection
  BY <1>1, OpenChannelTyped, CloseConnectionTyped
<1>2. ASSUME NEW o \in DOMAIN objs,
             \/ QueueDeclare(o) \/ QueueDelete(o) \/ QueueBind(o) \/ QueueUnbind(o) \/ QueuePurge(o)
             \/ ExchangeDeclare(o) \/ ExchangeDelete(o) \/ ExchangeBind(o) \/ ExchangeUnbind(o)
             \/ BasicQos(o) \/ BasicFlow(o) \/ BasicRecover(o) \/ ConfirmSelect(o) \/ TxMethod(o)
             \/ BasicGet(o)
      PROVE  TypeInv'
  <2>1. \/ \E op \in {"topology", "purge", "mode", "select", "tx", "get"} : May(op) /\ Request(op, o, 0)
        \/ UncheckedRpc(o)
    BY <1>2 DEF QueueDeclare, QueueDelete, QueueBind, QueueUnbind, ExchangeBind, ExchangeUnbind, Topology,
                QueuePurge, ExchangeDeclare, ExchangeDelete, BasicQos, BasicFlow, BasicRecover, Mode,
                ConfirmSelect, TxMethod, BasicGet
  <2> QED
    BY <2>1, CallsOnObjectTyped
<1>3. ASSUME NEW o \in DOMAIN objs,
             \/ BasicConsume(o) \/ BasicCancel(o) \/ Wait(o)
             \/ BasicAck(o) \/ BasicNack(o) \/ BasicReject(o) \/ BasicPublish(o)
             \/ CloseChannel(o)
      PROVE  TypeInv'
  BY <1>3, ConsumerCallTyped, WaitTyped, SettleTyped, PublishTyped, CloseChannelTyped
     DEF BasicAck, BasicNack, BasicReject
<1> QED
  BY <1>1, <1>2, <1>3 DEF PageCall

-----------------------------------------------------------------------------
(* The jobs. *)

\* The job that runs next.
LEMMA HeadJobLinked ==
  ASSUME TypeInv, jobs # << >>
  PROVE  /\ Head(jobs) \in JobRecords /\ JobLinked(calls, Len(objs), Head(jobs))
         /\ Head(jobs) = jobs[1] /\ 1 \in DOMAIN jobs
         /\ Head(jobs).call \in Nat /\ Head(jobs).by \in Nat /\ Head(jobs).obj \in Nat /\ Head(jobs).tag \in Nat
<1>1. jobs \in Seq(JobRecords)
  BY DEF TypeInv, WebTypes
<1>2. Head(jobs) = jobs[1] /\ 1 \in DOMAIN jobs /\ jobs[1] \in JobRecords
  BY <1>1
<1>3. Head(jobs).call \in Nat /\ Head(jobs).by \in Nat /\ Head(jobs).obj \in Nat /\ Head(jobs).tag \in Nat
  BY <1>2 DEF JobRecords
<1> QED
  BY <1>2, <1>3 DEF TypeInv, JobsLinked

\* Its object, unless it closes the connection.
LEMMA JobObject ==
  ASSUME TypeInv, jobs # << >>, Head(jobs).do # "closing"
  PROVE  /\ Head(jobs).obj \in DOMAIN objs
         /\ Made(calls, Head(jobs).call, Head(jobs).obj, JobOps(Head(jobs).do))
<1>1. objs \in Seq(Objects)
  BY DEF TypeInv, WebTypes
<1>2. DOMAIN objs = 1..Len(objs)
  BY <1>1
<1> QED
  BY <1>2, HeadJobLinked DEF JobLinked

\* What the jobs change beside the queue of jobs.
LEMMA JobTyped ==
  ASSUME TypeInv, jobs # << >>, jobs' = Tail(jobs), CallsStep, ObjectsStep, ClientTyped,
         UNCHANGED <<channels, toServer, toClient, broker, verdict, lastMsg>>
  PROVE  TypeInv'
BY JobDone, OthersSame, TypeKept

\* The promise of a request is queued on its object.
LEMMA AwaitTyped ==
  ASSUME TypeInv, RunAwait, jobs' = Tail(jobs),
         UNCHANGED <<channels, toServer, toClient, broker, verdict, lastMsg>>
  PROVE  TypeInv'
<1> DEFINE o == Head(jobs).obj
           k == Head(jobs).call
           obj == [objs[o] EXCEPT !.promises = Append(@, k)]
<1>1. jobs # << >> /\ Head(jobs).do = "await" /\ UNCHANGED <<calls, client>> /\ objs' = [objs EXCEPT ![o] = obj]
  BY DEF RunAwait, HeadJob
<1>2. o \in DOMAIN objs /\ Made(calls, k, o, Awaited) /\ k \in Nat
  BY <1>1, JobObject, HeadJobLinked DEF JobOps
<1>3. CallsStep
  BY <1>1, CallsSame
<1>4. objs[o] \in Objects /\ ObjectLinked(calls, objs[o], o) /\ Waits(jobs[1], o) /\ jobs[1].call = k /\ 1 \in DOMAIN jobs
  BY <1>1, <1>2, ObjectTypes, HeadJobLinked DEF Waits
<1>5. /\ obj \in Objects /\ obj.id = objs[o].id /\ obj.promises = Append(objs[o].promises, k)
      /\ obj.unconfirmed = objs[o].unconfirmed /\ obj.consumers = objs[o].consumers
  <2>1. objs[o].promises \in Seq(Nat)
    BY <1>4 DEF Objects
  <2>2. Append(objs[o].promises, k) \in Seq(Nat)
    BY <1>2, <2>1
  <2> QED
    BY <1>4, <2>2 DEF Objects
<1> HIDE DEF obj, k, o
<1>6. objs[o].promises \in Seq(Nat)
  BY <1>4 DEF Objects
<1>7. /\ DOMAIN obj.promises = 1..Len(objs[o].promises) + 1 /\ DOMAIN objs[o].promises = 1..Len(objs[o].promises)
      /\ Len(objs[o].promises) \in Nat
      /\ obj.promises[Len(objs[o].promises) + 1] = k
      /\ \A i \in DOMAIN objs[o].promises : obj.promises[i] = objs[o].promises[i]
  BY <1>2, <1>5, <1>6
<1>8. \A i \in DOMAIN obj.promises : i \in DOMAIN objs[o].promises \/ i = Len(objs[o].promises) + 1
  BY <1>7
<1>9. \A i \in DOMAIN objs[o].promises : objs[o].promises[i] < k
  BY <1>2, <1>4 DEF TypeInv, PromisesFirst
<1>10. \A i, j \in DOMAIN obj.promises : i < j => obj.promises[i] < obj.promises[j]
  <2> SUFFICES ASSUME NEW i \in DOMAIN obj.promises, NEW j \in DOMAIN obj.promises, i < j
               PROVE  obj.promises[i] < obj.promises[j]
    OBVIOUS
  <2>1. i \in DOMAIN objs[o].promises
    BY <1>7
  <2> QED
    BY <1>4, <1>7, <1>8, <1>9, <2>1 DEF ObjectLinked
<1>11. ObjectLinked(calls', obj, o)
  BY <1>1, <1>2, <1>4, <1>5, <1>7, <1>8, <1>10 DEF ObjectLinked
<1>12. Fewer(objs[o], obj)
  <2>1. QueuedNow(k)
    BY <1>1 DEF QueuedNow, HeadJob, k
  <2> QED
    BY <1>5, <1>7, <1>8, <2>1 DEF Fewer
<1>13. ObjectsStep
  BY <1>1, <1>2, <1>3, <1>5, <1>11, <1>12, ObjectSet
<1> QED
  BY <1>1, <1>3, <1>13, OthersSame, JobTyped

\* The promise of close() is kept by the connection.
LEMMA ClosingTyped ==
  ASSUME TypeInv, RunClosing, jobs' = Tail(jobs),
         UNCHANGED <<channels, toServer, toClient, broker, verdict, lastMsg>>
  PROVE  TypeInv'
<1>1. jobs # << >> /\ Head(jobs).do = "closing" /\ UNCHANGED <<calls, objs>>
      /\ client' = [client EXCEPT !.closing = Head(jobs).call]
  BY DEF RunClosing, HeadJob
<1>2. Made(calls, Head(jobs).call, 0, {"disconnect"}) /\ Head(jobs).call \in Nat /\ client \in Clients
  BY <1>1, HeadJobLinked DEF JobLinked, TypeInv, WebTypes
<1>3. client' \in Clients /\ client'.connect = client.connect /\ client'.closing = Head(jobs).call
  BY <1>1, <1>2 DEF Clients
<1>4. ClientTyped
  BY <1>1, <1>2, <1>3 DEF ClientTyped, ClientLinked, TypeInv
<1>5. CallsStep /\ ObjectsStep
  BY <1>1, CallsSame, ObjectsSame
<1> QED
  BY <1>1, <1>4, <1>5, JobTyped

\* A publish without confirms is resolved.
LEMMA SentTyped ==
  ASSUME TypeInv, RunSent, jobs' = Tail(jobs),
         UNCHANGED <<channels, toServer, toClient, broker, verdict, lastMsg>>
  PROVE  TypeInv'
<1>1. jobs # << >> /\ UNCHANGED <<objs, client>>
      /\ calls' = Settled({Head(jobs).call}, "resolved", Head(jobs).call)
  BY DEF RunSent, HeadJob
<1>2. CallsStep
  BY <1>1, HeadJobLinked, CallsSettled
<1>3. ObjectsStep
  BY <1>1, <1>2, ObjectsSame
<1> QED
  BY <1>1, <1>2, <1>3, OthersSame, JobTyped

\* A publish with confirms is counted and waits.
LEMMA CountTyped ==
  ASSUME TypeInv, RunCount, jobs' = Tail(jobs),
         UNCHANGED <<channels, toServer, toClient, broker, verdict, lastMsg>>
  PROVE  TypeInv'
<1> DEFINE o == Head(jobs).obj
           k == Head(jobs).call
           e == [tag |-> objs[o].confirmId + 1, call |-> k]
           obj == [objs[o] EXCEPT !.unconfirmed = Append(@, e), !.confirmId = @ + 1]
<1>1. jobs # << >> /\ Head(jobs).do = "count" /\ UNCHANGED <<calls, client>>
  BY DEF RunCount, HeadJob
<1>2. o \in DOMAIN objs /\ Made(calls, k, o, {"confirm"}) /\ k \in Nat
  BY <1>1, JobObject, HeadJobLinked DEF JobOps
<1>3. CallsStep /\ objs \in Seq(Objects)
  BY <1>1, CallsSame DEF TypeInv, WebTypes
<1>4. objs[o] \in Objects /\ ObjectLinked(calls, objs[o], o)
  BY <1>2, ObjectTypes
<1>5. objs' = [objs EXCEPT ![o] = obj]
  BY <1>2, <1>3 DEF RunCount
<1>6. objs[o].confirmId + 1 \in Nat /\ objs[o].unconfirmed \in Seq([tag : Nat, call : Nat])
  BY <1>4 DEF Objects
<1>7. e \in [tag : Nat, call : Nat] /\ e.call = k
  BY <1>2, <1>6
<1>8. /\ Append(objs[o].unconfirmed, e) \in Seq([tag : Nat, call : Nat])
      /\ \A i \in DOMAIN Append(objs[o].unconfirmed, e) :
           \/ i \in DOMAIN objs[o].unconfirmed /\ Append(objs[o].unconfirmed, e)[i] = objs[o].unconfirmed[i]
           \/ Append(objs[o].unconfirmed, e)[i] = e
  <2> HIDE DEF e
  <2> QED
    BY <1>6, <1>7, AppendSeq
<1>9. /\ obj \in Objects /\ obj.id = objs[o].id /\ obj.promises = objs[o].promises
      /\ obj.unconfirmed = Append(objs[o].unconfirmed, e) /\ obj.consumers = objs[o].consumers
  <2> HIDE DEF e
  <2>1. obj = [objs[o] EXCEPT !.unconfirmed = Append(objs[o].unconfirmed, e), !.confirmId = objs[o].confirmId + 1]
    BY <1>4 DEF Objects
  <2> QED
    BY <1>4, <1>6, <1>8, <2>1 DEF Objects
<1> HIDE DEF obj, e, o, k
<1>10. ObjectLinked(calls', obj, o) /\ Fewer(objs[o], obj)
  BY <1>1, <1>2, <1>4, <1>7, <1>8, <1>9 DEF ObjectLinked, Fewer
<1>11. ObjectsStep
  BY <1>2, <1>3, <1>5, <1>9, <1>10, ObjectSet
<1> QED
  BY <1>1, <1>3, <1>11, OthersSame, JobTyped

\* The continuation of basicConsume adds a consumer.
LEMMA ConsumeTyped ==
  ASSUME TypeInv, RunConsume, jobs' = Tail(jobs),
         UNCHANGED <<channels, toServer, toClient, broker, verdict, lastMsg>>
  PROVE  TypeInv'
<1> DEFINE o == Head(jobs).obj
           c == [tag |-> Head(jobs).tag, waiter |-> 0]
           cs == objs[o].consumers \union {c}
<1>1. /\ jobs # << >> /\ Head(jobs).do = "consume" /\ UNCHANGED client
      /\ objs' = [objs EXCEPT ![o].consumers = cs]
      /\ calls' = Settled({Head(jobs).call}, "resolved", Head(jobs).by)
  BY DEF RunConsume, HeadJob
<1>2. CallsStep
  BY <1>1, HeadJobLinked, CallsSettled
<1>3. o \in DOMAIN objs /\ Head(jobs).tag \in Nat
  BY <1>1, JobObject, HeadJobLinked
<1>4. objs[o] \in Objects /\ ObjectLinked(calls', objs[o], o)
  BY <1>2, <1>3, ObjectTypes, ObjectStays DEF CallsStep
<1>5. cs \in SUBSET [tag : Nat, waiter : Nat] /\ \A d \in cs : d.waiter # 0 => Made(calls', d.waiter, o, {"wait"})
  <2>1. c \in [tag : Nat, waiter : Nat] /\ c.waiter = 0
    BY <1>3
  <2>2. objs[o].consumers \in SUBSET [tag : Nat, waiter : Nat]
    BY <1>4 DEF Objects
  <2> HIDE DEF c
  <2> QED
    BY <1>4, <2>1, <2>2 DEF ObjectLinked
<1> HIDE DEF cs
<1>6. ObjectsStep
  BY <1>1, <1>2, <1>3, <1>5, ConsumersSet
<1> QED
  BY <1>1, <1>2, <1>6, OthersSame, JobTyped

\* That of basicCancel removes it and resolves the wait for its end.
LEMMA CancelTyped ==
  ASSUME TypeInv, RunCancel, jobs' = Tail(jobs),
         UNCHANGED <<channels, toServer, toClient, broker, verdict, lastMsg>>
  PROVE  TypeInv'
<1> DEFINE o == Head(jobs).obj
           gone == {c \in objs[o].consumers : c.tag = Head(jobs).tag}
           cs == objs[o].consumers \ gone
<1>1. /\ jobs # << >> /\ Head(jobs).do = "cancel" /\ UNCHANGED client
      /\ objs' = [objs EXCEPT ![o].consumers = cs]
  <2>1. objs \in Seq(Objects) /\ o \in DOMAIN objs
    BY JobObject DEF RunCancel, HeadJob, TypeInv, WebTypes
  <2> QED
    BY <2>1 DEF RunCancel, HeadJob
<1>2. CallsStep
  <2>1. DOMAIN calls' = DOMAIN calls /\ calls' = [k \in DOMAIN calls |-> calls'[k]]
    BY DEF RunCancel
  <2>2. ASSUME NEW k \in DOMAIN calls
        PROVE  calls'[k] \in CallRecords /\ calls'[k].op = calls[k].op /\ calls'[k].obj = calls[k].obj
    <3>1. calls[k] \in CallRecords /\ k \in Nat /\ Head(jobs).by \in Nat
      BY <1>1, HeadJobLinked DEF TypeInv, WebTypes
    <3>2. \/ calls'[k] = [calls[k] EXCEPT !.st = "resolved", !.by = k]
          \/ calls'[k] = [calls[k] EXCEPT !.st = "rejected", !.by = Head(jobs).by]
          \/ calls'[k] = [calls[k] EXCEPT !.st = "resolved", !.by = Head(jobs).by]
          \/ calls'[k] = calls[k]
      BY DEF RunCancel
    <3> QED
      BY <3>1, <3>2 DEF CallRecords
  <2> QED
    BY <2>1, <2>2, CallsMapped
<1>3. o \in DOMAIN objs
  BY <1>1, JobObject
<1>4. objs[o] \in Objects /\ ObjectLinked(calls', objs[o], o)
  BY <1>2, <1>3, ObjectTypes, ObjectStays DEF CallsStep
<1>5. cs \in SUBSET [tag : Nat, waiter : Nat] /\ \A d \in cs : d.waiter # 0 => Made(calls', d.waiter, o, {"wait"})
  BY <1>4 DEF Objects, ObjectLinked
<1> HIDE DEF cs
<1>6. ObjectsStep
  BY <1>1, <1>2, <1>3, <1>5, ConsumersSet
<1> QED
  BY <1>1, <1>2, <1>6, OthersSame, JobTyped

\* So every continuation keeps the types.
LEMMA RunJobTyped ==
  ASSUME TypeInv, RunJob
  PROVE  TypeInv'
BY AwaitTyped, ClosingTyped, SentTyped, CountTyped, ConsumeTyped, CancelTyped DEF RunJob

-----------------------------------------------------------------------------
(* The frames the client parses. *)

\* What TypeInv says of a frame to the client.
LEMMA ClientFrameTypes ==
  ASSUME TypeInv, NEW i \in DOMAIN toClient
  PROVE  /\ toClient[i] \in ClientFrames
         /\ toClient[i].m \in ChannelKinds => toClient[i].ch \in Ids
         /\ toClient[i].m \in ReplyKinds \union {"close"} => toClient[i] \in ReplyFrames
         /\ toClient[i].m \in {"ack", "nack"} => toClient[i] \in AckFrames
         /\ toClient[i].m \in MessageKinds => toClient[i] \in PartFrames
<1>1. toClient[i] \in ClientFrames
  BY DEF TypeInv, WebTypes
<1>2. \A f \in ClientFrames : f.m \in ReplyKinds \union {"close"} => f \in ReplyFrames
  BY DEF ClientFrames, AckFrames, PartFrames, CancelFrames, ConnectionFrames, ReplyKinds, MessageKinds, StartKinds
<1>3. \A f \in ClientFrames : f.m \in {"ack", "nack"} => f \in AckFrames
  BY DEF ClientFrames, ReplyFrames, PartFrames, CancelFrames, ConnectionFrames, ReplyKinds, MessageKinds, StartKinds
<1>4. \A f \in ClientFrames : f.m \in MessageKinds => f \in PartFrames
  BY DEF ClientFrames, ReplyFrames, AckFrames, CancelFrames, ConnectionFrames, ReplyKinds, MessageKinds, StartKinds
<1>5. toClient[i].m \in ChannelKinds => toClient[i].ch \in Ids
  BY DEF TypeInv, Channelled
<1> QED
  BY <1>1, <1>2, <1>3, <1>4, <1>5

\* The frame that is read next.
LEMMA ArrivedTypes ==
  ASSUME TypeInv, toClient # << >>
  PROVE  /\ 1 \in DOMAIN toClient /\ Arrived = toClient[1]
         /\ Arrived.m \in ChannelKinds => Arrived.ch \in Ids
         /\ Arrived.m \in ReplyKinds \union {"close"} => Arrived \in ReplyFrames
         /\ Arrived.m \in {"ack", "nack"} => Arrived \in AckFrames
         /\ Arrived.m \in MessageKinds => Arrived \in PartFrames
<1>1. toClient \in Seq(ClientFrames)
  BY DEF TypeInv, WebTypes
<1>2. 1 \in DOMAIN toClient /\ Arrived = toClient[1]
  BY <1>1 DEF Arrived
<1> QED
  BY <1>2, ClientFrameTypes

\* A reply that is read next.
LEMMA ReplyTypes ==
  ASSUME TypeInv, toClient # << >>, Arrived.m \in ReplyKinds \union {"close"}
  PROVE  Arrived.ch \in Ids /\ Arrived.ch \in Nat /\ Arrived.call \in Nat /\ Arrived.tag \in Nat
<1>1. Arrived \in ReplyFrames /\ Arrived.ch \in Ids
  BY ArrivedTypes DEF ChannelKinds
<1> QED
  BY <1>1 DEF ReplyFrames

\* The object it is for, if there is one.
LEMMA AddressedTypes ==
  ASSUME TypeInv, toClient # << >>, Arrived.m \in ChannelKinds
  PROVE  Addressed \in Nat /\ (Addressed # 0 => Addressed \in DOMAIN objs)
<1>1. Arrived.ch \in Ids
  BY ArrivedTypes
<1>2. channels \in [Ids -> Nat] /\ objs \in Seq(Objects)
  BY DEF TypeInv, WebTypes
<1>3. Addressed \in Nat /\ Addressed <= Len(objs) /\ DOMAIN objs = 1..Len(objs)
  BY <1>1, <1>2 DEF Addressed, TypeInv, ChannelsLinked
<1> QED
  BY <1>3

\* Reading a frame, part by part.
LEMMA ParseTyped ==
  ASSUME TypeInv, NEW m, Parse(m), CallsStep, ObjectsStep, JobsStep, ChannelsTyped, ClientTyped, ServerTyped
  PROVE  TypeInv'
<1>1. toClient \in Seq(ClientFrames) /\ toClient # << >> /\ toClient' = Tail(toClient)
      /\ UNCHANGED <<broker, verdict, lastMsg>>
  BY DEF TypeInv, WebTypes, Parse
<1>2. toClient' \in Seq(ClientFrames) /\ \A i \in DOMAIN toClient' : i + 1 \in DOMAIN toClient /\ toClient'[i] = toClient[i + 1]
  BY <1>1
<1>3. ClientFramesTyped
  BY <1>2 DEF ClientFramesTyped, Channelled, TypeInv
<1> QED
  BY <1>1, <1>3, OthersSame, TypeKept

\* resolvePromise takes the first promise of the object, if there is one.
LEMMA ResolvePromiseTyped ==
  ASSUME TypeInv, NEW o \in DOMAIN objs, NEW obj \in Objects, ObjectLinked(calls, obj, o),
         Fewer(objs[o], obj), NEW by \in Nat, NEW tag \in Nat, ResolvePromise(o, obj, by, tag)
  PROVE  CallsStep /\ ObjectsStep /\ JobsStep
<1>1. CASE obj.promises = << >>
  <2>1. objs' = [objs EXCEPT ![o] = obj] /\ UNCHANGED <<calls, jobs>>
    BY <1>1 DEF ResolvePromise
  <2>2. CallsStep
    BY <2>1, CallsSame
  <2>3. ObjectsStep
    BY <2>1, <2>2, ObjectSet
  <2> QED
    BY <2>1, <2>2, <2>3, JobsSame
<1>2. CASE obj.promises # << >>
  <2> DEFINE k == Head(obj.promises)
             rest == [obj EXCEPT !.promises = Tail(@)]
             j == [do |-> calls[k].op, obj |-> o, call |-> k, by |-> by, tag |-> tag]
  <2>1. obj.promises \in Seq(Nat)
    BY DEF Objects
  <2>2. k \in Nat /\ 1 \in DOMAIN obj.promises /\ k = obj.promises[1] /\ Tail(obj.promises) \in Seq(Nat)
        /\ \A i \in DOMAIN Tail(obj.promises) : /\ i + 1 \in DOMAIN obj.promises /\ i \in Int
                                                /\ Tail(obj.promises)[i] = obj.promises[i + 1]
    BY <1>2, <2>1
  <2>3. Made(calls, k, o, Awaited)
    BY <2>2 DEF ObjectLinked
  <2>4. /\ rest \in Objects /\ rest.id = obj.id /\ rest.promises = Tail(obj.promises)
        /\ rest.unconfirmed = obj.unconfirmed /\ rest.consumers = obj.consumers
    BY <2>2 DEF Objects
  <2>5. /\ objs' = [objs EXCEPT ![o] = rest]
        /\ IF calls[k].op \in {"consume", "cancel"} THEN jobs' = Append(jobs, j) /\ UNCHANGED calls
           ELSE calls' = Settled({k}, "resolved", by) /\ UNCHANGED jobs
    BY <1>2 DEF ResolvePromise
  <2> HIDE DEF k, rest
  <2>6. CallsStep
    BY <2>5, CallsSame, CallsSettled
  <2>7. ObjectLinked(calls', rest, o) /\ Fewer(objs[o], rest)
    <3>1. \A x, y \in DOMAIN rest.promises : x < y => rest.promises[x] < rest.promises[y]
      <4> SUFFICES ASSUME NEW x \in DOMAIN rest.promises, NEW y \in DOMAIN rest.promises, x < y
                   PROVE  rest.promises[x] < rest.promises[y]
        OBVIOUS
      <4>1. x + 1 < y + 1
        BY <2>2, <2>4
      <4> QED
        BY <2>2, <2>4, <4>1 DEF ObjectLinked
    <3>2. ObjectLinked(calls, rest, o)
      BY <2>2, <2>4, <3>1 DEF ObjectLinked
    <3>3. Fewer(objs[o], rest)
      BY <2>2, <2>4 DEF Fewer
    <3> QED
      BY <2>6, <3>2, <3>3, ObjectStays DEF CallsStep
  <2>8. ObjectsStep
    BY <2>4, <2>5, <2>6, <2>7, ObjectSet
  <2>9. JobsStep
    <3>1. CASE calls[k].op \in {"consume", "cancel"}
      <4>1. j \in JobRecords /\ j.do = calls[k].op /\ j.obj = o /\ j.call = k /\ j.do # "await" /\ j.do # "closing"
        BY <2>2, <3>1, ObjectTypes DEF JobRecords, k
      <4>2. JobLinked(calls', Len(objs'), j)
        <5>1. o \in 1..Len(objs') /\ JobOps(j.do) = {calls[k].op} /\ calls' = calls
          BY <2>4, <2>5, <3>1, <4>1, ExceptSeq DEF JobOps, TypeInv, WebTypes
        <5> HIDE DEF j
        <5> QED
          BY <2>3, <4>1, <5>1 DEF JobLinked, Made
      <4>3. jobs' = Append(jobs, j)
        BY <2>5, <3>1
      <4> HIDE DEF j
      <4> QED
        BY <2>6, <2>8, <4>1, <4>2, <4>3, JobAdded
    <3>2. CASE calls[k].op \notin {"consume", "cancel"}
      BY <2>5, <2>6, <2>8, <3>2, JobsSame
    <3> QED
      BY <3>1, <3>2
  <2> QED
    BY <2>6, <2>8, <2>9
<1> QED
  BY <1>1, <1>2

\* An object that stays as it is.
LEMMA ObjectSelf ==
  ASSUME TypeInv, NEW o \in DOMAIN objs
  PROVE  objs[o] \in Objects /\ ObjectLinked(calls, objs[o], o) /\ Fewer(objs[o], objs[o])
BY ObjectTypes DEF Fewer

\* A reply that only settles a promise.
LEMMA ReplyTyped ==
  ASSUME TypeInv, NEW m \in ReplyKinds, Reply(m)
  PROVE  TypeInv'
<1>1. Parse(m) /\ toClient # << >> /\ Arrived.m = m /\ UNCHANGED <<channels, client, toServer>>
  BY DEF Reply, Parse, Arrived
<1>2. Arrived.call \in Nat /\ Arrived.tag \in Nat /\ (Addressed # 0 => Addressed \in DOMAIN objs)
  BY <1>1, ReplyTypes, AddressedTypes DEF ChannelKinds
<1>3. CallsStep /\ ObjectsStep /\ JobsStep
  <2>1. CASE Addressed = 0
    BY <2>1, CallsSame, ObjectsSame, JobsSame DEF Reply
  <2>2. CASE Addressed # 0
    <3>1. ResolvePromise(Addressed, objs[Addressed], Arrived.call, Arrived.tag)
      BY <2>2 DEF Reply
    <3> QED
      BY <1>2, <2>2, <3>1, ObjectSelf, ResolvePromiseTyped
  <2> QED
    BY <2>1, <2>2
<1> QED
  BY <1>1, <1>3, OthersSame, ParseTyped

\* The reply to Confirm.Select also turns confirms on.
LEMMA SelectOkTyped ==
  ASSUME TypeInv, OnSelectOk
  PROVE  TypeInv'
<1>1. Parse("selectOk") /\ toClient # << >> /\ Arrived.m = "selectOk" /\ UNCHANGED <<channels, client, toServer>>
  BY DEF OnSelectOk, Parse, Arrived
<1>2. Arrived.call \in Nat /\ (Addressed # 0 => Addressed \in DOMAIN objs)
  BY <1>1, ReplyTypes, AddressedTypes DEF ChannelKinds, ReplyKinds
<1>3. CallsStep /\ ObjectsStep /\ JobsStep
  <2>1. CASE Addressed = 0
    BY <2>1, CallsSame, ObjectsSame, JobsSame DEF OnSelectOk
  <2>2. CASE Addressed # 0
    <3> DEFINE obj == [objs[Addressed] EXCEPT !.confirmId = 0]
    <3>1. objs[Addressed] \in Objects /\ ObjectLinked(calls, objs[Addressed], Addressed)
      BY <1>2, <2>2, ObjectTypes
    <3>2. /\ obj \in Objects /\ obj.id = objs[Addressed].id /\ obj.promises = objs[Addressed].promises
          /\ obj.unconfirmed = objs[Addressed].unconfirmed /\ obj.consumers = objs[Addressed].consumers
      BY <3>1 DEF Objects
    <3>3. ResolvePromise(Addressed, obj, Arrived.call, 0)
      BY <2>2 DEF OnSelectOk
    <3> HIDE DEF obj
    <3>4. ObjectLinked(calls, obj, Addressed) /\ Fewer(objs[Addressed], obj)
      BY <3>1, <3>2 DEF ObjectLinked, Fewer
    <3> QED
      BY <1>2, <2>2, <3>2, <3>3, <3>4, ResolvePromiseTyped
  <2> QED
    BY <2>1, <2>2
<1> QED
  BY <1>1, <1>3, OthersSame, ParseTyped

\* setClosed drops what the object waits for.
LEMMA SetClosedTyped ==
  ASSUME TypeInv, NEW o \in DOMAIN objs
  PROVE  SetClosed(o) \in Objects /\ ObjectLinked(calls, SetClosed(o), o) /\ Fewer(objs[o], SetClosed(o))
<1>1. objs[o] \in Objects /\ ObjectLinked(calls, objs[o], o) /\ Fewer(objs[o], objs[o])
  BY ObjectSelf
<1>2. CASE objs[o].closed
  BY <1>1, <1>2 DEF SetClosed
<1>3. CASE ~objs[o].closed
  <2> DEFINE obj == [objs[o] EXCEPT !.closed = TRUE, !.consumers = {}, !.promises = << >>]
  <2>1. /\ obj \in Objects /\ obj.id = objs[o].id /\ obj.promises = << >>
        /\ obj.unconfirmed = objs[o].unconfirmed /\ obj.consumers = {}
    <3>1. obj \in Objects
      <4> DEFINE none == << >>
      <4>1. none \in Seq(Nat) /\ {} \in SUBSET [tag : Nat, waiter : Nat] /\ TRUE \in BOOLEAN
        OBVIOUS
      <4> HIDE DEF none
      <4>2. obj = [objs[o] EXCEPT !.closed = TRUE, !.consumers = {}, !.promises = none]
        BY DEF none
      <4> HIDE DEF obj
      <4> QED
        BY <1>1, <4>1, <4>2 DEF Objects
    <3>2. obj.id = objs[o].id /\ obj.promises = << >>
      BY <1>1 DEF Objects
    <3>3. obj.unconfirmed = objs[o].unconfirmed /\ obj.consumers = {}
      BY <1>1 DEF Objects
    <3> QED
      BY <3>1, <3>2, <3>3
  <2>2. SetClosed(o) = obj
    BY <1>3 DEF SetClosed
  <2> HIDE DEF obj
  <2>3. ObjectLinked(calls, obj, o) /\ Fewer(objs[o], obj)
    BY <1>1, <2>1 DEF ObjectLinked, Fewer
  <2> QED
    BY <2>1, <2>2, <2>3
<1> QED
  BY <1>2, <1>3

\* An id loses its object.
LEMMA ChannelDropped ==
  ASSUME TypeInv, ObjectsStep, NEW id \in Ids, channels' = [channels EXCEPT ![id] = 0]
  PROVE  ChannelsTyped
<1>1. channels \in [Ids -> Nat] /\ Len(objs) \in Nat /\ Len(objs') \in Nat /\ Len(objs) <= Len(objs')
      /\ DOMAIN objs = 1..Len(objs)
  BY DEF TypeInv, WebTypes, ObjectsStep
<1>2. channels' \in [Ids -> Nat]
  BY <1>1
<1>3. ASSUME NEW i \in Ids
      PROVE  channels'[i] <= Len(objs') /\ (channels'[i] # 0 => objs'[channels'[i]].id = i)
  <2>1. channels[i] \in Nat /\ channels[i] <= Len(objs) /\ (channels[i] # 0 => objs[channels[i]].id = i)
    BY <1>1 DEF TypeInv, ChannelsLinked
  <2>2. channels[i] # 0 => channels[i] \in DOMAIN objs
    BY <1>1, <2>1
  <2>3. channels[i] # 0 => objs'[channels[i]].id = i
    BY <2>1, <2>2 DEF ObjectsStep, Fewer
  <2>4. channels'[i] = 0 \/ channels'[i] = channels[i]
    BY <1>1
  <2> QED
    BY <1>1, <2>1, <2>3, <2>4
<1> QED
  BY <1>2, <1>3 DEF ChannelsTyped, ChannelsLinked

\* No channel is listed.
LEMMA ChannelsCleared ==
  ASSUME TypeInv, ObjectsStep, channels' = [id \in Ids |-> 0]
  PROVE  ChannelsTyped
BY DEF ObjectsStep, ChannelsTyped, ChannelsLinked

\* Calls rejected while their object is closed.
LEMMA ClosedTyped ==
  ASSUME TypeInv, NEW o \in DOMAIN objs, NEW K, calls' = Settled(K, "rejected", 0),
         objs' = [objs EXCEPT ![o] = SetClosed(o)]
  PROVE  CallsStep /\ ObjectsStep
<1>1. CallsStep
  BY CallsSettled
<1>2. ObjectLinked(calls', SetClosed(o), o)
  BY <1>1, SetClosedTyped, ObjectStays DEF CallsStep
<1> QED
  BY <1>1, <1>2, SetClosedTyped, ObjectSet

\* The broker closes a channel.
LEMMA ChannelCloseTyped ==
  ASSUME TypeInv, OnChannelClose
  PROVE  TypeInv'
<1>1. Parse("close") /\ toClient # << >> /\ Arrived.m = "close" /\ UNCHANGED <<client, jobs>>
      /\ Send(<<Frame("closeOk", Arrived.ch, 0, 0)>>)
  BY DEF OnChannelClose, Parse, Arrived
<1>2. Arrived.ch \in Ids /\ Arrived.ch \in Nat /\ (Addressed # 0 => Addressed \in DOMAIN objs)
  BY <1>1, ReplyTypes, AddressedTypes DEF ChannelKinds
<1>3. CallsStep /\ ObjectsStep /\ ChannelsTyped
  <2>1. CASE Addressed = 0
    BY <2>1, CallsSame, ObjectsSame, OthersSame DEF OnChannelClose
  <2>2. CASE Addressed # 0
    <3>1. /\ calls' = Settled(CutOff(Addressed), "rejected", 0)
          /\ objs' = [objs EXCEPT ![Addressed] = SetClosed(Addressed)]
          /\ channels' = [channels EXCEPT ![Arrived.ch] = 0]
      BY <2>2 DEF OnChannelClose
    <3> QED
      BY <1>2, <2>2, <3>1, ClosedTyped, ChannelDropped
  <2> QED
    BY <2>1, <2>2
<1>4. ServerTyped
  <2> DEFINE f == Frame("closeOk", Arrived.ch, 0, 0)
  <2>1. f \in ServerFrames /\ f.ch = Arrived.ch /\ f.call = 0
    <3>1. "closeOk" \in ServerOps /\ 0 \in Nat
      BY DEF ServerOps, ChannelOps
    <3> QED
      BY <1>2, <3>1, FrameType
  <2>2. f.call <= Len(calls')
    BY <1>3, <2>1 DEF CallsStep, Extends
  <2>3. Send(<<f>>)
    BY <1>1
  <2> HIDE DEF f
  <2> QED
    BY <1>2, <1>3, <2>1, <2>2, <2>3, SendTyped
<1> QED
  BY <1>1, <1>3, <1>4, JobsSame, OthersSame, ParseTyped

\* It agrees to a close.
LEMMA ChannelCloseOkTyped ==
  ASSUME TypeInv, OnChannelCloseOk
  PROVE  TypeInv'
<1>1. Parse("closeOk") /\ toClient # << >> /\ Arrived.m = "closeOk" /\ UNCHANGED <<client, toServer>>
  BY DEF OnChannelCloseOk, Parse, Arrived
<1>2. Arrived.ch \in Ids /\ Arrived.call \in Nat /\ (Addressed # 0 => Addressed \in DOMAIN objs)
  BY <1>1, ReplyTypes, AddressedTypes DEF ChannelKinds, ReplyKinds
<1>3. CallsStep /\ ObjectsStep /\ JobsStep /\ ChannelsTyped
  <2>1. CASE Addressed = 0
    BY <2>1, CallsSame, ObjectsSame, JobsSame, OthersSame DEF OnChannelCloseOk
  <2>2. CASE Addressed # 0
    <3>1. IF objs[Addressed].closed THEN ResolvePromise(Addressed, SetClosed(Addressed), Arrived.call, 0)
          ELSE /\ calls' = Settled(CutOff(Addressed), "rejected", 0)
               /\ objs' = [objs EXCEPT ![Addressed] = SetClosed(Addressed)] /\ UNCHANGED jobs
      BY <2>2 DEF OnChannelCloseOk
    <3>2. CallsStep /\ ObjectsStep /\ JobsStep
      BY <1>2, <2>2, <3>1, SetClosedTyped, ResolvePromiseTyped, ClosedTyped, JobsSame
    <3>3. channels' = [channels EXCEPT ![Arrived.ch] = 0]
      BY <2>2 DEF OnChannelCloseOk
    <3> QED
      BY <1>2, <3>2, <3>3, ChannelDropped
  <2> QED
    BY <2>1, <2>2
<1> QED
  BY <1>1, <1>3, OthersSame, ParseTyped

\* All listed objects are closed.
LEMMA AllClosed ==
  ASSUME TypeInv, CallsStep, objs' = [o \in DOMAIN objs |-> IF o \in Listed THEN SetClosed(o) ELSE objs[o]]
  PROVE  ObjectsStep
<1>1. objs \in Seq(Objects)
  BY DEF TypeInv, WebTypes
<1>2. \A o \in DOMAIN objs : objs'[o] \in Objects /\ ObjectLinked(calls, objs'[o], o) /\ Fewer(objs[o], objs'[o])
  BY SetClosedTyped, ObjectSelf
<1>3. DOMAIN objs' = DOMAIN objs /\ objs' \in [1..Len(objs) -> Objects] /\ Len(objs) \in Nat
  BY <1>1, <1>2
<1>4. objs' \in Seq(Objects) /\ Len(objs') = Len(objs)
  BY <1>3
<1>5. \A o \in DOMAIN objs : ObjectLinked(calls', objs'[o], o)
  BY <1>2, ObjectStays DEF CallsStep
<1> QED
  BY <1>1, <1>2, <1>3, <1>4, <1>5 DEF ObjectsStep

\* It closes the connection.
LEMMA ConnectionCloseTyped ==
  ASSUME TypeInv, OnConnectionClose
  PROVE  TypeInv'
<1>1. /\ \E K : calls' = Settled(K, "rejected", 0)
      /\ channels' = [id \in Ids |-> 0] /\ toClient' = << >>
      /\ client' = [client EXCEPT !.socket = "closed", !.closed = TRUE, !.connect = 0]
      /\ toServer' = Append(toServer, Frame("connCloseOk", 0, 0, 0))
      /\ UNCHANGED <<jobs, broker, verdict, lastMsg>>
  BY DEF OnConnectionClose
<1>2. CallsStep
  BY <1>1, CallsSettled
<1>3. ObjectsStep
  BY <1>2, AllClosed DEF OnConnectionClose
<1>4. ClientTyped
  <2>1. client \in Clients
    BY DEF TypeInv, WebTypes
  <2>2. client' \in Clients /\ client'.connect = 0 /\ client'.closing = client.closing
    BY <1>1, <2>1 DEF Clients
  <2> QED
    BY <1>2, <2>2, MadeStays DEF ClientTyped, ClientLinked, TypeInv, CallsStep
<1>5. ServerTyped
  <2> DEFINE f == Frame("connCloseOk", 0, 0, 0)
  <2>1. f \in ServerFrames /\ f.op = "connCloseOk" /\ f.call = 0
    BY FrameType DEF ServerOps
  <2> HIDE DEF f
  <2>2. toServer \in Seq(ServerFrames) /\ toServer' = Append(toServer, f) /\ Len(calls') \in Nat
    BY <1>1, <1>2 DEF TypeInv, WebTypes, f, CallsStep, Extends
  <2>3. ServerLinked'
    <3>1. "connCloseOk" \notin ChannelOps /\ Len(calls) \in Nat /\ Len(calls) <= Len(calls')
      BY <1>2 DEF ChannelOps, Awaited, CallsStep, Extends
    <3>2. ASSUME NEW i \in DOMAIN toServer'
          PROVE  /\ toServer'[i].op \in ChannelOps => toServer'[i].ch \in Ids
                 /\ toServer'[i].call <= Len(calls')
      <4>1. CASE i \in DOMAIN toServer
        BY <2>1, <2>2, <3>1, <4>1, AppendSeq, ServerFrameTypes
      <4>2. CASE i \notin DOMAIN toServer
        <5>1. toServer'[i] = f
          BY <2>1, <2>2, <4>2, AppendSeq
        <5> QED
          BY <2>1, <2>2, <3>1, <5>1
      <4> QED
        BY <4>1, <4>2
    <3> QED
      BY <3>2 DEF ServerLinked
  <2> QED
    BY <2>1, <2>2, <2>3, AppendSeq DEF ServerTyped
<1>6. ClientFramesTyped /\ ChannelsTyped
  BY <1>1, <1>3, ChannelsCleared DEF ClientFramesTyped, Channelled
<1> QED
  BY <1>1, <1>2, <1>3, <1>4, <1>5, <1>6, JobsSame, OthersSame, TypeKept

\* It agrees to that.
LEMMA ConnectionCloseOkTyped ==
  ASSUME TypeInv, OnConnectionCloseOk
  PROVE  TypeInv'
<1>1. /\ channels' = [id \in Ids |-> 0] /\ toClient' = << >>
      /\ client' = [client EXCEPT !.socket = "closed", !.closing = 0]
      /\ UNCHANGED <<jobs, toServer, broker, verdict, lastMsg>>
  BY DEF OnConnectionCloseOk
<1>2. CallsStep
  <2> DEFINE K == UNION {CutOff(o) : o \in Listed}
  <2>1. DOMAIN calls' = DOMAIN calls /\ calls' = [k \in DOMAIN calls |-> calls'[k]]
    BY DEF OnConnectionCloseOk
  <2>2. ASSUME NEW k \in DOMAIN calls
        PROVE  calls'[k] \in CallRecords /\ calls'[k].op = calls[k].op /\ calls'[k].obj = calls[k].obj
    <3>1. calls'[k] = [calls[k] EXCEPT !.st = "resolved", !.by = k] \/ calls'[k] = Settled(K, "rejected", 0)[k]
      BY DEF OnConnectionCloseOk
    <3>2. calls[k] \in CallRecords /\ k \in Nat
      BY DEF TypeInv, WebTypes
    <3> HIDE DEF K
    <3>3. CASE calls'[k] = [calls[k] EXCEPT !.st = "resolved", !.by = k]
      BY <3>2, <3>3 DEF CallRecords
    <3> QED
      BY <3>1, <3>3, SettledTyped
  <2> QED
    BY <2>1, <2>2, CallsMapped
<1>3. ObjectsStep
  BY <1>2, AllClosed DEF OnConnectionCloseOk
<1>4. ClientTyped
  <2>1. client \in Clients
    BY DEF TypeInv, WebTypes
  <2>2. client' \in Clients /\ client'.connect = client.connect /\ client'.closing = 0
    BY <1>1, <2>1 DEF Clients
  <2> QED
    BY <2>2 DEF ClientTyped, ClientLinked, TypeInv
<1>5. ClientFramesTyped /\ ChannelsTyped
  BY <1>1, <1>3, ChannelsCleared DEF ClientFramesTyped, Channelled
<1> QED
  BY <1>1, <1>2, <1>3, <1>4, <1>5, JobsSame, OthersSame, TypeKept

\* The frames of the handshake.
LEMMA HandshakeFrameTyped ==
  ASSUME TypeInv, OnStart \/ OnTune \/ OnConnectionOpenOk
  PROVE  TypeInv'
<1>1. Len(calls) \in Nat /\ 1 <= Len(calls) /\ client \in Clients /\ 1 \in DOMAIN calls
  BY WebClientAssumption DEF TypeInv, WebTypes, CallsLinked
<1>2. \A op \in {"startOk", "tuneOk", "connOpen"} :
        /\ Frame(op, 0, 1, 0) \in ServerFrames /\ Frame(op, 0, 1, 0).op = op
        /\ Frame(op, 0, 1, 0).call = 1 /\ op \notin ChannelOps
  <2>1. \A op \in {"startOk", "tuneOk", "connOpen"} : op \in ServerOps /\ op \notin ChannelOps
    BY DEF ServerOps, ChannelOps, Awaited
  <2>2. 0 \in Nat /\ 1 \in Nat
    OBVIOUS
  <2> QED
    BY <2>1, <2>2, FrameType
<1>3. CASE OnStart
  <2> DEFINE f == Frame("startOk", 0, 1, 0)
  <2>1. CallsStep /\ ObjectsStep /\ JobsStep /\ ChannelsTyped /\ ClientTyped /\ Send(<<f>>) /\ Parse("start")
    BY <1>3, CallsSame, ObjectsSame, JobsSame, OthersSame DEF OnStart
  <2>2. f \in ServerFrames /\ f.op \notin ChannelOps /\ f.call <= Len(calls')
    BY <1>1, <1>2, <2>1 DEF CallsStep, Extends
  <2> HIDE DEF f
  <2> QED
    BY <2>1, <2>2, SendTyped, ParseTyped
<1>4. CASE OnTune
  <2> DEFINE f == Frame("tuneOk", 0, 1, 0)
             g == Frame("connOpen", 0, 1, 0)
  <2>1. CallsStep /\ ObjectsStep /\ JobsStep /\ ChannelsTyped /\ ClientTyped /\ Send(<<f, g>>) /\ Parse("tune")
        /\ UNCHANGED calls
    BY <1>4, CallsSame, ObjectsSame, JobsSame, OthersSame DEF OnTune
  <2>2. f \in ServerFrames /\ f.op \notin ChannelOps /\ f.call = 1
        /\ g \in ServerFrames /\ g.op \notin ChannelOps /\ g.call = 1
    BY <1>2
  <2> HIDE DEF f, g
  <2>3. toServer \in Seq(ServerFrames)
    BY DEF TypeInv, WebTypes
  <2>4. ASSUME toServer' = toServer PROVE ServerTyped
    BY <2>1, <2>4, OthersSame
  <2>5. ASSUME toServer' = toServer \o <<f, g>> PROVE ServerTyped
    <3>1. /\ toServer' \in Seq(ServerFrames)
          /\ \A i \in DOMAIN toServer' : \/ toServer'[i] = f \/ toServer'[i] = g
                                         \/ (i \in DOMAIN toServer /\ toServer'[i] = toServer[i])
      <4>1. <<f, g>> \in Seq(ServerFrames)
        BY <2>2
      <4> QED
        BY <2>2, <2>3, <2>5, <4>1
    <3>2. \A i \in DOMAIN toServer' : /\ toServer'[i].op \in ChannelOps => toServer'[i].ch \in Ids
                                      /\ toServer'[i].call <= Len(calls)
      BY <1>1, <2>2, <3>1, ServerFrameTypes
    <3> QED
      BY <2>1, <3>1, <3>2 DEF ServerTyped, ServerLinked
  <2> QED
    BY <2>1, <2>4, <2>5, ParseTyped DEF Send
<1>5. CASE OnConnectionOpenOk
  <2>1. /\ calls' = Settled({client.connect}, "resolved", 1) /\ client' = [client EXCEPT !.connect = 0]
        /\ Parse("connOpenOk") /\ UNCHANGED <<objs, channels, jobs, toServer>>
    BY <1>5 DEF OnConnectionOpenOk
  <2>2. CallsStep
    BY <2>1, CallsSettled
  <2>3. ObjectsStep /\ JobsStep
    BY <2>1, <2>2, ObjectsSame, JobsSame
  <2>4. client' \in Clients /\ client'.connect = 0 /\ client'.closing = client.closing
    BY <1>1, <2>1 DEF Clients
  <2>5. ClientTyped
    BY <2>2, <2>4, MadeStays DEF ClientTyped, ClientLinked, TypeInv, CallsStep
  <2> QED
    BY <2>1, <2>2, <2>3, <2>5, OthersSame, ParseTyped
<1> QED
  BY <1>3, <1>4, <1>5

\* Removing elements of a sequence leaves elements of it.
LEMMA SplicedTyped ==
  ASSUME NEW S, NEW u \in Seq(S), NEW i \in DOMAIN u, NEW multiple \in BOOLEAN
  PROVE  /\ Spliced(u, i, multiple) \in Seq(S)
         /\ \A x \in DOMAIN Spliced(u, i, multiple) : \E y \in DOMAIN u : Spliced(u, i, multiple)[x] = u[y]
<1> DEFINE a == IF multiple THEN << >> ELSE SubSeq(u, 1, i - 1)
           b == SubSeq(u, i + 1, Len(u))
<1>1. i \in 1..Len(u) /\ Len(u) \in Nat /\ DOMAIN u = 1..Len(u)
  OBVIOUS
<1>2. a \in Seq(S) /\ \A x \in DOMAIN a : x \in DOMAIN u /\ a[x] = u[x]
  <2>1. CASE multiple
    BY <2>1
  <2>2. CASE ~multiple
    BY <1>1, <2>2
  <2> QED
    BY <2>1, <2>2
<1>3. b \in Seq(S) /\ \A x \in DOMAIN b : x + i \in DOMAIN u /\ b[x] = u[x + i]
  BY <1>1
<1>4. Spliced(u, i, multiple) = a \o b
  BY DEF Spliced
<1> HIDE DEF a, b
<1>5. /\ a \o b \in Seq(S)
      /\ \A x \in DOMAIN (a \o b) : \/ x \in DOMAIN a /\ (a \o b)[x] = a[x]
                                    \/ x - Len(a) \in DOMAIN b /\ (a \o b)[x] = b[x - Len(a)]
  BY <1>2, <1>3
<1> QED
  BY <1>2, <1>3, <1>4, <1>5

\* publishConfirmed settles the publishes the confirm covers.
LEMMA ConfirmedTyped ==
  ASSUME TypeInv, NEW m \in {"ack", "nack"}, NEW st \in {"resolved", "rejected"}, PublishConfirmed(m, st)
  PROVE  TypeInv'
<1> DEFINE o == Addressed
           u == objs[o].unconfirmed
           found == {i \in DOMAIN u : u[i].tag = Arrived.tag}
           i == CHOOSE x \in found : \A y \in found : x <= y
<1>1. Parse(m) /\ toClient # << >> /\ Arrived.m = m /\ UNCHANGED <<channels, client, jobs, toServer>>
  BY DEF PublishConfirmed, Parse, Arrived
<1>2. Arrived \in AckFrames /\ (o # 0 => o \in DOMAIN objs)
  BY <1>1, ArrivedTypes, AddressedTypes DEF ChannelKinds
<1>3. Arrived.call \in Nat /\ Arrived.multiple \in BOOLEAN
  BY <1>2 DEF AckFrames
<1>4. CallsStep /\ ObjectsStep
  <2>1. CASE o = 0 \/ found = {}
    BY <2>1, CallsSame, ObjectsSame DEF PublishConfirmed
  <2>2. CASE o # 0 /\ found # {}
    <3>1. /\ objs' = [objs EXCEPT ![o].unconfirmed = Spliced(u, i, Arrived.multiple)]
          /\ calls' = Settled(ConfirmedBy(u, i, Arrived.multiple), st, Arrived.call)
      BY <2>2 DEF PublishConfirmed
    <3>2. CallsStep
      BY <1>3, <3>1, CallsSettled
    <3>3. o \in DOMAIN objs /\ objs[o] \in Objects /\ ObjectLinked(calls', objs[o], o)
      BY <1>2, <2>2, <3>2, ObjectTypes, ObjectStays DEF CallsStep
    <3>4. u \in Seq([tag : Nat, call : Nat])
      BY <3>3 DEF Objects
    <3>5. i \in DOMAIN u
      <4>0. DOMAIN u \subseteq Nat
        <5> HIDE DEF u
        <5> QED
          BY <3>4
      <4>1. found \in SUBSET Nat /\ found # {} /\ found \subseteq DOMAIN u
        <5>1. found # {} /\ found \subseteq DOMAIN u
          BY <2>2
        <5> HIDE DEF found
        <5> QED
          BY <4>0, <5>1
      <4> HIDE DEF found
      <4> QED
        BY <4>1, LeastElement
    <3> DEFINE v == Spliced(u, i, Arrived.multiple)
               obj == [objs[o] EXCEPT !.unconfirmed = v]
    <3>6. v \in Seq([tag : Nat, call : Nat]) /\ \A x \in DOMAIN v : \E y \in DOMAIN u : v[x] = u[y]
      <4> HIDE DEF i, u, o
      <4> QED
        BY <1>3, <3>4, <3>5, SplicedTyped
    <3>7. objs' = [objs EXCEPT ![o] = obj]
      BY <3>1
    <3> HIDE DEF v, i, found
    <3>8. /\ obj \in Objects /\ obj.id = objs[o].id /\ obj.promises = objs[o].promises
          /\ obj.unconfirmed = v /\ obj.consumers = objs[o].consumers
      BY <3>3, <3>6 DEF Objects
    <3> HIDE DEF obj
    <3>9. ObjectLinked(calls', obj, o) /\ Fewer(objs[o], obj)
      BY <3>3, <3>6, <3>8 DEF ObjectLinked, Fewer
    <3> HIDE DEF o, u
    <3> QED
      BY <3>2, <3>3, <3>7, <3>8, <3>9, ObjectSet
  <2> QED
    BY <2>1, <2>2
<1> QED
  BY <1>1, <1>4, JobsSame, OthersSame, ParseTyped

Slots == {"delivery", "getMessage", "returned"}

\* An object with another message in one slot.
LEMMA SlotSet ==
  ASSUME NEW obj \in Objects, NEW slot \in Slots, NEW msg \in Messages
  PROVE  LET new == [obj EXCEPT ![slot] = msg]
         IN  /\ new \in Objects /\ new.id = obj.id /\ new.closed = obj.closed /\ new.promises = obj.promises
             /\ new.unconfirmed = obj.unconfirmed /\ new.consumers = obj.consumers
             /\ new.confirmId = obj.confirmId
             /\ obj[slot] \in Messages /\ new[slot] = msg
             /\ \A other \in Slots \ {slot} : new[other] = obj[other]
<1> DEFINE new == [obj EXCEPT ![slot] = msg]
<1>1. CASE slot = "delivery"
  BY <1>1 DEF Objects, Slots
<1>2. CASE slot = "getMessage"
  BY <1>2 DEF Objects, Slots
<1>3. CASE slot = "returned"
  BY <1>3 DEF Objects, Slots
<1> QED
  BY <1>1, <1>2, <1>3 DEF Slots

\* An object's message in one of the slots is replaced.
LEMMA MessageSet ==
  ASSUME TypeInv, NEW o \in DOMAIN objs, NEW slot \in Slots, NEW msg \in Messages
  PROVE  LET new == [objs[o] EXCEPT ![slot] = msg]
         IN  new \in Objects /\ ObjectLinked(calls, new, o) /\ Fewer(objs[o], new)
<1> DEFINE new == [objs[o] EXCEPT ![slot] = msg]
<1>1. objs[o] \in Objects /\ ObjectLinked(calls, objs[o], o) /\ Fewer(objs[o], objs[o])
  BY ObjectSelf
<1>2. /\ new \in Objects /\ new.id = objs[o].id /\ new.promises = objs[o].promises
      /\ new.unconfirmed = objs[o].unconfirmed /\ new.consumers = objs[o].consumers
  BY <1>1, SlotSet
<1> HIDE DEF new
<1>3. ObjectLinked(calls, new, o) /\ Fewer(objs[o], new)
  BY <1>1, <1>2 DEF ObjectLinked, Fewer
<1> QED
  BY <1>2, <1>3 DEF new

\* An empty slot.
LEMMA NoMessageType == NoMessage \in Messages
BY DEF NoMessage, Messages

\* The slot a part goes to.
LEMMA SlotType ==
  ASSUME NEW obj
  PROVE  Slot(obj) \in Slots
BY DEF Slot, Slots

\* The first frame of a message.
LEMMA StartMessageTyped ==
  ASSUME TypeInv, NEW m \in StartKinds, NEW slot \in Slots, StartMessage(m, slot)
  PROVE  TypeInv'
<1>1. Parse(m) /\ toClient # << >> /\ Arrived.m = m /\ UNCHANGED <<calls, channels, client, jobs, toServer>>
  BY DEF StartMessage, Parse, Arrived
<1>2. Arrived \in PartFrames /\ (Addressed # 0 => Addressed \in DOMAIN objs)
  BY <1>1, ArrivedTypes, AddressedTypes DEF ChannelKinds, MessageKinds
<1>3. NewMessage \in Messages
  BY <1>2, NoMessageType DEF NewMessage, Messages, PartFrames
<1>4. CallsStep
  BY <1>1, CallsSame
<1>5. ObjectsStep
  <2>1. CASE Addressed = 0
    BY <1>4, <2>1, ObjectsSame DEF StartMessage
  <2>2. CASE Addressed # 0
    <3> DEFINE new == [objs[Addressed] EXCEPT ![slot] = NewMessage]
    <3>1. objs' = [objs EXCEPT ![Addressed] = new]
      BY <2>2 DEF StartMessage
    <3>2. new \in Objects /\ ObjectLinked(calls, new, Addressed) /\ Fewer(objs[Addressed], new)
      BY <1>2, <1>3, <2>2, MessageSet
    <3> HIDE DEF new
    <3> QED
      BY <1>1, <1>2, <1>4, <2>2, <3>1, <3>2, ObjectSet
  <2> QED
    BY <2>1, <2>2
<1> QED
  BY <1>1, <1>4, <1>5, JobsSame, OthersSame, ParseTyped

\* A message that is complete is handed over.
LEMMA ReadyTyped ==
  ASSUME TypeInv, NEW o \in DOMAIN objs, NEW msg \in Messages, OnMessageReady(o, msg)
  PROVE  CallsStep /\ ObjectsStep /\ JobsStep
<1> DEFINE obj == [objs[o] EXCEPT ![Slot(objs[o])] = NoMessage]
<1>1. IF Slot(objs[o]) = "getMessage" THEN ResolvePromise(o, obj, msg.tag, 0)
      ELSE objs' = [objs EXCEPT ![o] = obj] /\ UNCHANGED <<calls, jobs>>
  BY DEF OnMessageReady
<1>2. obj \in Objects /\ ObjectLinked(calls, obj, o) /\ Fewer(objs[o], obj)
  BY MessageSet, SlotType, NoMessageType
<1>3. msg.tag \in Nat
  BY DEF Messages
<1> HIDE DEF obj
<1>4. CASE Slot(objs[o]) = "getMessage"
  BY <1>1, <1>2, <1>3, <1>4, ResolvePromiseTyped
<1>5. CASE Slot(objs[o]) # "getMessage"
  <2>1. CallsStep
    BY <1>1, <1>5, CallsSame
  <2>2. ObjectsStep
    BY <1>1, <1>2, <1>5, <2>1, ObjectSet
  <2> QED
    BY <1>1, <1>5, <2>1, <2>2, JobsSame
<1> QED
  BY <1>4, <1>5

\* A header or a body.
LEMMA PartTyped ==
  ASSUME TypeInv, NEW m \in {"header", "body"}, Parse(m), NEW msg,
         Addressed # 0 => msg \in Messages, Part(msg), UNCHANGED <<channels, client, toServer>>
  PROVE  TypeInv'
<1>1. toClient # << >> /\ Arrived.m = m
  BY DEF Parse, Arrived
<1>2. Addressed # 0 => Addressed \in DOMAIN objs
  BY <1>1, AddressedTypes DEF ChannelKinds, MessageKinds
<1>3. CallsStep /\ ObjectsStep /\ JobsStep
  <2>1. CASE UNCHANGED <<calls, objs, jobs>>
    BY <2>1, CallsSame, ObjectsSame, JobsSame
  <2>2. CASE Addressed # 0 /\ OnMessageReady(Addressed, msg)
    BY <1>2, <2>2, ReadyTyped
  <2>3. CASE /\ Addressed # 0 /\ UNCHANGED <<calls, jobs>>
             /\ objs' = [objs EXCEPT ![Addressed] = [@ EXCEPT ![Slot(@)] = msg]]
    <3> DEFINE new == [objs[Addressed] EXCEPT ![Slot(objs[Addressed])] = msg]
    <3>1. objs' = [objs EXCEPT ![Addressed] = new]
      BY <1>2, <2>3
    <3>2. new \in Objects /\ ObjectLinked(calls, new, Addressed) /\ Fewer(objs[Addressed], new)
      BY <1>2, <2>3, MessageSet, SlotType
    <3> HIDE DEF new
    <3>3. CallsStep
      BY <2>3, CallsSame
    <3>4. ObjectsStep
      BY <1>2, <2>3, <3>1, <3>2, <3>3, ObjectSet
    <3> QED
      BY <2>3, <3>3, <3>4, JobsSame
  <2> QED
    BY <2>1, <2>2, <2>3 DEF Part
<1> QED
  BY <1>3, OthersSame, ParseTyped

\* The handlers of both.
LEMMA BodyTyped ==
  ASSUME TypeInv, OnHeader \/ OnBody
  PROVE  TypeInv'
<1> DEFINE old == objs[Addressed][Slot(objs[Addressed])]
           h == [old EXCEPT !.size = Arrived.size, !.pos = 0, !.whole = (old.n = Arrived.n)]
           b == [old EXCEPT !.pos = @ + 1, !.whole = @ /\ old.n = Arrived.n]
<1>1. toClient # << >> /\ Arrived.m \in {"header", "body"} /\ UNCHANGED <<channels, client, toServer>>
  BY DEF OnHeader, OnBody, Parse, Arrived
<1>2. Arrived \in PartFrames /\ (Addressed # 0 => Addressed \in DOMAIN objs)
  BY <1>1, ArrivedTypes, AddressedTypes DEF ChannelKinds, MessageKinds
<1>3. Arrived.size \in Nat
  BY <1>2 DEF PartFrames
<1>4. ASSUME Addressed # 0 PROVE h \in Messages /\ b \in Messages
  <2>1. old \in Messages
    BY <1>2, <1>4, ObjectTypes, SlotType, SlotSet, NoMessageType
  <2> HIDE DEF old
  <2>2. h \in Messages
    BY <1>3, <2>1 DEF Messages
  <2>3. b \in Messages
    <3>1. old.pos + 1 \in Nat /\ (old.whole /\ old.n = Arrived.n) \in BOOLEAN
      BY <2>1 DEF Messages
    <3> QED
      BY <2>1, <3>1 DEF Messages
  <2> QED
    BY <2>2, <2>3
<1>5. CASE OnHeader
  <2>1. Parse("header") /\ Part(h)
    BY <1>5 DEF OnHeader
  <2> HIDE DEF h
  <2> QED
    BY <1>1, <1>4, <2>1, PartTyped
<1>6. CASE OnBody
  <2>1. Parse("body") /\ Part(b)
    BY <1>6 DEF OnBody
  <2> HIDE DEF b
  <2> QED
    BY <1>1, <1>4, <2>1, PartTyped
<1> QED
  BY <1>5, <1>6

\* So every frame the client reads keeps the types.
LEMMA ParseFrameTyped ==
  ASSUME TypeInv, ParseFrame
  PROVE  TypeInv'
<1>1. CASE OnStart \/ OnTune \/ OnConnectionOpenOk \/ OnConnectionClose \/ OnConnectionCloseOk
  BY <1>1, HandshakeFrameTyped, ConnectionCloseTyped, ConnectionCloseOkTyped
<1>2. CASE OnChannelOpenOk \/ OnTopologyOk \/ OnFlowOk \/ OnConsumerOk \/ OnGetEmpty
  BY <1>2, ReplyTyped DEF OnChannelOpenOk, OnTopologyOk, OnFlowOk, OnConsumerOk, OnGetEmpty, ReplyKinds
<1>3. CASE OnSelectOk \/ OnChannelClose \/ OnChannelCloseOk \/ OnAck \/ OnNack
  BY <1>3, SelectOkTyped, ChannelCloseTyped, ChannelCloseOkTyped, ConfirmedTyped DEF OnAck, OnNack
<1>4. CASE OnCancel
  <2>1. CallsStep /\ ObjectsStep /\ JobsStep /\ ChannelsTyped /\ ClientTyped /\ ServerTyped /\ Parse("cancel")
    BY <1>4, CallsSame, ObjectsSame, JobsSame, OthersSame DEF OnCancel
  <2> QED
    BY <2>1, ParseTyped
<1>5. CASE OnReturn \/ OnDeliver \/ OnGetOk \/ OnHeader \/ OnBody
  BY <1>5, StartMessageTyped, BodyTyped DEF OnReturn, OnDeliver, OnGetOk, StartKinds, Slots
<1> QED
  BY <1>1, <1>2, <1>3, <1>4, <1>5 DEF ParseFrame

-----------------------------------------------------------------------------
(* The steps of the broker. *)

\* What the broker does to the types.
LEMMA BrokerStep ==
  ASSUME TypeInv, UNCHANGED <<calls, objs, channels, client, jobs>>, ServerTyped, ClientFramesTyped, BrokerTyped
  PROVE  TypeInv'
<1>1. CallsStep
  BY CallsSame
<1>2. ObjectsStep
  BY <1>1, ObjectsSame
<1> QED
  BY <1>1, <1>2, JobsSame, OthersSame, TypeKept

\* The frame the broker reads next.
LEMMA AskedTypes ==
  ASSUME TypeInv, toServer # << >>
  PROVE  /\ 1 \in DOMAIN toServer /\ Asked = toServer[1] /\ Asked \in ServerFrames
         /\ Asked.ch \in Nat /\ Asked.call \in Nat /\ Asked.tag \in Nat
         /\ Asked.op \in ChannelOps => Asked.ch \in Ids /\ On \in Channels
<1>1. toServer \in Seq(ServerFrames) /\ broker \in Brokers
  BY DEF TypeInv, WebTypes
<1>2. 1 \in DOMAIN toServer /\ Asked = toServer[1]
  BY <1>1 DEF Asked
<1>3. Asked.op \in ChannelOps => Asked.ch \in Ids
  BY <1>2 DEF TypeInv, ServerLinked
<1>4. Asked.ch \in Ids => On \in Channels
  BY <1>1 DEF On, Brokers
<1> QED
  BY <1>2, <1>3, <1>4, ServerFrameTypes DEF ServerFrames

\* Reading it leaves the others.
LEMMA ServerRead ==
  ASSUME TypeInv, toServer # << >>, toServer' = Tail(toServer), UNCHANGED calls
  PROVE  ServerTyped
<1>1. toServer \in Seq(ServerFrames)
  BY DEF TypeInv, WebTypes
<1>2. toServer' \in Seq(ServerFrames) /\ \A i \in DOMAIN toServer' : i + 1 \in DOMAIN toServer /\ toServer'[i] = toServer[i + 1]
  BY <1>1
<1> QED
  BY <1>2 DEF ServerTyped, ServerLinked, TypeInv

\* A socket that is lost loses them.
LEMMA ServerEmptied ==
  ASSUME toServer' = << >>
  PROVE  ServerTyped
BY DEF ServerTyped, ServerLinked

\* What \o makes of the elements.
LEMMA ConcatSeq ==
  ASSUME NEW S, NEW s \in Seq(S), NEW t \in Seq(S)
  PROVE  /\ s \o t \in Seq(S) /\ Len(s \o t) = Len(s) + Len(t) /\ Len(s) \in Nat /\ Len(t) \in Nat
         /\ \A i \in DOMAIN s : i \in DOMAIN (s \o t) /\ (s \o t)[i] = s[i]
         /\ \A i \in DOMAIN t : i + Len(s) \in DOMAIN (s \o t) /\ (s \o t)[i + Len(s)] = t[i]
         /\ \A i \in DOMAIN (s \o t) : \/ i \in DOMAIN s
                                       \/ i - Len(s) \in DOMAIN t /\ (s \o t)[i] = t[i - Len(s)] /\ i > Len(s)
OBVIOUS

\* Frames added for the client.
LEMMA AnswersTyped ==
  ASSUME TypeInv, NEW fs \in Seq(ClientFrames), Channelled(fs), Answers(fs)
  PROVE  ClientFramesTyped
<1>1. toClient \in Seq(ClientFrames) /\ Channelled(toClient) /\ toClient' = toClient \o fs
  BY DEF TypeInv, WebTypes, Answers
<1> QED
  BY <1>1, ConcatSeq DEF ClientFramesTyped, Channelled

\* The frame of a reply.
LEMMA OutTyped ==
  ASSUME NEW m \in ReplyKinds \union {"close", "connClose"}, NEW f \in ServerFrames, NEW tag \in Nat,
         m # "connClose" => f.ch \in Ids
  PROVE  /\ Out(m, f, tag) \in Seq(ClientFrames) /\ Channelled(Out(m, f, tag))
         /\ Len(Out(m, f, tag)) = 1 /\ Out(m, f, tag)[1].m = m /\ Out(m, f, tag)[1].ch = f.ch
         /\ Out(m, f, tag)[1].call = f.call /\ Out(m, f, tag)[1].tag = tag
<1> DEFINE r == [m |-> m, ch |-> f.ch, call |-> f.call, tag |-> tag]
<1>1. f.ch \in Nat /\ f.call \in Nat
  BY DEF ServerFrames
<1>2. r \in ReplyFrames /\ r.m = m /\ r.ch = f.ch /\ r.call = f.call /\ r.tag = tag
  <2>1. r \in ReplyFrames
    BY <1>1 DEF ReplyFrames
  <2> QED
    BY <2>1
<1>3. Out(m, f, tag) = <<r>> /\ r \in ClientFrames
  BY <1>2 DEF Out, ClientFrames
<1> HIDE DEF r
<1>4. "connClose" \notin ChannelKinds
  BY DEF ChannelKinds, ReplyKinds, MessageKinds, StartKinds
<1>5. <<r>> \in Seq(ClientFrames) /\ Len(<<r>>) = 1 /\ <<r>>[1] = r /\ DOMAIN <<r>> = {1}
  BY <1>3
<1> QED
  BY <1>2, <1>3, <1>4, <1>5 DEF Channelled

\* The frame of a confirm.
LEMMA ConfirmFrameTyped ==
  ASSUME NEW m \in {"ack", "nack"}, NEW id \in Ids, NEW call \in Nat, NEW tag \in Nat, NEW multiple \in BOOLEAN
  PROVE  LET fs == ConfirmFrame(m, id, call, tag, multiple)
         IN  /\ fs \in Seq(ClientFrames) /\ Channelled(fs) /\ Len(fs) = 1 /\ fs[1].m = m /\ fs[1].ch = id
             /\ fs[1].tag = tag /\ fs[1].multiple = multiple
<1> DEFINE r == [m |-> m, ch |-> id, call |-> call, tag |-> tag, multiple |-> multiple]
<1>1. id \in Nat
  BY WebClientAssumption
<1>2. r \in AckFrames
  BY <1>1 DEF AckFrames
<1>3. r.m = m /\ r.ch = id /\ r.tag = tag /\ r.multiple = multiple
  OBVIOUS
<1>4. ConfirmFrame(m, id, call, tag, multiple) = <<r>> /\ r \in ClientFrames
  BY <1>2 DEF ConfirmFrame, ClientFrames
<1> HIDE DEF r
<1>5. <<r>> \in Seq(ClientFrames) /\ Len(<<r>>) = 1 /\ <<r>>[1] = r /\ DOMAIN <<r>> = {1}
  BY <1>4
<1> QED
  BY <1>3, <1>4, <1>5 DEF Channelled

\* The frames of a message: its method, a header and the body frames.
MessageParts(fs, m, f, tag, body) ==
  /\ fs \in Seq(ClientFrames) /\ Channelled(fs) /\ Len(fs) = body + 2
  /\ \A i \in DOMAIN fs : /\ fs[i].m = IF i = 1 THEN m ELSE IF i = 2 THEN "header" ELSE "body"
                          /\ fs[i].ch = f.ch /\ fs[i].n = lastMsg + 1
                          /\ fs[i].size = body /\ fs[i].tag = tag

\* The frames of a message: start, header, one body for each part.
LEMMA MessageFramesTyped ==
  ASSUME lastMsg \in Nat, NEW m \in StartKinds, NEW f, f.ch \in Ids, NEW tag \in Nat, NEW body \in Nat
  PROVE  MessageParts(MessageFrames(m, f, tag, body), m, f, tag, body)
<1> DEFINE As(name) == [m |-> name, ch |-> f.ch, n |-> lastMsg + 1, size |-> body, tag |-> tag]
           a == <<As(m), As("header")>>
           b == [i \in 1..body |-> As("body")]
           fs == MessageFrames(m, f, tag, body)
<1>1. fs = a \o b
  BY DEF MessageFrames
<1>2. \A name \in MessageKinds :
        /\ As(name) \in PartFrames /\ As(name).m = name /\ As(name).ch = f.ch /\ As(name).n = lastMsg + 1
        /\ As(name).size = body /\ As(name).tag = tag
  <2> SUFFICES ASSUME NEW name \in MessageKinds
               PROVE  /\ As(name) \in PartFrames /\ As(name).m = name /\ As(name).ch = f.ch /\ As(name).n = lastMsg + 1
                      /\ As(name).size = body /\ As(name).tag = tag
    OBVIOUS
  <2>1. f.ch \in Nat /\ lastMsg + 1 \in Nat
    <3> HIDE DEF a, b, fs, As
    <3>1. Ids \subseteq Nat
      BY WebClientAssumption
    <3>2. f.ch \in Nat
      BY <3>1
    <3>3. lastMsg + 1 \in Nat
      OBVIOUS
    <3> QED
      BY <3>2, <3>3
  <2>2. As(name) \in PartFrames
    BY <2>1 DEF PartFrames
  <2> QED
    BY <2>2
<1>3. m \in MessageKinds /\ "header" \in MessageKinds /\ "body" \in MessageKinds
  BY DEF MessageKinds
<1>4. As(m) \in ClientFrames /\ As("header") \in ClientFrames /\ As("body") \in ClientFrames
  BY <1>2, <1>3 DEF ClientFrames
<1> HIDE DEF As
<1>5. a \in Seq(ClientFrames) /\ Len(a) = 2 /\ DOMAIN a = {1, 2} /\ a[1] = As(m) /\ a[2] = As("header")
  BY <1>4
<1>6. b \in Seq(ClientFrames) /\ Len(b) = body /\ DOMAIN b = 1..body /\ \A i \in 1..body : b[i] = As("body")
  BY <1>4
<1> HIDE DEF a, b, fs
<1>7. fs \in Seq(ClientFrames) /\ Len(fs) = body + 2 /\ DOMAIN fs = 1..body + 2
  <2>1. a \o b \in Seq(ClientFrames)
    BY <1>5, <1>6, ConcatSeq
  <2>2. Len(a \o b) = body + 2
    <3>1. Len(a \o b) = Len(a) + Len(b)
      <4>1. a \in Seq(ClientFrames) /\ b \in Seq(ClientFrames)
        BY <1>5, <1>6
      <4> QED
        BY <4>1, ConcatSeq
    <3> QED
      BY <1>5, <1>6, <3>1
  <2>3. fs \in Seq(ClientFrames) /\ Len(fs) = body + 2
    BY <1>1, <2>1, <2>2
  <2> QED
    BY <2>3
<1>8. \A i \in DOMAIN fs : fs[i] = As(IF i = 1 THEN m ELSE IF i = 2 THEN "header" ELSE "body")
  <2> SUFFICES ASSUME NEW i \in DOMAIN fs
               PROVE  fs[i] = As(IF i = 1 THEN m ELSE IF i = 2 THEN "header" ELSE "body")
    OBVIOUS
  <2>1. CASE i \in {1, 2}
    <3>1. fs[i] = a[i]
      BY <1>1, <1>5, <1>6, <2>1, ConcatSeq
    <3> QED
      BY <1>5, <2>1, <3>1
  <2>2. CASE i \notin {1, 2}
    <3>1. i - 2 \in 1..body /\ fs[i] = b[i - 2]
      BY <1>1, <1>5, <1>6, <1>7, <2>2, ConcatSeq
    <3> QED
      BY <1>6, <2>2, <3>1
  <2> QED
    BY <2>1, <2>2
<1>9. \A i \in DOMAIN fs : /\ fs[i].m = IF i = 1 THEN m ELSE IF i = 2 THEN "header" ELSE "body"
                           /\ fs[i].ch = f.ch /\ fs[i].n = lastMsg + 1
                           /\ fs[i].size = body /\ fs[i].tag = tag
  BY <1>2, <1>3, <1>8
<1>10. Channelled(fs)
  BY <1>9 DEF Channelled
<1> QED
  BY <1>7, <1>9, <1>10 DEF fs, MessageParts

\* A frame of the connection.
LEMMA SimpleTyped ==
  ASSUME NEW m \in {"start", "tune", "connOpenOk", "connClose", "connCloseOk"}
  PROVE  /\ Simple(m) \in Seq(ClientFrames) /\ Channelled(Simple(m))
         /\ Len(Simple(m)) = 1 /\ Simple(m)[1].m = m /\ m \notin ChannelKinds
<1> DEFINE r == [m |-> m, ch |-> 0]
<1>1. r \in ConnectionFrames /\ r.m = m
  BY DEF ConnectionFrames
<1>2. Simple(m) = <<r>> /\ r \in ClientFrames
  BY <1>1 DEF Simple, ClientFrames
<1>3. m \notin ChannelKinds
  BY DEF ChannelKinds, ReplyKinds, MessageKinds, StartKinds
<1> HIDE DEF r
<1>4. <<r>> \in Seq(ClientFrames) /\ Len(<<r>>) = 1 /\ <<r>>[1] = r /\ DOMAIN <<r>> = {1}
  BY <1>2
<1> QED
  BY <1>1, <1>2, <1>3, <1>4 DEF Channelled

\* No frames at all.
LEMMA NoFrames == << >> \in Seq(ClientFrames) /\ Channelled(<< >>)
BY DEF Channelled

\* A channel that is not there.
LEMMA NoChannelType == NoChannel \in Channels /\ NoChannel.running = FALSE
BY DEF NoChannel, Channels

\* The broker changes one channel.
LEMMA BrokerSet ==
  ASSUME TypeInv, NEW id \in Ids, NEW ch \in Channels, broker' = [broker EXCEPT !.ch[id] = ch]
  PROVE  /\ broker' \in Brokers /\ broker'.state = broker.state /\ broker'.ch[id] = ch
         /\ \A i \in Ids \ {id} : broker'.ch[i] = broker.ch[i]
<1>1. broker \in Brokers
  BY DEF TypeInv, WebTypes
<1>2. broker.ch \in [Ids -> Channels] /\ broker.state \in {"handshake", "running", "closing", "gone"}
  BY <1>1 DEF Brokers
<1> DEFINE new == [broker.ch EXCEPT ![id] = ch]
<1>3. new \in [Ids -> Channels] /\ new[id] = ch /\ \A i \in Ids \ {id} : new[i] = broker.ch[i]
  BY <1>2
<1>4. broker' = [broker EXCEPT !.ch = new]
  OBVIOUS
<1> HIDE DEF new
<1>5. broker' \in Brokers /\ broker'.state = broker.state /\ broker'.ch = new
  BY <1>1, <1>3, <1>4 DEF Brokers
<1> QED
  BY <1>3, <1>5

\* It changes the state of the connection.
LEMMA BrokerState ==
  ASSUME TypeInv, NEW st \in {"handshake", "running", "closing", "gone"}, broker' = [broker EXCEPT !.state = st]
  PROVE  broker' \in Brokers /\ broker'.ch = broker.ch /\ broker'.state = st
<1>1. broker \in Brokers
  BY DEF TypeInv, WebTypes
<1> QED
  BY <1>1 DEF Brokers

\* It changes which deliveries are under way.
LEMMA BrokerDue ==
  ASSUME TypeInv, NEW due \in SUBSET Deliveries, broker' = [broker EXCEPT !.due = due]
  PROVE  broker' \in Brokers /\ broker'.ch = broker.ch /\ broker'.state = broker.state
<1>1. broker \in Brokers
  BY DEF TypeInv, WebTypes
<1> QED
  BY <1>1 DEF Brokers

\* It forgets the connection.
LEMMA BrokerGone ==
  ASSUME broker' = [state |-> "gone", ch |-> [id \in Ids |-> NoChannel], due |-> {}]
  PROVE  broker' \in Brokers /\ broker'.state = "gone"
<1> DEFINE ch == [id \in Ids |-> NoChannel]
<1>1. ch \in [Ids -> Channels]
  BY NoChannelType
<1>2. broker' = [state |-> "gone", ch |-> ch, due |-> {}]
  OBVIOUS
<1> HIDE DEF ch
<1> QED
  BY <1>1, <1>2 DEF Brokers

\* The histories of messages and verdicts.
LEMMA HistoryTypes ==
  ASSUME TypeInv
  PROVE  lastMsg \in Nat /\ verdict \in [1..MaxCalls -> {"none", "ack", "nack"}] /\ broker \in Brokers
BY DEF TypeInv, WebTypes

\* What the broker leaves alone.
LEMMA BrokerSame ==
  ASSUME TypeInv
  PROVE  /\ UNCHANGED toClient => ClientFramesTyped
         /\ UNCHANGED <<broker, verdict, lastMsg>> => BrokerTyped
         /\ broker' \in Brokers /\ UNCHANGED <<verdict, lastMsg>> => BrokerTyped
BY DEF TypeInv, WebTypes, Channelled, ClientFramesTyped, BrokerTyped

\* Reading one frame, part by part.
LEMMA ReadStep ==
  ASSUME TypeInv, NEW op, Reads(op), ClientFramesTyped, BrokerTyped
  PROVE  TypeInv'
BY ServerRead, BrokerStep DEF Reads

\* A frame of a channel.
LEMMA ReadOp ==
  ASSUME TypeInv, NEW op \in ChannelOps, Reads(op)
  PROVE  /\ toServer # << >> /\ Asked.op = op /\ Asked \in ServerFrames /\ Asked.ch \in Ids /\ Asked.ch \in Nat
         /\ Asked.call \in Nat /\ Asked.tag \in Nat /\ On \in Channels
BY AskedTypes DEF Reads

\* A reply.
LEMMA SaysTyped ==
  ASSUME TypeInv, NEW m \in ReplyKinds, Asked \in ServerFrames, Asked.ch \in Ids, NEW tag \in Nat, Says(m, tag)
  PROVE  ClientFramesTyped /\ UNCHANGED <<verdict, lastMsg>>
<1> DEFINE fs == Out(m, Asked, tag)
<1>1. fs \in Seq(ClientFrames) /\ Channelled(fs) /\ Answers(fs)
  BY OutTyped DEF Says
<1> HIDE DEF fs
<1> QED
  BY <1>1, AnswersTyped DEF Says

\* A change of the channel.
LEMMA SetsTyped ==
  ASSUME TypeInv, Asked.ch \in Ids, NEW ch \in Channels, Sets(ch), UNCHANGED <<verdict, lastMsg>>
  PROVE  BrokerTyped
<1>1. broker' \in Brokers
  BY BrokerSet DEF Sets
<1> QED
  BY <1>1, BrokerSame

\* The broker closes the channel,
LEMMA RefusesTyped ==
  ASSUME TypeInv, Asked \in ServerFrames, Asked.ch \in Ids, RefusesChannel
  PROVE  ClientFramesTyped /\ BrokerTyped
<1> DEFINE fs == Out("close", Asked, 0)
<1>1. fs \in Seq(ClientFrames) /\ Channelled(fs)
  BY OutTyped
<1>2. Answers(fs) \/ UNCHANGED toClient
  BY DEF RefusesChannel
<1> HIDE DEF fs
<1>3. ClientFramesTyped
  BY <1>1, <1>2, AnswersTyped, BrokerSame
<1> QED
  BY <1>3, SetsTyped, NoChannelType DEF RefusesChannel

\* closes the connection,
LEMMA ClosesTyped ==
  ASSUME TypeInv, Asked \in ServerFrames, ClosesConnection
  PROVE  ClientFramesTyped /\ BrokerTyped
<1> DEFINE fs == Out("connClose", Asked, 0)
<1>1. fs \in Seq(ClientFrames) /\ Channelled(fs) /\ Answers(fs)
  BY OutTyped DEF ClosesConnection
<1> HIDE DEF fs
<1> QED
  BY <1>1, AnswersTyped, BrokerState, BrokerSame DEF ClosesConnection

\* or does nothing.
LEMMA NothingTyped ==
  ASSUME TypeInv, Nothing
  PROVE  ClientFramesTyped /\ BrokerTyped
BY BrokerSame DEF Nothing

\* The changes of a channel.
LEMMA ChannelTypes ==
  ASSUME NEW ch \in Channels, NEW tag \in Nat
  PROVE  /\ [ch EXCEPT !.consumers = @ \union {tag}] \in Channels
         /\ [ch EXCEPT !.consumers = @ \ {tag}] \in Channels
         /\ [ch EXCEPT !.confirm = TRUE] \in Channels
         /\ [ch EXCEPT !.waiting = FALSE] \in Channels
<1>1. [ch EXCEPT !.consumers = @ \union {tag}] \in Channels /\ [ch EXCEPT !.consumers = @ \ {tag}] \in Channels
  BY DEF Channels
<1>2. [ch EXCEPT !.confirm = TRUE] \in Channels /\ [ch EXCEPT !.waiting = FALSE] \in Channels
  BY DEF Channels
<1> QED
  BY <1>1, <1>2

\* Opening and closing channels.
LEMMA BrokerLifeTyped ==
  ASSUME TypeInv, BrokerOpen \/ BrokerClose \/ BrokerCloseOk
  PROVE  TypeInv'
<1>1. "open" \in ChannelOps /\ "close" \in ChannelOps /\ "closeOk" \in ChannelOps
      /\ "openOk" \in ReplyKinds /\ "closeOk" \in ReplyKinds
  BY DEF ChannelOps, Awaited, ReplyKinds
<1>2. [NoChannel EXCEPT !.running = TRUE] \in Channels
  BY NoChannelType DEF Channels
<1>3. CASE BrokerOpen
  <2>1. Reads("open") /\ Sets([NoChannel EXCEPT !.running = TRUE]) /\ Says("openOk", 0)
    BY <1>3 DEF BrokerOpen
  <2>2. ClientFramesTyped /\ BrokerTyped
    BY <1>1, <1>2, <2>1, ReadOp, SaysTyped, SetsTyped
  <2> QED
    BY <2>1, <2>2, ReadStep
<1>4. CASE BrokerClose
  <2>1. Reads("close") /\ Sets(NoChannel) /\ Says("closeOk", 0)
    BY <1>4 DEF BrokerClose
  <2>2. ClientFramesTyped /\ BrokerTyped
    BY <1>1, <2>1, ReadOp, SaysTyped, SetsTyped, NoChannelType
  <2> QED
    BY <2>1, <2>2, ReadStep
<1>5. CASE BrokerCloseOk
  <2>1. Reads("closeOk") /\ Sets(NoChannel) /\ UNCHANGED <<toClient, verdict, lastMsg>>
    BY <1>5 DEF BrokerCloseOk
  <2>2. ClientFramesTyped /\ BrokerTyped
    BY <1>1, <2>1, ReadOp, SetsTyped, NoChannelType, BrokerSame
  <2> QED
    BY <2>1, <2>2, ReadStep
<1> QED
  BY <1>3, <1>4, <1>5

\* Requests that are answered by one reply.
LEMMA BrokerAnswersTyped ==
  ASSUME TypeInv,
         \/ BrokerTopology \/ BrokerPurge \/ BrokerConsume \/ BrokerCancel \/ BrokerMode \/ BrokerSelect
         \/ BrokerSettle \/ BrokerTx
  PROVE  TypeInv'
<1>1. PICK op \in {"topology", "purge", "consume", "cancel", "mode", "select", "settle", "tx"} : Reads(op)
  BY DEF BrokerTopology, BrokerPurge, BrokerConsume, BrokerCancel, BrokerMode, BrokerSelect, BrokerSettle, BrokerTx
<1>2. op \in ChannelOps /\ {"topologyOk", "consumerOk", "modeOk", "selectOk"} \subseteq ReplyKinds
  BY DEF ChannelOps, Awaited, ReplyKinds
<1>3. Asked \in ServerFrames /\ Asked.ch \in Ids /\ Asked.tag \in Nat /\ On \in Channels
  BY <1>1, <1>2, ReadOp
<1>4. \/ Nothing \/ RefusesChannel \/ ClosesConnection
      \/ \E m \in ReplyKinds, tag \in {0, Asked.tag} : Says(m, tag) /\ UNCHANGED broker
      \/ \E m \in ReplyKinds, tag \in {0, Asked.tag}, ch \in Channels : Says(m, tag) /\ Sets(ch)
  <2>1. CASE BrokerTopology \/ BrokerPurge \/ BrokerMode \/ BrokerSettle \/ BrokerTx
    BY <1>2, <2>1 DEF BrokerTopology, BrokerPurge, BrokerMode, BrokerSettle, BrokerTx, NotOpen
  <2>2. CASE BrokerConsume \/ BrokerCancel
    <3> DEFINE more == [On EXCEPT !.consumers = @ \union {Asked.tag}]
               less == [On EXCEPT !.consumers = @ \ {Asked.tag}]
    <3>1. more \in Channels /\ less \in Channels
      BY <1>3, ChannelTypes
    <3>2. Nothing \/ RefusesChannel \/ ClosesConnection \/ (Says("consumerOk", Asked.tag) /\ (Sets(more) \/ Sets(less)))
      BY <2>2 DEF BrokerConsume, BrokerCancel, NotOpen
    <3> HIDE DEF more, less
    <3> QED
      BY <1>2, <3>1, <3>2
  <2>3. CASE BrokerSelect
    <3>1. [On EXCEPT !.confirm = TRUE] \in Channels
      BY <1>3, ChannelTypes
    <3> QED
      BY <1>2, <2>3, <3>1 DEF BrokerSelect, NotOpen
  <2> QED
    BY <2>1, <2>2, <2>3
<1>5. ClientFramesTyped /\ BrokerTyped
  <2>1. CASE Nothing \/ RefusesChannel \/ ClosesConnection
    BY <1>3, <2>1, NothingTyped, RefusesTyped, ClosesTyped
  <2>2. CASE \E m \in ReplyKinds, tag \in {0, Asked.tag} : Says(m, tag) /\ UNCHANGED broker
    BY <1>3, <2>2, SaysTyped, BrokerSame
  <2>3. CASE \E m \in ReplyKinds, tag \in {0, Asked.tag}, ch \in Channels : Says(m, tag) /\ Sets(ch)
    BY <1>3, <2>3, SaysTyped, SetsTyped
  <2> QED
    BY <1>4, <2>1, <2>2, <2>3
<1> QED
  BY <1>1, <1>5, ReadStep

\* A get is answered by a message or by GetEmpty.
LEMMA BrokerGetTyped ==
  ASSUME TypeInv, BrokerGet
  PROVE  TypeInv'
<1>1. Reads("get") /\ "get" \in ChannelOps /\ "getEmpty" \in ReplyKinds /\ "getOk" \in StartKinds
  BY DEF BrokerGet, ChannelOps, Awaited, ReplyKinds, StartKinds
<1>2. Asked \in ServerFrames /\ Asked.ch \in Ids /\ Asked.call \in Nat
  BY <1>1, ReadOp
<1>3. ClientFramesTyped /\ BrokerTyped
  <2>1. CASE Says("getEmpty", 0) /\ UNCHANGED broker
    BY <1>1, <1>2, <2>1, SaysTyped, BrokerSame
  <2>2. CASE /\ \E body \in 0..MaxBody : Answers(MessageFrames("getOk", Asked, Asked.call, body))
             /\ lastMsg' = lastMsg + 1 /\ UNCHANGED <<broker, verdict>>
    <3>1. PICK body \in 0..MaxBody : Answers(MessageFrames("getOk", Asked, Asked.call, body))
      BY <2>2
    <3> DEFINE fs == MessageFrames("getOk", Asked, Asked.call, body)
    <3>2. fs \in Seq(ClientFrames) /\ Channelled(fs)
      <4>1. MaxBody \in Nat
        BY WebClientAssumption
      <4>2. body \in Nat
        BY <4>1
      <4>3. lastMsg \in Nat /\ "getOk" \in StartKinds /\ Asked.ch \in Ids /\ Asked.call \in Nat
        BY <1>1, <1>2, HistoryTypes
      <4> DEFINE f == Asked
                 tag == Asked.call
      <4>4. fs = MessageFrames("getOk", f, tag, body) /\ f.ch \in Ids /\ tag \in Nat
        BY <4>3
      <4> HIDE DEF f, tag, fs
      <4>5. MessageFrames("getOk", f, tag, body) \in Seq(ClientFrames) /\ Channelled(MessageFrames("getOk", f, tag, body))
        BY <4>2, <4>3, <4>4, MessageFramesTyped DEF MessageParts
      <4> QED
        BY <4>4, <4>5
    <3> HIDE DEF fs
    <3>3. ClientFramesTyped
      BY <3>1, <3>2, AnswersTyped DEF fs
    <3> QED
      BY <2>2, <3>3, HistoryTypes DEF BrokerTyped
  <2>3. CASE NotOpen \/ RefusesChannel
    BY <1>2, <2>3, ClosesTyped, RefusesTyped DEF NotOpen
  <2> QED
    BY <2>1, <2>2, <2>3 DEF BrokerGet
<1> QED
  BY <1>1, <1>3, ReadStep

\* The verdicts up to a publish.
LEMMA AckedTyped ==
  ASSUME TypeInv, NEW n, NEW published
  PROVE  AckedUpTo(n, published) \in [1..MaxCalls -> {"none", "ack", "nack"}]
BY DEF AckedUpTo, TypeInv, WebTypes

\* A publish that is counted.
LEMMA CountedTyped ==
  ASSUME On \in Channels, Asked.call \in Nat
  PROVE  /\ Counted \in Channels /\ Counted.published = Append(On.published, Asked.call)
         /\ \A w \in BOOLEAN : [Counted EXCEPT !.waiting = w] \in Channels
         /\ Total \in Nat /\ On.waiting \in BOOLEAN
<1>1. On.published \in Seq(Nat) /\ On.waiting \in BOOLEAN
  BY DEF Channels
<1>2. Append(On.published, Asked.call) \in Seq(Nat) /\ Total \in Nat
  BY <1>1 DEF Total
<1>3. Counted \in Channels /\ Counted.published = Append(On.published, Asked.call)
  BY <1>2 DEF Counted, Channels
<1>4. \A w \in BOOLEAN : [Counted EXCEPT !.waiting = w] \in Channels
  BY <1>3 DEF Channels
<1> QED
  BY <1>1, <1>2, <1>3, <1>4

\* An unroutable publish is returned and confirmed.
LEMMA ReturnsTyped ==
  ASSUME TypeInv, Asked \in ServerFrames, Asked.ch \in Ids, On \in Channels, BrokerReturns
  PROVE  ClientFramesTyped /\ BrokerTyped
<1>1. Asked.call \in Nat
  BY DEF ServerFrames
<1>2. PICK mandatory \in BOOLEAN :
        /\ lastMsg' = IF mandatory THEN lastMsg + 1 ELSE lastMsg
        /\ LET due == mandatory /\ On.waiting
               first == IF due THEN ConfirmFrame("ack", Asked.ch, Asked.call, Total, TRUE) ELSE << >>
               message == IF mandatory THEN MessageFrames("return", Asked, 0, 0) ELSE << >>
               alone == IF On.confirm THEN ConfirmFrame("ack", Asked.ch, Asked.call, Total, FALSE)
                        ELSE << >>
           IN /\ Answers(first \o message \o alone)
              /\ IF On.confirm
                 THEN /\ Sets([Counted EXCEPT !.waiting = @ /\ ~due])
                      /\ verdict' = IF due THEN AckedUpTo(Total, Counted.published)
                                    ELSE [verdict EXCEPT ![Asked.call] = "ack"]
                 ELSE UNCHANGED <<broker, verdict>>
  BY DEF BrokerReturns
<1> DEFINE due == mandatory /\ On.waiting
           first == IF due THEN ConfirmFrame("ack", Asked.ch, Asked.call, Total, TRUE) ELSE << >>
           message == IF mandatory THEN MessageFrames("return", Asked, 0, 0) ELSE << >>
           alone == IF On.confirm THEN ConfirmFrame("ack", Asked.ch, Asked.call, Total, FALSE) ELSE << >>
<1>3. Total \in Nat /\ "return" \in StartKinds /\ lastMsg \in Nat
  BY <1>1, CountedTyped, HistoryTypes DEF StartKinds
<1>4. first \in Seq(ClientFrames) /\ Channelled(first)
  BY <1>1, <1>3, ConfirmFrameTyped, NoFrames
<1>5. message \in Seq(ClientFrames) /\ Channelled(message)
  BY <1>3, MessageFramesTyped, NoFrames DEF MessageParts
<1>6. alone \in Seq(ClientFrames) /\ Channelled(alone)
  BY <1>1, <1>3, ConfirmFrameTyped, NoFrames
<1>7. Answers(first \o message \o alone)
  BY <1>2
<1>8. BrokerTyped
  <2>1. lastMsg' \in Nat
    BY <1>2, <1>3
  <2>2. verdict' \in [1..MaxCalls -> {"none", "ack", "nack"}]
    BY <1>2, AckedTyped, HistoryTypes
  <2>3. broker' \in Brokers
    <3>1. CASE On.confirm
      <4> DEFINE w == Counted.waiting /\ ~due
      <4>1. Counted.waiting \in BOOLEAN
        BY <1>1, CountedTyped DEF Channels
      <4>2. w \in BOOLEAN
        BY <4>1
      <4>3. Sets([Counted EXCEPT !.waiting = w])
        BY <1>2, <3>1
      <4> HIDE DEF w
      <4>4. [Counted EXCEPT !.waiting = w] \in Channels
        BY <1>1, <4>2, CountedTyped
      <4> QED
        BY <4>3, <4>4, BrokerSet DEF Sets
    <3>2. CASE ~On.confirm
      BY <1>2, <3>2, HistoryTypes
    <3> QED
      BY <3>1, <3>2
  <2> QED
    BY <2>1, <2>2, <2>3 DEF BrokerTyped
<1> HIDE DEF first, message, alone
<1>9. first \o message \in Seq(ClientFrames) /\ Channelled(first \o message)
  BY <1>4, <1>5, ConcatSeq DEF Channelled
<1>10. first \o message \o alone \in Seq(ClientFrames) /\ Channelled(first \o message \o alone)
  BY <1>6, <1>9, ConcatSeq DEF Channelled
<1> QED
  BY <1>7, <1>8, <1>10, AnswersTyped

\* A publish.
LEMMA BrokerPublishTyped ==
  ASSUME TypeInv, BrokerPublish
  PROVE  TypeInv'
<1>1. Reads("publish") /\ "publish" \in ChannelOps
  BY DEF BrokerPublish, ChannelOps
<1>2. Asked \in ServerFrames /\ Asked.ch \in Ids /\ Asked.call \in Nat /\ On \in Channels
  BY <1>1, ReadOp
<1>3. ClientFramesTyped /\ BrokerTyped
  <2>1. CASE Nothing \/ RefusesChannel
    BY <1>2, <2>1, NothingTyped, RefusesTyped
  <2>2. CASE BrokerRoutes
    <3>1. Nothing \/ (Sets([Counted EXCEPT !.waiting = TRUE]) /\ UNCHANGED <<toClient, verdict, lastMsg>>)
      BY <2>2 DEF BrokerRoutes
    <3>2. [Counted EXCEPT !.waiting = TRUE] \in Channels
      BY <1>2, CountedTyped
    <3> QED
      BY <1>2, <3>1, <3>2, NothingTyped, SetsTyped, BrokerSame
  <2>3. CASE BrokerRejects
    <3> DEFINE fs == ConfirmFrame("nack", Asked.ch, Asked.call, Total, FALSE)
    <3>1. \/ Nothing
          \/ Sets(Counted) /\ Answers(fs) /\ verdict' = [verdict EXCEPT ![Asked.call] = "nack"] /\ lastMsg' = lastMsg
      BY <2>3 DEF BrokerRejects
    <3>2. fs \in Seq(ClientFrames) /\ Channelled(fs)
      BY <1>2, CountedTyped, ConfirmFrameTyped
    <3> HIDE DEF fs
    <3>3. CASE Sets(Counted) /\ Answers(fs) /\ verdict' = [verdict EXCEPT ![Asked.call] = "nack"] /\ lastMsg' = lastMsg
      <4>1. ClientFramesTyped
        BY <3>2, <3>3, AnswersTyped
      <4>2. broker' \in Brokers
        BY <1>2, <3>3, CountedTyped, BrokerSet DEF Sets
      <4> QED
        BY <3>3, <4>1, <4>2, HistoryTypes DEF BrokerTyped
    <3> QED
      BY <3>1, <3>3, NothingTyped
  <2>4. CASE BrokerReturns
    BY <1>2, <2>4, ReturnsTyped
  <2>5. CASE BrokerRefusesUser
    <3> DEFINE fs == Out("close", Asked, 0)
    <3>1. fs \in Seq(ClientFrames) /\ Channelled(fs) /\ Answers(fs)
      BY <1>2, <2>5, OutTyped DEF BrokerRefusesUser
    <3> HIDE DEF fs
    <3> QED
      BY <2>5, <3>1, AnswersTyped, BrokerSame DEF BrokerRefusesUser
  <2>6. CASE BrokerRepliesDirectly
    BY <2>6, BrokerSame DEF BrokerRepliesDirectly
  <2> QED
    BY <2>1, <2>2, <2>3, <2>4, <2>5, <2>6 DEF BrokerPublish
<1> QED
  BY <1>1, <1>3, ReadStep

\* The handshake and the end of the connection.
LEMMA BrokerConnectionTyped ==
  ASSUME TypeInv, BrokerHandshakes \/ BrokerDisconnects \/ BrokerDiscards
  PROVE  TypeInv'
<1>1. UNCHANGED <<calls, objs, channels, client, jobs, verdict, lastMsg>>
  BY DEF BrokerHandshakes, Handshake, BrokerDisconnects, BrokerDiscards
<1>2. ServerTyped
  <2>1. toServer # << >> /\ (toServer' = Tail(toServer) \/ toServer' = << >>)
    BY DEF BrokerHandshakes, Handshake, BrokerDisconnects, BrokerDiscards
  <2> QED
    BY <1>1, <2>1, ServerRead, ServerEmptied
<1>3. /\ \/ UNCHANGED toClient
         \/ Answers(<< >>)
         \/ \E m \in {"start", "tune", "connOpenOk", "connClose", "connCloseOk"} : Answers(Simple(m))
      /\ \/ UNCHANGED broker
         \/ \E st \in {"handshake", "running", "closing", "gone"} : broker' = [broker EXCEPT !.state = st]
         \/ broker' = [state |-> "gone", ch |-> [id \in Ids |-> NoChannel], due |-> {}]
  BY DEF BrokerHandshakes, Handshake, BrokerDisconnects, BrokerDiscards
<1>4. ClientFramesTyped
  BY <1>3, SimpleTyped, NoFrames, AnswersTyped, BrokerSame
<1>5. BrokerTyped
  BY <1>1, <1>3, BrokerState, BrokerGone, BrokerSame, HistoryTypes DEF BrokerTyped
<1> QED
  BY <1>1, <1>2, <1>4, <1>5, BrokerStep

\* So every frame the broker reads keeps the types.
LEMMA BrokerReadsTyped ==
  ASSUME TypeInv, BrokerReads
  PROVE  TypeInv'
BY BrokerLifeTyped, BrokerAnswersTyped, BrokerGetTyped, BrokerPublishTyped, BrokerConnectionTyped DEF BrokerReads

\* The broker confirms what it was sent,
LEMMA ConfirmsTyped ==
  ASSUME TypeInv, NEW id \in Ids, BrokerConfirms(id)
  PROVE  TypeInv'
<1> DEFINE b == broker.ch[id]
           fs == ConfirmsUpTo(id)
           ch == [b EXCEPT !.waiting = FALSE]
<1>1. /\ Answers(fs) /\ broker' = [broker EXCEPT !.ch[id] = ch]
      /\ verdict' = AckedUpTo(Len(b.published), b.published)
      /\ UNCHANGED <<calls, objs, channels, client, jobs, toServer, lastMsg>>
  BY DEF BrokerConfirms
<1>2. b \in Channels
  BY HistoryTypes DEF Brokers
<1>3. Len(b.published) \in Nat /\ ch \in Channels
  <2>1. b.published \in Seq(Nat)
    BY <1>2 DEF Channels
  <2>2. ch \in Channels
    BY <1>2, ChannelTypes
  <2> QED
    BY <2>1, <2>2
<1>4. fs \in Seq(ClientFrames) /\ Channelled(fs)
  BY <1>3, ConfirmFrameTyped DEF ConfirmsUpTo
<1> HIDE DEF fs, ch
<1>5. ClientFramesTyped /\ broker' \in Brokers
  BY <1>1, <1>3, <1>4, AnswersTyped, BrokerSet
<1>6. verdict' \in [1..MaxCalls -> {"none", "ack", "nack"}]
  BY <1>1, AckedTyped
<1>7. BrokerTyped
  BY <1>1, <1>5, <1>6, HistoryTypes DEF BrokerTyped
<1>8. ServerTyped
  BY <1>1 DEF TypeInv, WebTypes, ServerTyped, ServerLinked
<1> QED
  BY <1>1, <1>5, <1>7, <1>8, BrokerStep

\* begins a delivery to a consumer,
LEMMA ChecksTyped ==
  ASSUME TypeInv, NEW id \in Ids, BrokerChecks(id)
  PROVE  TypeInv' /\ broker'.ch = broker.ch /\ broker'.state = broker.state
<1>1. UNCHANGED <<calls, objs, channels, client, jobs, toServer, toClient, verdict, lastMsg>>
  BY DEF BrokerChecks
<1>2. PICK tag \in broker.ch[id].consumers :
        broker' = [broker EXCEPT !.due = @ \union {[ch |-> id, tag |-> tag]}]
  BY DEF BrokerChecks
<1>3. broker \in Brokers /\ broker.ch[id] \in Channels
  BY HistoryTypes DEF Brokers
<1>4. tag \in Nat
  BY <1>3 DEF Channels
<1> DEFINE due == broker.due \union {[ch |-> id, tag |-> tag]}
<1>5. due \in SUBSET Deliveries
  BY <1>3, <1>4 DEF Brokers, Deliveries
<1>6. broker' = [broker EXCEPT !.due = due]
  BY <1>2
<1> HIDE DEF due
<1>7. broker' \in Brokers /\ broker'.ch = broker.ch /\ broker'.state = broker.state
  BY <1>5, <1>6, BrokerDue
<1>8. ClientFramesTyped /\ BrokerTyped
  BY <1>1, <1>7, BrokerSame
<1>9. ServerTyped
  BY <1>1 DEF TypeInv, WebTypes, ServerTyped, ServerLinked
<1> QED
  BY <1>1, <1>7, <1>8, <1>9, BrokerStep

\* What it delivers is one message on the channel of the consumer.
LEMMA DeliversMessage ==
  ASSUME TypeInv, NEW id \in Ids, BrokerDelivers(id)
  PROVE  \E d \in Deliveries, body \in Nat :
           /\ d.ch = id
           /\ Answers(MessageFrames("deliver", d, d.tag, body))
           /\ broker' \in Brokers /\ broker'.ch = broker.ch /\ broker'.state = broker.state
           /\ odd' = odd \/ odd' = odd \union {"late delivery"}
           /\ "late delivery" \notin odd' => d.tag \in broker.ch[id].consumers
<1>1. PICK d \in broker.due : \E body \in 0..MaxBody :
       /\ d.ch = id
       /\ Answers(MessageFrames("deliver", d, d.tag, body))
       /\ broker' = [broker EXCEPT !.due = @ \ {d}]
       /\ odd' = IF d.tag \in broker.ch[id].consumers THEN odd ELSE odd \union {"late delivery"}
  BY DEF BrokerDelivers
<1>2. PICK body \in 0..MaxBody :
       /\ d.ch = id
       /\ Answers(MessageFrames("deliver", d, d.tag, body))
       /\ broker' = [broker EXCEPT !.due = @ \ {d}]
       /\ odd' = IF d.tag \in broker.ch[id].consumers THEN odd ELSE odd \union {"late delivery"}
  BY <1>1
<1>3. broker \in Brokers
  BY HistoryTypes
<1>4. d \in Deliveries /\ broker.due \ {d} \in SUBSET Deliveries
  BY <1>3 DEF Brokers
<1>5. body \in Nat
  <2>1. MaxBody \in Nat
    BY WebClientAssumption
  <2> QED
    BY <2>1
<1>6. broker' \in Brokers /\ broker'.ch = broker.ch /\ broker'.state = broker.state
  <2> DEFINE due == broker.due \ {d}
  <2>1. broker' = [broker EXCEPT !.due = due] /\ due \in SUBSET Deliveries
    BY <1>2, <1>4
  <2> HIDE DEF due
  <2> QED
    BY <2>1, BrokerDue
<1>7. /\ odd' = odd \/ odd' = odd \union {"late delivery"}
      /\ "late delivery" \notin odd' => d.tag \in broker.ch[id].consumers
  BY <1>2
<1> QED
  BY <1>2, <1>4, <1>5, <1>6, <1>7

\* and writes it,
LEMMA DeliversTyped ==
  ASSUME TypeInv, NEW id \in Ids, BrokerDelivers(id)
  PROVE  TypeInv'
<1>1. /\ lastMsg' = lastMsg + 1
      /\ UNCHANGED <<calls, objs, channels, client, jobs, toServer, verdict>>
  BY DEF BrokerDelivers
<1>2. PICK d \in Deliveries : \E body \in Nat :
        /\ d.ch = id /\ broker' \in Brokers
        /\ Answers(MessageFrames("deliver", d, d.tag, body))
  BY DeliversMessage
<1>3. PICK body \in Nat :
        /\ d.ch = id /\ broker' \in Brokers
        /\ Answers(MessageFrames("deliver", d, d.tag, body))
  BY <1>2
<1>5. d.ch \in Ids /\ d.tag \in Nat /\ "deliver" \in StartKinds
  BY DEF Deliveries, StartKinds
<1> DEFINE fs == MessageFrames("deliver", d, d.tag, body)
<1>6. MessageParts(MessageFrames("deliver", d, d.tag, body), "deliver", d, d.tag, body)
  <2>1. lastMsg \in Nat
    BY HistoryTypes
  <2> HIDE DEF fs
  <2> QED
    BY <2>1, <1>5, MessageFramesTyped
<1>7. fs \in Seq(ClientFrames) /\ Channelled(fs)
  BY <1>6 DEF MessageParts
<1>8. ClientFramesTyped
  <2>1. Answers(fs)
    BY <1>3
  <2> HIDE DEF fs
  <2> QED
    BY <1>7, <2>1, AnswersTyped
<1>9. BrokerTyped
  BY <1>1, <1>3, HistoryTypes DEF BrokerTyped
<1>10. ServerTyped
  BY <1>1 DEF TypeInv, WebTypes, ServerTyped, ServerLinked
<1> QED
  BY <1>1, <1>8, <1>9, <1>10, BrokerStep

\* cancels a consumer,
LEMMA CancelsTyped ==
  ASSUME TypeInv, NEW id \in Ids, BrokerCancelsConsumer(id)
  PROVE  TypeInv'
<1>1. UNCHANGED <<calls, objs, channels, client, jobs, toServer, verdict, lastMsg>>
  BY DEF BrokerCancelsConsumer
<1>2. PICK tag \in broker.ch[id].consumers :
       /\ Answers(<<[m |-> "cancel", ch |-> id, tag |-> tag]>>)
       /\ broker' = [broker EXCEPT !.ch[id].consumers = @ \ {tag}]
  BY DEF BrokerCancelsConsumer
<1>3. broker.ch[id] \in Channels /\ id \in Nat
  BY HistoryTypes, WebClientAssumption DEF Brokers
<1>4. tag \in Nat
  BY <1>3 DEF Channels
<1> DEFINE r == [m |-> "cancel", ch |-> id, tag |-> tag]
           ch == [broker.ch[id] EXCEPT !.consumers = @ \ {tag}]
<1>5. r \in ClientFrames /\ r.ch = id
  BY <1>3, <1>4 DEF ClientFrames, CancelFrames
<1>6. ch \in Channels /\ broker' = [broker EXCEPT !.ch[id] = ch]
  BY <1>2, <1>3, <1>4, ChannelTypes
<1> HIDE DEF r, ch
<1>7. <<r>> \in Seq(ClientFrames) /\ Channelled(<<r>>)
  BY <1>5 DEF Channelled
<1>8. ClientFramesTyped
  BY <1>2, <1>7, AnswersTyped DEF r
<1>9. broker' \in Brokers
  BY <1>6, BrokerSet
<1>10. BrokerTyped
  BY <1>1, <1>9, BrokerSame
<1>11. ServerTyped
  BY <1>1 DEF TypeInv, WebTypes, ServerTyped, ServerLinked
<1> QED
  BY <1>1, <1>8, <1>10, <1>11, BrokerStep

\* and stops.
LEMMA StopsTyped ==
  ASSUME TypeInv, BrokerStops
  PROVE  TypeInv'
<1>1. /\ Answers(Simple("connClose")) /\ broker' = [broker EXCEPT !.state = "closing"]
      /\ UNCHANGED <<calls, objs, channels, client, jobs, toServer, verdict, lastMsg>>
  BY DEF BrokerStops, Simple
<1>2. ClientFramesTyped
  BY <1>1, SimpleTyped, AnswersTyped
<1>3. BrokerTyped
  BY <1>1, BrokerState, BrokerSame
<1>4. ServerTyped
  BY <1>1 DEF TypeInv, WebTypes, ServerTyped, ServerLinked
<1> QED
  BY <1>1, <1>2, <1>3, <1>4, BrokerStep

\* The socket is lost.
LEMMA LostTyped ==
  ASSUME TypeInv, SocketLost
  PROVE  TypeInv'
<1>1. /\ client' = [client EXCEPT !.socket = "closed"] /\ calls' = Settled({1}, "rejected", 0)
      /\ toServer' = << >> /\ toClient' = << >>
      /\ broker' = [state |-> "gone", ch |-> [id \in Ids |-> NoChannel], due |-> {}]
      /\ UNCHANGED <<objs, channels, jobs, verdict, lastMsg>>
  BY DEF SocketLost
<1>2. CallsStep
  BY <1>1, CallsSettled
<1>3. ObjectsStep /\ JobsStep
  BY <1>1, <1>2, ObjectsSame, JobsSame
<1>4. client \in Clients
  BY DEF TypeInv, WebTypes
<1>5. client' \in Clients /\ client'.connect = client.connect /\ client'.closing = client.closing
  BY <1>1, <1>4 DEF Clients
<1>6. ClientTyped
  BY <1>2, <1>5, MadeStays DEF ClientTyped, ClientLinked, TypeInv, CallsStep
<1>7. ClientFramesTyped /\ ServerTyped
  BY <1>1, ServerEmptied DEF ClientFramesTyped, Channelled
<1>8. BrokerTyped
  BY <1>1, BrokerGone, BrokerSame
<1> QED
  BY <1>1, <1>2, <1>3, <1>6, <1>7, <1>8, OthersSame, TypeKept

\* Every step keeps TypeInv.
LEMMA TypeStep == TypeInv /\ [Next]_vars => TypeInv'
<1> SUFFICES ASSUME TypeInv, [Next]_vars PROVE TypeInv'
  OBVIOUS
<1>1. CASE PageCall
  BY <1>1, PageCallTyped
<1>2. CASE RunJob
  BY <1>2, RunJobTyped
<1>3. CASE ParseFrame
  BY <1>3, ParseFrameTyped
<1>4. CASE BrokerReads
  BY <1>4, BrokerReadsTyped
<1>5. ASSUME NEW id \in Ids,
             BrokerConfirms(id) \/ BrokerChecks(id) \/ BrokerDelivers(id) \/ BrokerCancelsConsumer(id)
      PROVE  TypeInv'
  BY <1>5, ConfirmsTyped, ChecksTyped, DeliversTyped, CancelsTyped
<1>6. CASE BrokerStops \/ SocketLost
  BY <1>6, StopsTyped, LostTyped
<1>7. CASE UNCHANGED vars
  <2>1. CallsStep
    BY <1>7, CallsSame DEF vars
  <2>2. ObjectsStep /\ JobsStep
    BY <1>7, <2>1, ObjectsSame, JobsSame DEF vars
  <2> QED
    BY <1>7, <2>1, <2>2, OthersSame, TypeKept DEF vars
<1> QED
  BY <1>1, <1>2, <1>3, <1>4, <1>5, <1>6, <1>7 DEF Next

\* TypeInv holds in every state.
LEMMA TypeAlways == Spec => []TypeInv
<1>1. Init => TypeInv
  BY TypeInit
<1>2. TypeInv /\ [Next]_vars => TypeInv'
  BY TypeStep
<1> QED
  BY <1>1, <1>2, PTL DEF Spec

\* The calls, the objects and the ids refer to each other as the code assumes.
THEOREM WebTypesHold == Spec => []TypeOK
<1>1. TypeInv => TypeOK
  BY TypesSuffice
<1> QED
  BY <1>1, TypeAlways, PTL

=============================================================================
