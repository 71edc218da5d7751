-------------------------- MODULE WebClientLife_proofs --------------------------
(***************************************************************************)
(* Proofs about WebClient: the life of a channel on its way between the    *)
(* page and the broker, and that no reply arrives for a channel the client *)
(* no longer has.                                                          *)
(***************************************************************************)
EXTENDS WebClient_proofs

-----------------------------------------------------------------------------
(* The invariant. *)

Clean(gaps) == odd \intersect gaps = {}
Crossed == {"closes crossed", "half closed"}

\* The frames of messages apart, which may come late and are ignored then: what the
\* broker says of a channel.
HeededKinds == ChannelKinds \ MessageKinds

\* The frame f is one of channel id.
IsOn(f, id) == f.m \in HeededKinds /\ f.ch = id
IsAt(f, id) == f.op \in ChannelOps /\ f.ch = id

\* Of channel id, which the client lists as object o of os and the broker, in the given
\* state, as ch: what is on its way to the broker in ts and to the client in tc.
ToldLife(id, o, os, tc) ==
  /\ \A i \in DOMAIN tc : IsOn(tc[i], id) => o # 0
  /\ \A i, j \in DOMAIN tc : i < j /\ IsOn(tc[i], id) /\ IsOn(tc[j], id) =>
       tc[i].m # "closeOk" /\ (tc[i].m = "close" => tc[j].m = "closeOk")
  /\ \A i \in DOMAIN tc : IsOn(tc[i], id) /\ tc[i].m = "closeOk" => o # 0 /\ os[o].closed

RunningLife(id, o, os, ch, ts, tc) ==
  /\ ch.running => /\ o # 0
                   /\ \A i \in DOMAIN tc : IsOn(tc[i], id) => tc[i].m \notin {"close", "closeOk"}
                   /\ \A i \in DOMAIN ts : IsAt(ts[i], id) => ts[i].op \notin {"open", "closeOk"}
  /\ \A i \in DOMAIN ts : IsAt(ts[i], id) /\ ts[i].op = "open" =>
       o # 0 /\ \A j \in DOMAIN tc : ~IsOn(tc[j], id)
  /\ \A i, j \in DOMAIN ts : i < j /\ IsAt(ts[i], id) /\ IsAt(ts[j], id) =>
       /\ ts[i].op = "open" => ts[j].op \notin {"open", "closeOk"}
       /\ ts[i].op = "close" => ts[j].op \notin {"open", "close", "closeOk"}
  /\ \A i \in DOMAIN ts : IsAt(ts[i], id) /\ ts[i].op = "close" =>
       /\ o # 0 /\ os[o].closed
       /\ \A j \in DOMAIN tc : IsOn(tc[j], id) => tc[j].m # "closeOk"

LifeOf(id, o, os, state, ch, ts, tc) ==
  ToldLife(id, o, os, tc) /\ (state = "running" => RunningLife(id, o, os, ch, ts, tc))

Life(id) == LifeOf(id, channels[id], objs, broker.state, broker.ch[id], toServer, toClient)

\* Before the connection is open there are no channels, and the broker does not
\* go on after it has said that the connection ends.
Handshaking ==
  /\ broker.state = "handshake" =>
       /\ \A i \in DOMAIN toServer : toServer[i].op \notin ChannelOps
       /\ \A i \in DOMAIN toClient : toClient[i].m \notin ChannelKinds \union {"connOpenOk"}
       /\ ~Connected /\ jobs = << >>
       /\ \A id \in Ids : ~broker.ch[id].running
  /\ broker.state \in {"handshake", "running"} =>
       \A i \in DOMAIN toClient : toClient[i].m \notin {"connClose", "connCloseOk"}

\* Nothing is left of a channel the broker has closed.
ChannelsRest == \A id \in Ids : ~broker.ch[id].running => broker.ch[id] = NoChannel

\* An object that is not closed is the one listed under its id.
OpenListed == \A o \in DOMAIN objs : ~objs[o].closed => channels[objs[o].id] = o

LifeInv ==
  /\ TypeInv /\ Handshaking /\ ChannelsRest /\ OpenListed
  /\ Clean(Crossed) => \A id \in Ids : Life(id)
  /\ Clean(Crossed) => "no channel" \notin faults

\* Before the handshake there is no channel.
LEMMA LifeInit == Init => LifeInv
<1> SUFFICES ASSUME Init PROVE LifeInv
  OBVIOUS
<1>1. TypeInv
  BY TypeInit
<1>2. /\ toServer = <<Frame("header", 0, 1, 0)>> /\ toClient = << >> /\ jobs = << >> /\ objs = << >>
      /\ calls = <<Call("connect", 0, "pending")>> /\ faults = {}
      /\ broker = [state |-> "handshake", ch |-> [i \in Ids |-> NoChannel], due |-> {}]
  BY DEF Init, Frame
<1>3. Frame("header", 0, 1, 0).op = "header" /\ "header" \notin ChannelOps
  BY DEF Frame, ChannelOps, Awaited
<1>4. ~Connected
  BY <1>2 DEF Connected, Call
<1>5. Handshaking
  BY <1>2, <1>3, <1>4, NoChannelType DEF Handshaking
<1>6. ChannelsRest /\ OpenListed
  BY <1>2 DEF ChannelsRest, OpenListed
<1>7. \A id \in Ids : Life(id)
  BY <1>2 DEF Life, LifeOf, ToldLife
<1> QED
  BY <1>1, <1>2, <1>5, <1>6, <1>7 DEF LifeInv

-----------------------------------------------------------------------------
(* What a step may do to the frames of a channel. *)

\* What Tail makes of the elements.
LEMMA TailSeq ==
  ASSUME NEW S, NEW s \in Seq(S), s # << >>
  PROVE  /\ Tail(s) \in Seq(S) /\ Len(Tail(s)) = Len(s) - 1
         /\ 1 \in DOMAIN s /\ Head(s) = s[1]
         /\ \A i \in DOMAIN Tail(s) : i \in Nat /\ i > 0 /\ i + 1 \in DOMAIN s /\ Tail(s)[i] = s[i + 1]
         /\ \A i \in DOMAIN s : i = 1 \/ (i - 1 \in DOMAIN Tail(s) /\ Tail(s)[i - 1] = s[i])
OBVIOUS

\* The elements of a tail and of a concatenation are those of the sequences.
LEMMA TailElements ==
  ASSUME NEW S, NEW s \in Seq(S), s # << >>
  PROVE  \A i \in DOMAIN Tail(s) : \E j \in DOMAIN s : Tail(s)[i] = s[j]
BY TailSeq

\* The elements of two sequences, one after the other.
LEMMA ConcatElements ==
  ASSUME NEW S, NEW s \in Seq(S), NEW t \in Seq(S)
  PROVE  \A i \in DOMAIN (s \o t) : \/ i \in DOMAIN s /\ (s \o t)[i] = s[i]
                                    \/ \E j \in DOMAIN t : (s \o t)[i] = t[j]
BY ConcatSeq

\* Appending nothing is to leave a sequence as it is.
LEMMA EmptyAppended ==
  ASSUME NEW S, NEW s \in Seq(S)
  PROVE  << >> \in Seq(S) /\ s = s \o << >> /\ DOMAIN << >> = {}
OBVIOUS

\* The frames to the broker are those of before and the ones sent.
LEMMA ServerAppended ==
  ASSUME toServer \in Seq(ServerFrames), NEW fs \in Seq(ServerFrames), toServer' = toServer \o fs
  PROVE  \A i \in DOMAIN toServer' : \/ i \in DOMAIN toServer /\ toServer'[i] = toServer[i]
                                     \/ \E j \in DOMAIN fs : toServer'[i] = fs[j]
BY ConcatElements

\* The broker says something that does not close the channel.
LEMMA LifeTold ==
  ASSUME NEW id, NEW o, NEW os, NEW state, NEW ch, NEW ts, NEW tc \in Seq(ClientFrames), NEW fs \in Seq(ClientFrames),
         LifeOf(id, o, os, state, ch, ts, tc),
         \A i \in DOMAIN fs : IsOn(fs[i], id) => fs[i].m \notin {"close", "closeOk"},
         (\E i \in DOMAIN fs : IsOn(fs[i], id)) => state = "running" /\ ch.running
  PROVE  LifeOf(id, o, os, state, ch, ts, tc \o fs)
<1> DEFINE td == tc \o fs
<1>1. \A i \in DOMAIN td : \/ i \in DOMAIN tc /\ td[i] = tc[i]
                           \/ i \notin DOMAIN tc /\ i > Len(tc) /\ \E j \in DOMAIN fs : td[i] = fs[j]
  BY ConcatSeq
<1>2. \A i, j \in DOMAIN td : i < j /\ j \in DOMAIN tc => i \in DOMAIN tc
  BY ConcatSeq
<1> HIDE DEF td
<1>3. CASE \E i \in DOMAIN fs : IsOn(fs[i], id)
  <2>1. state = "running" /\ ch.running
    BY <1>3
  <2>2. o # 0 /\ \A i \in DOMAIN tc : IsOn(tc[i], id) => tc[i].m \notin {"close", "closeOk"}
    BY <2>1 DEF LifeOf, RunningLife
  <2>3. \A i \in DOMAIN ts : IsAt(ts[i], id) => ts[i].op # "open"
    BY <2>1 DEF LifeOf, RunningLife
  <2>4. \A i \in DOMAIN td : IsOn(td[i], id) => td[i].m \notin {"close", "closeOk"}
    BY <1>1, <2>2
  <2>5. ToldLife(id, o, os, td)
    BY <2>2, <2>4 DEF ToldLife
  <2>6. RunningLife(id, o, os, ch, ts, td)
    BY <2>1, <2>2, <2>3, <2>4 DEF RunningLife, LifeOf
  <2> QED
    BY <2>5, <2>6 DEF LifeOf, td
<1>4. CASE \A i \in DOMAIN fs : ~IsOn(fs[i], id)
  <2>1. \A i \in DOMAIN td : IsOn(td[i], id) => i \in DOMAIN tc /\ td[i] = tc[i]
    BY <1>1, <1>4
  <2>2. ToldLife(id, o, os, td)
    BY <2>1 DEF ToldLife, LifeOf
  <2>3. state = "running" => RunningLife(id, o, os, ch, ts, td)
    BY <2>1 DEF RunningLife, LifeOf
  <2> QED
    BY <2>2, <2>3 DEF LifeOf, td
<1> QED
  BY <1>3, <1>4

\* The client parses a frame, the broker reads one.
LEMMA LifeRead ==
  ASSUME NEW id, NEW o, NEW os, NEW state, NEW ch, NEW ts, NEW tc \in Seq(ClientFrames), tc # << >>,
         LifeOf(id, o, os, state, ch, ts, tc)
  PROVE  LifeOf(id, o, os, state, ch, ts, Tail(tc))
<1> DEFINE td == Tail(tc)
<1>1. \A i \in DOMAIN td : i \in Nat /\ i + 1 \in DOMAIN tc /\ td[i] = tc[i + 1]
  BY TailSeq
<1>2. \A i, j \in DOMAIN td : i < j => i + 1 < j + 1
  BY <1>1
<1> HIDE DEF td
<1>3. ToldLife(id, o, os, td)
  BY <1>1, <1>2 DEF ToldLife, LifeOf
<1>4. state = "running" => RunningLife(id, o, os, ch, ts, td)
  BY <1>1 DEF RunningLife, LifeOf
<1> QED
  BY <1>3, <1>4 DEF LifeOf, td

\* A frame the broker has read says nothing more about its channel.
LEMMA LifeServed ==
  ASSUME NEW id, NEW o, NEW os, NEW state, NEW ch, NEW ts \in Seq(ServerFrames), NEW tc, ts # << >>,
         LifeOf(id, o, os, state, ch, ts, tc)
  PROVE  LifeOf(id, o, os, state, ch, Tail(ts), tc)
<1> DEFINE td == Tail(ts)
<1>1. \A i \in DOMAIN td : i \in Nat /\ i + 1 \in DOMAIN ts /\ td[i] = ts[i + 1]
  BY TailSeq
<1>2. \A i, j \in DOMAIN td : i < j => i + 1 < j + 1
  BY <1>1
<1> HIDE DEF td
<1>3. state = "running" => RunningLife(id, o, os, ch, td, tc)
  BY <1>1, <1>2 DEF RunningLife, LifeOf
<1> QED
  BY <1>3 DEF LifeOf, td

\* The client sends something that neither opens nor closes the channel.
LEMMA LifeSent ==
  ASSUME NEW id, NEW o, NEW os, NEW state, NEW ch, NEW ts \in Seq(ServerFrames), NEW tc, NEW fs \in Seq(ServerFrames),
         LifeOf(id, o, os, state, ch, ts, tc),
         \A i \in DOMAIN fs : IsAt(fs[i], id) => fs[i].op \notin {"open", "close", "closeOk"}
  PROVE  LifeOf(id, o, os, state, ch, ts \o fs, tc)
<1> DEFINE td == ts \o fs
<1>1. \A i \in DOMAIN td : \/ i \in DOMAIN ts /\ td[i] = ts[i]
                           \/ i > Len(ts) /\ i \notin DOMAIN ts /\ \E j \in DOMAIN fs : td[i] = fs[j]
  BY ConcatSeq
<1>2. \A i \in DOMAIN td : IsAt(td[i], id) /\ td[i].op \in {"open", "close", "closeOk"} => i \in DOMAIN ts /\ td[i] = ts[i]
  BY <1>1
<1>3. \A i, j \in DOMAIN td : i < j /\ j \in DOMAIN ts => i \in DOMAIN ts
  BY ConcatSeq
<1> HIDE DEF td
<1>4. state = "running" => RunningLife(id, o, os, ch, td, tc)
  BY <1>2, <1>3 DEF RunningLife, LifeOf
<1> QED
  BY <1>4 DEF LifeOf, td

\* Only whether the object is closed matters, and it may have been closed.
LEMMA LifeObjs ==
  ASSUME NEW id, NEW o, NEW os, NEW ot, NEW state, NEW ch, NEW ts, NEW tc,
         LifeOf(id, o, os, state, ch, ts, tc), o # 0 /\ os[o].closed => ot[o].closed
  PROVE  LifeOf(id, o, ot, state, ch, ts, tc)
BY DEF LifeOf, ToldLife, RunningLife

\* The broker goes on with a channel that runs as before, or no longer runs.
LEMMA LifeSet ==
  ASSUME NEW id, NEW o, NEW os, NEW state, NEW ch, NEW new, NEW ts, NEW tc,
         LifeOf(id, o, os, state, ch, ts, tc), new.running => ch.running
  PROVE  LifeOf(id, o, os, state, new, ts, tc)
BY DEF LifeOf, RunningLife

\* The broker has ended the connection.
LEMMA LifeDown ==
  ASSUME NEW id, NEW o, NEW os, NEW state, NEW ch, NEW ts, NEW tc, NEW end, NEW new, NEW tt,
         LifeOf(id, o, os, state, ch, ts, tc), end # "running"
  PROVE  LifeOf(id, o, os, end, new, tt, tc)
BY DEF LifeOf

-----------------------------------------------------------------------------
(* Steps that neither open nor close a channel. *)

SameClosed == /\ DOMAIN objs' = DOMAIN objs
              /\ \A o \in DOMAIN objs : objs'[o].closed = objs[o].closed /\ objs'[o].id = objs[o].id

\* A gap that was run into stays in odd.
LEMMA CleanBefore ==
  ASSUME odd \subseteq odd', NEW gaps, Clean(gaps)'
  PROVE  Clean(gaps)
BY DEF Clean

\* The object listed under an id has that id.
LEMMA ListedObject ==
  ASSUME TypeInv, NEW id \in Ids, channels[id] # 0
  PROVE  channels[id] \in DOMAIN objs /\ objs[channels[id]].id = id
<1>1. objs \in Seq(Objects) /\ channels \in [Ids -> Nat] /\ channels[id] <= Len(objs)
  BY DEF TypeInv, WebTypes, ChannelsLinked
<1>2. channels[id] \in DOMAIN objs
  BY <1>1
<1> QED
  BY <1>2 DEF TypeInv, ChannelsLinked

\* A step of the page or of the client.
LEMMA QuietStep ==
  ASSUME LifeInv, TypeInv', UNCHANGED <<channels, broker>>, odd \subseteq odd', SameClosed,
         NEW fs \in Seq(ServerFrames), toServer' = toServer \o fs,
         \A i \in DOMAIN fs : fs[i].op \notin {"open", "close", "closeOk"},
         broker.state = "handshake" =>
           (\A i \in DOMAIN fs : fs[i].op \notin ChannelOps) /\ ~Connected' /\ jobs' = << >>,
         toClient' = toClient \/ (toClient # << >> /\ toClient' = Tail(toClient)),
         Clean(Crossed) /\ "no channel" \notin faults => "no channel" \notin faults'
  PROVE  LifeInv'
<1>1. toServer \in Seq(ServerFrames) /\ toClient \in Seq(ClientFrames) /\ TypeInv
  BY DEF LifeInv, TypeInv, WebTypes
<1>2. \A i \in DOMAIN toClient' : \E j \in DOMAIN toClient : toClient'[i] = toClient[j]
  <2>1. CASE toClient' = toClient
    BY <2>1
  <2>2. CASE toClient # << >> /\ toClient' = Tail(toClient)
    BY <1>1, <2>2, TailElements
  <2> QED
    BY <2>1, <2>2
<1>3. \A i \in DOMAIN toServer' : \/ i \in DOMAIN toServer /\ toServer'[i] = toServer[i]
                                  \/ \E j \in DOMAIN fs : toServer'[i] = fs[j]
  BY <1>1, ServerAppended
<1>4. Handshaking'
  BY <1>2, <1>3 DEF LifeInv, Handshaking
<1>5. ChannelsRest' /\ OpenListed'
  BY DEF LifeInv, ChannelsRest, OpenListed, SameClosed
<1>6. ASSUME NEW id \in Ids, Life(id) PROVE Life(id)'
  <2> DEFINE o == channels[id]
             ch == broker.ch[id]
  <2>1. LifeOf(id, o, objs, broker.state, ch, toServer', toClient)
    BY <1>1, <1>6, LifeSent DEF Life
  <2>2. LifeOf(id, o, objs, broker.state, ch, toServer', toClient')
    BY <1>1, <2>1, LifeRead
  <2>3. o # 0 => objs'[o].closed = objs[o].closed
    BY <1>1, ListedObject DEF SameClosed
  <2> HIDE DEF o, ch
  <2>4. LifeOf(id, o, objs', broker.state, ch, toServer', toClient')
    BY <2>2, <2>3, LifeObjs
  <2> QED
    BY <2>4 DEF Life, o, ch
<1> QED
  BY <1>4, <1>5, <1>6, CleanBefore DEF LifeInv

\* A step of the broker on the channels that run.
LEMMA BrokerQuiet ==
  ASSUME LifeInv, TypeInv', UNCHANGED <<calls, objs, channels, jobs, faults>>, odd \subseteq odd',
         toServer' = toServer \/ (toServer # << >> /\ toServer' = Tail(toServer)),
         broker.state = "running", broker'.state = "running",
         \A id \in Ids : broker'.ch[id].running => broker.ch[id].running, ChannelsRest',
         NEW fs \in Seq(ClientFrames), toClient' = toClient \o fs,
         \A i \in DOMAIN fs : /\ fs[i].m \in HeededKinds => broker.ch[fs[i].ch].running
                              /\ fs[i].m \notin {"close", "closeOk", "connClose", "connCloseOk"}
  PROVE  LifeInv'
<1>1. toServer \in Seq(ServerFrames) /\ toClient \in Seq(ClientFrames) /\ TypeInv
  BY DEF LifeInv, TypeInv, WebTypes
<1>2. \A i \in DOMAIN toClient' : \/ i \in DOMAIN toClient /\ toClient'[i] = toClient[i]
                                  \/ \E j \in DOMAIN fs : toClient'[i] = fs[j]
  <2>1. \A i \in DOMAIN (toClient \o fs) : \/ i \in DOMAIN toClient /\ (toClient \o fs)[i] = toClient[i]
                                           \/ \E j \in DOMAIN fs : (toClient \o fs)[i] = fs[j]
    BY <1>1, ConcatElements
  <2> QED
    BY <2>1
<1>3. Handshaking'
  <2>1. \A i \in DOMAIN toClient : toClient[i].m \notin {"connClose", "connCloseOk"}
    BY DEF LifeInv, Handshaking
  <2>2. \A i \in DOMAIN toClient' : toClient'[i].m \notin {"connClose", "connCloseOk"}
    BY <1>2, <2>1
  <2> QED
    BY <2>2 DEF Handshaking
<1>4. OpenListed'
  BY DEF LifeInv, OpenListed
<1>5. ASSUME NEW id \in Ids, Life(id) PROVE Life(id)'
  <2> DEFINE o == channels[id]
             ch == broker.ch[id]
  <2>1. LifeOf(id, o, objs, broker.state, ch, toServer, toClient')
    BY <1>1, <1>5, LifeTold DEF Life, IsOn
  <2>2. LifeOf(id, o, objs, broker.state, ch, toServer', toClient')
    BY <1>1, <2>1, LifeServed
  <2>3. broker'.ch[id].running => ch.running
    OBVIOUS
  <2> HIDE DEF o, ch
  <2>4. LifeOf(id, o, objs, broker.state, broker'.ch[id], toServer', toClient')
    BY <2>2, <2>3, LifeSet
  <2> QED
    BY <2>4 DEF Life, o, ch
<1> QED
  BY <1>3, <1>4, <1>5, CleanBefore DEF LifeInv

\* The broker ends the connection, or goes on ending it.
LEMMA BrokerEnds ==
  ASSUME LifeInv, TypeInv', UNCHANGED <<calls, objs, channels, jobs, faults>>, odd \subseteq odd',
         broker'.state \in {"closing", "gone"}, ChannelsRest',
         NEW fs \in Seq(ClientFrames), toClient' = toClient \o fs \/ toClient' = << >>,
         \A i \in DOMAIN fs : fs[i].m \notin ChannelKinds
  PROVE  LifeInv'
<1>1. toClient \in Seq(ClientFrames)
  BY DEF LifeInv, TypeInv, WebTypes
<1>2. Handshaking' /\ OpenListed'
  BY DEF LifeInv, Handshaking, OpenListed
<1>3. ASSUME NEW id \in Ids, Life(id) PROVE Life(id)'
  <2> DEFINE o == channels[id]
             ch == broker.ch[id]
  <2>1. CASE toClient' = << >>
    BY <2>1 DEF Life, LifeOf, ToldLife
  <2>2. CASE toClient' = toClient \o fs
    <3>1. LifeOf(id, o, objs, broker.state, ch, toServer, toClient')
      BY <1>1, <1>3, <2>2, LifeTold DEF Life, IsOn, HeededKinds
    <3>2. broker'.state # "running"
      OBVIOUS
    <3> HIDE DEF o, ch
    <3>3. LifeOf(id, o, objs, broker'.state, broker'.ch[id], toServer', toClient')
      BY <3>1, <3>2, LifeDown
    <3> QED
      BY <3>3 DEF Life, o, ch
  <2> QED
    BY <2>1, <2>2
<1> QED
  BY <1>2, <1>3, CleanBefore DEF LifeInv

-----------------------------------------------------------------------------
(* The calls of the page. *)

\* A call other than opening or closing a channel.
LEMMA CallQuiet ==
  ASSUME LifeInv, TypeInv', Connected, SameClosed, odd \subseteq odd',
         UNCHANGED <<channels, broker, toClient, faults>>,
         NEW f \in ServerFrames, f.op \notin {"open", "close", "closeOk"},
         UNCHANGED toServer \/ Send(<<f>>)
  PROVE  LifeInv'
<1>1. toServer \in Seq(ServerFrames)
  BY DEF LifeInv, TypeInv, WebTypes
<1>2. broker.state # "handshake"
  BY DEF LifeInv, Handshaking
<1> DEFINE none == << >>
           one == <<f>>
<1>3. none \in Seq(ServerFrames) /\ DOMAIN none = {} /\ toServer = toServer \o none
  BY <1>1
<1>4. one \in Seq(ServerFrames) /\ \A i \in DOMAIN one : one[i] = f
  OBVIOUS
<1>5. toServer' = toServer \o none \/ toServer' = toServer \o one
  BY <1>3 DEF Send
<1> HIDE DEF none, one
<1>6. CASE toServer' = toServer \o none
  BY <1>2, <1>3, <1>6, QuietStep
<1>7. CASE toServer' = toServer \o one
  <2>1. \A i \in DOMAIN one : one[i].op \notin {"open", "close", "closeOk"}
    BY <1>4
  <2> QED
    BY <1>2, <1>4, <1>7, <2>1, QuietStep
<1> QED
  BY <1>5, <1>6, <1>7

\* Objects that do not change close no channel.
LEMMA SameObjects ==
  ASSUME UNCHANGED objs
  PROVE  SameClosed
BY DEF SameClosed

\* A step that rejects a call at once.
LEMMA CallRejected ==
  ASSUME LifeInv, TypeInv', Connected, odd \subseteq odd',
         UNCHANGED <<objs, channels, broker, toClient, toServer, faults>>
  PROVE  LifeInv'
<1> DEFINE f == Frame("disconnect", 0, 0, 0)
<1>1. f \in ServerFrames /\ f.op = "disconnect"
  <2>1. "disconnect" \in ServerOps
    BY DEF ServerOps
  <2> QED
    BY <2>1, FrameType
<1> HIDE DEF f
<1> QED
  BY <1>1, SameObjects, CallQuiet

\* A request that neither opens nor closes a channel keeps LifeInv.
LEMMA RpcQuiet ==
  ASSUME LifeInv, TypeInv', Connected, odd \subseteq odd', NEW op \in Awaited, op \notin {"open", "close"},
         NEW o \in DOMAIN objs, NEW tag \in Nat, SendRpc(op, o, tag),
         UNCHANGED <<objs, channels, broker, toClient, faults>>
  PROVE  LifeInv'
<1> DEFINE f == Frame(op, objs[o].id, NextCall, tag)
<1>1. objs[o].id \in Nat /\ NextCall \in Nat /\ op \in ServerOps
  <2>1. TypeInv /\ calls \in Seq(CallRecords)
    BY DEF LifeInv, TypeInv, WebTypes
  <2>2. objs[o].id \in Nat
    BY <2>1, ObjectTypes
  <2>3. NextCall \in Nat
    BY <2>1 DEF NextCall
  <2>4. op \in ServerOps
    BY DEF ServerOps, ChannelOps
  <2> QED
    BY <2>2, <2>3, <2>4
<1>2. f \in ServerFrames /\ f.op = op
  BY <1>1, FrameType
<1>3. op \notin {"open", "close", "closeOk"}
  BY DEF Awaited
<1>4. Send(<<f>>)
  BY DEF SendRpc
<1> HIDE DEF f
<1> QED
  BY <1>2, <1>3, <1>4, SameObjects, CallQuiet

\* So does a call on an object that may be closed.
LEMMA RequestQuiet ==
  ASSUME LifeInv, TypeInv', Connected, odd \subseteq odd', NEW op \in Awaited, op \notin {"open", "close"},
         NEW o \in DOMAIN objs, NEW tag \in Nat, Request(op, o, tag)
  PROVE  LifeInv'
BY RpcQuiet, CallRejected DEF Request, RejectClosed

\* The requests of the page.
LEMMA RequestsQuiet ==
  ASSUME LifeInv, TypeInv', NEW o \in DOMAIN objs,
         \/ QueueDeclare(o) \/ QueueDelete(o) \/ QueueBind(o) \/ QueueUnbind(o) \/ QueuePurge(o)
         \/ ExchangeDeclare(o) \/ ExchangeDelete(o) \/ ExchangeBind(o) \/ ExchangeUnbind(o)
         \/ BasicQos(o) \/ BasicFlow(o) \/ BasicRecover(o) \/ ConfirmSelect(o) \/ TxMethod(o)
         \/ BasicGet(o) \/ BasicConsume(o) \/ BasicCancel(o)
  PROVE  LifeInv'
<1>1. CASE \E op \in {"topology", "purge", "mode", "select", "tx", "get"} :
             May(op) /\ Request(op, o, 0) /\ odd \subseteq odd'
  <2>1. PICK op \in {"topology", "purge", "mode", "select", "tx", "get"} :
             May(op) /\ Request(op, o, 0) /\ odd \subseteq odd'
    BY <1>1
  <2>2. op \in Awaited /\ op \notin {"open", "close"} /\ Connected
    BY <2>1 DEF Awaited, May
  <2> QED
    BY <2>1, <2>2, RequestQuiet
<1>2. CASE UncheckedRpc(o)
  <2>1. "topology" \in Awaited /\ odd \subseteq odd' /\ Connected
    BY <1>2 DEF UncheckedRpc, Awaited, May
  <2> QED
    BY <1>2, <2>1, RpcQuiet DEF UncheckedRpc
<1>3. CASE BasicConsume(o)
  <2>1. "consume" \in Awaited /\ odd \subseteq odd' /\ Connected
    BY <1>3 DEF BasicConsume, Awaited, May
  <2>2. calls \in Seq(CallRecords)
    BY DEF LifeInv, TypeInv, WebTypes
  <2>3. NextCall \in Nat
    BY <2>2 DEF NextCall
  <2> QED
    BY <1>3, <2>1, <2>3, RequestQuiet DEF BasicConsume
<1>4. CASE BasicCancel(o)
  <2>1. PICK c \in objs[o].consumers : May("cancel") /\ Request("cancel", o, c.tag) /\ UNCHANGED odd
    BY <1>4 DEF BasicCancel
  <2>2. objs[o] \in Objects
    BY ObjectTypes DEF LifeInv
  <2>3. c.tag \in Nat /\ "cancel" \in Awaited /\ Connected
    BY <2>1, <2>2 DEF Objects, Awaited, May
  <2> QED
    BY <2>1, <2>3, RequestQuiet
<1>5. \/ \E op \in {"topology", "purge", "mode", "select", "tx", "get"} :
             May(op) /\ Request(op, o, 0) /\ odd \subseteq odd'
      \/ UncheckedRpc(o) \/ BasicConsume(o) \/ BasicCancel(o)
  BY DEF QueueDeclare, QueueDelete, QueueBind, QueueUnbind, ExchangeBind, ExchangeUnbind, Topology,
                QueuePurge, ExchangeDeclare, ExchangeDelete, BasicQos, BasicFlow, BasicRecover, Mode,
                ConfirmSelect, TxMethod, BasicGet
<1> QED
  BY <1>1, <1>2, <1>3, <1>4, <1>5

\* So do acknowledgements and publishes, which no reply answers.
LEMMA SettleQuiet ==
  ASSUME LifeInv, TypeInv', NEW o \in DOMAIN objs, Settle(o) \/ BasicPublish(o)
  PROVE  LifeInv'
<1> DEFINE op == IF Settle(o) THEN "settle" ELSE "publish"
           f == Frame(op, objs[o].id, NextCall, 0)
<1>1. Connected /\ odd \subseteq odd' /\ UNCHANGED <<objs, channels, broker, toClient, faults>>
  BY DEF Settle, BasicPublish, May
<1>2. TypeInv /\ calls \in Seq(CallRecords)
  BY DEF LifeInv, TypeInv, WebTypes
<1>3. objs[o].id \in Nat /\ op \in ServerOps /\ op \notin {"open", "close", "closeOk"}
  BY <1>2, ObjectTypes DEF ServerOps, ChannelOps
<1>4. NextCall \in Nat
  BY <1>2 DEF NextCall
<1>5. UNCHANGED toServer \/ Send(<<f>>)
  <2>1. CASE Settle(o)
    BY <2>1 DEF Settle, RejectClosed
  <2>2. CASE ~Settle(o)
    BY <2>2 DEF BasicPublish, RejectClosed
  <2> QED
    BY <2>1, <2>2
<1> HIDE DEF op
<1>6. f \in ServerFrames /\ f.op = op
  BY <1>3, <1>4, FrameType
<1> HIDE DEF f
<1> QED
  BY <1>1, <1>3, <1>5, <1>6, SameObjects, CallQuiet

\* So does waiting for a consumer.
LEMMA WaitQuiet ==
  ASSUME LifeInv, TypeInv', NEW o \in DOMAIN objs, Wait(o)
  PROVE  LifeInv'
<1> DEFINE f == Frame("disconnect", 0, 0, 0)
<1>1. /\ Connected /\ odd \subseteq odd' /\ UNCHANGED <<channels, broker, toClient, toServer, faults>>
  BY DEF Wait, May
<1>2. f \in ServerFrames /\ f.op = "disconnect"
  <2>1. "disconnect" \in ServerOps
    BY DEF ServerOps
  <2> QED
    BY <2>1, FrameType
<1>3. SameClosed
  <2>1. PICK c \in objs[o].consumers :
        objs' = [objs EXCEPT ![o].consumers = (objs[o].consumers \ {c}) \union {[c EXCEPT !.waiter = NextCall]}]
    BY DEF Wait
  <2>2. TypeInv
    BY DEF LifeInv
  <2>3. objs[o] \in Objects
    BY <2>2, ObjectTypes
  <2>4. objs'[o].closed = objs[o].closed /\ objs'[o].id = objs[o].id
    BY <2>1, <2>3 DEF Objects
  <2>5. \A p \in DOMAIN objs : p # o => objs'[p] = objs[p]
    BY <2>1
  <2> QED
    BY <2>1, <2>4, <2>5 DEF SameClosed
<1> HIDE DEF f
<1> QED
  BY <1>1, <1>2, <1>3, CallQuiet

\* Closing the connection touches no channel.
LEMMA DisconnectQuiet ==
  ASSUME LifeInv, TypeInv', CloseConnection
  PROVE  LifeInv'
<1> DEFINE f == Frame("disconnect", 0, NextCall, 0)
<1>1. Connected /\ odd \subseteq odd' /\ UNCHANGED <<objs, channels, broker, toClient, faults>>
  BY DEF CloseConnection, May
<1>2. NextCall \in Nat
  <2>1. calls \in Seq(CallRecords)
    BY DEF LifeInv, TypeInv, WebTypes
  <2> QED
    BY <2>1 DEF NextCall
<1>3. f \in ServerFrames /\ f.op = "disconnect"
  <2>1. "disconnect" \in ServerOps
    BY DEF ServerOps
  <2> QED
    BY <1>2, <2>1, FrameType
<1>4. UNCHANGED toServer \/ Send(<<f>>)
  BY DEF CloseConnection, RejectClosed
<1> HIDE DEF f
<1> QED
  BY <1>1, <1>3, <1>4, SameObjects, CallQuiet

\* The page closes a channel: its object is listed, and this is the first Close it sends.
LEMMA LifeClosing ==
  ASSUME NEW id, NEW o, o # 0, NEW os, NEW ot, NEW state, NEW ch,
         NEW ts \in Seq(ServerFrames), NEW tc, NEW f \in ServerFrames,
         LifeOf(id, o, os, state, ch, ts, tc), ~os[o].closed, ot[o].closed,
         f.op = "close"
  PROVE  LifeOf(id, o, ot, state, ch, ts \o <<f>>, tc)
<1> DEFINE td == ts \o <<f>>
<1>1. \A i \in DOMAIN td : \/ i \in DOMAIN ts /\ td[i] = ts[i]
                           \/ i > Len(ts) /\ i \notin DOMAIN ts /\ td[i] = f /\ i = Len(ts) + 1
  OBVIOUS
<1>2. \A i, j \in DOMAIN td : i < j => i \in DOMAIN ts
  OBVIOUS
<1>3. \A i \in DOMAIN tc : IsOn(tc[i], id) => tc[i].m # "closeOk"
  BY DEF LifeOf, ToldLife
<1>4. ToldLife(id, o, ot, tc)
  BY <1>3 DEF LifeOf, ToldLife
<1> HIDE DEF td
<1>5. ASSUME state = "running" PROVE RunningLife(id, o, ot, ch, td, tc)
  <2>1. \A i \in DOMAIN ts : IsAt(ts[i], id) => ts[i].op # "close"
    BY <1>5 DEF LifeOf, RunningLife
  <2>2. RunningLife(id, o, os, ch, ts, tc)
    BY <1>5 DEF LifeOf
  <2>3. \A i, j \in DOMAIN td : i < j /\ IsAt(td[i], id) /\ IsAt(td[j], id) =>
       /\ td[i].op = "open" => td[j].op \notin {"open", "closeOk"}
       /\ td[i].op = "close" => td[j].op \notin {"open", "close", "closeOk"}
    <3> SUFFICES ASSUME NEW i \in DOMAIN td, NEW j \in DOMAIN td, i < j, IsAt(td[i], id), IsAt(td[j], id)
                 PROVE  /\ td[i].op = "open" => td[j].op \notin {"open", "closeOk"}
                        /\ td[i].op # "close"
      OBVIOUS
    <3>1. i \in DOMAIN ts /\ td[i] = ts[i]
      BY <1>1, <1>2
    <3>2. td[i].op # "close"
      BY <2>1, <3>1
    <3>3. CASE j \in DOMAIN ts
      BY <1>1, <2>2, <3>1, <3>2, <3>3 DEF RunningLife
    <3>4. CASE j \notin DOMAIN ts
      BY <1>1, <3>2, <3>4
    <3> QED
      BY <3>3, <3>4
  <2>4. \A i \in DOMAIN td : IsAt(td[i], id) /\ td[i].op = "open" => \A j \in DOMAIN tc : ~IsOn(tc[j], id)
    BY <1>1, <2>2 DEF RunningLife
  <2>5. ch.running =>
          /\ \A i \in DOMAIN tc : IsOn(tc[i], id) => tc[i].m \notin {"close", "closeOk"}
          /\ \A i \in DOMAIN td : IsAt(td[i], id) => td[i].op \notin {"open", "closeOk"}
    BY <1>1, <2>2 DEF RunningLife
  <2> QED
    BY <1>3, <2>3, <2>4, <2>5 DEF RunningLife
<1> QED
  BY <1>4, <1>5 DEF LifeOf, td

\* The Close of a channel is the last of it the page sends.
LEMMA CloseChannelLife ==
  ASSUME LifeInv, TypeInv', NEW o \in DOMAIN objs, CloseChannel(o)
  PROVE  LifeInv'
<1>1. Connected /\ odd' = odd /\ UNCHANGED <<channels, broker, toClient, faults>>
  BY DEF CloseChannel, May
<1>2. CASE objs[o].closed
  BY <1>1, <1>2, CallRejected DEF CloseChannel, RejectClosed
<1>3. CASE ~objs[o].closed
  <2> DEFINE f == Frame("close", objs[o].id, NextCall, 0)
             b == objs[o].id
  <2>1. TypeInv /\ calls \in Seq(CallRecords) /\ objs \in Seq(Objects) /\ toServer \in Seq(ServerFrames)
    BY DEF LifeInv, TypeInv, WebTypes
  <2>2. b \in Ids /\ b \in Nat /\ o # 0 /\ objs[o] \in Objects
    BY <2>1, ObjectTypes
  <2>3. f \in ServerFrames /\ f.op = "close" /\ f.ch = b
    <3>1. NextCall \in Nat
      BY <2>1 DEF NextCall
    <3>2. "close" \in ServerOps
      BY DEF ServerOps, ChannelOps, Awaited
    <3> QED
      BY <2>2, <3>1, <3>2, FrameType
  <2>4. /\ DOMAIN objs' = DOMAIN objs /\ objs'[o].closed /\ objs'[o].id = b
        /\ \A p \in DOMAIN objs : p # o => objs'[p] = objs[p]
    <3>1. objs' = [objs EXCEPT ![o].closed = TRUE]
      BY <1>3 DEF CloseChannel
    <3> QED
      BY <2>2, <3>1 DEF Objects
  <2>5. UNCHANGED toServer \/ toServer' = toServer \o <<f>>
    BY <1>3 DEF CloseChannel, SendRpc, Send
  <2>6. channels[b] = o
    BY <1>3 DEF LifeInv, OpenListed
  <2> HIDE DEF f, b
  <2>7. Handshaking'
    BY <1>1 DEF LifeInv, Handshaking
  <2>8. ChannelsRest' /\ OpenListed'
    <3>1. ChannelsRest'
      BY <1>1 DEF LifeInv, ChannelsRest
    <3>2. OpenListed'
      BY <1>1, <2>4 DEF LifeInv, OpenListed
    <3> QED
      BY <3>1, <3>2
  <2>9. ASSUME NEW id \in Ids, Life(id) PROVE Life(id)'
    <3>1. CASE UNCHANGED toServer
      <4>1. channels[id] # 0 /\ objs[channels[id]].closed => objs'[channels[id]].closed
        BY <2>1, <2>4, ListedObject
      <4> QED
        BY <1>1, <2>9, <3>1, <4>1, LifeObjs DEF Life
    <3>2. CASE toServer' = toServer \o <<f>> /\ id = b
      <4>1. LifeOf(id, o, objs, broker.state, broker.ch[id], toServer, toClient)
        BY <2>6, <2>9, <3>2 DEF Life
      <4>2. LifeOf(id, o, objs', broker.state, broker.ch[id], toServer \o <<f>>, toClient)
        BY <1>3, <2>1, <2>2, <2>3, <2>4, <4>1, LifeClosing
      <4> QED
        BY <1>1, <2>6, <3>2, <4>2 DEF Life
    <3>3. CASE toServer' = toServer \o <<f>> /\ id # b
      <4> DEFINE one == <<f>>
      <4>1. one \in Seq(ServerFrames) /\ \A i \in DOMAIN one : ~IsAt(one[i], id)
        BY <2>3, <3>3 DEF IsAt
      <4>2. toServer' = toServer \o one
        BY <3>3
      <4> HIDE DEF one
      <4>3. LifeOf(id, channels[id], objs, broker.state, broker.ch[id], toServer', toClient)
        BY <2>1, <2>9, <4>1, <4>2, LifeSent DEF Life
      <4>4. channels[id] # 0 /\ objs[channels[id]].closed => objs'[channels[id]].closed
        BY <2>1, <2>4, ListedObject
      <4> QED
        BY <1>1, <4>3, <4>4, LifeObjs DEF Life
    <3> QED
      BY <2>5, <3>1, <3>2, <3>3
  <2>10. Clean(Crossed)' => Clean(Crossed)
    BY <1>1 DEF Clean
  <2> QED
    BY <1>1, <2>7, <2>8, <2>9, <2>10 DEF LifeInv
<1> QED
  BY <1>2, <1>3

\* The page opens a channel on an id that is free.
LEMMA LifeOpening ==
  ASSUME NEW id, NEW o, o # 0, NEW os, NEW ot, NEW state, NEW ch,
         NEW ts \in Seq(ServerFrames), NEW tc, NEW f \in ServerFrames,
         LifeOf(id, 0, os, state, ch, ts, tc), f.op = "open"
  PROVE  LifeOf(id, o, ot, state, ch, ts, tc) /\ LifeOf(id, o, ot, state, ch, ts \o <<f>>, tc)
<1> DEFINE td == ts \o <<f>>
<1>1. \A i \in DOMAIN td : (i \in DOMAIN ts /\ td[i] = ts[i]) \/ (i \notin DOMAIN ts /\ td[i] = f)
  OBVIOUS
<1>2. \A i, j \in DOMAIN td : i < j => i \in DOMAIN ts
  OBVIOUS
<1>3. \A i \in DOMAIN tc : ~IsOn(tc[i], id)
  BY DEF LifeOf, ToldLife
<1>4. ToldLife(id, o, ot, tc)
  BY <1>3 DEF ToldLife
<1> HIDE DEF td
<1>5. ASSUME state = "running" PROVE RunningLife(id, o, ot, ch, ts, tc) /\ RunningLife(id, o, ot, ch, td, tc)
  <2>1. ~ch.running /\ \A i \in DOMAIN ts : IsAt(ts[i], id) => ts[i].op \notin {"open", "close"}
    BY <1>5 DEF LifeOf, RunningLife
  <2>2. \A i \in DOMAIN td : IsAt(td[i], id) => td[i].op # "close"
    BY <1>1, <2>1
  <2>3. \A i, j \in DOMAIN td : i < j /\ IsAt(td[i], id) => td[i].op # "open"
    BY <1>1, <1>2, <2>1
  <2>4. RunningLife(id, o, ot, ch, ts, tc)
    BY <1>3, <2>1 DEF RunningLife
  <2>5. RunningLife(id, o, ot, ch, td, tc)
    BY <1>3, <2>1, <2>2, <2>3 DEF RunningLife
  <2> QED
    BY <2>4, <2>5
<1> QED
  BY <1>4, <1>5 DEF LifeOf, td

\* An id is used again when nothing of it is under way in either direction.
LEMMA OpenChannelLife ==
  ASSUME LifeInv, TypeInv', OpenChannel
  PROVE  LifeInv'
<1>1. Connected /\ odd' = odd /\ UNCHANGED <<broker, toClient, faults>>
  BY DEF OpenChannel
<1>2. CASE client.closed
  BY <1>1, <1>2, CallRejected DEF OpenChannel, RejectClosed
<1>3. CASE ~client.closed
  <2>1. TypeInv /\ calls \in Seq(CallRecords) /\ objs \in Seq(Objects) /\ toServer \in Seq(ServerFrames)
        /\ channels \in [Ids -> Nat]
    BY DEF LifeInv, TypeInv, WebTypes
  <2>2. PICK b \in Ids :
          /\ channels[b] = 0
          /\ objs' = Append(objs, NewObject(b)) /\ channels' = [channels EXCEPT ![b] = Len(objs) + 1]
          /\ Send(<<Frame("open", b, NextCall, 0)>>)
    BY <1>3 DEF OpenChannel
  <2> DEFINE f == Frame("open", b, NextCall, 0)
             o == Len(objs) + 1
             obj == NewObject(b)
  <2>3. f \in ServerFrames /\ f.op = "open" /\ f.ch = b
    <3>1. NextCall \in Nat /\ b \in Nat
      BY <2>1, WebClientAssumption DEF NextCall
    <3>2. "open" \in ServerOps
      BY DEF ServerOps, ChannelOps, Awaited
    <3> QED
      BY <3>1, <3>2, FrameType
  <2>4. /\ o # 0 /\ o \notin DOMAIN objs /\ DOMAIN objs' = DOMAIN objs \union {o} /\ objs'[o] = obj
        /\ \A p \in DOMAIN objs : objs'[p] = objs[p]
    BY <2>1, <2>2
  <2>5. obj.id = b
    BY DEF NewObject
  <2>6. channels'[b] = o /\ \A id \in Ids : id # b => channels'[id] = channels[id]
    BY <2>1, <2>2
  <2>7. UNCHANGED toServer \/ toServer' = toServer \o <<f>>
    BY <2>2 DEF Send
  <2> HIDE DEF f, o, obj
  <2>8. Handshaking' /\ ChannelsRest'
    BY <1>1 DEF LifeInv, Handshaking, ChannelsRest
  <2>9. OpenListed'
    <3> SUFFICES ASSUME NEW p \in DOMAIN objs', ~objs'[p].closed PROVE channels'[objs'[p].id] = p
      BY DEF OpenListed
    <3>1. CASE p = o
      BY <2>4, <2>5, <2>6, <3>1
    <3>2. CASE p \in DOMAIN objs
      <4>1. objs'[p] = objs[p] /\ channels[objs[p].id] = p /\ objs[p].id \in Ids /\ p # 0
        BY <2>1, <2>4, <3>2, ObjectTypes DEF LifeInv, OpenListed
      <4>2. objs[p].id # b
        BY <2>2, <4>1
      <4> QED
        BY <2>6, <4>1, <4>2
    <3> QED
      BY <2>4, <3>1, <3>2
  <2>10. ASSUME NEW id \in Ids, Life(id) PROVE Life(id)'
    <3>1. CASE id = b
      <4>1. LifeOf(id, 0, objs, broker.state, broker.ch[id], toServer, toClient)
        BY <2>2, <2>10, <3>1 DEF Life
      <4>3. /\ LifeOf(id, o, objs', broker.state, broker.ch[id], toServer, toClient)
            /\ LifeOf(id, o, objs', broker.state, broker.ch[id], toServer \o <<f>>, toClient)
        BY <2>1, <2>3, <2>4, <4>1, LifeOpening
      <4>2. LifeOf(id, o, objs', broker.state, broker.ch[id], toServer', toClient)
        BY <2>7, <4>3
      <4> QED
        BY <1>1, <2>6, <3>1, <4>2 DEF Life
    <3>2. CASE id # b
      <4>1. channels[id] # 0 /\ objs[channels[id]].closed => objs'[channels[id]].closed
        BY <2>1, <2>4, ListedObject
      <4>2. LifeOf(id, channels[id], objs, broker.state, broker.ch[id], toServer', toClient)
        <5>1. CASE UNCHANGED toServer
          BY <2>10, <5>1 DEF Life
        <5>2. CASE toServer' = toServer \o <<f>>
          <6> DEFINE one == <<f>>
          <6>1. one \in Seq(ServerFrames) /\ \A i \in DOMAIN one : ~IsAt(one[i], id)
            BY <2>3, <3>2 DEF IsAt
          <6>2. toServer' = toServer \o one
            BY <5>2
          <6> HIDE DEF one
          <6> QED
            BY <2>1, <2>10, <6>1, <6>2, LifeSent DEF Life
        <5> QED
          BY <2>7, <5>1, <5>2
      <4> QED
        BY <1>1, <2>6, <3>2, <4>1, <4>2, LifeObjs DEF Life
    <3> QED
      BY <3>1, <3>2
  <2>11. Clean(Crossed)' => Clean(Crossed)
    BY <1>1 DEF Clean
  <2> QED
    BY <1>1, <2>8, <2>9, <2>10, <2>11 DEF LifeInv
<1> QED
  BY <1>2, <1>3

\* Every call of the page.
LEMMA PageCallLife ==
  ASSUME LifeInv, PageCall
  PROVE  LifeInv'
<1>1. TypeInv'
  BY PageCallTyped DEF LifeInv
<1>2. CASE OpenChannel \/ CloseConnection
  BY <1>1, <1>2, OpenChannelLife, DisconnectQuiet
<1>3. ASSUME NEW o \in DOMAIN objs,
             \/ QueueDeclare(o) \/ QueueDelete(o) \/ QueueBind(o) \/ QueueUnbind(o) \/ QueuePurge(o)
             \/ ExchangeDeclare(o) \/ ExchangeDelete(o) \/ ExchangeBind(o) \/ ExchangeUnbind(o)
             \/ BasicQos(o) \/ BasicFlow(o) \/ BasicRecover(o) \/ ConfirmSelect(o) \/ TxMethod(o)
             \/ BasicGet(o) \/ BasicConsume(o) \/ BasicCancel(o)
      PROVE  LifeInv'
  BY <1>1, <1>3, RequestsQuiet
<1>4. ASSUME NEW o \in DOMAIN objs,
             \/ Wait(o) \/ BasicAck(o) \/ BasicNack(o) \/ BasicReject(o) \/ BasicPublish(o) \/ CloseChannel(o)
      PROVE  LifeInv'
  BY <1>1, <1>4, WaitQuiet, SettleQuiet, CloseChannelLife DEF BasicAck, BasicNack, BasicReject
<1> QED
  BY <1>2, <1>3, <1>4 DEF PageCall

-----------------------------------------------------------------------------
(* The jobs, and the frames that neither open nor close a channel. *)

\* An object that stays open or closed under its id closes no channel.
LEMMA OneObject ==
  ASSUME NEW o \in DOMAIN objs, NEW obj, objs' = [objs EXCEPT ![o] = obj],
         obj.closed = objs[o].closed, obj.id = objs[o].id
  PROVE  SameClosed
BY DEF SameClosed

\* The client works on what it has and sends nothing.
LEMMA StillQuiet ==
  ASSUME LifeInv, TypeInv', UNCHANGED <<channels, broker, toServer>>, odd \subseteq odd', SameClosed,
         broker.state # "handshake",
         toClient' = toClient \/ (toClient # << >> /\ toClient' = Tail(toClient)),
         Clean(Crossed) /\ "no channel" \notin faults => "no channel" \notin faults'
  PROVE  LifeInv'
<1> DEFINE none == << >>
<1>1. toServer \in Seq(ServerFrames)
  BY DEF LifeInv, TypeInv, WebTypes
<1>3. none \in Seq(ServerFrames) /\ DOMAIN none = {} /\ toServer = toServer \o none
  BY <1>1, EmptyAppended
<1> HIDE DEF none
<1>2. toServer' = toServer \o none /\ \A i \in DOMAIN none : FALSE
  BY <1>3
<1> QED
  BY <1>2, <1>3, QuietStep

\* A continuation sends no frame and closes no object.
LEMMA RunJobLife ==
  ASSUME LifeInv, RunJob
  PROVE  LifeInv'
<1>1. TypeInv /\ TypeInv'
  BY RunJobTyped DEF LifeInv
<1>2. jobs # << >> /\ UNCHANGED <<channels, toServer, toClient, broker, odd, faults>>
  BY DEF RunJob, RunAwait, RunClosing, RunSent, RunCount, RunConsume, RunCancel, HeadJob
<1>3. broker.state # "handshake"
  BY <1>2 DEF LifeInv, Handshaking
<1>4. SameClosed
  <2> DEFINE j == Head(jobs)
             o == j.obj
  <2>1. CASE RunClosing \/ RunSent
    BY <2>1, SameObjects DEF RunClosing, RunSent
  <2>2. ASSUME RunAwait \/ RunCount \/ RunConsume \/ RunCancel
        PROVE  SameClosed
    <3>1. o \in DOMAIN objs
      <4>1. Head(jobs).do # "closing"
        BY <2>2 DEF RunAwait, RunCount, RunConsume, RunCancel, HeadJob
      <4> QED
        BY <1>1, <1>2, <4>1, JobObject
    <3>2. objs[o] \in Objects
      BY <1>1, <3>1, ObjectTypes
    <3>3. PICK obj : objs' = [objs EXCEPT ![o] = obj] /\ obj.closed = objs[o].closed /\ obj.id = objs[o].id
      <4>1. ASSUME RunAwait
            PROVE  \E obj : objs' = [objs EXCEPT ![o] = obj] /\ obj.closed = objs[o].closed /\ obj.id = objs[o].id
        <5> DEFINE obj == [objs[o] EXCEPT !.promises = Append(@, j.call)]
        <5>1. obj.closed = objs[o].closed /\ obj.id = objs[o].id
          BY <3>2 DEF Objects
        <5>2. objs' = [objs EXCEPT ![o] = obj]
          BY <4>1 DEF RunAwait
        <5> HIDE DEF obj
        <5> QED
          BY <5>1, <5>2
      <4>2. ASSUME RunCount
            PROVE  \E obj : objs' = [objs EXCEPT ![o] = obj] /\ obj.closed = objs[o].closed /\ obj.id = objs[o].id
        <5> DEFINE obj == [objs[o] EXCEPT !.unconfirmed = Append(@, [tag |-> objs[o].confirmId + 1, call |-> j.call]),
                                          !.confirmId = @ + 1]
        <5>1. obj.closed = objs[o].closed /\ obj.id = objs[o].id
          BY <3>2 DEF Objects
        <5>2. objs' = [objs EXCEPT ![o] = obj]
          <6>1. objs' = [objs EXCEPT
                   ![o].unconfirmed = Append(@, [tag |-> objs[o].confirmId + 1, call |-> j.call]),
                   ![o].confirmId = @ + 1]
            BY <4>2 DEF RunCount
          <6> QED
            BY <3>1, <3>2, <6>1 DEF Objects
        <5> HIDE DEF obj
        <5> QED
          BY <5>1, <5>2
      <4>3. ASSUME RunConsume \/ RunCancel
            PROVE  \E obj : objs' = [objs EXCEPT ![o] = obj] /\ obj.closed = objs[o].closed /\ obj.id = objs[o].id
        <5>1. PICK cs : objs' = [objs EXCEPT ![o].consumers = cs]
          BY <4>3 DEF RunConsume, RunCancel
        <5> DEFINE obj == [objs[o] EXCEPT !.consumers = cs]
        <5>2. obj.closed = objs[o].closed /\ obj.id = objs[o].id
          BY <3>2 DEF Objects
        <5>3. objs' = [objs EXCEPT ![o] = obj]
          BY <5>1
        <5> HIDE DEF obj
        <5> QED
          BY <5>2, <5>3
      <4> QED
        BY <2>2, <4>1, <4>2, <4>3
    <3> HIDE DEF o
    <3> QED
      BY <3>1, <3>3, OneObject
  <2> QED
    BY <2>1, <2>2 DEF RunJob
<1> QED
  BY <1>1, <1>2, <1>3, <1>4, StillQuiet

\* What the broker says of a channel finds its object.
LEMMA ArrivedListed ==
  ASSUME LifeInv, Clean(Crossed), toClient # << >>, Arrived.m \in HeededKinds
  PROVE  Addressed # 0
<1>1. 1 \in DOMAIN toClient /\ Arrived = toClient[1] /\ Arrived.ch \in Ids
  BY ArrivedTypes DEF LifeInv, HeededKinds
<1>2. Life(Arrived.ch)
  BY <1>1 DEF LifeInv
<1>3. IsOn(toClient[1], Arrived.ch)
  BY <1>1 DEF IsOn
<1> QED
  BY <1>1, <1>2, <1>3 DEF Life, LifeOf, ToldLife, Addressed

\* The client parses a frame of a channel and sends nothing.
LEMMA ParseQuiet ==
  ASSUME LifeInv, TypeInv', NEW m, Parse(m), m \in ChannelKinds,
         UNCHANGED <<channels, toServer>>, odd \subseteq odd', SameClosed,
         (m \in HeededKinds => Addressed # 0) /\ "no channel" \notin faults => "no channel" \notin faults'
  PROVE  LifeInv'
<1>1. toClient # << >> /\ Arrived.m = m /\ toClient' = Tail(toClient) /\ UNCHANGED broker
  BY DEF Parse, Arrived
<1>2. broker.state # "handshake"
  <2>1. 1 \in DOMAIN toClient /\ Arrived = toClient[1]
    BY <1>1, ArrivedTypes DEF LifeInv
  <2> QED
    BY <1>1, <2>1 DEF LifeInv, Handshaking
<1>3. Clean(Crossed) /\ m \in HeededKinds => Addressed # 0
  BY <1>1, ArrivedListed
<1> QED
  BY <1>1, <1>2, <1>3, StillQuiet

\* Nor does settling a promise.
LEMMA ResolveSame ==
  ASSUME NEW o \in DOMAIN objs, NEW obj \in Objects, obj.closed = objs[o].closed, obj.id = objs[o].id,
         NEW by, NEW tag, ResolvePromise(o, obj, by, tag)
  PROVE  SameClosed
<1>1. CASE obj.promises = << >>
  BY <1>1, OneObject DEF ResolvePromise
<1>2. CASE obj.promises # << >>
  <2> DEFINE rest == [obj EXCEPT !.promises = Tail(@)]
  <2>1. rest.closed = obj.closed /\ rest.id = obj.id
    BY DEF Objects
  <2>2. objs' = [objs EXCEPT ![o] = rest]
    BY <1>2 DEF ResolvePromise
  <2> HIDE DEF rest
  <2> QED
    BY <2>1, <2>2, OneObject
<1> QED
  BY <1>1, <1>2

\* Nor does a reply that only settles a promise.
LEMMA ReplyQuiet ==
  ASSUME LifeInv, NEW m \in ReplyKinds, Reply(m)
  PROVE  LifeInv'
<1>1. TypeInv /\ TypeInv' /\ Parse(m) /\ m \in ChannelKinds /\ UNCHANGED <<channels, toServer, odd>>
  BY ReplyTyped DEF LifeInv, Reply, ChannelKinds
<1>2. toClient # << >> /\ Arrived.m = m
  BY <1>1 DEF Parse, Arrived
<1>3. SameClosed
  <2>1. CASE Addressed = 0
    BY <2>1, SameObjects DEF Reply
  <2>2. CASE Addressed # 0
    <3>1. Addressed \in DOMAIN objs /\ ResolvePromise(Addressed, objs[Addressed], Arrived.call, Arrived.tag)
      BY <1>1, <1>2, <2>2, AddressedTypes DEF Reply
    <3>2. objs[Addressed] \in Objects
      BY <1>1, <3>1, ObjectTypes
    <3> QED
      BY <3>1, <3>2, ResolveSame
  <2> QED
    BY <2>1, <2>2
<1>4. m \in HeededKinds /\ (Addressed # 0 => UNCHANGED faults)
  BY <1>1 DEF Reply, HeededKinds, ReplyKinds, MessageKinds, StartKinds
<1> QED
  BY <1>1, <1>3, <1>4, ParseQuiet

\* Nor does the reply to Confirm.Select.
LEMMA SelectOkQuiet ==
  ASSUME LifeInv, OnSelectOk
  PROVE  LifeInv'
<1>1. TypeInv /\ TypeInv' /\ Parse("selectOk") /\ "selectOk" \in ChannelKinds /\ UNCHANGED <<channels, toServer>>
      /\ odd \subseteq odd'
  BY SelectOkTyped DEF LifeInv, OnSelectOk, ChannelKinds, ReplyKinds
<1>2. toClient # << >> /\ Arrived.m = "selectOk"
  BY <1>1 DEF Parse, Arrived
<1>3. SameClosed
  <2>1. CASE Addressed = 0
    BY <2>1, SameObjects DEF OnSelectOk
  <2>2. CASE Addressed # 0
    <3> DEFINE obj == [objs[Addressed] EXCEPT !.confirmId = 0]
    <3>1. Addressed \in DOMAIN objs /\ ResolvePromise(Addressed, obj, Arrived.call, 0)
      BY <1>1, <1>2, <2>2, AddressedTypes DEF OnSelectOk
    <3>2. objs[Addressed] \in Objects
      BY <1>1, <3>1, ObjectTypes
    <3>3. obj \in Objects /\ obj.closed = objs[Addressed].closed /\ obj.id = objs[Addressed].id
      BY <3>2 DEF Objects
    <3> HIDE DEF obj
    <3> QED
      BY <3>1, <3>3, ResolveSame
  <2> QED
    BY <2>1, <2>2
<1>4. "selectOk" \in HeededKinds /\ (Addressed # 0 => UNCHANGED faults)
  BY <1>1 DEF OnSelectOk, HeededKinds, MessageKinds, StartKinds
<1> QED
  BY <1>1, <1>3, <1>4, ParseQuiet

\* Nor does a confirm.
LEMMA ConfirmedQuiet ==
  ASSUME LifeInv, TypeInv', NEW m \in {"ack", "nack"}, NEW st, PublishConfirmed(m, st)
  PROVE  LifeInv'
<1>1. TypeInv /\ Parse(m) /\ m \in ChannelKinds /\ UNCHANGED <<channels, toServer, odd, faults>>
  BY DEF LifeInv, PublishConfirmed, ChannelKinds
<1>2. toClient # << >> /\ Arrived.m = m
  BY <1>1 DEF Parse, Arrived
<1>3. SameClosed
  <2>1. CASE UNCHANGED objs
    BY <2>1, SameObjects
  <2>2. CASE ~UNCHANGED objs
    <3>1. PICK u : Addressed # 0 /\ objs' = [objs EXCEPT ![Addressed].unconfirmed = u]
      BY <2>2 DEF PublishConfirmed
    <3>2. Addressed \in DOMAIN objs
      BY <1>1, <1>2, <3>1, AddressedTypes
    <3>3. objs[Addressed] \in Objects
      BY <1>1, <3>2, ObjectTypes
    <3> DEFINE obj == [objs[Addressed] EXCEPT !.unconfirmed = u]
    <3>4. objs' = [objs EXCEPT ![Addressed] = obj] /\ obj.closed = objs[Addressed].closed /\ obj.id = objs[Addressed].id
      BY <3>1, <3>3 DEF Objects
    <3> HIDE DEF obj
    <3> QED
      BY <3>2, <3>4, OneObject
  <2> QED
    BY <2>1, <2>2
<1> QED
  BY <1>1, <1>3, ParseQuiet

\* Nor does the first frame of a message.
LEMMA StartMessageQuiet ==
  ASSUME LifeInv, TypeInv', NEW m \in StartKinds, NEW slot \in {"delivery", "getMessage", "returned"},
         StartMessage(m, slot)
  PROVE  LifeInv'
<1>1. TypeInv /\ Parse(m) /\ m \in ChannelKinds /\ UNCHANGED <<channels, toServer, odd, faults>>
  BY DEF LifeInv, StartMessage, ChannelKinds, MessageKinds
<1>2. toClient # << >> /\ Arrived.m = m
  BY <1>1 DEF Parse, Arrived
<1>3. SameClosed
  <2>1. CASE Addressed = 0
    BY <2>1, SameObjects DEF StartMessage
  <2>2. CASE Addressed # 0
    <3> DEFINE obj == [objs[Addressed] EXCEPT ![slot] = NewMessage]
    <3>1. Addressed \in DOMAIN objs /\ objs' = [objs EXCEPT ![Addressed] = obj]
      BY <1>1, <1>2, <2>2, AddressedTypes DEF StartMessage
    <3>2. objs[Addressed] \in Objects
      BY <1>1, <3>1, ObjectTypes
    <3>3. obj.closed = objs[Addressed].closed /\ obj.id = objs[Addressed].id
      BY <3>2 DEF Objects
    <3> HIDE DEF obj
    <3> QED
      BY <3>1, <3>3, OneObject
  <2> QED
    BY <2>1, <2>2
<1> QED
  BY <1>1, <1>3, ParseQuiet

\* Nor does a header or a body.
LEMMA PartQuiet ==
  ASSUME LifeInv, TypeInv', NEW m \in {"header", "body"}, Parse(m), NEW msg, Part(msg),
         UNCHANGED <<channels, toServer, odd>>
  PROVE  LifeInv'
<1>1. TypeInv /\ m \in ChannelKinds
  BY DEF LifeInv, ChannelKinds, MessageKinds
<1>2. toClient # << >> /\ Arrived.m = m
  BY <1>1 DEF Parse, Arrived
<1>3. SameClosed /\ ("no channel" \notin faults => "no channel" \notin faults')
  <2>1. CASE UNCHANGED objs
    <3>1. faults' \subseteq faults \union {"no message", "mixed", "dropped"}
      BY DEF Part, OnMessageReady
    <3> QED
      BY <2>1, <3>1, SameObjects
  <2>2. CASE Addressed # 0 /\ msg.n # 0
    <3> DEFINE o == Addressed
               slot == Slot(objs[o])
               ready == [objs[o] EXCEPT ![slot] = NoMessage]
               grown == [objs[o] EXCEPT ![slot] = msg]
    <3>1. o \in DOMAIN objs
      BY <1>1, <1>2, <2>2, AddressedTypes
    <3>2. objs[o] \in Objects /\ slot \in Slots
      BY <1>1, <3>1, ObjectTypes, SlotType
    <3>3. /\ ready \in Objects /\ ready.closed = objs[o].closed /\ ready.id = objs[o].id
          /\ grown.closed = objs[o].closed /\ grown.id = objs[o].id
      <4>1. ready \in Objects /\ ready.closed = objs[o].closed /\ ready.id = objs[o].id
        BY <3>2, SlotSet, NoMessageType
      <4>2. grown.closed = objs[o].closed /\ grown.id = objs[o].id
        BY <3>2 DEF Objects, Slots
      <4> QED
        BY <4>1, <4>2
    <3>4. CASE msg.pos = msg.size
      <4>1. /\ IF slot = "getMessage" THEN ResolvePromise(o, ready, msg.tag, 0) ELSE objs' = [objs EXCEPT ![o] = ready]
            /\ faults' \subseteq faults \union {"mixed", "dropped"}
        BY <2>2, <3>4 DEF Part, OnMessageReady
      <4> HIDE DEF ready, slot, o
      <4> QED
        BY <3>1, <3>3, <4>1, ResolveSame, OneObject
    <3>5. CASE msg.pos # msg.size
      <4>1. objs' = [objs EXCEPT ![o] = grown] /\ UNCHANGED faults
        BY <2>2, <3>1, <3>5 DEF Part
      <4> HIDE DEF grown, slot, o
      <4> QED
        BY <3>1, <3>3, <4>1, OneObject
    <3> QED
      BY <3>4, <3>5
  <2> QED
    BY <2>1, <2>2 DEF Part
<1> QED
  BY <1>1, <1>3, ParseQuiet

\* So no frame of a message disturbs LifeInv.
LEMMA MessageQuiet ==
  ASSUME LifeInv, TypeInv', OnReturn \/ OnDeliver \/ OnGetOk \/ OnHeader \/ OnBody
  PROVE  LifeInv'
<1>1. CASE OnReturn \/ OnDeliver \/ OnGetOk
  BY <1>1, StartMessageQuiet DEF OnReturn, OnDeliver, OnGetOk, StartKinds
<1>2. CASE OnHeader
  <2> DEFINE old == objs[Addressed][Slot(objs[Addressed])]
             h == [old EXCEPT !.size = Arrived.size, !.pos = 0, !.whole = (old.n = Arrived.n)]
  <2>1. Parse("header") /\ Part(h) /\ UNCHANGED <<channels, toServer, odd>>
    BY <1>2 DEF OnHeader
  <2> HIDE DEF h
  <2> QED
    BY <2>1, PartQuiet
<1>3. CASE OnBody
  <2> DEFINE old == objs[Addressed][Slot(objs[Addressed])]
             b == [old EXCEPT !.pos = @ + 1, !.whole = @ /\ old.n = Arrived.n]
  <2>1. Parse("body") /\ Part(b) /\ UNCHANGED <<channels, toServer, odd>>
    BY <1>3 DEF OnBody
  <2> HIDE DEF b
  <2> QED
    BY <2>1, PartQuiet
<1> QED
  BY <1>1, <1>2, <1>3

\* The client's part of opening the connection.
LEMMA HandshakeFrameLife ==
  ASSUME LifeInv, TypeInv', OnStart \/ OnTune \/ OnConnectionOpenOk
  PROVE  LifeInv'
<1> DEFINE start == <<Frame("startOk", 0, 1, 0)>>
           tune == <<Frame("tuneOk", 0, 1, 0), Frame("connOpen", 0, 1, 0)>>
           none == << >>
<1>1. toServer \in Seq(ServerFrames) /\ toClient \in Seq(ClientFrames)
  BY DEF LifeInv, TypeInv, WebTypes
<1>2. toClient # << >> /\ toClient' = Tail(toClient) /\ client.socket = "open"
      /\ UNCHANGED <<objs, channels, broker, jobs, odd, faults>>
  BY DEF OnStart, OnTune, OnConnectionOpenOk, Parse, MayParse
<1>3. /\ Frame("startOk", 0, 1, 0) \in ServerFrames /\ Frame("tuneOk", 0, 1, 0) \in ServerFrames
      /\ Frame("connOpen", 0, 1, 0) \in ServerFrames
      /\ Frame("startOk", 0, 1, 0).op = "startOk" /\ Frame("tuneOk", 0, 1, 0).op = "tuneOk"
      /\ Frame("connOpen", 0, 1, 0).op = "connOpen"
  <2>1. "startOk" \in ServerOps /\ "tuneOk" \in ServerOps /\ "connOpen" \in ServerOps
    BY DEF ServerOps
  <2> QED
    BY <2>1, FrameType
<1>4. {"startOk", "tuneOk", "connOpen"} \intersect (ChannelOps \union {"open", "close", "closeOk"}) = {}
  BY DEF ChannelOps, Awaited
<1>5. /\ start \in Seq(ServerFrames) /\ \A i \in DOMAIN start : start[i].op = "startOk"
      /\ tune \in Seq(ServerFrames) /\ \A i \in DOMAIN tune : tune[i].op \in {"tuneOk", "connOpen"}
      /\ none \in Seq(ServerFrames) /\ toServer = toServer \o none /\ DOMAIN none = {}
  <2> DEFINE f == Frame("startOk", 0, 1, 0)
             g == Frame("tuneOk", 0, 1, 0)
             h == Frame("connOpen", 0, 1, 0)
  <2> HIDE DEF f, g, h
  <2>1. <<f>> \in Seq(ServerFrames) /\ \A i \in DOMAIN <<f>> : <<f>>[i].op = "startOk"
    BY <1>3 DEF f
  <2>2. <<g, h>> \in Seq(ServerFrames) /\ \A i \in DOMAIN <<g, h>> : <<g, h>>[i].op \in {"tuneOk", "connOpen"}
    BY <1>3 DEF g, h
  <2> QED
    BY <1>1, <2>1, <2>2, EmptyAppended DEF f, g, h
<1>6. OnStart => toServer' = toServer \o start
  BY <1>2 DEF OnStart, Send
<1>7. OnTune => toServer' = toServer \o tune
  BY <1>2 DEF OnTune, Send
<1>8. OnConnectionOpenOk => toServer' = toServer
  BY DEF OnConnectionOpenOk
<1> HIDE DEF start, tune, none
<1>9. ASSUME broker.state = "handshake" PROVE ~OnConnectionOpenOk /\ ~Connected' /\ jobs' = << >>
  <2>1. ~OnConnectionOpenOk
    <3>1. 1 \in DOMAIN toClient /\ Head(toClient) = toClient[1]
      BY <1>1, <1>2
    <3> QED
      BY <1>9, <3>1 DEF LifeInv, Handshaking, OnConnectionOpenOk, Parse
  <2>2. UNCHANGED calls
    BY <2>1 DEF OnStart, OnTune
  <2> QED
    BY <1>2, <1>9, <2>1, <2>2 DEF LifeInv, Handshaking, Connected
<1>10. CASE OnStart
  BY <1>2, <1>4, <1>5, <1>6, <1>9, <1>10, SameObjects, QuietStep
<1>11. CASE OnTune
  BY <1>2, <1>4, <1>5, <1>7, <1>9, <1>11, SameObjects, QuietStep
<1>12. CASE OnConnectionOpenOk
  BY <1>2, <1>9, <1>12, <1>8, SameObjects, StillQuiet
<1> QED
  BY <1>10, <1>11, <1>12

-----------------------------------------------------------------------------
(* The client learns that a channel is closed. *)

\* No Open and no Close of a channel is on its way, nor anything to the client: the id
\* is free.
LEMMA LifeFree ==
  ASSUME NEW id, NEW ot, NEW state, NEW ch, NEW ts \in Seq(ServerFrames), NEW td,
         NEW f \in ServerFrames, f.op = "closeOk",
         \A i \in DOMAIN td : ~IsOn(td[i], id),
         state = "running" =>
           ~ch.running /\ \A i \in DOMAIN ts : IsAt(ts[i], id) => ts[i].op \notin {"open", "close"}
  PROVE  LifeOf(id, 0, ot, state, ch, ts, td) /\ LifeOf(id, 0, ot, state, ch, ts \o <<f>>, td)
<1> DEFINE tt == ts \o <<f>>
<1>1. \A i \in DOMAIN tt : (i \in DOMAIN ts /\ tt[i] = ts[i]) \/ (i \notin DOMAIN ts /\ tt[i] = f)
  OBVIOUS
<1>2. ToldLife(id, 0, ot, td)
  BY DEF ToldLife
<1> HIDE DEF tt
<1>3. state = "running" => RunningLife(id, 0, ot, ch, ts, td)
  BY DEF RunningLife
<1>4. state = "running" => RunningLife(id, 0, ot, ch, tt, td)
  BY <1>1 DEF RunningLife
<1> QED
  BY <1>2, <1>3, <1>4 DEF LifeOf, tt

\* What Channel.Close and CloseOk tell of the frames on their way.
LEMMA LifeLast ==
  ASSUME NEW id, NEW os, NEW o, NEW state, NEW ch, NEW ts, NEW tc \in Seq(ClientFrames), tc # << >>,
         LifeOf(id, o, os, state, ch, ts, tc), IsOn(tc[1], id),
         (tc[1].m = "close" /\ ~os[o].closed) \/ tc[1].m = "closeOk"
  PROVE  /\ \A i \in DOMAIN Tail(tc) : ~IsOn(Tail(tc)[i], id)
         /\ state = "running" =>
              ~ch.running /\ \A i \in DOMAIN ts : IsAt(ts[i], id) => ts[i].op \notin {"open", "close"}
<1>1. 1 \in DOMAIN tc /\ \A i \in DOMAIN Tail(tc) : i + 1 \in DOMAIN tc /\ 1 < i + 1 /\ Tail(tc)[i] = tc[i + 1]
  BY TailSeq
<1>2. \A j \in DOMAIN tc : 1 < j => ~IsOn(tc[j], id)
  <2> SUFFICES ASSUME NEW j \in DOMAIN tc, 1 < j, IsOn(tc[j], id) PROVE FALSE
    OBVIOUS
  <2>1. tc[1].m # "closeOk" /\ (tc[1].m = "close" => tc[j].m = "closeOk")
    BY <1>1 DEF LifeOf, ToldLife
  <2>2. tc[j].m = "closeOk" => os[o].closed
    BY DEF LifeOf, ToldLife
  <2> QED
    BY <2>1, <2>2
<1>3. ASSUME state = "running"
      PROVE  ~ch.running /\ \A i \in DOMAIN ts : IsAt(ts[i], id) => ts[i].op \notin {"open", "close"}
  BY <1>1, <1>3 DEF LifeOf, RunningLife
<1> QED
  BY <1>1, <1>2, <1>3

\* The client drops the channel a frame has arrived for.
LEMMA DropLife ==
  ASSUME LifeInv, TypeInv', NEW m \in {"close", "closeOk"}, Parse(m), Addressed # 0,
         channels' = [channels EXCEPT ![Arrived.ch] = 0], odd \subseteq odd', UNCHANGED faults,
         DOMAIN objs' = DOMAIN objs, objs'[Addressed].closed,
         \A p \in DOMAIN objs : p # Addressed => objs'[p] = objs[p],
         NEW f \in ServerFrames, f.op = "closeOk", f.ch = Arrived.ch,
         UNCHANGED toServer \/ toServer' = toServer \o <<f>>,
         Clean(Crossed)' => m = "closeOk" \/ ~objs[Addressed].closed
  PROVE  LifeInv'
<1> DEFINE c == Arrived.ch
           o == Addressed
<1>1. TypeInv /\ toClient \in Seq(ClientFrames) /\ toServer \in Seq(ServerFrames) /\ channels \in [Ids -> Nat]
      /\ toClient # << >> /\ Arrived.m = m /\ m \in ChannelKinds /\ toClient' = Tail(toClient) /\ UNCHANGED broker
  BY DEF LifeInv, TypeInv, WebTypes, Parse, Arrived, ChannelKinds, ReplyKinds
<1>2. c \in Ids /\ 1 \in DOMAIN toClient /\ Arrived = toClient[1] /\ o = channels[c]
  BY <1>1, ArrivedTypes DEF Addressed
<1>3. channels'[c] = 0 /\ \A id \in Ids : id # c => channels'[id] = channels[id]
  BY <1>1, <1>2
<1>4. o \in DOMAIN objs
  BY <1>1, AddressedTypes
<1> HIDE DEF c, o
<1>5. Handshaking'
  <2>1. \A i \in DOMAIN toClient' : \E j \in DOMAIN toClient : toClient'[i] = toClient[j]
    BY <1>1, TailElements
  <2>2. broker.state # "handshake"
    BY <1>1, <1>2 DEF LifeInv, Handshaking
  <2> QED
    BY <1>1, <2>1, <2>2 DEF LifeInv, Handshaking
<1>6. ChannelsRest'
  BY <1>1 DEF LifeInv, ChannelsRest
<1>7. OpenListed'
  <2> SUFFICES ASSUME NEW p \in DOMAIN objs', ~objs'[p].closed PROVE channels'[objs'[p].id] = p
    BY DEF OpenListed
  <2>1. p # o /\ p \in DOMAIN objs
    BY DEF o
  <2>2. objs'[p] = objs[p]
    BY <2>1 DEF o
  <2>3. channels[objs[p].id] = p /\ objs[p].id \in Ids
    BY <1>1, <2>1, <2>2, ObjectTypes DEF LifeInv, OpenListed
  <2>4. objs[p].id # c
    BY <1>2, <2>1, <2>3
  <2> QED
    BY <1>3, <2>2, <2>3, <2>4
<1>8. Clean(Crossed)' => Clean(Crossed)
  BY DEF Clean
<1>9. ASSUME Clean(Crossed)', NEW id \in Ids PROVE Life(id)'
  <2>0. Life(id)
    BY <1>8, <1>9 DEF LifeInv
  <2>1. CASE id = c
    <3>1. LifeOf(c, o, objs, broker.state, broker.ch[c], toServer, toClient)
      BY <1>2, <2>0, <2>1 DEF Life
    <3>2. IsOn(toClient[1], c)
      BY <1>1, <1>2 DEF IsOn, HeededKinds, MessageKinds, StartKinds, c
    <3>3. (toClient[1].m = "close" /\ ~objs[o].closed) \/ toClient[1].m = "closeOk"
      BY <1>1, <1>2, <1>9 DEF o
    <3>4. /\ \A i \in DOMAIN Tail(toClient) : ~IsOn(Tail(toClient)[i], c)
          /\ broker.state = "running" => /\ ~broker.ch[c].running
                 /\ \A i \in DOMAIN toServer : IsAt(toServer[i], c) => toServer[i].op \notin {"open", "close"}
      BY <1>1, <3>1, <3>2, <3>3, LifeLast
    <3> DEFINE td == Tail(toClient)
    <3>7. \A i \in DOMAIN td : ~IsOn(td[i], c)
      BY <3>4
    <3> HIDE DEF td
    <3>5. /\ LifeOf(c, 0, objs', broker.state, broker.ch[c], toServer, td)
          /\ LifeOf(c, 0, objs', broker.state, broker.ch[c], toServer \o <<f>>, td)
      BY <1>1, <3>4, <3>7, LifeFree
    <3>6. LifeOf(c, 0, objs', broker.state, broker.ch[c], toServer', toClient')
      BY <1>1, <3>5 DEF td
    <3> QED
      BY <1>1, <1>3, <2>1, <3>6 DEF Life
  <2>2. CASE id # c
    <3> DEFINE one == <<f>>
    <3>1. one \in Seq(ServerFrames) /\ \A i \in DOMAIN one : ~IsAt(one[i], id)
      BY <2>2 DEF IsAt, c
    <3>2. UNCHANGED toServer \/ toServer' = toServer \o one
      OBVIOUS
    <3> HIDE DEF one
    <3>3. LifeOf(id, channels[id], objs, broker.state, broker.ch[id], toServer \o one, toClient)
      BY <1>1, <2>0, <3>1, LifeSent DEF Life
    <3>4. LifeOf(id, channels[id], objs, broker.state, broker.ch[id], toServer', toClient)
      BY <2>0, <3>2, <3>3 DEF Life
    <3>5. LifeOf(id, channels[id], objs, broker.state, broker.ch[id], toServer', Tail(toClient))
      BY <1>1, <3>4, LifeRead
    <3>6. channels[id] # 0 /\ objs[channels[id]].closed => objs'[channels[id]].closed
      <4>1. channels[id] # 0 => channels[id] \in DOMAIN objs
        BY <1>1, ListedObject
      <4> QED
        BY <4>1
    <3>7. LifeOf(id, channels[id], objs', broker.state, broker.ch[id], toServer', Tail(toClient))
      BY <3>5, <3>6, LifeObjs
    <3> QED
      BY <1>1, <1>3, <2>2, <3>7 DEF Life
  <2> QED
    BY <2>1, <2>2
<1> QED
  BY <1>5, <1>6, <1>7, <1>8, <1>9 DEF LifeInv

\* setClosed closes the object and leaves it its id.
LEMMA SetClosedIs ==
  ASSUME TypeInv, NEW o \in DOMAIN objs
  PROVE  SetClosed(o).closed /\ SetClosed(o).id = objs[o].id /\ SetClosed(o) \in Objects
<1>1. objs[o] \in Objects /\ SetClosed(o) \in Objects
  BY SetClosedTyped, ObjectTypes
<1>2. SetClosed(o).closed /\ SetClosed(o).id = objs[o].id
  BY <1>1 DEF SetClosed, Objects
<1> QED
  BY <1>1, <1>2

\* ResolvePromise leaves the other objects alone, and closed as it is given.
LEMMA ResolveOne ==
  ASSUME objs \in Seq(Objects), NEW o \in DOMAIN objs, NEW obj \in Objects, NEW by, NEW tag, ResolvePromise(o, obj, by, tag)
  PROVE  /\ DOMAIN objs' = DOMAIN objs /\ objs'[o].closed = obj.closed
         /\ \A p \in DOMAIN objs : p # o => objs'[p] = objs[p]
<1>1. CASE obj.promises = << >>
  BY <1>1 DEF ResolvePromise
<1>2. CASE obj.promises # << >>
  <2> DEFINE rest == [obj EXCEPT !.promises = Tail(@)]
  <2>1. rest.closed = obj.closed
    BY DEF Objects
  <2>2. objs' = [objs EXCEPT ![o] = rest]
    BY <1>2 DEF ResolvePromise
  <2> HIDE DEF rest
  <2> QED
    BY <2>1, <2>2
<1> QED
  BY <1>1, <1>2

\* A Close of the broker frees the id, and CloseOk is all that is sent on it.
LEMMA ChannelCloseLife ==
  ASSUME LifeInv, OnChannelClose
  PROVE  LifeInv'
<1> DEFINE f == Frame("closeOk", Arrived.ch, 0, 0)
<1>1. TypeInv /\ TypeInv' /\ Parse("close") /\ UNCHANGED <<jobs, faults>> /\ odd \subseteq odd' /\ Send(<<f>>)
      /\ client.socket = "open"
  BY ChannelCloseTyped DEF LifeInv, OnChannelClose, Parse, MayParse
<1>2. toClient # << >> /\ Arrived.m = "close" /\ "close" \in ChannelKinds /\ toClient' = Tail(toClient)
      /\ UNCHANGED broker
  BY <1>1 DEF Parse, Arrived, ChannelKinds
<1>7. Arrived.m \in HeededKinds
  BY <1>2 DEF HeededKinds, MessageKinds, StartKinds
<1>3. f \in ServerFrames /\ f.op = "closeOk" /\ f.ch = Arrived.ch
  <2>1. "closeOk" \in ServerOps /\ 0 \in Nat /\ Arrived.ch \in Nat
    BY <1>1, <1>2, ReplyTypes DEF ServerOps, ChannelOps
  <2> QED
    BY <2>1, FrameType
<1>4. toServer' = toServer \o <<f>>
  BY <1>1 DEF Send
<1> HIDE DEF f
<1>5. CASE Addressed = 0
  <2>1. UNCHANGED <<calls, objs, channels, odd>>
    BY <1>5 DEF OnChannelClose
  <2>2. toClient \in Seq(ClientFrames) /\ 1 \in DOMAIN toClient /\ Arrived = toClient[1]
    BY <1>1, <1>2, ArrivedTypes DEF TypeInv, WebTypes
  <2>3. Handshaking'
    <3>1. \A i \in DOMAIN toClient' : \E j \in DOMAIN toClient : toClient'[i] = toClient[j]
      BY <1>2, <2>2, TailElements
    <3>2. broker.state # "handshake"
      BY <1>2, <2>2 DEF LifeInv, Handshaking
    <3> QED
      BY <1>2, <3>1, <3>2 DEF LifeInv, Handshaking
  <2>4. ChannelsRest' /\ OpenListed'
    BY <1>2, <2>1 DEF LifeInv, ChannelsRest, OpenListed
  <2>5. ~Clean(Crossed)'
    <3>1. ~Clean(Crossed)
      BY <1>2, <1>5, <1>7, ArrivedListed
    <3> QED
      BY <2>1, <3>1 DEF Clean
  <2> QED
    BY <1>1, <2>3, <2>4, <2>5 DEF LifeInv
<1>6. CASE Addressed # 0
  <2>1. /\ objs' = [objs EXCEPT ![Addressed] = SetClosed(Addressed)]
        /\ channels' = [channels EXCEPT ![Arrived.ch] = 0]
        /\ odd' = IF objs[Addressed].closed THEN odd \union {"closes crossed"} ELSE odd
    BY <1>6 DEF OnChannelClose
  <2>2. Addressed \in DOMAIN objs
    BY <1>1, <1>2, <1>6, AddressedTypes
  <2>3. DOMAIN objs' = DOMAIN objs /\ objs'[Addressed].closed
        /\ \A p \in DOMAIN objs : p # Addressed => objs'[p] = objs[p]
    BY <1>1, <2>1, <2>2, SetClosedIs
  <2>4. Clean(Crossed)' => ~objs[Addressed].closed
    BY <2>1 DEF Clean, Crossed
  <2> QED
    BY <1>1, <1>3, <1>4, <1>6, <2>1, <2>3, <2>4, DropLife
<1> QED
  BY <1>5, <1>6

\* A CloseOk of the broker frees the id; it is the last the broker says of the channel.
LEMMA ChannelCloseOkLife ==
  ASSUME LifeInv, OnChannelCloseOk
  PROVE  LifeInv'
<1> DEFINE f == Frame("closeOk", Arrived.ch, 0, 0)
<1>1. TypeInv /\ TypeInv' /\ Parse("closeOk") /\ odd \subseteq odd' /\ UNCHANGED <<client, toServer>>
  BY ChannelCloseOkTyped DEF LifeInv, OnChannelCloseOk
<1>2. toClient # << >> /\ Arrived.m = "closeOk" /\ "closeOk" \in ChannelKinds /\ "closeOk" \in HeededKinds
  BY <1>1 DEF Parse, Arrived, HeededKinds, ChannelKinds, ReplyKinds, MessageKinds, StartKinds
<1>3. f \in ServerFrames /\ f.op = "closeOk" /\ f.ch = Arrived.ch
  <2>1. "closeOk" \in ServerOps /\ 0 \in Nat /\ Arrived.ch \in Nat
    BY <1>1, <1>2, ReplyTypes DEF ServerOps, ChannelOps, ReplyKinds
  <2> QED
    BY <2>1, FrameType
<1> HIDE DEF f
<1>4. CASE Addressed = 0
  <2>1. UNCHANGED <<calls, objs, channels, jobs, odd>>
    BY <1>4 DEF OnChannelCloseOk
  <2> QED
    BY <1>1, <1>2, <1>4, <2>1, SameObjects, ParseQuiet
<1>5. CASE Addressed # 0
  <2>1. /\ IF objs[Addressed].closed
           THEN ResolvePromise(Addressed, SetClosed(Addressed), Arrived.call, 0)
           ELSE objs' = [objs EXCEPT ![Addressed] = SetClosed(Addressed)]
        /\ channels' = [channels EXCEPT ![Arrived.ch] = 0] /\ UNCHANGED faults
    BY <1>5 DEF OnChannelCloseOk
  <2>2. Addressed \in DOMAIN objs /\ objs \in Seq(Objects)
    BY <1>1, <1>2, <1>5, AddressedTypes DEF TypeInv, WebTypes
  <2>3. SetClosed(Addressed).closed /\ SetClosed(Addressed) \in Objects
    BY <1>1, <2>2, SetClosedIs
  <2>4. DOMAIN objs' = DOMAIN objs /\ objs'[Addressed].closed
        /\ \A p \in DOMAIN objs : p # Addressed => objs'[p] = objs[p]
    <3>1. CASE objs[Addressed].closed
      BY <2>1, <2>2, <2>3, <3>1, ResolveOne
    <3>2. CASE ~objs[Addressed].closed
      BY <2>1, <2>2, <2>3, <3>2
    <3> QED
      BY <3>1, <3>2
  <2> QED
    BY <1>1, <1>3, <1>5, <2>1, <2>4, DropLife
<1> QED
  BY <1>4, <1>5

\* The client learns that the connection is closed, or that its own Close was read.
LEMMA AllClosedLife ==
  ASSUME LifeInv, OnConnectionClose \/ OnConnectionCloseOk
  PROVE  LifeInv'
<1>1. /\ TypeInv /\ TypeInv' /\ odd \subseteq odd' /\ UNCHANGED <<jobs, broker, faults>>
      /\ objs' = [o \in DOMAIN objs |-> IF o \in Listed THEN SetClosed(o) ELSE objs[o]]
      /\ channels' = [id \in Ids |-> 0] /\ toClient' = << >> /\ toClient # << >>
      /\ Arrived.m \in {"connClose", "connCloseOk"}
  BY ConnectionCloseTyped, ConnectionCloseOkTyped DEF LifeInv, OnConnectionClose, OnConnectionCloseOk
<1>2. broker.state # "running"
  <2>1. 1 \in DOMAIN toClient /\ Arrived = toClient[1]
    BY <1>1, ArrivedTypes
  <2> QED
    BY <1>1, <2>1 DEF LifeInv, Handshaking
<1>3. toServer \in Seq(ServerFrames)
  BY <1>1 DEF TypeInv, WebTypes
<1>4. \A i \in DOMAIN toServer' : (i \in DOMAIN toServer /\ toServer'[i] = toServer[i])
                                  \/ toServer'[i].op = "connCloseOk"
  <2> DEFINE f == Frame("connCloseOk", 0, 0, 0)
  <2>1. f \in ServerFrames /\ f.op = "connCloseOk"
    <3>1. "connCloseOk" \in ServerOps
      BY DEF ServerOps
    <3> QED
      BY <3>1, FrameType
  <2>2. CASE OnConnectionClose
    <3>1. toServer' = Append(toServer, f)
      BY <2>2 DEF OnConnectionClose
    <3> HIDE DEF f
    <3>2. \A i \in DOMAIN Append(toServer, f) :
            (i \in DOMAIN toServer /\ Append(toServer, f)[i] = toServer[i]) \/ Append(toServer, f)[i] = f
      BY <1>3, <2>1, AppendSeq
    <3> QED
      BY <2>1, <3>1, <3>2
  <2>3. CASE OnConnectionCloseOk
    BY <2>3 DEF OnConnectionCloseOk
  <2> QED
    BY <2>2, <2>3
<1>5. ~Connected => ~Connected'
  <2>1. calls[1].op = "connect" /\ 1 \in DOMAIN calls /\ calls[1] \in CallRecords
    BY <1>1 DEF TypeInv, WebTypes, CallsLinked
  <2>2. client.closing # 1
    BY <1>1, <2>1 DEF TypeInv, ClientLinked, Made
  <2>3. calls'[1] = calls[1] \/ calls'[1].st = "rejected"
    <3>1. PICK K : calls'[1] = Settled(K, "rejected", 0)[1]
      BY <2>1, <2>2 DEF OnConnectionClose, OnConnectionCloseOk
    <3>2. CASE 1 \in K /\ Pending(1)
      <4>1. Settled(K, "rejected", 0)[1] = [calls[1] EXCEPT !.st = "rejected", !.by = 0]
        BY <2>1, <3>2 DEF Settled
      <4> QED
        BY <2>1, <3>1, <4>1 DEF CallRecords
    <3>3. CASE ~(1 \in K /\ Pending(1))
      BY <2>1, <3>1, <3>3 DEF Settled
    <3> QED
      BY <3>2, <3>3
  <2> QED
    BY <2>3 DEF Connected
<1>6. Handshaking'
  <2>1. "connCloseOk" \notin ChannelOps
    BY DEF ChannelOps, Awaited
  <2>2. ASSUME broker.state = "handshake"
        PROVE  /\ \A i \in DOMAIN toServer' : toServer'[i].op \notin ChannelOps
               /\ ~Connected' /\ jobs' = << >> /\ \A id \in Ids : ~broker.ch[id].running
    <3>1. /\ \A i \in DOMAIN toServer : toServer[i].op \notin ChannelOps
          /\ ~Connected /\ jobs = << >> /\ \A id \in Ids : ~broker.ch[id].running
      BY <2>2 DEF LifeInv, Handshaking
    <3>2. \A i \in DOMAIN toServer' : toServer'[i].op \notin ChannelOps
      BY <1>4, <2>1, <3>1
    <3> QED
      BY <1>1, <1>5, <3>1, <3>2
  <2>3. UNCHANGED broker /\ DOMAIN toClient' = {}
    BY <1>1
  <2> QED
    BY <1>2, <2>2, <2>3 DEF Handshaking
<1>7. ChannelsRest'
  BY <1>1 DEF LifeInv, ChannelsRest
<1>8. OpenListed'
  <2> SUFFICES ASSUME NEW o \in DOMAIN objs', ~objs'[o].closed PROVE FALSE
    BY DEF OpenListed
  <2>1. o \in DOMAIN objs
    BY <1>1
  <2>2. o \notin Listed /\ ~objs[o].closed
    BY <1>1, <2>1, SetClosedIs
  <2>3. channels[objs[o].id] = o /\ objs[o].id \in Ids
    BY <1>1, <2>1, <2>2, ObjectTypes DEF LifeInv, OpenListed
  <2> QED
    BY <2>1, <2>2, <2>3 DEF Listed
<1>9. \A id \in Ids : Life(id)'
  BY <1>1, <1>2 DEF Life, LifeOf, ToldLife
<1>10. Clean(Crossed)' => Clean(Crossed)
  BY <1>1 DEF Clean
<1> QED
  BY <1>1, <1>6, <1>7, <1>8, <1>9, <1>10 DEF LifeInv

\* Every frame the client parses.
LEMMA ParseFrameLife ==
  ASSUME LifeInv, ParseFrame
  PROVE  LifeInv'
<1>1. TypeInv'
  BY ParseFrameTyped DEF LifeInv
<1>2. CASE OnStart \/ OnTune \/ OnConnectionOpenOk
  BY <1>1, <1>2, HandshakeFrameLife
<1>3. CASE OnConnectionClose \/ OnConnectionCloseOk
  BY <1>3, AllClosedLife
<1>4. CASE OnChannelOpenOk \/ OnTopologyOk \/ OnFlowOk \/ OnConsumerOk \/ OnGetEmpty
  BY <1>4, ReplyQuiet DEF OnChannelOpenOk, OnTopologyOk, OnFlowOk, OnConsumerOk, OnGetEmpty, ReplyKinds
<1>5. CASE OnSelectOk \/ OnChannelClose \/ OnChannelCloseOk
  BY <1>5, SelectOkQuiet, ChannelCloseLife, ChannelCloseOkLife
<1>6. CASE OnAck \/ OnNack
  BY <1>1, <1>6, ConfirmedQuiet DEF OnAck, OnNack
<1>7. CASE OnCancel
  <2>1. Parse("cancel") /\ "cancel" \in ChannelKinds /\ UNCHANGED <<objs, channels, toServer, odd, faults>>
    BY <1>7 DEF OnCancel, ChannelKinds
  <2> QED
    BY <1>1, <2>1, SameObjects, ParseQuiet
<1>8. CASE OnReturn \/ OnDeliver \/ OnGetOk \/ OnHeader \/ OnBody
  BY <1>1, <1>8, MessageQuiet
<1> QED
  BY <1>2, <1>3, <1>4, <1>5, <1>6, <1>7, <1>8 DEF ParseFrame

-----------------------------------------------------------------------------
(* The broker opens and closes a channel. *)

\* The broker has read the Open of a channel and answers.
LEMMA LifeOpened ==
  ASSUME NEW id, NEW o, NEW os, NEW ch, NEW new, NEW ts \in Seq(ServerFrames), ts # << >>,
         NEW tc \in Seq(ClientFrames), NEW f \in ClientFrames,
         LifeOf(id, o, os, "running", ch, ts, tc), IsAt(ts[1], id), ts[1].op = "open", f.m = "openOk"
  PROVE  LifeOf(id, o, os, "running", new, Tail(ts), tc \o <<f>>)
<1> DEFINE td == tc \o <<f>>
           tt == Tail(ts)
<1>1. \A i \in DOMAIN td : (i \in DOMAIN tc /\ td[i] = tc[i]) \/ (i = Len(tc) + 1 /\ td[i] = f)
  OBVIOUS
<1>2. 1 \in DOMAIN ts /\ \A i \in DOMAIN tt : i \in Nat /\ i + 1 \in DOMAIN ts /\ 1 < i + 1 /\ tt[i] = ts[i + 1]
  BY TailSeq
<1>3. \A i, j \in DOMAIN tt : i < j => i + 1 < j + 1
  BY <1>2
<1> HIDE DEF td, tt
<1>4. o # 0 /\ \A i \in DOMAIN tc : ~IsOn(tc[i], id)
  BY <1>2 DEF LifeOf, RunningLife
<1>5. \A i \in DOMAIN td : IsOn(td[i], id) => i = Len(tc) + 1 /\ td[i].m = "openOk"
  BY <1>1, <1>4
<1>6. ToldLife(id, o, os, td)
  BY <1>4, <1>5 DEF ToldLife
<1>7. \A i \in DOMAIN tt : IsAt(tt[i], id) => tt[i].op \notin {"open", "closeOk"}
  BY <1>2 DEF LifeOf, RunningLife
<1>8. RunningLife(id, o, os, new, tt, td)
  BY <1>2, <1>3, <1>4, <1>5, <1>7 DEF LifeOf, RunningLife
<1> QED
  BY <1>6, <1>8 DEF LifeOf, td, tt

\* The broker has read the Close of a channel and answers.
LEMMA LifeClosed ==
  ASSUME NEW id, NEW o, NEW os, NEW ch, NEW new, ~new.running, NEW ts \in Seq(ServerFrames), ts # << >>,
         NEW tc \in Seq(ClientFrames), NEW f \in ClientFrames,
         LifeOf(id, o, os, "running", ch, ts, tc), IsAt(ts[1], id), ts[1].op = "close", f.m = "closeOk"
  PROVE  LifeOf(id, o, os, "running", new, Tail(ts), tc \o <<f>>)
<1> DEFINE td == tc \o <<f>>
           tt == Tail(ts)
<1>1. /\ \A i \in DOMAIN td : (i \in DOMAIN tc /\ td[i] = tc[i]) \/ (i = Len(tc) + 1 /\ td[i] = f)
      /\ \A i, j \in DOMAIN td : i < j => i \in DOMAIN tc
  OBVIOUS
<1>2. 1 \in DOMAIN ts /\ \A i \in DOMAIN tt : i \in Nat /\ i + 1 \in DOMAIN ts /\ 1 < i + 1 /\ tt[i] = ts[i + 1]
  BY TailSeq
<1> HIDE DEF td, tt
<1>4. o # 0 /\ os[o].closed /\ \A i \in DOMAIN tc : IsOn(tc[i], id) => tc[i].m # "closeOk"
  BY <1>2 DEF LifeOf, RunningLife
<1>5. ToldLife(id, o, os, td)
  <2>1. \A i, j \in DOMAIN td : i < j /\ IsOn(td[i], id) /\ IsOn(td[j], id) =>
          td[i].m # "closeOk" /\ (td[i].m = "close" => td[j].m = "closeOk")
    BY <1>1, <1>4 DEF LifeOf, ToldLife
  <2> QED
    BY <1>4, <2>1 DEF ToldLife
<1>6. \A i \in DOMAIN tt : IsAt(tt[i], id) => tt[i].op \notin {"open", "close", "closeOk"}
  BY <1>2 DEF LifeOf, RunningLife
<1>7. RunningLife(id, o, os, new, tt, td)
  BY <1>6 DEF RunningLife
<1> QED
  BY <1>5, <1>7 DEF LifeOf, td, tt

\* The broker closes a channel that runs.
LEMMA LifeRefused ==
  ASSUME NEW id, NEW o, NEW os, NEW ch, ch.running, NEW new, ~new.running, NEW ts \in Seq(ServerFrames), ts # << >>,
         NEW tc \in Seq(ClientFrames), NEW f \in ClientFrames,
         LifeOf(id, o, os, "running", ch, ts, tc), f.m = "close"
  PROVE  LifeOf(id, o, os, "running", new, Tail(ts), tc \o <<f>>)
<1> DEFINE td == tc \o <<f>>
           tt == Tail(ts)
<1>1. /\ \A i \in DOMAIN td : (i \in DOMAIN tc /\ td[i] = tc[i]) \/ (i = Len(tc) + 1 /\ td[i] = f)
      /\ \A i, j \in DOMAIN td : i < j => i \in DOMAIN tc
  OBVIOUS
<1>2. \A i \in DOMAIN tt : i \in Nat /\ i + 1 \in DOMAIN ts /\ tt[i] = ts[i + 1]
  BY TailSeq
<1>3. \A i, j \in DOMAIN tt : i < j => i + 1 < j + 1
  BY <1>2
<1> HIDE DEF td, tt
<1>4. o # 0 /\ \A i \in DOMAIN tc : IsOn(tc[i], id) => tc[i].m \notin {"close", "closeOk"}
  BY DEF LifeOf, RunningLife
<1>5. ToldLife(id, o, os, td)
  <2>1. \A i, j \in DOMAIN td : i < j /\ IsOn(td[i], id) => td[i].m \notin {"close", "closeOk"}
    BY <1>1, <1>4
  <2>2. \A i \in DOMAIN td : IsOn(td[i], id) => td[i].m # "closeOk"
    BY <1>1, <1>4
  <2> QED
    BY <1>4, <2>1, <2>2 DEF ToldLife
<1>6. \A i \in DOMAIN tt : IsAt(tt[i], id) => tt[i].op \notin {"open", "closeOk"}
  BY <1>2 DEF LifeOf, RunningLife
<1>7. \A i \in DOMAIN td : IsOn(td[i], id) => td[i].m # "closeOk"
  BY <1>1, <1>4
<1>8. RunningLife(id, o, os, new, tt, td)
  BY <1>2, <1>3, <1>4, <1>6, <1>7 DEF LifeOf, RunningLife
<1> QED
  BY <1>5, <1>8 DEF LifeOf, td, tt

\* The broker reads a frame of a channel, says something on it and goes on with it as ch.
LEMMA BrokerOn ==
  ASSUME LifeInv, TypeInv', NEW op \in ChannelOps, Reads(op), UNCHANGED odd,
         NEW ch \in Channels, Sets(ch), ~ch.running => ch = NoChannel,
         NEW f \in ClientFrames, f.ch = Asked.ch, f.m \notin {"connClose", "connCloseOk"}, toClient' = toClient \o <<f>>,
         LifeOf(Asked.ch, channels[Asked.ch], objs, "running", On, toServer, toClient) =>
           LifeOf(Asked.ch, channels[Asked.ch], objs, "running", ch, Tail(toServer), toClient \o <<f>>)
  PROVE  LifeInv'
<1> DEFINE c == Asked.ch
<1>1. TypeInv /\ toClient \in Seq(ClientFrames) /\ toServer \in Seq(ServerFrames)
      /\ broker.state = "running" /\ toServer # << >> /\ toServer' = Tail(toServer)
      /\ UNCHANGED <<calls, objs, channels, jobs, faults>>
  BY DEF LifeInv, TypeInv, WebTypes, Reads
<1>2. c \in Ids
  BY <1>1, ReadOp
<1>3. broker'.state = "running" /\ broker'.ch[c] = ch /\ \A id \in Ids \ {c} : broker'.ch[id] = broker.ch[id]
  BY <1>1, <1>2, BrokerSet DEF Sets
<1> HIDE DEF c
<1>4. Handshaking'
  <2> DEFINE one == <<f>>
  <2>1. one \in Seq(ClientFrames) /\ \A i \in DOMAIN one : one[i] = f
    OBVIOUS
  <2>2. toClient' = toClient \o one
    OBVIOUS
  <2> HIDE DEF one
  <2>3. \A i \in DOMAIN (toClient \o one) : \/ i \in DOMAIN toClient /\ (toClient \o one)[i] = toClient[i]
                                            \/ \E j \in DOMAIN one : (toClient \o one)[i] = one[j]
    BY <1>1, <2>1, ConcatElements
  <2>4. \A i \in DOMAIN toClient : toClient[i].m \notin {"connClose", "connCloseOk"}
    BY <1>1 DEF LifeInv, Handshaking
  <2>5. \A i \in DOMAIN toClient' : toClient'[i].m \notin {"connClose", "connCloseOk"}
    BY <2>1, <2>2, <2>3, <2>4
  <2> QED
    BY <1>3, <2>5 DEF Handshaking
<1>5. ChannelsRest' /\ OpenListed'
  BY <1>1, <1>3 DEF LifeInv, ChannelsRest, OpenListed
<1>6. ASSUME NEW id \in Ids, Life(id) PROVE Life(id)'
  <2>1. CASE id = c
    <3>1. LifeOf(id, channels[id], objs, "running", On, toServer, toClient)
      BY <1>1, <1>6, <2>1 DEF Life, On, c
    <3>2. LifeOf(id, channels[id], objs, "running", ch, Tail(toServer), toClient \o <<f>>)
      BY <2>1, <3>1 DEF c
    <3> QED
      BY <1>1, <1>3, <2>1, <3>2 DEF Life
  <2>2. CASE id # c
    <3> DEFINE one == <<f>>
    <3>1. one \in Seq(ClientFrames) /\ \A i \in DOMAIN one : ~IsOn(one[i], id)
      BY <2>2 DEF IsOn, c
    <3>2. toClient' = toClient \o one
      OBVIOUS
    <3> HIDE DEF one
    <3>3. LifeOf(id, channels[id], objs, "running", broker.ch[id], toServer, toClient \o one)
      BY <1>1, <1>6, <3>1, LifeTold DEF Life
    <3>4. LifeOf(id, channels[id], objs, "running", broker.ch[id], Tail(toServer), toClient \o one)
      BY <1>1, <3>3, LifeServed, ConcatSeq
    <3> QED
      BY <1>1, <1>3, <2>2, <3>2, <3>4 DEF Life
  <2> QED
    BY <2>1, <2>2
<1>7. Clean(Crossed)' => Clean(Crossed)
  BY DEF Clean
<1> QED
  BY <1>1, <1>4, <1>5, <1>6, <1>7 DEF LifeInv

\* The frame of a reply.
LEMMA OutFrame ==
  ASSUME NEW m \in ReplyKinds \union {"close", "connClose"}, NEW f \in ServerFrames, NEW tag \in Nat
  PROVE  LET g == [m |-> m, ch |-> f.ch, call |-> f.call, tag |-> tag]
         IN  Out(m, f, tag) = <<g>> /\ g \in ClientFrames /\ g.m = m /\ g.ch = f.ch
BY DEF Out, ServerFrames, ReplyFrames, ClientFrames

\* Open, Close and CloseOk are read.
LEMMA BrokerLife ==
  ASSUME LifeInv, BrokerOpen \/ BrokerClose
  PROVE  LifeInv'
<1>1. TypeInv /\ TypeInv'
  BY BrokerLifeTyped DEF LifeInv
<1>2. "open" \in ChannelOps /\ "close" \in ChannelOps /\ "openOk" \in ReplyKinds /\ "closeOk" \in ReplyKinds
  BY DEF ChannelOps, Awaited, ReplyKinds
<1>3. toClient \in Seq(ClientFrames) /\ toServer \in Seq(ServerFrames)
  BY <1>1 DEF TypeInv, WebTypes
<1>4. toServer # << >> /\ Asked \in ServerFrames /\ Asked.ch \in Ids /\ Asked.op \in {"open", "close"}
  BY <1>1, <1>2, ReadOp DEF BrokerOpen, BrokerClose
<1>5. IsAt(toServer[1], Asked.ch) /\ Asked = toServer[1]
  BY <1>1, <1>2, <1>4, AskedTypes DEF IsAt
<1>6. CASE BrokerOpen
  <2> DEFINE f == [m |-> "openOk", ch |-> Asked.ch, call |-> Asked.call, tag |-> 0]
             ch == [NoChannel EXCEPT !.running = TRUE]
  <2>1. Out("openOk", Asked, 0) = <<f>> /\ f \in ClientFrames /\ f.m = "openOk" /\ f.ch = Asked.ch
    BY <1>2, <1>4, OutFrame
  <2>2. Reads("open") /\ Sets(ch) /\ UNCHANGED odd /\ toClient' = toClient \o <<f>>
    BY <1>6, <2>1 DEF BrokerOpen, Says, Answers
  <2>3. ch \in Channels /\ ch.running
    BY NoChannelType DEF Channels
  <2> HIDE DEF f, ch
  <2>4. Asked.op = "open"
    BY <2>2 DEF Reads
  <2>5. LifeOf(Asked.ch, channels[Asked.ch], objs, "running", On, toServer, toClient) =>
           LifeOf(Asked.ch, channels[Asked.ch], objs, "running", ch, Tail(toServer), toClient \o <<f>>)
    BY <1>3, <1>4, <1>5, <2>1, <2>4, LifeOpened
  <2> QED
    BY <1>1, <1>2, <2>1, <2>2, <2>3, <2>5, BrokerOn
<1>7. CASE BrokerClose
  <2> DEFINE f == [m |-> "closeOk", ch |-> Asked.ch, call |-> Asked.call, tag |-> 0]
  <2>1. Out("closeOk", Asked, 0) = <<f>> /\ f \in ClientFrames /\ f.m = "closeOk" /\ f.ch = Asked.ch
    BY <1>2, <1>4, OutFrame
  <2>2. Reads("close") /\ Sets(NoChannel) /\ UNCHANGED odd /\ toClient' = toClient \o <<f>>
    BY <1>7, <2>1 DEF BrokerClose, Says, Answers
  <2> HIDE DEF f
  <2>4. Asked.op = "close"
    BY <2>2 DEF Reads
  <2>5. LifeOf(Asked.ch, channels[Asked.ch], objs, "running", On, toServer, toClient) =>
           LifeOf(Asked.ch, channels[Asked.ch], objs, "running", NoChannel, Tail(toServer), toClient \o <<f>>)
    BY <1>3, <1>4, <1>5, <2>1, <2>4, NoChannelType, LifeClosed
  <2> QED
    BY <1>1, <1>2, <2>1, <2>2, <2>5, NoChannelType, BrokerOn
<1> QED
  BY <1>6, <1>7

\* A frame is read on a channel; nothing that closes it is said.
LEMMA ReadQuiet ==
  ASSUME LifeInv, TypeInv', NEW op \in ChannelOps, Reads(op), odd \subseteq odd',
         NEW fs \in Seq(ClientFrames), toClient' = toClient \o fs,
         \A i \in DOMAIN fs : /\ fs[i].ch = Asked.ch /\ On.running
                              /\ fs[i].m \notin {"close", "closeOk", "connClose", "connCloseOk"},
         UNCHANGED broker \/ (\E ch \in Channels : Sets(ch) /\ (ch = NoChannel \/ (ch.running /\ On.running)))
  PROVE  LifeInv'
<1>1. /\ TypeInv /\ broker.state = "running" /\ toServer # << >> /\ toServer' = Tail(toServer)
      /\ UNCHANGED <<calls, objs, channels, jobs, faults>>
  BY DEF LifeInv, Reads
<1>2. Asked.ch \in Ids
  BY <1>1, ReadOp
<1>3. /\ broker'.state = "running"
      /\ \A id \in Ids : broker'.ch[id].running => broker.ch[id].running
      /\ ChannelsRest'
  <2>1. CASE UNCHANGED broker
    BY <1>1, <2>1 DEF LifeInv, ChannelsRest
  <2>2. ASSUME NEW ch \in Channels, Sets(ch), ch = NoChannel \/ (ch.running /\ On.running)
        PROVE  /\ broker'.state = "running"
               /\ \A id \in Ids : broker'.ch[id].running => broker.ch[id].running
               /\ ChannelsRest'
    <3>1. broker'.state = "running" /\ broker'.ch[Asked.ch] = ch
          /\ \A id \in Ids \ {Asked.ch} : broker'.ch[id] = broker.ch[id]
      BY <1>1, <1>2, <2>2, BrokerSet DEF Sets
    <3>2. ch.running => broker.ch[Asked.ch].running
      BY <2>2, NoChannelType DEF On
    <3>3. \A id \in Ids : broker'.ch[id].running => broker.ch[id].running
      BY <3>1, <3>2
    <3>4. ~ch.running => ch = NoChannel
      BY <2>2
    <3>5. ChannelsRest'
      BY <3>1, <3>4 DEF LifeInv, ChannelsRest
    <3> QED
      BY <3>1, <3>3, <3>5
  <2> QED
    BY <2>1, <2>2
<1>4. \A i \in DOMAIN fs : broker.ch[fs[i].ch].running
  BY DEF On
<1> QED
  BY <1>1, <1>3, <1>4, BrokerQuiet

\* Reading a frame without an answer keeps LifeInv.
LEMMA SilentQuiet ==
  ASSUME LifeInv, TypeInv', NEW op \in ChannelOps, Reads(op), odd \subseteq odd', UNCHANGED toClient,
         UNCHANGED broker \/ Sets(NoChannel)
                          \/ (\E ch \in Channels : Sets(ch) /\ ch.running /\ On.running)
  PROVE  LifeInv'
<1> DEFINE none == << >>
<1>1. toClient \in Seq(ClientFrames)
  BY DEF LifeInv, TypeInv, WebTypes
<1>2. none \in Seq(ClientFrames) /\ DOMAIN none = {} /\ toClient = toClient \o none
  BY <1>1, EmptyAppended
<1> HIDE DEF none
<1>3. toClient' = toClient \o none /\ \A i \in DOMAIN none : FALSE
  BY <1>2
<1> QED
  BY <1>2, <1>3, NoChannelType, ReadQuiet

\* So does an answer other than CloseOk while the channel runs.
LEMMA SaysQuiet ==
  ASSUME LifeInv, TypeInv', NEW op \in ChannelOps, Reads(op), On.running,
         NEW m \in ReplyKinds \ {"closeOk"}, NEW tag \in Nat, Says(m, tag),
         UNCHANGED broker \/ \E ch \in Channels : Sets(ch) /\ ch.running
  PROVE  LifeInv'
<1> DEFINE f == [m |-> m, ch |-> Asked.ch, call |-> Asked.call, tag |-> tag]
           fs == <<f>>
<1>1. toServer # << >> /\ Asked \in ServerFrames
  BY ReadOp DEF LifeInv
<1>2. Out(m, Asked, tag) = <<f>> /\ f \in ClientFrames /\ f.m = m /\ f.ch = Asked.ch
  BY <1>1, OutFrame
<1>3. UNCHANGED odd /\ toClient' = toClient \o fs
  BY <1>2 DEF Says, Answers
<1> HIDE DEF f
<1>4. fs \in Seq(ClientFrames) /\ \A i \in DOMAIN fs : fs[i] = f
  BY <1>2
<1>5. m \notin {"close", "closeOk", "connClose", "connCloseOk"}
  BY DEF ReplyKinds
<1> HIDE DEF fs
<1>6. \A i \in DOMAIN fs : /\ fs[i].ch = Asked.ch /\ On.running
                           /\ fs[i].m \notin {"close", "closeOk", "connClose", "connCloseOk"}
  BY <1>2, <1>4, <1>5
<1> QED
  BY <1>3, <1>4, <1>6, ReadQuiet

\* Refusing a channel: Close is the last frame on it but for CloseOk.
LEMMA RefusesLife ==
  ASSUME LifeInv, TypeInv', NEW op \in ChannelOps, Reads(op), RefusesChannel
  PROVE  LifeInv'
<1>1. CASE ~On.running
  BY <1>1, SilentQuiet DEF RefusesChannel
<1>2. CASE On.running
  <2> DEFINE f == [m |-> "close", ch |-> Asked.ch, call |-> Asked.call, tag |-> 0]
  <2>1. TypeInv /\ toClient \in Seq(ClientFrames) /\ toServer \in Seq(ServerFrames)
    BY DEF LifeInv, TypeInv, WebTypes
  <2>2. toServer # << >> /\ Asked \in ServerFrames
    BY <2>1, ReadOp
  <2>3. Out("close", Asked, 0) = <<f>> /\ f \in ClientFrames /\ f.m = "close" /\ f.ch = Asked.ch
    BY <2>2, OutFrame
  <2>4. Sets(NoChannel) /\ UNCHANGED odd /\ toClient' = toClient \o <<f>>
    BY <1>2, <2>3 DEF RefusesChannel, Answers
  <2> HIDE DEF f
  <2>5. LifeOf(Asked.ch, channels[Asked.ch], objs, "running", On, toServer, toClient) =>
           LifeOf(Asked.ch, channels[Asked.ch], objs, "running", NoChannel, Tail(toServer), toClient \o <<f>>)
    BY <1>2, <2>1, <2>2, <2>3, NoChannelType, LifeRefused
  <2> QED
    BY <2>3, <2>4, <2>5, NoChannelType, BrokerOn
<1> QED
  BY <1>1, <1>2

\* Closing the connection: after that the broker reads nothing of the channels.
LEMMA ClosesLife ==
  ASSUME LifeInv, TypeInv', NEW op \in ChannelOps, Reads(op), ClosesConnection
  PROVE  LifeInv'
<1> DEFINE f == [m |-> "connClose", ch |-> Asked.ch, call |-> Asked.call, tag |-> 0]
           fs == <<f>>
<1>1. toServer # << >> /\ Asked \in ServerFrames /\ TypeInv
  BY ReadOp DEF LifeInv
<1>2. Out("connClose", Asked, 0) = <<f>> /\ f \in ClientFrames /\ f.m = "connClose"
  BY <1>1, OutFrame
<1>3. UNCHANGED odd /\ toClient' = toClient \o fs /\ broker' = [broker EXCEPT !.state = "closing"]
  BY <1>2 DEF ClosesConnection, Answers
<1> HIDE DEF f
<1>4. fs \in Seq(ClientFrames) /\ \A i \in DOMAIN fs : fs[i] = f
  BY <1>2
<1>5. "connClose" \notin ChannelKinds
  BY DEF ChannelKinds, ReplyKinds, MessageKinds, StartKinds
<1> HIDE DEF fs
<1>6. \A i \in DOMAIN fs : fs[i].m \notin ChannelKinds
  BY <1>2, <1>4, <1>5
<1>7. broker'.state = "closing" /\ ChannelsRest'
  BY <1>1, <1>3, BrokerState DEF LifeInv, ChannelsRest
<1> QED
  BY <1>3, <1>4, <1>6, <1>7, BrokerEnds DEF Reads

\* So whichever of these answers is given keeps LifeInv.
LEMMA AnswerLife ==
  ASSUME LifeInv, TypeInv', NEW op \in ChannelOps, Reads(op),
         \/ Nothing \/ RefusesChannel \/ ClosesConnection
         \/ /\ On.running
            /\ \E m \in ReplyKinds \ {"closeOk"}, tag \in {0, Asked.tag} : Says(m, tag)
            /\ UNCHANGED broker \/ \E ch \in Channels : Sets(ch) /\ ch.running
  PROVE  LifeInv'
<1>1. CASE Nothing
  BY <1>1, SilentQuiet DEF Nothing
<1>2. CASE RefusesChannel \/ ClosesConnection
  BY <1>2, RefusesLife, ClosesLife
<1>3. CASE /\ On.running
           /\ \E m \in ReplyKinds \ {"closeOk"}, tag \in {0, Asked.tag} : Says(m, tag)
           /\ UNCHANGED broker \/ \E ch \in Channels : Sets(ch) /\ ch.running
  <2>1. Asked.tag \in Nat
    BY ReadOp DEF LifeInv
  <2> QED
    BY <1>3, <2>1, SaysQuiet
<1> QED
  BY <1>1, <1>2, <1>3

\* The handlers of the broker's read loop answer in one of these ways.
LEMMA BrokerAnswersLife ==
  ASSUME LifeInv,
         \/ BrokerTopology \/ BrokerPurge \/ BrokerConsume \/ BrokerCancel \/ BrokerMode \/ BrokerSelect
         \/ BrokerSettle \/ BrokerTx
  PROVE  LifeInv'
<1>1. PICK op \in {"topology", "purge", "consume", "cancel", "mode", "select", "settle", "tx"} : Reads(op)
  BY DEF BrokerTopology, BrokerPurge, BrokerConsume, BrokerCancel, BrokerMode, BrokerSelect, BrokerSettle, BrokerTx
<1>2. op \in ChannelOps /\ {"topologyOk", "consumerOk", "modeOk", "selectOk"} \subseteq ReplyKinds \ {"closeOk"}
  BY DEF ChannelOps, Awaited, ReplyKinds
<1>3. TypeInv /\ TypeInv'
  BY BrokerAnswersTyped DEF LifeInv
<1>4. On \in Channels /\ Asked.tag \in Nat
  BY <1>1, <1>2, <1>3, ReadOp
<1>5. \/ Nothing \/ RefusesChannel \/ ClosesConnection
      \/ /\ On.running
         /\ \E m \in ReplyKinds \ {"closeOk"}, tag \in {0, Asked.tag} : Says(m, tag)
         /\ UNCHANGED broker \/ \E ch \in Channels : Sets(ch) /\ ch.running
  <2>1. CASE BrokerTopology \/ BrokerPurge \/ BrokerMode \/ BrokerSettle \/ BrokerTx
    BY <1>2, <2>1 DEF BrokerTopology, BrokerPurge, BrokerMode, BrokerSettle, BrokerTx, NotOpen
  <2>2. CASE BrokerConsume \/ BrokerCancel
    <3> DEFINE more == [On EXCEPT !.consumers = @ \union {Asked.tag}]
               less == [On EXCEPT !.consumers = @ \ {Asked.tag}]
    <3>1. more \in Channels /\ less \in Channels
      BY <1>4, ChannelTypes
    <3>2. more.running = On.running /\ less.running = On.running
      BY <1>4 DEF Channels
    <3>3. \/ Nothing \/ RefusesChannel \/ ClosesConnection
          \/ (On.running /\ Says("consumerOk", Asked.tag) /\ (Sets(more) \/ Sets(less)))
      BY <2>2 DEF BrokerConsume, BrokerCancel, NotOpen
    <3> HIDE DEF more, less
    <3> QED
      BY <1>2, <3>1, <3>2, <3>3
  <2>3. CASE BrokerSelect
    <3> DEFINE new == [On EXCEPT !.confirm = TRUE]
    <3>1. new \in Channels
      BY <1>4, ChannelTypes
    <3>2. new.running = On.running
      BY <1>4 DEF Channels
    <3>3. ClosesConnection \/ (On.running /\ Says("selectOk", 0) /\ Sets(new))
      BY <2>3 DEF BrokerSelect, NotOpen
    <3> HIDE DEF new
    <3> QED
      BY <1>2, <3>1, <3>2, <3>3
  <2> QED
    BY <2>1, <2>2, <2>3
<1> QED
  BY <1>1, <1>2, <1>3, <1>5, AnswerLife

\* The CloseOk of the client ends a channel that stopped running before.
LEMMA BrokerCloseOkLife ==
  ASSUME LifeInv, BrokerCloseOk
  PROVE  LifeInv'
<1>1. Reads("closeOk") /\ "closeOk" \in ChannelOps /\ Sets(NoChannel) /\ UNCHANGED <<toClient, odd>>
  BY DEF BrokerCloseOk, ChannelOps
<1>2. TypeInv'
  BY BrokerLifeTyped DEF LifeInv
<1> QED
  BY <1>1, <1>2, SilentQuiet

\* Nothing in a message ends a channel or the connection.
Ending == {"close", "closeOk", "connClose", "connCloseOk"}

\* The frames of a message are on its channel and close nothing.
LEMMA MessageSaid ==
  ASSUME lastMsg \in Nat, NEW m \in StartKinds, NEW f, f.ch \in Ids, NEW tag \in Nat, NEW body \in Nat
  PROVE  LET fs == MessageFrames(m, f, tag, body)
         IN  fs \in Seq(ClientFrames) /\ \A i \in DOMAIN fs : fs[i].ch = f.ch /\ fs[i].m \notin Ending
<1> DEFINE fs == MessageFrames(m, f, tag, body)
<1>0. MessageParts(fs, m, f, tag, body)
  BY MessageFramesTyped
<1> HIDE DEF fs
<1>1. /\ fs \in Seq(ClientFrames)
      /\ \A i \in DOMAIN fs : fs[i].ch = f.ch /\ fs[i].m = IF i = 1 THEN m ELSE IF i = 2 THEN "header" ELSE "body"
  BY <1>0 DEF MessageParts
<1>2. m \notin Ending /\ "header" \notin Ending /\ "body" \notin Ending
  BY DEF Ending, StartKinds
<1> HIDE DEF fs
<1> QED
  BY <1>1, <1>2 DEF fs

\* Neither does a confirm.
LEMMA ConfirmSaid ==
  ASSUME NEW m \in {"ack", "nack"}, NEW id \in Ids, NEW call \in Nat, NEW tag \in Nat, NEW multiple \in BOOLEAN
  PROVE  LET fs == ConfirmFrame(m, id, call, tag, multiple)
         IN  fs \in Seq(ClientFrames) /\ \A i \in DOMAIN fs : fs[i].ch = id /\ fs[i].m \notin Ending
<1> DEFINE fs == ConfirmFrame(m, id, call, tag, multiple)
<1>1. fs \in Seq(ClientFrames) /\ Len(fs) = 1 /\ fs[1].m = m /\ fs[1].ch = id
  BY ConfirmFrameTyped
<1> HIDE DEF fs
<1>2. DOMAIN fs = {1}
  BY <1>1
<1> QED
  BY <1>1, <1>2 DEF Ending, fs

\* A get is answered by a message or by GetEmpty.
LEMMA BrokerGetLife ==
  ASSUME LifeInv, BrokerGet
  PROVE  LifeInv'
<1>1. Reads("get") /\ "get" \in ChannelOps /\ "getEmpty" \in ReplyKinds \ {"closeOk"} /\ "getOk" \in StartKinds
  BY DEF BrokerGet, ChannelOps, Awaited, ReplyKinds, StartKinds
<1>2. TypeInv /\ TypeInv'
  BY BrokerGetTyped DEF LifeInv
<1>3. CASE (On.running /\ Says("getEmpty", 0) /\ UNCHANGED broker) \/ NotOpen \/ RefusesChannel
  <2>1. \/ Nothing \/ RefusesChannel \/ ClosesConnection
        \/ /\ On.running
           /\ \E m \in ReplyKinds \ {"closeOk"}, tag \in {0, Asked.tag} : Says(m, tag)
           /\ UNCHANGED broker \/ \E ch \in Channels : Sets(ch) /\ ch.running
    BY <1>1, <1>3 DEF NotOpen
  <2> QED
    BY <1>1, <1>2, <2>1, AnswerLife
<1>4. CASE /\ On.running
           /\ \E body \in 0..MaxBody : Answers(MessageFrames("getOk", Asked, Asked.call, body))
           /\ UNCHANGED <<broker, odd>>
  <2>1. PICK body \in 0..MaxBody : Answers(MessageFrames("getOk", Asked, Asked.call, body))
    BY <1>4
  <2>2. MaxBody \in Nat
    BY WebClientAssumption
  <2>3. body \in Nat
    BY <2>2
  <2>4. lastMsg \in Nat /\ Asked.ch \in Ids /\ Asked.call \in Nat
    BY <1>1, <1>2, ReadOp, HistoryTypes
  <2> DEFINE f == Asked
             tag == Asked.call
             fs == MessageFrames("getOk", f, tag, body)
  <2>5. f.ch = Asked.ch /\ tag \in Nat /\ f.ch \in Ids /\ toClient' = toClient \o fs
    BY <2>1, <2>4 DEF Answers
  <2> HIDE DEF f, tag
  <2>6. fs \in Seq(ClientFrames) /\ \A i \in DOMAIN fs : fs[i].ch = f.ch /\ fs[i].m \notin Ending
    BY <1>1, <2>3, <2>4, <2>5, MessageSaid
  <2> HIDE DEF fs
  <2> QED
    BY <1>1, <1>2, <1>4, <2>5, <2>6, ReadQuiet DEF Ending
<1> QED
  BY <1>3, <1>4 DEF BrokerGet

\* Counting a publish leaves the channel running.
LEMMA CountedRuns ==
  ASSUME On \in Channels, On.running, Asked.call \in Nat
  PROVE  /\ Counted.running
         /\ \A w \in BOOLEAN : [Counted EXCEPT !.waiting = w] \in Channels /\ [Counted EXCEPT !.waiting = w].running
<1>1. Counted \in Channels
  BY CountedTyped
<1>2. Counted.running
  BY DEF Counted, Channels
<1>3. \A w \in BOOLEAN : [Counted EXCEPT !.waiting = w].running
  BY <1>1, <1>2 DEF Channels
<1> QED
  BY <1>2, <1>3, CountedTyped

\* A publish that is not routed is returned and confirmed.
LEMMA ReturnsLife ==
  ASSUME LifeInv, TypeInv', Reads("publish"), On.running, BrokerReturns
  PROVE  LifeInv'
<1>1. TypeInv /\ "publish" \in ChannelOps
  BY DEF LifeInv, ChannelOps
<1>2. Asked.ch \in Ids /\ Asked.call \in Nat /\ On \in Channels
  BY <1>1, ReadOp
<1>3. PICK mandatory \in BOOLEAN :
        /\ LET due == mandatory /\ On.waiting
               first == IF due THEN ConfirmFrame("ack", Asked.ch, Asked.call, Total, TRUE) ELSE << >>
               message == IF mandatory THEN MessageFrames("return", Asked, 0, 0) ELSE << >>
               alone == IF On.confirm THEN ConfirmFrame("ack", Asked.ch, Asked.call, Total, FALSE)
                        ELSE << >>
           IN /\ Answers(first \o message \o alone)
              /\ IF On.confirm
                 THEN Sets([Counted EXCEPT !.waiting = @ /\ ~due])
                 ELSE UNCHANGED broker
        /\ UNCHANGED odd
  BY DEF BrokerReturns
<1> DEFINE due == mandatory /\ On.waiting
           first == IF due THEN ConfirmFrame("ack", Asked.ch, Asked.call, Total, TRUE) ELSE << >>
           message == IF mandatory THEN MessageFrames("return", Asked, 0, 0) ELSE << >>
           alone == IF On.confirm THEN ConfirmFrame("ack", Asked.ch, Asked.call, Total, FALSE) ELSE << >>
           Said(fs) == fs \in Seq(ClientFrames) /\ \A i \in DOMAIN fs : fs[i].ch = Asked.ch /\ fs[i].m \notin Ending
<1>4. Total \in Nat /\ "return" \in StartKinds /\ lastMsg \in Nat
  BY <1>1, <1>2, CountedTyped, HistoryTypes DEF StartKinds
<1>5. Said(<< >>)
  OBVIOUS
<1>6. Said(first) /\ Said(alone)
  <2>1. Said(ConfirmFrame("ack", Asked.ch, Asked.call, Total, TRUE))
    BY <1>2, <1>4, ConfirmSaid
  <2>3. Said(ConfirmFrame("ack", Asked.ch, Asked.call, Total, FALSE))
    BY <1>2, <1>4, ConfirmSaid
  <2>2. first \in {ConfirmFrame("ack", Asked.ch, Asked.call, Total, TRUE), << >>}
        /\ alone \in {ConfirmFrame("ack", Asked.ch, Asked.call, Total, FALSE), << >>}
    OBVIOUS
  <2> HIDE DEF Said, first, alone
  <2> QED
    BY <1>5, <2>1, <2>2, <2>3
<1>7. Said(message)
  <2>1. CASE mandatory
    <3> DEFINE fs == MessageFrames("return", Asked, 0, 0)
    <3>1. fs \in Seq(ClientFrames) /\ \A i \in DOMAIN fs : fs[i].ch = Asked.ch /\ fs[i].m \notin Ending
      BY <1>2, <1>4, MessageSaid
    <3> HIDE DEF fs
    <3>2. message = fs
      BY <2>1 DEF fs
    <3> QED
      BY <3>1, <3>2
  <2>2. CASE ~mandatory
    BY <1>5, <2>2
  <2> QED
    BY <2>1, <2>2
<1>8. Answers(first \o message \o alone)
  BY <1>3
<1>9. UNCHANGED broker \/ \E ch \in Channels : Sets(ch) /\ ch.running
  <2>1. CASE On.confirm
    <3> DEFINE w == Counted.waiting /\ ~due
    <3>1. Counted.waiting \in BOOLEAN
      BY <1>2, CountedTyped DEF Channels
    <3>2. w \in BOOLEAN
      BY <3>1
    <3>3. Sets([Counted EXCEPT !.waiting = w])
      BY <1>3, <2>1
    <3> HIDE DEF w
    <3> QED
      BY <1>2, <3>2, <3>3, CountedRuns
  <2>2. CASE ~On.confirm
    BY <1>3, <2>2
  <2> QED
    BY <2>1, <2>2
<1> HIDE DEF first, message, alone
<1>10. ASSUME NEW s, NEW t, Said(s), Said(t) PROVE Said(s \o t)
  BY <1>10, ConcatSeq
<1> DEFINE fs == first \o message \o alone
<1>11. Said(first \o message)
  BY <1>6, <1>7, <1>10
<1>12. Said(fs)
  BY <1>6, <1>10, <1>11
<1>13. toClient' = toClient \o fs
  BY <1>8 DEF Answers
<1> HIDE DEF fs
<1> QED
  BY <1>1, <1>3, <1>9, <1>12, <1>13, ReadQuiet DEF Ending

\* A publish of another user: Close is written, but the channel goes on.
LEMMA RefusesUserLife ==
  ASSUME LifeInv, TypeInv', Reads("publish"), BrokerRefusesUser
  PROVE  LifeInv'
<1>1. TypeInv /\ "publish" \in ChannelOps
  BY DEF LifeInv, ChannelOps
<1>2. Asked \in ServerFrames /\ broker.state = "running" /\ UNCHANGED <<calls, objs, channels, jobs, faults, broker>>
  BY <1>1, ReadOp DEF Reads, BrokerRefusesUser
<1> DEFINE f == [m |-> "close", ch |-> Asked.ch, call |-> Asked.call, tag |-> 0]
           fs == <<f>>
<1>3. Out("close", Asked, 0) = <<f>> /\ f \in ClientFrames /\ f.m = "close"
  BY <1>2, OutFrame
<1>4. toClient' = toClient \o fs
  BY <1>3 DEF BrokerRefusesUser, Answers
<1> HIDE DEF f
<1>5. fs \in Seq(ClientFrames) /\ \A i \in DOMAIN fs : fs[i].m = "close"
  BY <1>3
<1> HIDE DEF fs
<1>6. Handshaking'
  <2>1. toClient \in Seq(ClientFrames)
    BY <1>1 DEF TypeInv, WebTypes
  <2>2. \A i \in DOMAIN (toClient \o fs) : \/ i \in DOMAIN toClient /\ (toClient \o fs)[i] = toClient[i]
                                           \/ \E j \in DOMAIN fs : (toClient \o fs)[i] = fs[j]
    BY <1>5, <2>1, ConcatElements
  <2>3. \A i \in DOMAIN toClient : toClient[i].m \notin {"connClose", "connCloseOk"}
    BY <1>2 DEF LifeInv, Handshaking
  <2>4. \A i \in DOMAIN toClient' : toClient'[i].m \notin {"connClose", "connCloseOk"}
    BY <1>4, <1>5, <2>2, <2>3
  <2> QED
    BY <1>2, <2>4 DEF Handshaking
<1>7. ChannelsRest' /\ OpenListed'
  BY <1>2 DEF LifeInv, ChannelsRest, OpenListed
<1>8. ~Clean(Crossed)'
  BY DEF BrokerRefusesUser, Clean, Crossed
<1> QED
  BY <1>6, <1>7, <1>8 DEF LifeInv

\* A publish is counted, confirmed, returned or refused.
LEMMA BrokerPublishLife ==
  ASSUME LifeInv, BrokerPublish
  PROVE  LifeInv'
<1>1. Reads("publish") /\ "publish" \in ChannelOps
  BY DEF BrokerPublish, ChannelOps
<1>2. TypeInv /\ TypeInv'
  BY BrokerPublishTyped DEF LifeInv
<1>3. Asked.ch \in Ids /\ Asked.call \in Nat /\ On \in Channels
  BY <1>1, <1>2, ReadOp
<1>4. CASE Nothing \/ RefusesChannel
  BY <1>1, <1>2, <1>4, AnswerLife
<1>5. CASE On.running /\ BrokerRoutes
  <2> DEFINE ch == [Counted EXCEPT !.waiting = TRUE]
  <2>1. Nothing \/ (Sets(ch) /\ UNCHANGED <<toClient, odd>>)
    BY <1>5 DEF BrokerRoutes
  <2>2. ch \in Channels /\ ch.running
    BY <1>3, <1>5, CountedRuns
  <2> HIDE DEF ch
  <2> QED
    BY <1>1, <1>2, <1>4, <1>5, <2>1, <2>2, SilentQuiet
<1>6. CASE On.running /\ BrokerRejects
  <2> DEFINE fs == ConfirmFrame("nack", Asked.ch, Asked.call, Total, FALSE)
  <2>1. Nothing \/ (Sets(Counted) /\ toClient' = toClient \o fs /\ UNCHANGED odd)
    BY <1>6 DEF BrokerRejects, Answers
  <2>2. fs \in Seq(ClientFrames) /\ \A i \in DOMAIN fs : fs[i].ch = Asked.ch /\ fs[i].m \notin Ending
    BY <1>3, CountedTyped, ConfirmSaid
  <2>3. Counted \in Channels /\ Counted.running
    BY <1>3, <1>6, CountedRuns, CountedTyped
  <2> HIDE DEF fs
  <2> QED
    BY <1>1, <1>2, <1>4, <1>6, <2>1, <2>2, <2>3, ReadQuiet DEF Ending
<1>7. CASE On.running /\ BrokerReturns
  BY <1>1, <1>2, <1>7, ReturnsLife
<1>8. CASE BrokerRefusesUser
  BY <1>1, <1>2, <1>8, RefusesUserLife
<1>9. CASE BrokerRepliesDirectly
  BY <1>1, <1>2, <1>9, SilentQuiet DEF BrokerRepliesDirectly
<1> QED
  BY <1>4, <1>5, <1>6, <1>7, <1>8, <1>9 DEF BrokerPublish

-----------------------------------------------------------------------------
(* What the broker says unasked, and the end of the connection. *)

\* Only a running channel has consumers or confirms to send.
LEMMA ChannelRuns ==
  ASSUME ChannelsRest, NEW id \in Ids, broker.ch[id].waiting \/ broker.ch[id].consumers # {}
  PROVE  broker.ch[id].running
BY DEF ChannelsRest, NoChannel

\* The broker says something on a channel that runs, and goes on with it.
LEMMA UnaskedQuiet ==
  ASSUME LifeInv, TypeInv', NEW id \in Ids, broker.state = "running", broker.ch[id].running, odd \subseteq odd',
         UNCHANGED <<calls, objs, channels, jobs, toServer, faults>>,
         NEW fs \in Seq(ClientFrames), toClient' = toClient \o fs,
         \A i \in DOMAIN fs : fs[i].ch = id /\ fs[i].m \notin Ending,
         UNCHANGED broker \/ \E ch \in Channels : broker' = [broker EXCEPT !.ch[id] = ch] /\ ch.running
  PROVE  LifeInv'
<1>1. TypeInv
  BY DEF LifeInv
<1>2. /\ broker'.state = "running"
      /\ \A i \in Ids : broker'.ch[i].running => broker.ch[i].running
      /\ ChannelsRest'
  <2>1. CASE UNCHANGED broker
    BY <2>1 DEF LifeInv, ChannelsRest
  <2>2. ASSUME NEW ch \in Channels, broker' = [broker EXCEPT !.ch[id] = ch], ch.running
        PROVE  /\ broker'.state = "running"
               /\ \A i \in Ids : broker'.ch[i].running => broker.ch[i].running
               /\ ChannelsRest'
    <3>1. broker'.state = "running" /\ broker'.ch[id] = ch /\ \A i \in Ids \ {id} : broker'.ch[i] = broker.ch[i]
      BY <1>1, <2>2, BrokerSet
    <3>2. ChannelsRest'
      BY <2>2, <3>1 DEF LifeInv, ChannelsRest
    <3> QED
      BY <3>1, <3>2
  <2> QED
    BY <2>1, <2>2
<1> QED
  BY <1>2, BrokerQuiet DEF Ending

\* Confirms come while the channel runs.
LEMMA ConfirmsLife ==
  ASSUME LifeInv, NEW id \in Ids, BrokerConfirms(id)
  PROVE  LifeInv'
<1> DEFINE b == broker.ch[id]
           fs == ConfirmsUpTo(id)
           ch == [b EXCEPT !.waiting = FALSE]
<1>1. /\ toClient' = toClient \o fs /\ broker' = [broker EXCEPT !.ch[id] = ch]
      /\ UNCHANGED <<calls, objs, channels, jobs, toServer, faults>>
      /\ broker.state = "running" /\ b.waiting /\ odd \subseteq odd'
  BY DEF BrokerConfirms, Answers
<1>2. TypeInv /\ TypeInv'
  BY ConfirmsTyped DEF LifeInv
<1>3. b \in Channels /\ b.running
  BY <1>1, <1>2, HistoryTypes, ChannelRuns DEF LifeInv, Brokers
<1>4. Len(b.published) \in Nat /\ ch \in Channels /\ ch.running
  <2>1. b.published \in Seq(Nat) /\ ch.running
    BY <1>3 DEF Channels
  <2>2. ch \in Channels
    BY <1>3, ChannelTypes
  <2> QED
    BY <2>1, <2>2
<1>5. fs \in Seq(ClientFrames) /\ \A i \in DOMAIN fs : fs[i].ch = id /\ fs[i].m \notin Ending
  BY <1>4, ConfirmSaid DEF ConfirmsUpTo
<1> HIDE DEF fs, ch
<1> QED
  BY <1>1, <1>2, <1>3, <1>4, <1>5, UnaskedQuiet

\* A delivery that begins is not seen.
LEMMA ChecksLife ==
  ASSUME LifeInv, NEW id \in Ids, BrokerChecks(id)
  PROVE  LifeInv'
<1> DEFINE none == << >>
<1>1. /\ UNCHANGED <<calls, objs, channels, jobs, toServer, toClient, odd, faults>>
      /\ broker.state = "running"
  BY DEF BrokerChecks
<1>2. TypeInv' /\ broker'.ch = broker.ch /\ broker'.state = broker.state /\ toClient \in Seq(ClientFrames)
  BY ChecksTyped DEF LifeInv, TypeInv, WebTypes
<1>3. none \in Seq(ClientFrames) /\ DOMAIN none = {} /\ toClient = toClient \o none
  BY <1>2, EmptyAppended
<1> HIDE DEF none
<1>4. ChannelsRest'
  BY <1>2 DEF LifeInv, ChannelsRest
<1> QED
  BY <1>1, <1>2, <1>3, <1>4, BrokerQuiet

\* A delivery may come on a channel that no longer runs: it ends nothing.
LEMMA DeliversLife ==
  ASSUME LifeInv, NEW id \in Ids, BrokerDelivers(id)
  PROVE  LifeInv'
<1>1. broker.state = "running" /\ UNCHANGED <<calls, objs, channels, jobs, toServer, faults>>
  BY DEF BrokerDelivers
<1>2. TypeInv /\ TypeInv' /\ lastMsg \in Nat
  BY DeliversTyped, HistoryTypes DEF LifeInv
<1>3. PICK d \in Deliveries : \E body \in Nat :
        /\ Answers(MessageFrames("deliver", d, d.tag, body))
        /\ broker'.ch = broker.ch /\ broker'.state = broker.state
        /\ odd \subseteq odd'
  BY <1>2, DeliversMessage
<1>4. PICK body \in Nat :
        /\ Answers(MessageFrames("deliver", d, d.tag, body))
        /\ broker'.ch = broker.ch /\ broker'.state = broker.state
        /\ odd \subseteq odd'
  BY <1>3
<1>5. d.ch \in Ids /\ d.tag \in Nat
  BY DEF Deliveries
<1> DEFINE fs == MessageFrames("deliver", d, d.tag, body)
<1>6. MessageParts(fs, "deliver", d, d.tag, body)
  <2>1. "deliver" \in StartKinds
    BY DEF StartKinds
  <2> HIDE DEF fs
  <2> QED
    BY <1>2, <1>5, <2>1, MessageFramesTyped DEF fs
<1>7. toClient' = toClient \o fs
  BY <1>4 DEF Answers
<1> HIDE DEF fs
<1>8. fs \in Seq(ClientFrames) /\ \A i \in DOMAIN fs : fs[i].m \in {"deliver", "header", "body"}
  BY <1>6 DEF MessageParts
<1>9. \A i \in DOMAIN fs : /\ fs[i].m \notin HeededKinds
                           /\ fs[i].m \notin {"close", "closeOk", "connClose", "connCloseOk"}
  BY <1>8 DEF HeededKinds, MessageKinds, StartKinds
<1>10. ChannelsRest'
  BY <1>4 DEF LifeInv, ChannelsRest
<1> QED
  BY <1>1, <1>2, <1>4, <1>7, <1>8, <1>9, <1>10, BrokerQuiet

\* So does the news that a consumer was cancelled.
LEMMA CancelsLife ==
  ASSUME LifeInv, NEW id \in Ids, BrokerCancelsConsumer(id)
  PROVE  LifeInv'
<1>1. broker.state = "running" /\ UNCHANGED <<calls, objs, channels, jobs, toServer, odd, faults>>
  BY DEF BrokerCancelsConsumer
<1>2. PICK tag \in broker.ch[id].consumers :
       /\ Answers(<<[m |-> "cancel", ch |-> id, tag |-> tag]>>)
       /\ broker' = [broker EXCEPT !.ch[id].consumers = @ \ {tag}]
  BY DEF BrokerCancelsConsumer
<1>3. TypeInv /\ TypeInv' /\ broker.ch[id] \in Channels /\ broker.ch[id].running /\ id \in Nat
  BY <1>2, CancelsTyped, HistoryTypes, ChannelRuns, WebClientAssumption DEF LifeInv, Brokers
<1>4. tag \in Nat
  BY <1>3 DEF Channels
<1> DEFINE r == [m |-> "cancel", ch |-> id, tag |-> tag]
           fs == <<r>>
           ch == [broker.ch[id] EXCEPT !.consumers = @ \ {tag}]
<1>5. r \in ClientFrames /\ r.ch = id /\ r.m \notin Ending
  <2>1. r \in ClientFrames
    BY <1>3, <1>4 DEF ClientFrames, CancelFrames
  <2> QED
    BY <2>1 DEF Ending
<1>6. ch \in Channels /\ ch.running /\ broker' = [broker EXCEPT !.ch[id] = ch]
  <2>1. ch \in Channels
    BY <1>3, <1>4, ChannelTypes
  <2>2. ch.running
    BY <1>3 DEF Channels
  <2> QED
    BY <1>2, <2>1, <2>2
<1>7. toClient' = toClient \o fs
  BY <1>2 DEF Answers
<1> HIDE DEF r, ch
<1>8. fs \in Seq(ClientFrames) /\ \A i \in DOMAIN fs : fs[i] = r
  BY <1>5
<1> HIDE DEF fs
<1> QED
  BY <1>1, <1>3, <1>5, <1>6, <1>7, <1>8, UnaskedQuiet

\* A frame of the connection is on no channel.
LEMMA SimpleSaid ==
  ASSUME NEW m \in {"start", "tune", "connOpenOk", "connClose", "connCloseOk"}
  PROVE  Simple(m) \in Seq(ClientFrames) /\ \A i \in DOMAIN Simple(m) : Simple(m)[i].m = m /\ m \notin ChannelKinds
<1> DEFINE fs == Simple(m)
<1>1. fs \in Seq(ClientFrames) /\ Len(fs) = 1 /\ fs[1].m = m /\ m \notin ChannelKinds
  BY SimpleTyped
<1> HIDE DEF fs
<1>2. DOMAIN fs = {1}
  BY <1>1
<1> QED
  BY <1>1, <1>2 DEF fs

\* The broker that stops closes the connection.
LEMMA StopsLife ==
  ASSUME LifeInv, BrokerStops
  PROVE  LifeInv'
<1> DEFINE fs == Simple("connClose")
<1>1. /\ toClient' = toClient \o fs /\ broker' = [broker EXCEPT !.state = "closing"]
      /\ UNCHANGED <<calls, objs, channels, jobs, odd, faults>>
  BY DEF BrokerStops, Simple, Answers
<1>2. TypeInv /\ TypeInv'
  BY StopsTyped DEF LifeInv
<1>3. fs \in Seq(ClientFrames) /\ \A i \in DOMAIN fs : fs[i].m \notin ChannelKinds
  BY SimpleSaid
<1> HIDE DEF fs
<1>4. broker'.state = "closing" /\ ChannelsRest'
  BY <1>1, <1>2, BrokerState DEF LifeInv, ChannelsRest
<1> QED
  BY <1>1, <1>2, <1>3, <1>4, BrokerEnds

\* Nothing is left of any channel when the connection is gone.
LEMMA AllRest ==
  ASSUME broker' = [state |-> "gone", ch |-> [id \in Ids |-> NoChannel], due |-> {}]
  PROVE  broker'.state = "gone" /\ ChannelsRest'
BY DEF ChannelsRest

\* A connection that is closing reads and discards, then is gone.
LEMMA DisconnectsLife ==
  ASSUME LifeInv, BrokerDisconnects \/ BrokerDiscards
  PROVE  LifeInv'
<1>1. UNCHANGED <<calls, objs, channels, jobs, faults>> /\ odd \subseteq odd'
  BY DEF BrokerDisconnects, BrokerDiscards
<1>2. TypeInv /\ TypeInv' /\ toClient \in Seq(ClientFrames)
  BY BrokerConnectionTyped DEF LifeInv, TypeInv, WebTypes
<1>3. broker'.state \in {"closing", "gone"} /\ ChannelsRest'
  <2>1. CASE BrokerDisconnects
    BY <2>1, AllRest DEF BrokerDisconnects
  <2>2. CASE BrokerDiscards
    BY <2>2 DEF BrokerDiscards, LifeInv, ChannelsRest
  <2> QED
    BY <2>1, <2>2
<1> DEFINE ok == Simple("connCloseOk")
           none == << >>
<1>4. toClient' = toClient \o ok \/ toClient' = toClient
  BY DEF BrokerDisconnects, BrokerDiscards, Answers
<1>5. ok \in Seq(ClientFrames) /\ \A i \in DOMAIN ok : ok[i].m \notin ChannelKinds
  BY SimpleSaid
<1>6. none \in Seq(ClientFrames) /\ DOMAIN none = {} /\ toClient = toClient \o none
  BY <1>2, EmptyAppended
<1> HIDE DEF ok, none
<1>7. CASE toClient' = toClient \o ok
  BY <1>1, <1>2, <1>3, <1>5, <1>7, BrokerEnds
<1>8. CASE toClient' = toClient
  <2>1. toClient' = toClient \o none /\ \A i \in DOMAIN none : none[i].m \notin ChannelKinds
    BY <1>6, <1>8
  <2> QED
    BY <1>1, <1>2, <1>3, <1>6, <2>1, BrokerEnds
<1> QED
  BY <1>4, <1>7, <1>8

\* A lost socket takes the frames under way with it.
LEMMA LostLife ==
  ASSUME LifeInv, SocketLost
  PROVE  LifeInv'
<1>1. /\ toServer' = << >> /\ toClient' = << >> /\ UNCHANGED <<objs, channels, jobs, faults>> /\ odd \subseteq odd'
      /\ broker' = [state |-> "gone", ch |-> [id \in Ids |-> NoChannel], due |-> {}]
  BY DEF SocketLost
<1>2. TypeInv'
  BY LostTyped DEF LifeInv
<1>3. broker'.state = "gone" /\ ChannelsRest'
  BY <1>1, AllRest
<1>4. Handshaking' /\ OpenListed'
  BY <1>1, <1>3 DEF LifeInv, Handshaking, OpenListed
<1>5. \A id \in Ids : Life(id)'
  BY <1>1, <1>3 DEF Life, LifeOf, ToldLife
<1>6. Clean(Crossed)' => Clean(Crossed)
  BY <1>1 DEF Clean
<1> QED
  BY <1>1, <1>2, <1>3, <1>4, <1>5, <1>6 DEF LifeInv

\* Before there are channels, no frame is one of a channel.
LEMMA NoFrameOn ==
  ASSUME NEW id, NEW o, NEW os, NEW state, NEW ch, ~ch.running, NEW ts, NEW tc,
         \A i \in DOMAIN ts : ts[i].op \notin ChannelOps, \A i \in DOMAIN tc : tc[i].m \notin ChannelKinds
  PROVE  LifeOf(id, o, os, state, ch, ts, tc)
BY DEF LifeOf, ToldLife, RunningLife, IsOn, HeededKinds, IsAt

\* The handshake tells of no channel.
LEMMA HandshakesLife ==
  ASSUME LifeInv, BrokerHandshakes
  PROVE  LifeInv'
<1>1. PICK m \in {"start", "tune", "connOpenOk", "connClose"}, st \in {"handshake", "running", "closing"} :
        /\ \E op : Handshake(op, Simple(m), st) \/ (Handshake(op, << >>, st) /\ st = "handshake")
        /\ st = "handshake" => m \in {"start", "tune"}
        /\ st = "running" => m = "connOpenOk"
  BY DEF BrokerHandshakes
<1>2. /\ broker.state = "handshake" /\ toServer # << >> /\ toServer' = Tail(toServer)
      /\ broker' = [broker EXCEPT !.state = st]
      /\ UNCHANGED <<calls, objs, channels, client, jobs, odd, faults>>
      /\ toClient' = toClient \o Simple(m) \/ (toClient' = toClient \o << >> /\ st = "handshake")
  BY <1>1 DEF Handshake, Answers
<1>3. TypeInv /\ TypeInv' /\ toClient \in Seq(ClientFrames) /\ toServer \in Seq(ServerFrames)
  BY BrokerConnectionTyped DEF LifeInv, TypeInv, WebTypes
<1>4. /\ \A i \in DOMAIN toServer : toServer[i].op \notin ChannelOps
      /\ \A i \in DOMAIN toClient : toClient[i].m \notin ChannelKinds \union {"connOpenOk", "connClose", "connCloseOk"}
      /\ ~Connected /\ jobs = << >> /\ \A id \in Ids : ~broker.ch[id].running
  BY <1>2 DEF LifeInv, Handshaking
<1>5. broker'.state = st /\ broker'.ch = broker.ch
  BY <1>2, <1>3, BrokerState
<1>6. \A i \in DOMAIN toServer' : toServer'[i].op \notin ChannelOps
  <2>1. \A i \in DOMAIN toServer' : \E j \in DOMAIN toServer : toServer'[i] = toServer[j]
    BY <1>2, <1>3, TailElements
  <2> QED
    BY <1>4, <2>1
<1> DEFINE fs == Simple(m)
<1>7. fs \in Seq(ClientFrames) /\ \A i \in DOMAIN fs : fs[i].m = m /\ m \notin ChannelKinds
  BY SimpleSaid
<1>8. \A i \in DOMAIN toClient' : \/ \E j \in DOMAIN toClient : toClient'[i] = toClient[j]
                                  \/ toClient'[i].m = m /\ m \notin ChannelKinds
  <2>1. toClient' = toClient \o fs \/ toClient' = toClient
    BY <1>2, <1>3, EmptyAppended
  <2> HIDE DEF fs
  <2>2. \A i \in DOMAIN (toClient \o fs) : \/ i \in DOMAIN toClient /\ (toClient \o fs)[i] = toClient[i]
                                           \/ \E j \in DOMAIN fs : (toClient \o fs)[i] = fs[j]
    BY <1>3, <1>7, ConcatElements
  <2> QED
    BY <1>7, <2>1, <2>2
<1> HIDE DEF fs
<1>9. Handshaking'
  <2>1. ~Connected' /\ jobs' = << >> /\ \A id \in Ids : ~broker'.ch[id].running
    BY <1>2, <1>4, <1>5 DEF Connected
  <2>2. CASE st = "handshake"
    <3>1. m \in {"start", "tune"}
      BY <1>1, <2>2
    <3>2. \A i \in DOMAIN toClient' : toClient'[i].m \notin ChannelKinds \union {"connOpenOk", "connClose", "connCloseOk"}
      BY <1>4, <1>8, <3>1
    <3> QED
      BY <1>5, <1>6, <2>1, <2>2, <3>2 DEF Handshaking
  <2>3. CASE st = "running"
    <3>1. m = "connOpenOk"
      BY <1>1, <2>3
    <3>2. \A i \in DOMAIN toClient' : toClient'[i].m \notin {"connClose", "connCloseOk"}
      BY <1>4, <1>8, <3>1
    <3> QED
      BY <1>5, <2>3, <3>2 DEF Handshaking
  <2>4. CASE st = "closing"
    BY <1>5, <2>4 DEF Handshaking
  <2> QED
    BY <2>2, <2>3, <2>4
<1>10. ChannelsRest' /\ OpenListed'
  BY <1>2, <1>5 DEF LifeInv, ChannelsRest, OpenListed
<1>11. ASSUME NEW id \in Ids PROVE Life(id)'
  <2>1. \A i \in DOMAIN toClient' : toClient'[i].m \notin ChannelKinds
    BY <1>4, <1>8
  <2>2. ~broker'.ch[id].running
    BY <1>4, <1>5
  <2>4. LifeOf(id, channels'[id], objs', broker'.state, broker'.ch[id], toServer', toClient')
    BY <1>6, <2>1, <2>2, NoFrameOn
  <2> QED
    BY <2>4 DEF Life
<1>12. Clean(Crossed)' => Clean(Crossed)
  BY <1>2 DEF Clean
<1> QED
  BY <1>2, <1>3, <1>9, <1>10, <1>11, <1>12 DEF LifeInv

-----------------------------------------------------------------------------
(* The theorem. *)

\* Every step keeps LifeInv.
LEMMA LifeStep == LifeInv /\ [Next]_vars => LifeInv'
<1> SUFFICES ASSUME LifeInv, [Next]_vars PROVE LifeInv'
  OBVIOUS
<1>1. CASE PageCall \/ RunJob \/ ParseFrame
  BY <1>1, PageCallLife, RunJobLife, ParseFrameLife
<1>2. CASE BrokerReads
  <2>1. CASE BrokerOpen \/ BrokerClose \/ BrokerCloseOk
    BY <2>1, BrokerLife, BrokerCloseOkLife
  <2>2. CASE \/ BrokerTopology \/ BrokerPurge \/ BrokerConsume \/ BrokerCancel \/ BrokerMode \/ BrokerSelect
             \/ BrokerSettle \/ BrokerTx
    BY <2>2, BrokerAnswersLife
  <2>3. CASE BrokerGet \/ BrokerPublish
    BY <2>3, BrokerGetLife, BrokerPublishLife
  <2>4. CASE BrokerHandshakes \/ BrokerDisconnects \/ BrokerDiscards
    BY <2>4, HandshakesLife, DisconnectsLife
  <2> QED
    BY <1>2, <2>1, <2>2, <2>3, <2>4 DEF BrokerReads
<1>3. ASSUME NEW id \in Ids,
             BrokerConfirms(id) \/ BrokerChecks(id) \/ BrokerDelivers(id) \/ BrokerCancelsConsumer(id)
      PROVE  LifeInv'
  BY <1>3, ConfirmsLife, ChecksLife, DeliversLife, CancelsLife
<1>4. CASE BrokerStops \/ SocketLost
  BY <1>4, StopsLife, LostLife
<1>5. CASE UNCHANGED vars
  <2>1. TypeInv'
    BY <1>5, TypeStep DEF LifeInv
  <2>2. Handshaking' /\ ChannelsRest' /\ OpenListed'
    BY <1>5 DEF vars, LifeInv, Handshaking, ChannelsRest, OpenListed, Connected
  <2>3. \A id \in Ids : Life(id)' = Life(id)
    BY <1>5 DEF vars, Life
  <2>4. Clean(Crossed)' = Clean(Crossed) /\ faults' = faults
    BY <1>5 DEF vars, Clean
  <2> QED
    BY <2>1, <2>2, <2>3, <2>4 DEF LifeInv
<1> QED
  BY <1>1, <1>2, <1>3, <1>4, <1>5 DEF Next

\* LifeInv holds in every state.
LEMMA LifeAlways == Spec => []LifeInv
<1>1. Init => LifeInv
  BY LifeInit
<1>2. LifeInv /\ [Next]_vars => LifeInv'
  BY LifeStep
<1> QED
  BY <1>1, <1>2, PTL DEF Spec

\* No reply to a request is parsed for a channel the client no longer has, except after
\* closes that crossed and after a Close that the broker did not act on.
THEOREM NoLateReplies == Spec => []NoReplyAfterClose
<1>1. LifeInv => NoReplyAfterClose
  BY DEF LifeInv, NoReplyAfterClose, Clean, Crossed
<1> QED
  BY <1>1, LifeAlways, PTL

=============================================================================
