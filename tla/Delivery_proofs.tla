-------------------------- MODULE Delivery_proofs ---------------------------
(***************************************************************************)
(* Proofs about Delivery for every value of its constants: the types,      *)
(* that the prefetch counters are exact, that no delivery exceeds a        *)
(* limit; what a queue promises about its messages: none is lost, and      *)
(* none waits in the ready deque while the deliver loop sleeps without a   *)
(* token; and where a message is: as long as no write failed after its     *)
(* delivery was taken back, it is at one place only, never comes back      *)
(* once disposed of, and the lists of the queues and of the channels       *)
(* agree.                                                                  *)
(***************************************************************************)
EXTENDS Delivery, FiniteSetTheorems, WellFoundedInduction, TLAPS

-----------------------------------------------------------------------------
(* The inductive invariant behind the types and the counters. *)

TagsBelow == \A ch \in Channels : \A u \in chUnacked[ch] : u.tag <= deliveryTag[ch]

\* A channel only has entries of consumers that were created on it.
OwnEntries ==
  \A ch \in Channels : \A u \in chUnacked[ch] :
    u.c # NoConsumer => ChannelOf[u.c] = ch /\ cState[u.c] \in {"active", "cancelled"}

Counters ==
  \A c \in Consumers :
    /\ cUnacked[c] >= Cardinality(HeldBy(c))
    /\ cState[c] \in {"new", "active"} => cUnacked[c] = Cardinality(HeldBy(c))

TypeInv == TypeOK /\ IsFiniteSet(unacked) /\ TagsBelow /\ OwnEntries /\ Counters

-----------------------------------------------------------------------------
(* Lemmas about the operators. *)

\* Copies counts the entries of a finite set.
LEMMA CopiesCount ==
  ASSUME NEW E, IsFiniteSet(E), NEW q \in Queues, NEW sp \in Sp
  PROVE  /\ Copies(E)[q][sp] = Cardinality({e \in E : e.q = q /\ e.sp = sp})
         /\ Copies(E)[q][sp] \in Nat
<1>1. IsFiniteSet({e \in E : e.q = q /\ e.sp = sp})
  BY FS_Subset
<1> QED
  BY <1>1, FS_CardinalityType DEF Copies

\* It counts at least one where the set has an entry.
LEMMA CopiesPositive ==
  ASSUME NEW E, IsFiniteSet(E), NEW q \in Queues, NEW sp \in Sp
  PROVE  Copies(E)[q][sp] > 0 <=> \E e \in E : e.q = q /\ e.sp = sp
<1> DEFINE T == {e \in E : e.q = q /\ e.sp = sp}
<1>1. Copies(E)[q][sp] = Cardinality(T) /\ Cardinality(T) \in Nat /\ IsFiniteSet(T)
  BY CopiesCount, FS_Subset
<1>2. T # {} <=> \E e \in E : e.q = q /\ e.sp = sp
  OBVIOUS
<1> HIDE DEF T
<1>3. Cardinality(T) = 0 <=> T = {}
  BY <1>1, FS_EmptySet
<1> QED
  BY <1>1, <1>2, <1>3

\* It is a number for every queue and position.
LEMMA CopiesType ==
  ASSUME NEW E, IsFiniteSet(E)
  PROVE  Copies(E) \in [Queues -> [Sp -> Nat]]
<1>1. \A q \in Queues, sp \in Sp : Copies(E)[q][sp] \in Nat
  BY CopiesCount
<1> QED
  BY <1>1 DEF Copies

\* What Deleted leaves is part of the set and keeps every entry of a message
\* that is not deleted.
LEMMA DeletedKeeps ==
  ASSUME NEW E, NEW U, NEW F \in Deleted(E, U)
  PROVE  /\ F \subseteq E
         /\ \A e \in E : (\A u \in U : e.q # u.q \/ e.sp # u.sp) => e \in F
  BY DEF Deleted

\* Counting what is left after entries have been removed.
LEMMA RemovedCount ==
  ASSUME NEW A, IsFiniteSet(A), NEW B \in SUBSET A
  PROVE  /\ Cardinality(A) \in Nat /\ Cardinality(B) \in Nat
         /\ Cardinality(B) <= Cardinality(A)
         /\ Cardinality(A \ B) = Cardinality(A) - Cardinality(B)
<1>1. IsFiniteSet(B) /\ Cardinality(B) <= Cardinality(A)
  BY FS_Subset
<1>2. A \cap B = B
  OBVIOUS
<1> QED
  BY <1>1, <1>2, FS_Difference, FS_CardinalityType

\* What Queue#ready holds after an insert.
LEMMA InsertType ==
  ASSUME ready \in [Queues -> [Sp -> Nat]], NEW n \in [Queues -> [Sp -> Nat]], Insert(n)
  PROVE  /\ ready' \in [Queues -> [Sp -> Nat]]
         /\ \A q \in Queues, sp \in Sp : ready'[q][sp] = ready[q][sp] + n[q][sp]
<1>1. \A q \in Queues, sp \in Sp :
        n[q][sp] \in Nat /\ ready[q][sp] \in Nat /\ ready[q][sp] + n[q][sp] \in Nat
  OBVIOUS
<1> QED
  BY <1>1 DEF Insert

\* The bookkeeping of tags and counters does not change.
LEMMA SameBooks ==
  ASSUME TypeInv, UNCHANGED <<chUnacked, deliveryTag, cState, cUnacked>>
  PROVE  TagsBelow' /\ OwnEntries' /\ Counters'
<1>1. \A c : HeldBy(c)' = HeldBy(c)
  BY DEF HeldBy
<1> QED
  BY <1>1 DEF TypeInv, TagsBelow, OwnEntries, Counters

\* Entries of one channel are settled, and their consumers released.
LEMMA SettledBooks ==
  ASSUME TypeInv, NEW ch \in Channels, NEW S \in SUBSET chUnacked[ch],
         RemoveFromChannel(ch, S), ReleaseConsumers(S), UNCHANGED <<deliveryTag, cState>>
  PROVE  /\ TagsBelow' /\ OwnEntries' /\ Counters'
         /\ cUnacked' \in [Consumers -> Nat]
         /\ DOMAIN chUnacked' = Channels
         /\ \A k \in Channels : chUnacked'[k] \subseteq ChannelUnack /\ IsFiniteSet(chUnacked'[k])
<1> USE DEF TypeInv
<1>1. /\ DOMAIN chUnacked' = Channels
      /\ chUnacked'[ch] = chUnacked[ch] \ S
      /\ \A k \in Channels : k # ch => chUnacked'[k] = chUnacked[k]
      /\ \A k \in Channels : chUnacked'[k] \subseteq chUnacked[k]
  BY DEF RemoveFromChannel, TypeOK
<1>2. \A k \in Channels : chUnacked'[k] \subseteq ChannelUnack /\ IsFiniteSet(chUnacked'[k])
  BY <1>1, FS_Subset DEF TypeOK
<1>3. TagsBelow' /\ OwnEntries'
  BY <1>1 DEF TagsBelow, OwnEntries
<1>4. ASSUME NEW c \in Consumers
      PROVE  LET R == {u \in S : u.c = c}
             IN  /\ cUnacked'[c] = cUnacked[c] - Cardinality(R)
                 /\ cUnacked'[c] \in Nat
                 /\ cUnacked'[c] >= Cardinality(HeldBy(c)')
                 /\ cState'[c] \in {"new", "active"} => cUnacked'[c] = Cardinality(HeldBy(c)')
  <2> DEFINE R == {u \in S : u.c = c}
  <2>1. cUnacked'[c] = cUnacked[c] - Cardinality(R)
    BY DEF ReleaseConsumers
  <2>2. /\ IsFiniteSet(HeldBy(c))
        /\ ChannelOf[c] \in Channels
    BY DeliveryAssumption, FS_Subset DEF TypeOK, HeldBy
  <2>3. R \subseteq HeldBy(c)
    BY DeliveryAssumption DEF OwnEntries, HeldBy
  <2>4. HeldBy(c)' = HeldBy(c) \ R
    <3>1. CASE ChannelOf[c] = ch
      BY <1>1, <3>1 DEF HeldBy
    <3>2. CASE ChannelOf[c] # ch
      <4>1. R = {}
        BY <3>2, DeliveryAssumption DEF OwnEntries
      <4> QED
        BY <1>1, <2>2, <3>2, <4>1 DEF HeldBy
    <3> QED
      BY <3>1, <3>2
  <2>5. /\ Cardinality(HeldBy(c)) \in Nat /\ Cardinality(R) \in Nat
        /\ Cardinality(R) <= Cardinality(HeldBy(c))
        /\ Cardinality(HeldBy(c)') = Cardinality(HeldBy(c)) - Cardinality(R)
    BY <2>2, <2>3, <2>4, RemovedCount
  <2>6. cUnacked[c] \in Nat /\ cUnacked[c] >= Cardinality(HeldBy(c))
    BY DEF TypeOK, Counters
  <2> QED
    BY <2>1, <2>5, <2>6 DEF Counters
<1>5. cUnacked' \in [Consumers -> Nat] /\ Counters'
  BY <1>4 DEF Counters, ReleaseConsumers
<1> QED
  BY <1>1, <1>2, <1>3, <1>5
\* Every unacknowledged entry is typed and the set is finite when something of
\* it is removed.
LEMMA SmallerUnacked ==
  ASSUME TypeInv, unacked' \subseteq unacked
  PROVE  unacked' \subseteq Unack /\ IsFiniteSet(unacked')
  BY FS_Subset DEF TypeInv, TypeOK

\* A channel gets one more entry: its list stays typed and finite.
LEMMA OneMoreEntry ==
  ASSUME TypeInv, NEW ch \in Channels, NEW u \in ChannelUnack,
         chUnacked'[ch] = chUnacked[ch] \/ chUnacked'[ch] = chUnacked[ch] \union {u},
         \A k \in Channels : k # ch => chUnacked'[k] = chUnacked[k]
  PROVE  \A k \in Channels : chUnacked'[k] \subseteq ChannelUnack /\ IsFiniteSet(chUnacked'[k])
<1> DEFINE B == chUnacked[ch] \union {u}
<1>1. \A k \in Channels : chUnacked[k] \subseteq ChannelUnack /\ IsFiniteSet(chUnacked[k])
  BY DEF TypeInv, TypeOK
<1>2. B \subseteq ChannelUnack /\ IsFiniteSet(B)
  BY <1>1, FS_AddElement
<1>3. chUnacked'[ch] = chUnacked[ch] \/ chUnacked'[ch] = B
  OBVIOUS
<1> HIDE DEF B
<1> QED
  BY <1>1, <1>2, <1>3

\* The new entry carries the new tag of the channel.
LEMMA OneMoreTag ==
  ASSUME TypeInv, NEW ch \in Channels, NEW u, u.tag = deliveryTag[ch] + 1,
         chUnacked'[ch] \subseteq chUnacked[ch] \union {u},
         \A k \in Channels : k # ch => chUnacked'[k] = chUnacked[k],
         deliveryTag'[ch] = deliveryTag[ch] + 1,
         \A k \in Channels : k # ch => deliveryTag'[k] = deliveryTag[k]
  PROVE  TagsBelow'
<1>1. \A k \in Channels : deliveryTag[k] \in Nat /\ \A v \in chUnacked[k] : v.tag \in Nat /\ v.tag <= deliveryTag[k]
  BY DEF TypeInv, TypeOK, TagsBelow, ChannelUnack
<1>2. ASSUME NEW k \in Channels, NEW v \in chUnacked'[k]
      PROVE  v.tag <= deliveryTag'[k]
  <2>1. CASE k # ch
    BY <1>1, <1>2, <2>1
  <2>2. CASE k = ch /\ v = u
    BY <1>1, <2>2
  <2>3. CASE k = ch /\ v \in chUnacked[ch]
    BY <1>1, <2>3
  <2> QED
    BY <1>2, <2>1, <2>2, <2>3
<1> QED
  BY <1>2 DEF TagsBelow

\* What an acknowledgement settles are entries of the channel.
LEMMA SettledPart ==
  ASSUME NEW ch, NEW tag, NEW multiple
  PROVE  Settled(ch, tag, multiple) \subseteq chUnacked[ch]
  BY DEF Settled, FirstNotBelow

\* A channel is closed, with all its consumers.
LEMMA CloseType ==
  ASSUME TypeInv, NEW ch \in Channels, NEW s \in {"closed", "gone"}, CloseChannel(ch, s)
  PROVE  TypeInv'
<1> USE DEF TypeInv
<1> DEFINE C == ChannelConsumers(ch)
           held == {e \in unacked : e.c \in C}
           n == Copies(held \union LeftOver(ch))
<1>1. /\ chState' = [chState EXCEPT ![ch] = s]
      /\ unacked' \in Deleted(unacked \ held, LeftOver(ch))
      /\ Insert(n)
      /\ msgToken' \in [Queues -> BOOLEAN]
      /\ RemoveFromChannel(ch, chUnacked[ch])
      /\ cState' = [c \in Consumers |-> IF ChannelOf[c] = ch THEN "closed" ELSE cState[c]]
      /\ cUnacked' = [c \in Consumers |-> IF ChannelOf[c] = ch THEN 0 ELSE cUnacked[c]]
      /\ UNCHANGED <<lastSp, consToken, pc, inflight, deliveryTag, qos, flow, reply, pending, raced>>
  BY DEF CloseChannel, MessageAvailable
<1>2. unacked' \subseteq unacked
  BY <1>1, DeletedKeeps
<1>3. n \in [Queues -> [Sp -> Nat]]
  <2>1. IsFiniteSet(held) /\ IsFiniteSet(LeftOver(ch))
    BY FS_Subset DEF LeftOver, TypeOK
  <2> QED
    BY <2>1, FS_Union, CopiesType
<1>4. ready' \in [Queues -> [Sp -> Nat]]
  BY <1>1, <1>3, InsertType DEF TypeOK
<1>5. /\ DOMAIN chUnacked' = Channels
      /\ chUnacked'[ch] = {}
      /\ \A k \in Channels : k # ch => chUnacked'[k] = chUnacked[k]
  BY <1>1 DEF RemoveFromChannel, TypeOK
<1>6. \A k \in Channels : chUnacked'[k] \subseteq ChannelUnack /\ IsFiniteSet(chUnacked'[k])
  BY <1>5, FS_EmptySet DEF TypeOK
<1>7. TagsBelow' /\ OwnEntries'
  <2>1. \A k \in Channels : \A u \in chUnacked[k] : u.c # NoConsumer => u.c \in Consumers
    BY DEF TypeOK, ChannelUnack, Holder
  <2> QED
    BY <1>1, <1>5, <2>1 DEF TagsBelow, OwnEntries
<1>8. ASSUME NEW c \in Consumers
      PROVE  /\ cUnacked'[c] \in Nat
             /\ cUnacked'[c] >= Cardinality(HeldBy(c)')
             /\ cState'[c] \in {"new", "active"} => cUnacked'[c] = Cardinality(HeldBy(c)')
  <2>1. ChannelOf[c] \in Channels
    BY DeliveryAssumption
  <2>2. CASE ChannelOf[c] = ch
    <3>1. HeldBy(c)' = {}
      BY <1>5, <2>2 DEF HeldBy
    <3> QED
      BY <1>1, <2>2, <3>1, FS_EmptySet
  <2>3. CASE ChannelOf[c] # ch
    <3>1. HeldBy(c)' = HeldBy(c)
      BY <1>5, <2>1, <2>3 DEF HeldBy
    <3> QED
      BY <1>1, <2>3, <3>1 DEF Counters, TypeOK
  <2> QED
    BY <2>2, <2>3
<1>9. cUnacked' \in [Consumers -> Nat] /\ Counters'
  BY <1>1, <1>8 DEF Counters
<1>10. /\ chState' \in [Channels -> {"open", "lost", "closed", "gone"}]
       /\ cState' \in [Consumers -> {"new", "active", "cancelled", "closed"}]
  BY <1>1 DEF TypeOK
<1> QED
  BY <1>1, <1>2, <1>4, <1>5, <1>6, <1>7, <1>9, <1>10, SmallerUnacked DEF TypeOK

-----------------------------------------------------------------------------
(* Type correctness. *)

\* The initial states are typed.
LEMMA TypeInit == Init => TypeInv
<1> SUFFICES ASSUME Init PROVE TypeInv
  OBVIOUS
<1>1. \A c \in Consumers : HeldBy(c) = {}
  BY DeliveryAssumption DEF Init, HeldBy
<1>2. qos \in [Channels -> [count : Nat, global : BOOLEAN]]
  BY DeliveryAssumption DEF Init
<1>3. /\ lastSp \in 0..MaxSp
      /\ inflight \in [Queues -> [sp : 0..MaxSp, c : Holder, up : BOOLEAN]]
  BY DeliveryAssumption DEF Init, NoDelivery, Holder
<1>4. \A ch \in Channels : chUnacked[ch] = {}
  BY DEF Init
<1>5. TypeOK
  BY <1>2, <1>3, <1>4, FS_EmptySet DEF Init, TypeOK
<1>6. TagsBelow /\ OwnEntries
  BY <1>4 DEF TagsBelow, OwnEntries
<1>7. Counters
  <2>1. \A c \in Consumers : Cardinality(HeldBy(c)) = 0
    BY <1>1, FS_EmptySet, Zenon
  <2> QED
    BY <2>1 DEF Init, Counters
<1> QED
  BY <1>5, <1>6, <1>7, FS_EmptySet DEF Init, TypeInv

\* Each step keeps the types and the counters.
LEMMA TypeStep == TypeInv /\ [Next]_vars => TypeInv'
<1> SUFFICES ASSUME TypeInv, [Next]_vars PROVE TypeInv'
  OBVIOUS
<1> USE DEF TypeInv, queueVars, loopVars, channelVars, consumerVars
<1>1. ASSUME NEW qs \in (SUBSET Queues) \ {{}}, Publish(qs)
      PROVE  TypeInv'
  <2> DEFINE n == [q \in Queues |-> [sp \in Sp |-> IF q \in qs /\ sp = lastSp + 1 THEN 1 ELSE 0]]
  <2>1. n \in [Queues -> [Sp -> Nat]] /\ Insert(n)
    BY <1>1 DEF Publish
  <2>2. ready' \in [Queues -> [Sp -> Nat]]
    BY <2>1, InsertType DEF TypeOK
  <2>3. msgToken' \in [Queues -> BOOLEAN]
    BY <1>1 DEF Publish, MessageAvailable, TypeOK
  <2>4. lastSp' \in 0..MaxSp /\ pending' \subseteq Queues \X Sp
    BY <1>1, DeliveryAssumption DEF Publish, TypeOK, Sp
  <2> QED
    BY <1>1, <2>2, <2>3, <2>4, SameBooks DEF Publish, TypeOK
<1>2. ASSUME NEW q \in Queues, AwaitMessage(q) PROVE TypeInv'
  BY <1>2, SameBooks DEF AwaitMessage, TypeOK
<1>3. ASSUME NEW q \in Queues, ReceiveMessageToken(q) PROVE TypeInv'
  BY <1>3, SameBooks DEF ReceiveMessageToken, TypeOK
<1>4. ASSUME NEW q \in Queues, AwaitConsumer(q) PROVE TypeInv'
  BY <1>4, SameBooks DEF AwaitConsumer, TypeOK
<1>5. ASSUME NEW q \in Queues, ReceiveConsumerToken(q) PROVE TypeInv'
  BY <1>5, SameBooks DEF ReceiveConsumerToken, TypeOK
<1>6. ASSUME NEW q \in Queues, NEW c \in Consumers, StartDelivery(q, c) PROVE TypeInv'
  <2> DEFINE ch == ChannelOf[c]
  <2>1. ch \in Channels /\ c \in Holder /\ c # NoConsumer /\ cState[c] = "active"
    BY <1>6, DeliveryAssumption DEF Holder, StartDelivery, QueueConsumers
  <2>2. PICK sp \in Sp :
          /\ Take(q, sp, c, c \in NoAck)
          /\ NextDeliveryTag(ch, q, sp, c, c \in NoAck)
          /\ inflight' = [inflight EXCEPT ![q] = [sp |-> sp, c |-> c, up |-> chState[ch] = "open"]]
    BY <1>6 DEF StartDelivery
  <2> DEFINE u == [tag |-> deliveryTag[ch] + 1, q |-> q, sp |-> sp, c |-> c]
             e == [q |-> q, sp |-> sp, c |-> c]
  <2>3. u \in ChannelUnack /\ e \in Unack
    BY <2>1 DEF ChannelUnack, Unack, TypeOK
  <2>4. /\ unacked' \subseteq Unack /\ IsFiniteSet(unacked')
        /\ ready' \in [Queues -> [Sp -> Nat]]
    <3>1. ready[q][sp] \in Nat /\ ready[q][sp] > 0
      BY <2>2 DEF Take, IsHead, TypeOK
    <3>2. ready[q][sp] - 1 \in Nat
      BY <3>1
    <3>3. unacked' = unacked \/ unacked' = unacked \union {e}
      BY <2>2 DEF Take
    <3> QED
      BY <2>2, <2>3, <3>2, <3>3, FS_AddElement DEF Take, TypeOK
  <2>5. /\ inflight' \in [Queues -> [sp : 0..MaxSp, c : Holder, up : BOOLEAN]]
        /\ inflight'[q].sp = sp /\ inflight'[q].c = c
        /\ \A x \in Queues : x # q => inflight'[x] = inflight[x]
        /\ pc' \in [Queues -> {"top", "woken", "awaitMessage", "awaitConsumer", "deliver"}]
        /\ \A x \in Queues : x # q => pc'[x] = pc[x]
    <3>1. sp \in 0..MaxSp
      BY DEF Sp
    <3> QED
      BY <1>6, <2>1, <2>2, <3>1 DEF StartDelivery, TypeOK
  <2>6. deliveryTag' \in [Channels -> Nat] /\ deliveryTag'[ch] = deliveryTag[ch] + 1
        /\ \A k \in Channels : k # ch => deliveryTag'[k] = deliveryTag[k]
    BY <2>1, <2>2 DEF NextDeliveryTag, TypeOK
  <2>7. CASE c \in NoAck
    <3>1. UNCHANGED <<chUnacked, cUnacked, cState>>
      BY <1>6, <2>2, <2>7 DEF StartDelivery, NextDeliveryTag
    <3>2. \A x : HeldBy(x)' = HeldBy(x)
      BY <3>1 DEF HeldBy
    <3>3. TagsBelow' /\ OwnEntries' /\ Counters'
      <4>1. \A k \in Channels : deliveryTag[k] \in Nat /\ deliveryTag'[k] \in Nat /\ deliveryTag'[k] >= deliveryTag[k]
        <5>1. \A k \in Channels : deliveryTag[k] \in Nat /\ deliveryTag'[k] \in Nat
          BY <2>6 DEF TypeOK
        <5>2. ASSUME NEW k \in Channels PROVE deliveryTag'[k] >= deliveryTag[k]
          BY <2>6, <5>1
        <5> QED
          BY <5>1, <5>2
      <4>2. \A k \in Channels : \A x \in chUnacked[k] : x.tag \in Nat /\ x.tag <= deliveryTag[k]
        BY DEF TagsBelow, TypeOK, ChannelUnack
      <4>3. TagsBelow'
        BY <3>1, <4>1, <4>2 DEF TagsBelow
      <4>4. OwnEntries'
        BY <3>1 DEF OwnEntries
      <4>5. Counters'
        BY <3>1, <3>2 DEF Counters
      <4> QED
        BY <4>3, <4>4, <4>5
    <3>4. UNCHANGED <<lastSp, msgToken, consToken, chState, qos, flow, reply, pending, raced>>
      BY <1>6 DEF StartDelivery
    <3> QED
      BY <2>4, <2>5, <2>6, <3>1, <3>3, <3>4 DEF TypeOK
  <2>8. CASE c \notin NoAck
    <3>1. /\ chUnacked'[ch] = chUnacked[ch] \union {u}
          /\ DOMAIN chUnacked' = Channels
          /\ \A k \in Channels : k # ch => chUnacked'[k] = chUnacked[k]
      BY <2>1, <2>2, <2>8 DEF NextDeliveryTag, TypeOK
    <3>2. \A k \in Channels : chUnacked'[k] \subseteq ChannelUnack /\ IsFiniteSet(chUnacked'[k])
      BY <2>1, <2>3, <3>1, OneMoreEntry
    <3>3. u \notin chUnacked[ch]
      BY <2>1 DEF TagsBelow, TypeOK, ChannelUnack
    <3>4. TagsBelow'
      BY <2>1, <2>6, <3>1, OneMoreTag
    <3>5. UNCHANGED cState /\ OwnEntries'
      BY <1>6, <2>1, <3>1 DEF StartDelivery, OwnEntries
    <3>6. HeldBy(c)' = HeldBy(c) \union {u} /\ Cardinality(HeldBy(c)') = Cardinality(HeldBy(c)) + 1
      <4>1. IsFiniteSet(HeldBy(c)) /\ u \notin HeldBy(c)
        BY <2>1, <3>3, FS_Subset DEF HeldBy, TypeOK
      <4>2. HeldBy(c)' = HeldBy(c) \union {u}
        BY <2>1, <3>1 DEF HeldBy
      <4> QED
        BY <4>1, <4>2, FS_AddElement
    <3>7. \A x \in Consumers : x # c => HeldBy(x)' = HeldBy(x)
      BY <2>1, <3>1, DeliveryAssumption DEF HeldBy
    <3>8. /\ cUnacked' \in [Consumers -> Nat]
          /\ cUnacked'[c] = cUnacked[c] + 1
          /\ \A x \in Consumers : x # c => cUnacked'[x] = cUnacked[x]
      BY <1>6, <2>8 DEF StartDelivery, TypeOK
    <3>9. Cardinality(HeldBy(c)) \in Nat
      BY <2>1, FS_Subset, FS_CardinalityType DEF HeldBy, TypeOK
    <3>10. Counters'
      <4>1. cUnacked[c] \in Nat /\ cUnacked[c] = Cardinality(HeldBy(c))
        BY <2>1 DEF Counters, TypeOK
      <4>2. cUnacked'[c] = Cardinality(HeldBy(c)')
        BY <3>6, <3>8, <4>1
      <4>3. cUnacked'[c] \in Nat
        BY <3>8
      <4>4. ASSUME NEW x \in Consumers, x # c
            PROVE  /\ cUnacked'[x] >= Cardinality(HeldBy(x)')
                   /\ cState'[x] \in {"new", "active"} => cUnacked'[x] = Cardinality(HeldBy(x)')
        BY <3>5, <3>7, <3>8, <4>4 DEF Counters
      <4> QED
        BY <4>2, <4>3, <4>4 DEF Counters
    <3> QED
      BY <1>6, <2>1, <2>4, <2>5, <2>6, <3>1, <3>2, <3>4, <3>5, <3>8, <3>10 DEF StartDelivery, TypeOK
  <2> QED
    BY <2>7, <2>8
<1>7. ASSUME NEW q \in Queues, NEW c \in Consumers, FoundNoMessage(q, c) PROVE TypeInv'
  BY <1>7, SameBooks DEF FoundNoMessage, TypeOK
<1>8. ASSUME NEW q \in Queues, DeliveryDone(q) PROVE TypeInv'
  <2>1. NoDelivery \in [sp : 0..MaxSp, c : Holder, up : BOOLEAN]
    BY DeliveryAssumption DEF NoDelivery, Holder
  <2>2. pending' \subseteq Queues \X Sp
    BY <1>8 DEF DeliveryDone, TypeOK
  <2> QED
    BY <1>8, <2>1, <2>2, SameBooks DEF DeliveryDone, TypeOK
<1>9. ASSUME NEW q \in Queues, DeliveryFailed(q) PROVE TypeInv'
  <2> DEFINE d == inflight[q]
             ch == ChannelOf[d.c]
  <2>1. pc[q] = "deliver" /\ d.sp \in Sp /\ d.c \in Consumers /\ ch \in Channels
    BY <1>9, DeliveryAssumption DEF DeliveryFailed, TypeOK
  <2>2. unacked' \subseteq unacked
    BY <1>9, DeletedKeeps DEF DeliveryFailed
  <2>3. ready' \in [Queues -> [Sp -> Nat]]
    <3>1. ready[q][d.sp] + 1 \in Nat
      BY <2>1 DEF TypeOK
    <3> QED
      BY <1>9, <2>1, <3>1 DEF DeliveryFailed, TypeOK
  <2>4. NoDelivery \in [sp : 0..MaxSp, c : Holder, up : BOOLEAN]
    BY DeliveryAssumption DEF NoDelivery, Holder
  <2>5. chState' \in [Channels -> {"open", "lost", "closed", "gone"}]
    <3>1. SocketLost(chState[ch]) \in {"open", "lost", "closed", "gone"}
      BY <2>1 DEF SocketLost, TypeOK
    <3> QED
      BY <1>9, <3>1 DEF DeliveryFailed, TypeOK
  <2>6. raced' \in BOOLEAN
    BY <1>9 DEF DeliveryFailed
  <2>7. UNCHANGED <<lastSp, msgToken, consToken, chUnacked, deliveryTag, qos, flow, reply, cState, cUnacked, pending>>
    BY <1>9 DEF DeliveryFailed
  <2>8. /\ inflight' \in [Queues -> [sp : 0..MaxSp, c : Holder, up : BOOLEAN]]
        /\ pc' \in [Queues -> {"top", "woken", "awaitMessage", "awaitConsumer", "deliver"}]
        /\ \A x \in Queues : pc'[x] = "deliver" => inflight'[x].sp \in Sp /\ inflight'[x].c \in Consumers
    BY <1>9, <2>4 DEF DeliveryFailed, TypeOK
  <2> QED
    BY <2>2, <2>3, <2>5, <2>6, <2>7, <2>8, SmallerUnacked, SameBooks DEF TypeOK
<1>10. ASSUME NEW q \in Queues, Purge(q) PROVE TypeInv'
  <2>1. ready' \in [Queues -> [Sp -> Nat]]
    BY <1>10 DEF Purge, TypeOK
  <2>2. pending' \subseteq Queues \X Sp
    BY <1>10 DEF Purge, TypeOK
  <2> QED
    BY <1>10, <2>1, <2>2, SameBooks DEF Purge, TypeOK
<1>11. ASSUME NEW c \in Consumers, Consume(c) PROVE TypeInv'
  <2>1. \A x : HeldBy(x)' = HeldBy(x)
    BY <1>11 DEF Consume, HeldBy
  <2>2. /\ cState' \in [Consumers -> {"new", "active", "cancelled", "closed"}]
        /\ cState[c] = "new" /\ cState'[c] = "active"
        /\ \A x \in Consumers : x # c => cState'[x] = cState[x]
    BY <1>11 DEF Consume, TypeOK
  <2>3. TagsBelow' /\ OwnEntries'
    BY <1>11, <2>2, DeliveryAssumption DEF Consume, TagsBelow, OwnEntries, TypeOK, ChannelUnack, Holder
  <2>4. Counters'
    BY <1>11, <2>1, <2>2 DEF Consume, Counters
  <2>5. consToken' \in [Queues -> BOOLEAN]
    BY <1>11 DEF Consume, ConsumerAvailable, TypeOK
  <2> QED
    BY <1>11, <2>2, <2>3, <2>4, <2>5 DEF Consume, TypeOK
<1>12. ASSUME NEW c \in Consumers, CancelConsumer(c) PROVE TypeInv'
  <2>1. \A x : HeldBy(x)' = HeldBy(x)
    BY <1>12 DEF CancelConsumer, HeldBy
  <2>2. /\ cState' \in [Consumers -> {"new", "active", "cancelled", "closed"}]
        /\ cState[c] = "active" /\ cState'[c] = "cancelled"
        /\ \A x \in Consumers : x # c => cState'[x] = cState[x]
    BY <1>12 DEF CancelConsumer, TypeOK
  <2>3. TagsBelow' /\ OwnEntries'
    BY <1>12, <2>2, DeliveryAssumption DEF CancelConsumer, TagsBelow, OwnEntries, TypeOK, ChannelUnack, Holder
  <2>4. Counters'
    BY <1>12, <2>1, <2>2 DEF CancelConsumer, Counters
  <2> QED
    BY <1>12, <2>2, <2>3, <2>4 DEF CancelConsumer, TypeOK
<1>13. ASSUME NEW ch \in Channels, NEW tag, NEW multiple, BasicAck(ch, tag, multiple) PROVE TypeInv'
  <2> DEFINE S == Settled(ch, tag, multiple)
  <2>1. /\ S \subseteq chUnacked[ch] /\ RemoveFromChannel(ch, S) /\ ReleaseConsumers(S)
        /\ unacked' \subseteq unacked
        /\ UNCHANGED <<lastSp, ready, msgToken, pc, inflight, chState, deliveryTag, qos, flow, reply, cState, raced>>
    BY <1>13, SettledPart, DeletedKeeps DEF BasicAck
  <2>2. consToken' \in [Queues -> BOOLEAN] /\ pending' \subseteq Queues \X Sp
    BY <1>13 DEF BasicAck, ConsumerAvailable, TypeOK
  <2> QED
    BY <2>1, <2>2, SettledBooks, SmallerUnacked DEF TypeOK
<1>14. ASSUME NEW ch \in Channels, NEW tag, NEW multiple, NEW requeue,
              BasicReject(ch, tag, multiple, requeue)
       PROVE  TypeInv'
  <2> DEFINE S == Settled(ch, tag, multiple)
  <2>1. /\ S \subseteq chUnacked[ch] /\ RemoveFromChannel(ch, S) /\ ReleaseConsumers(S)
        /\ unacked' \subseteq unacked
        /\ UNCHANGED <<lastSp, consToken, pc, inflight, chState, deliveryTag, qos, flow, reply, cState, raced>>
    BY <1>14, SettledPart, DeletedKeeps DEF BasicReject
  <2>2. Copies(S) \in [Queues -> [Sp -> Nat]]
    BY <2>1, FS_Subset, CopiesType DEF TypeOK
  <2>3. /\ ready' \in [Queues -> [Sp -> Nat]]
        /\ msgToken' \in [Queues -> BOOLEAN]
        /\ pending' \subseteq Queues \X Sp
    <3>1. CASE requeue
      BY <1>14, <2>2, <3>1, InsertType DEF BasicReject, MessageAvailable, TypeOK
    <3>2. CASE ~requeue
      BY <1>14, <3>2 DEF BasicReject, TypeOK
    <3> QED
      BY <3>1, <3>2
  <2> QED
    BY <2>1, <2>3, SettledBooks, SmallerUnacked DEF TypeOK
<1>15. ASSUME NEW ch \in Channels, NEW tag, NEW multiple, UnknownTag(ch, tag, multiple) PROVE TypeInv'
  BY <1>15, CloseType DEF UnknownTag
<1>16. ASSUME NEW ch \in Channels, NEW q \in Queues, NEW noAck \in BOOLEAN, BasicGet(ch, q, noAck)
       PROVE  TypeInv'
  <2>1. PICK sp \in Sp : /\ Take(q, sp, NoConsumer, noAck)
                         /\ NextDeliveryTag(ch, q, sp, NoConsumer, noAck)
                         /\ pending' = IF noAck THEN pending \ {<<q, sp>>} ELSE pending
    BY <1>16 DEF BasicGet
  <2> DEFINE u == [tag |-> deliveryTag[ch] + 1, q |-> q, sp |-> sp, c |-> NoConsumer]
             e == [q |-> q, sp |-> sp, c |-> NoConsumer]
  <2>2. u \in ChannelUnack /\ e \in Unack
    BY DEF ChannelUnack, Unack, Holder, TypeOK
  <2>3. /\ unacked' \subseteq Unack /\ IsFiniteSet(unacked')
        /\ ready' \in [Queues -> [Sp -> Nat]]
    <3>1. ready[q][sp] \in Nat /\ ready[q][sp] > 0
      BY <2>1 DEF Take, IsHead, TypeOK
    <3>2. ready[q][sp] - 1 \in Nat
      BY <3>1
    <3>3. unacked' = unacked \/ unacked' = unacked \union {e}
      BY <2>1 DEF Take
    <3> QED
      BY <2>1, <2>2, <3>2, <3>3, FS_AddElement DEF Take, TypeOK
  <2>4. deliveryTag' \in [Channels -> Nat] /\ deliveryTag'[ch] = deliveryTag[ch] + 1
        /\ \A k \in Channels : k # ch => deliveryTag'[k] = deliveryTag[k]
    BY <2>1 DEF NextDeliveryTag, TypeOK
  <2>5. /\ DOMAIN chUnacked' = Channels
        /\ \A k \in Channels : k # ch => chUnacked'[k] = chUnacked[k]
        /\ chUnacked'[ch] = chUnacked[ch] \/ chUnacked'[ch] = chUnacked[ch] \union {u}
    BY <2>1 DEF NextDeliveryTag, TypeOK
  <2>6. \A k \in Channels : chUnacked'[k] \subseteq ChannelUnack /\ IsFiniteSet(chUnacked'[k])
    BY <2>2, <2>5, OneMoreEntry DEF TypeOK
  <2>7. UNCHANGED <<lastSp, msgToken, consToken, pc, inflight, chState, qos, flow, reply, cState, cUnacked, raced>>
    BY <1>16 DEF BasicGet
  <2>8. \A c \in Consumers : HeldBy(c)' = HeldBy(c)
    BY <2>5, DeliveryAssumption DEF HeldBy
  <2>9. TagsBelow' /\ OwnEntries' /\ Counters'
    <3>1. TagsBelow'
      <4>1. u.tag = deliveryTag[ch] + 1 /\ chUnacked'[ch] \subseteq chUnacked[ch] \union {u}
        BY <2>5
      <4> QED
        BY <2>4, <2>5, <4>1, OneMoreTag
    <3>2. OwnEntries'
      BY <2>5, <2>7 DEF OwnEntries
    <3>3. Counters'
      BY <2>7, <2>8 DEF Counters
    <3> QED
      BY <3>1, <3>2, <3>3
  <2>10. pending' \subseteq Queues \X Sp
    BY <2>1 DEF TypeOK
  <2> QED
    BY <2>3, <2>4, <2>5, <2>6, <2>7, <2>9, <2>10 DEF TypeOK
<1>17. ASSUME NEW ch \in Channels, NEW v \in QosValues, BasicQos(ch, v) PROVE TypeInv'
  <2>1. qos' \in [Channels -> [count : Nat, global : BOOLEAN]]
    BY <1>17, DeliveryAssumption DEF BasicQos, TypeOK
  <2>2. reply' \in [Channels -> {"none", "consumers", "both"}]
    BY <1>17 DEF BasicQos, TypeOK
  <2> QED
    BY <1>17, <2>1, <2>2, SameBooks DEF BasicQos, TypeOK
<1>18. ASSUME NEW ch \in Channels, NEW active \in BOOLEAN, ClientFlow(ch, active) PROVE TypeInv'
  BY <1>18, SameBooks DEF ClientFlow, ConsumerAvailable, TypeOK
<1>19. ASSUME NEW ch \in Channels, NEW requeue \in BOOLEAN, BasicRecover(ch, requeue) PROVE TypeInv'
  <2> DEFINE S == {u \in chUnacked[ch] : u.c = NoConsumer} \union HeldByConsumers(ch)
  <2>1. /\ RemoveFromChannel(ch, chUnacked[ch]) /\ ReleaseConsumers(HeldByConsumers(ch))
        /\ unacked' \subseteq unacked /\ Insert(Copies(S))
        /\ msgToken' \in [Queues -> BOOLEAN]
        /\ reply' \in [Channels -> {"none", "consumers", "both"}]
        /\ UNCHANGED <<lastSp, consToken, pc, inflight, chState, deliveryTag, qos, flow, cState, pending, raced>>
    BY <1>19, DeletedKeeps DEF BasicRecover, MessageAvailable, TypeOK
  <2>2. S \subseteq chUnacked[ch]
    BY DEF HeldByConsumers
  <2>3. ready' \in [Queues -> [Sp -> Nat]]
    BY <2>1, <2>2, FS_Subset, CopiesType, InsertType DEF TypeOK
  <2>4. /\ DOMAIN chUnacked' = Channels
        /\ chUnacked'[ch] = {}
        /\ \A k \in Channels : k # ch => chUnacked'[k] = chUnacked[k]
    BY <2>1 DEF RemoveFromChannel, TypeOK
  <2>5. ASSUME NEW c \in Consumers
        PROVE  /\ cUnacked'[c] \in Nat
               /\ cUnacked'[c] >= Cardinality(HeldBy(c)')
               /\ cState'[c] \in {"new", "active"} => cUnacked'[c] = Cardinality(HeldBy(c)')
    <3> DEFINE R == {u \in HeldByConsumers(ch) : u.c = c}
    <3>1. cUnacked'[c] = cUnacked[c] - Cardinality(R)
      BY <2>1 DEF ReleaseConsumers
    <3> HIDE DEF R
    <3>2. ChannelOf[c] \in Channels /\ IsFiniteSet(HeldBy(c)) /\ Cardinality(HeldBy(c)) \in Nat
      BY DeliveryAssumption, FS_Subset, FS_CardinalityType DEF TypeOK, HeldBy
    <3>3. /\ cUnacked[c] \in Nat /\ cUnacked[c] >= Cardinality(HeldBy(c))
          /\ cState'[c] = cState[c]
          /\ cState[c] \in {"new", "active"} => cUnacked[c] = Cardinality(HeldBy(c))
      BY <2>1 DEF TypeOK, Counters
    <3>4. CASE ChannelOf[c] = ch /\ cState[c] = "active"
      <4>1. R = HeldBy(c) /\ HeldBy(c)' = {}
        BY <2>4, <3>4 DEF R, HeldByConsumers, ChannelConsumers, HeldBy
      <4> QED
        BY <3>1, <3>2, <3>3, <3>4, <4>1, FS_EmptySet
    <3>5. CASE ChannelOf[c] = ch /\ cState[c] # "active"
      <4>1. R = {} /\ HeldBy(c)' = {}
        BY <2>4, <3>5 DEF R, HeldByConsumers, ChannelConsumers, HeldBy
      <4>2. cState[c] = "new" => HeldBy(c) = {}
        BY <3>2, DeliveryAssumption DEF OwnEntries, HeldBy
      <4> QED
        BY <3>1, <3>2, <3>3, <3>5, <4>1, <4>2, FS_EmptySet
    <3>6. CASE ChannelOf[c] # ch
      <4>1. R = {}
        BY <3>6 DEF R, HeldByConsumers, ChannelConsumers
      <4>2. HeldBy(c)' = HeldBy(c)
        BY <2>4, <3>2, <3>6 DEF HeldBy
      <4> QED
        BY <3>1, <3>2, <3>3, <4>1, <4>2, FS_EmptySet
    <3> QED
      BY <3>4, <3>5, <3>6
  <2>6. cUnacked' \in [Consumers -> Nat] /\ Counters'
    BY <2>1, <2>5 DEF Counters, ReleaseConsumers
  <2>7. TagsBelow' /\ OwnEntries'
    BY <2>1, <2>4 DEF TagsBelow, OwnEntries
  <2>8. \A k \in Channels : chUnacked'[k] \subseteq ChannelUnack /\ IsFiniteSet(chUnacked'[k])
    BY <2>4, FS_EmptySet DEF TypeOK
  <2> QED
    BY <2>1, <2>3, <2>4, <2>6, <2>7, <2>8, SmallerUnacked DEF TypeOK
<1>20. ASSUME NEW ch \in Channels, RecoverRaises(ch) PROVE TypeInv'
  BY <1>20, SameBooks DEF RecoverRaises, TypeOK
<1>21. ASSUME NEW ch \in Channels, ChannelClose(ch) \/ Disconnect(ch) \/ Cleanup(ch) PROVE TypeInv'
  BY <1>21, CloseType DEF ChannelClose, Disconnect, Cleanup
<1>22. ASSUME NEW ch \in Channels, WriteError(ch) PROVE TypeInv'
  <2>1. SocketLost(chState[ch]) \in {"open", "lost", "closed", "gone"}
    BY DEF SocketLost, TypeOK
  <2> QED
    BY <1>22, <2>1, SameBooks DEF WriteError, TypeOK
<1>23. CASE UNCHANGED vars
  BY <1>23, SameBooks DEF vars, TypeOK
<1>24. ASSUME NEW ch \in Channels, ReplyWritten(ch) PROVE TypeInv'
  BY <1>24, SameBooks DEF ReplyWritten, ConsumerAvailable, MessageAvailable, TypeOK
<1> QED
  BY <1>1, <1>2, <1>3, <1>4, <1>5, <1>6, <1>7, <1>8, <1>9, <1>10, <1>11, <1>12, <1>13, <1>14,
     <1>15, <1>16, <1>17, <1>18, <1>19, <1>20, <1>21, <1>22, <1>23, <1>24
     DEF Next, DeliverLoop, Settle, Client

\* Every variable keeps its type, whatever the queues, channels and consumers
\* and however long the workload: no counter goes below zero.
THEOREM TypeCorrect == Spec => []TypeOK
<1>1. TypeInv => TypeOK
  BY DEF TypeInv
<1> QED
  BY TypeInit, TypeStep, <1>1, PTL DEF Spec

\* The counter the prefetch check reads is the number of deliveries the channel
\* waits for.
THEOREM CountersExact == Spec => []CounterExact
<1>1. TypeInv => CounterExact
  BY DEF TypeInv, Counters, CounterExact
<1> QED
  BY TypeInit, TypeStep, <1>1, PTL DEF Spec

-----------------------------------------------------------------------------
(* The prefetch limit.  With a global prefetch the code adds up the counters *)
(* of the consumers, a fold over a set.  The library's induction theorems    *)
(* take an operator, which the provers cannot instantiate, so the sum is     *)
(* found by the least counterexample.                                        *)

\* A nonempty set of numbers has a least element.
LEMMA LeastElement ==
  ASSUME NEW S \in SUBSET Nat, S # {}
  PROVE  \E n \in S : \A m \in S : n <= m
<1> DEFINE R == OpToRel(<, Nat)
<1>1. IsWellFoundedOn(R, Nat)
  BY NatLessThanWellFounded
<1>2. \A x, y \in Nat : <<x, y>> \in R <=> x < y
  BY DEF OpToRel
<1> HIDE DEF R
<1>3. PICK x \in S : \A y \in S : <<y, x>> \notin R
  BY <1>1, WFMin
<1>4. ASSUME NEW y \in S PROVE x <= y
  <2>1. ~(y < x) /\ x \in Nat /\ y \in Nat
    BY <1>2, <1>3
  <2> QED
    BY <2>1
<1> QED
  BY <1>4

\* A function that adds up f over the subsets of C, one element at a time.
SumsUp(g, f, C) ==
  g = [s \in SUBSET C |->
         IF s = {} THEN 0
         ELSE f[CHOOSE x \in s : TRUE] + g[s \ {CHOOSE x \in s : TRUE}]]

\* SumFunctionOnSet is the value of such a function.
LEMMA SumUnfolded ==
  ASSUME NEW f, NEW C
  PROVE  SumFunctionOnSet(f, C) = (CHOOSE g : SumsUp(g, f, C))[C]
  BY DEF SumFunctionOnSet, FoldFunctionOnSet, MapThenFoldSet, SumsUp

\* Entries of the holders s, and those of them that are not of x.
LEMMA HoldersCount ==
  ASSUME NEW U, IsFiniteSet(U), NEW s, NEW x \in s
  PROVE  /\ Cardinality({u \in U : u.c \in s}) \in Nat
         /\ Cardinality({u \in U : u.c = x}) \in Nat
         /\ Cardinality({u \in U : u.c \in s \ {x}}) \in Nat
         /\ Cardinality({u \in U : u.c \in s})
              = Cardinality({u \in U : u.c = x}) + Cardinality({u \in U : u.c \in s \ {x}})
<1> DEFINE A == {u \in U : u.c \in s}
           B == {u \in U : u.c = x}
           D == {u \in U : u.c \in s \ {x}}
<1>1. IsFiniteSet(A) /\ B \in SUBSET A /\ D = A \ B
  BY FS_Subset
<1> HIDE DEF A, B, D
<1>2. /\ Cardinality(A) \in Nat /\ Cardinality(B) \in Nat /\ Cardinality(B) <= Cardinality(A)
      /\ Cardinality(D) = Cardinality(A) - Cardinality(B)
  BY <1>1, RemovedCount
<1>3. Cardinality(D) \in Nat /\ Cardinality(A) = Cardinality(B) + Cardinality(D)
  BY <1>2
<1> QED
  BY <1>2, <1>3 DEF A, B, D

\* If f counts, for every holder in C, the entries of U it holds, then the sum
\* over C counts the entries held by any of them.
LEMMA SumCounts ==
  ASSUME NEW U, IsFiniteSet(U), NEW C, IsFiniteSet(C), NEW f,
         \A c \in C : f[c] = Cardinality({u \in U : u.c = c})
  PROVE  SumFunctionOnSet(f, C) = Cardinality({u \in U : u.c \in C})
<1> DEFINE Count(s) == Cardinality({u \in U : u.c \in s})
           first(s) == CHOOSE x \in s : TRUE
<1>1. \A s \in SUBSET C : s # {} => first(s) \in s /\ first(s) \in C
  OBVIOUS
<1>2. Count({}) = 0
  <2>1. {u \in U : u.c \in {}} = {}
    OBVIOUS
  <2> QED
    BY <2>1, FS_EmptySet
<1>3. \A s \in SUBSET C : s # {} => Count(s) = f[first(s)] + Count(s \ {first(s)})
  <2> SUFFICES ASSUME NEW s \in SUBSET C, s # {}
               PROVE  Count(s) = f[first(s)] + Count(s \ {first(s)})
    OBVIOUS
  <2> DEFINE x == first(s)
  <2>1. x \in s /\ f[x] = Cardinality({u \in U : u.c = x})
    BY <1>1
  <2> HIDE DEF x
  <2>2. Count(s) = f[x] + Count(s \ {x})
    BY <2>1, HoldersCount
  <2> QED
    BY <2>2 DEF x
<1> HIDE DEF Count
<1>4. \E g : SumsUp(g, f, C)
  <2> DEFINE counts == [s \in SUBSET C |-> Count(s)]
  <2>1. \A s \in SUBSET C :
          Count(s) = IF s = {} THEN 0 ELSE f[first(s)] + counts[s \ {first(s)}]
    BY <1>2, <1>3
  <2>2. SumsUp(counts, f, C)
    BY <2>1, Zenon DEF SumsUp
  <2> QED
    BY <2>2
<1> DEFINE g == CHOOSE h : SumsUp(h, f, C)
<1>5. SumsUp(g, f, C)
  BY <1>4
<1> HIDE DEF g
<1>6. /\ g[{}] = 0
      /\ \A s \in SUBSET C : s # {} => g[s] = f[first(s)] + g[s \ {first(s)}]
  BY <1>5 DEF SumsUp
<1>7. \A s \in SUBSET C : g[s] = Count(s)
  <2> DEFINE Wrong == {n \in Nat : \E s \in SUBSET C : Cardinality(s) = n /\ g[s] # Count(s)}
  <2>1. SUFFICES ASSUME Wrong # {} PROVE FALSE
    <3>1. \A s \in SUBSET C : Cardinality(s) \in Nat
      BY FS_Subset, FS_CardinalityType
    <3> QED
      BY <2>1, <3>1
  <2>2. PICK n \in Wrong : \A m \in Wrong : n <= m
    BY <2>1, LeastElement
  <2>3. PICK s \in SUBSET C : Cardinality(s) = n /\ g[s] # Count(s)
    BY <2>2
  <2>4. s # {}
    BY <1>2, <1>6, <2>3
  <2> DEFINE x == first(s)
             t == s \ {x}
  <2>5. x \in s /\ t \in SUBSET C /\ IsFiniteSet(s) /\ IsFiniteSet(t)
    BY <1>1, <2>4, FS_Subset
  <2>6. Cardinality(t) \in Nat /\ Cardinality(t) < n
    <3>1. Cardinality(t) = Cardinality(s) - 1 /\ Cardinality(t) \in Nat /\ Cardinality(s) \in Nat
      BY <2>5, FS_RemoveElement, FS_CardinalityType
    <3> QED
      BY <2>3, <3>1
  <2>7. Cardinality(t) \notin Wrong
    BY <2>2, <2>6
  <2>8. g[t] = Count(t)
    BY <2>5, <2>6, <2>7
  <2>9. g[s] = f[x] + g[t]
    BY <1>6, <2>4
  <2>10. Count(s) = f[x] + Count(t)
    BY <1>3, <2>4
  <2> HIDE DEF x, t
  <2> QED
    BY <2>3, <2>8, <2>9, <2>10
<1>8. SumFunctionOnSet(f, C) = g[C]
  BY SumUnfolded DEF g
<1> QED
  BY <1>7, <1>8 DEF Count

-----------------------------------------------------------------------------
(* No delivery goes beyond it. *)

\* The deliveries the limit covers: those of the consumer, or of its channel.
Limited(c) ==
  IF qos[ChannelOf[c]].global THEN HeldByConsumers(ChannelOf[c]) ELSE HeldBy(c)

\* With a global prefetch the sum of the counters is the number of deliveries
\* the channel waits for on behalf of its consumers.
LEMMA TotalHeld ==
  ASSUME TypeInv, NEW ch \in Channels
  PROVE  SumFunctionOnSet(cUnacked, ChannelConsumers(ch)) = Cardinality(HeldByConsumers(ch))
<1>1. PICK U, C : U = chUnacked[ch] /\ C = ChannelConsumers(ch)
  OBVIOUS
<1>2. IsFiniteSet(U) /\ IsFiniteSet(C)
  BY <1>1, DeliveryAssumption, FS_Subset DEF TypeInv, TypeOK, ChannelConsumers
<1>3. \A c \in C : cUnacked[c] = Cardinality({u \in U : u.c = c})
  BY <1>1 DEF TypeInv, Counters, ChannelConsumers, HeldBy
<1>4. SumFunctionOnSet(cUnacked, C) = Cardinality({u \in U : u.c \in C})
  BY <1>2, <1>3, SumCounts
<1> QED
  BY <1>1, <1>4 DEF HeldByConsumers

\* A consumer that accepts, and with it whatever the limit covers, holds less than the limit.
LEMMA AcceptsCounts ==
  ASSUME TypeInv, NEW c \in Consumers, cState[c] = "active", Accepts(c),
         qos[ChannelOf[c]].count > 0
  PROVE  Cardinality(Limited(c)) < qos[ChannelOf[c]].count
<1>1. ChannelOf[c] \in Channels /\ qos[ChannelOf[c]].count \in Nat
  BY DeliveryAssumption DEF TypeInv, TypeOK
<1>2. CASE qos[ChannelOf[c]].global
  BY <1>1, <1>2, TotalHeld DEF Accepts, Limited
<1>3. CASE ~qos[ChannelOf[c]].global
  BY <1>1, <1>3 DEF Accepts, Limited, TypeInv, Counters
<1> QED
  BY <1>2, <1>3

\* The holdings of a consumer only grow when it is given a message.
LEMMA HoldsNoMore ==
  ASSUME TypeInv, NEW c \in Consumers, HeldBy(c)' \subseteq HeldBy(c)
  PROVE  ~(Cardinality(HeldBy(c)') > Cardinality(HeldBy(c)))
<1>1. IsFiniteSet(HeldBy(c))
  BY DeliveryAssumption, FS_Subset DEF TypeInv, TypeOK, HeldBy
<1>2. HeldBy(c)' \in SUBSET HeldBy(c)
  OBVIOUS
<1>3. /\ Cardinality(HeldBy(c)') <= Cardinality(HeldBy(c))
      /\ Cardinality(HeldBy(c)') \in Nat /\ Cardinality(HeldBy(c)) \in Nat
  BY <1>1, <1>2, RemovedCount
<1> QED
  BY <1>3

\* No channel gets a new entry.
LEMMA NoNewEntry ==
  ASSUME NEW c \in Consumers,
         \A ch \in Channels : \A u \in chUnacked'[ch] : u.c # NoConsumer => u \in chUnacked[ch]
  PROVE  HeldBy(c)' \subseteq HeldBy(c)
  BY DeliveryAssumption DEF HeldBy

\* A step gives a consumer more than it holds only by delivering to it.
LEMMA OnlyDeliveryAdds ==
  ASSUME TypeInv, [Next]_vars, NEW c \in Consumers,
         ~\E q \in Queues : StartDelivery(q, c)
  PROVE  HeldBy(c)' \subseteq HeldBy(c)
<1> USE DEF TypeInv, queueVars, loopVars, channelVars, consumerVars
<1>1. DOMAIN chUnacked = Channels
  BY DEF TypeOK
<1>2. CASE UNCHANGED chUnacked
  BY <1>2 DEF HeldBy
<1>3. ASSUME NEW ch \in Channels, NEW S, RemoveFromChannel(ch, S)
      PROVE  HeldBy(c)' \subseteq HeldBy(c)
  <2>1. \A k \in Channels : chUnacked'[k] \subseteq chUnacked[k]
    BY <1>1, <1>3 DEF RemoveFromChannel
  <2> QED
    BY <2>1, NoNewEntry
<1>4. ASSUME NEW q \in Queues, NEW d \in Consumers, StartDelivery(q, d)
      PROVE  HeldBy(c)' \subseteq HeldBy(c)
  <2>1. c # d
    BY <1>4
  <2>2. PICK sp \in Sp : NextDeliveryTag(ChannelOf[d], q, sp, d, d \in NoAck)
    BY <1>4 DEF StartDelivery
  <2>3. \A k \in Channels : \A u \in chUnacked'[k] : u \in chUnacked[k] \/ u.c = d
    BY <1>1, <2>2 DEF NextDeliveryTag
  <2> QED
    BY <2>1, <2>3, DeliveryAssumption DEF HeldBy
<1>5. ASSUME NEW ch \in Channels, NEW q \in Queues, NEW noAck \in BOOLEAN, BasicGet(ch, q, noAck)
      PROVE  HeldBy(c)' \subseteq HeldBy(c)
  <2>1. PICK sp \in Sp : NextDeliveryTag(ch, q, sp, NoConsumer, noAck)
    BY <1>5 DEF BasicGet
  <2>2. \A k \in Channels : \A u \in chUnacked'[k] : u.c # NoConsumer => u \in chUnacked[k]
    BY <1>1, <2>1 DEF NextDeliveryTag
  <2> QED
    BY <2>2, NoNewEntry
<1>6. ASSUME NEW ch \in Channels, NEW s, CloseChannel(ch, s)
      PROVE  HeldBy(c)' \subseteq HeldBy(c)
  BY <1>3, <1>6 DEF CloseChannel
<1>7. CASE \E qs \in (SUBSET Queues) \ {{}} : Publish(qs)
  BY <1>2, <1>7 DEF Publish
<1>8. ASSUME NEW q \in Queues, DeliverLoop(q) \/ DeliveryFailed(q) \/ Purge(q)
      PROVE  HeldBy(c)' \subseteq HeldBy(c)
  <2>1. CASE \E d \in Consumers : StartDelivery(q, d)
    BY <1>4, <2>1
  <2>2. CASE ~\E d \in Consumers : StartDelivery(q, d)
    BY <1>2, <1>8, <2>2
       DEF DeliverLoop, AwaitMessage, ReceiveMessageToken, AwaitConsumer, ReceiveConsumerToken,
           FoundNoMessage, DeliveryDone, DeliveryFailed, Purge
  <2> QED
    BY <2>1, <2>2
<1>9. ASSUME NEW d \in Consumers, Consume(d) \/ CancelConsumer(d)
      PROVE  HeldBy(c)' \subseteq HeldBy(c)
  BY <1>2, <1>9 DEF Consume, CancelConsumer
<1>10. ASSUME NEW ch \in Channels, Settle(ch)
       PROVE  HeldBy(c)' \subseteq HeldBy(c)
  BY <1>3, <1>6, <1>10 DEF Settle, BasicAck, BasicReject, UnknownTag
<1>11. ASSUME NEW ch \in Channels, Client(ch)
       PROVE  HeldBy(c)' \subseteq HeldBy(c)
  <2>1. CASE \E q \in Queues, noAck \in BOOLEAN : BasicGet(ch, q, noAck)
    BY <1>5, <2>1
  <2>2. CASE \E requeue \in BOOLEAN : BasicRecover(ch, requeue)
    BY <1>3, <2>2 DEF BasicRecover
  <2>3. CASE ChannelClose(ch) \/ Disconnect(ch) \/ Cleanup(ch)
    BY <1>6, <2>3 DEF ChannelClose, Disconnect, Cleanup
  <2>4. CASE (\E v \in QosValues : BasicQos(ch, v)) \/ (\E active \in BOOLEAN : ClientFlow(ch, active))
              \/ ReplyWritten(ch) \/ RecoverRaises(ch) \/ WriteError(ch)
    BY <1>2, <2>4 DEF BasicQos, ReplyWritten, ClientFlow, RecoverRaises, WriteError
  <2> QED
    BY <1>11, <2>1, <2>2, <2>3, <2>4 DEF Client
<1> QED
  BY <1>2, <1>7, <1>8, <1>9, <1>10, <1>11 DEF Next, vars

\* What a step may not do: the body of PrefetchRespected.
Respected ==
  \A c \in Consumers :
    LET ch == ChannelOf[c]
        group == IF qos[ch].global THEN HeldByConsumers(ch) ELSE HeldBy(c)
    IN  Cardinality(HeldBy(c)') > Cardinality(HeldBy(c)) /\ qos[ch].count > 0
          => Cardinality(group) < qos[ch].count

\* Every step respects the limit: only a delivery adds, to a consumer that accepts.
LEMMA RespectedStep == TypeInv /\ [Next]_vars => Respected
<1> SUFFICES ASSUME TypeInv, [Next]_vars, NEW c \in Consumers,
                    Cardinality(HeldBy(c)') > Cardinality(HeldBy(c)),
                    qos[ChannelOf[c]].count > 0
             PROVE  Cardinality(Limited(c)) < qos[ChannelOf[c]].count
  BY DEF Respected, Limited
<1>1. PICK q \in Queues : StartDelivery(q, c)
  BY OnlyDeliveryAdds, HoldsNoMore
<1> QED
  BY <1>1, AcceptsCounts DEF StartDelivery, QueueConsumers

\* However many consumers a channel has and whatever its clients do meanwhile,
\* a delivery never brings what the prefetch limit covers above the limit.
THEOREM LimitKept == Spec => PrefetchRespected
<1>1. TypeInv /\ [Next]_vars => [Respected]_vars
  BY RespectedStep
<1> QED
  BY TypeInit, TypeStep, <1>1, PTL DEF Spec, PrefetchRespected, Respected

-----------------------------------------------------------------------------
(* No message is lost. *)

\* Nothing a message can rest on is taken away.
LEMMA NothingTaken ==
  ASSUME NoLoss, pending' \subseteq pending, unacked \subseteq unacked',
         \A q \in Queues, sp \in Sp : ready[q][sp] > 0 => ready'[q][sp] > 0,
         \A q \in Queues, sp \in Sp : InDelivery(q, sp) => InDelivery(q, sp)'
  PROVE  NoLoss'
<1>1. \A q \in Queues, sp \in Sp : Holders(q, sp) # {} => Holders(q, sp)' # {}
  BY DEF Holders
<1> QED
  BY <1>1 DEF NoLoss

\* The messages of the entries R go back to the ready deque; other entries stay.
LEMMA ReturnedNotLost ==
  ASSUME TypeInv, NoLoss, NEW R, IsFiniteSet(R), Insert(Copies(R)), pending' \subseteq pending,
         UNCHANGED <<pc, inflight>>,
         \A e \in unacked : (\A r \in R : e.q # r.q \/ e.sp # r.sp) => e \in unacked'
  PROVE  NoLoss'
<1>1. /\ Copies(R) \in [Queues -> [Sp -> Nat]]
      /\ \A q \in Queues, sp \in Sp : Copies(R)[q][sp] > 0 <=> \E e \in R : e.q = q /\ e.sp = sp
  <2>1. Copies(R) \in [Queues -> [Sp -> Nat]]
    BY CopiesType
  <2>2. ASSUME NEW q \in Queues, NEW sp \in Sp
        PROVE  Copies(R)[q][sp] > 0 <=> \E e \in R : e.q = q /\ e.sp = sp
    BY CopiesPositive
  <2> QED
    BY <2>1, <2>2
<1>2. \A q \in Queues, sp \in Sp : ready'[q][sp] = ready[q][sp] + Copies(R)[q][sp]
  <2>1. ready \in [Queues -> [Sp -> Nat]]
    BY DEF TypeInv, TypeOK
  <2> DEFINE n == Copies(R)
  <2>2. n \in [Queues -> [Sp -> Nat]] /\ Insert(n)
    BY <1>1
  <2> HIDE DEF n
  <2>3. \A q \in Queues, sp \in Sp : ready'[q][sp] = ready[q][sp] + n[q][sp]
    BY <2>1, <2>2, InsertType
  <2> QED
    BY <2>3 DEF n
<1>3. SUFFICES ASSUME NEW q \in Queues, NEW sp \in Sp, <<q, sp>> \in pending'
               PROVE  ready'[q][sp] > 0 \/ Holders(q, sp)' # {} \/ InDelivery(q, sp)'
  BY DEF NoLoss
<1>4. ready[q][sp] > 0 \/ Holders(q, sp) # {} \/ InDelivery(q, sp)
  BY <1>3 DEF NoLoss
<1>5. ready[q][sp] \in Nat /\ Copies(R)[q][sp] \in Nat
  BY <1>1 DEF TypeInv, TypeOK
<1>6. CASE ready[q][sp] > 0
  BY <1>2, <1>5, <1>6
<1>7. CASE InDelivery(q, sp)
  BY <1>7 DEF InDelivery
<1>8. CASE Holders(q, sp) # {} /\ \E r \in R : r.q = q /\ r.sp = sp
  BY <1>1, <1>2, <1>5, <1>8
<1>9. CASE Holders(q, sp) # {} /\ ~ \E r \in R : r.q = q /\ r.sp = sp
  BY <1>9 DEF Holders
<1> QED
  BY <1>4, <1>6, <1>7, <1>8, <1>9

\* The messages of the entries S are disposed of; other entries stay.
LEMMA DisposedNotLost ==
  ASSUME NoLoss, NEW S, unacked' \in Deleted(unacked, S), pending' = pending \ Messages(S),
         UNCHANGED <<ready, pc, inflight>>
  PROVE  NoLoss'
<1>1. ASSUME NEW q \in Queues, NEW sp \in Sp, <<q, sp>> \in pending'
      PROVE  ready'[q][sp] > 0 \/ Holders(q, sp)' # {} \/ InDelivery(q, sp)'
  <2>1. \A u \in S : q # u.q \/ sp # u.sp
    BY <1>1 DEF Messages
  <2>2. Holders(q, sp) # {} => Holders(q, sp)' # {}
    BY <2>1, DeletedKeeps DEF Holders
  <2>3. InDelivery(q, sp) => InDelivery(q, sp)'
    BY DEF InDelivery
  <2> QED
    BY <1>1, <2>2, <2>3 DEF NoLoss
<1> QED
  BY <1>1 DEF NoLoss

\* A channel that closes returns everything its consumers hold.
LEMMA CloseNoLoss ==
  ASSUME TypeInv, NoLoss, NEW ch \in Channels, NEW s, CloseChannel(ch, s)
  PROVE  NoLoss'
<1> DEFINE held == {e \in unacked : e.c \in ChannelConsumers(ch)}
           R == held \union LeftOver(ch)
<1>1. /\ unacked' \in Deleted(unacked \ held, LeftOver(ch))
      /\ Insert(Copies(R))
      /\ UNCHANGED <<pc, inflight, pending>>
  BY DEF CloseChannel
<1>2. IsFiniteSet(R)
  <2>1. IsFiniteSet(held) /\ IsFiniteSet(LeftOver(ch))
    BY FS_Subset DEF LeftOver, TypeInv, TypeOK
  <2> QED
    BY <2>1, FS_Union
<1>3. \A e \in unacked : (\A r \in R : e.q # r.q \/ e.sp # r.sp) => e \in unacked'
  BY <1>1, DeletedKeeps
<1> HIDE DEF R
<1> QED
  BY <1>1, <1>2, <1>3, ReturnedNotLost

\* The head of a queue is taken, and held by its receiver unless it is on its way
\* to a consumer that does not acknowledge, or disposed of at once.
LEMMA TakeNoLoss ==
  ASSUME TypeInv, NoLoss, NEW q \in Queues, NEW sp \in Sp, NEW c, NEW noAck,
         Take(q, sp, c, noAck), pending' \subseteq pending,
         noAck /\ <<q, sp>> \in pending' => InDelivery(q, sp)',
         \A y \in Queues, x \in Sp : InDelivery(y, x) => InDelivery(y, x)'
  PROVE  NoLoss'
<1>1. /\ \A y \in Queues, x \in Sp : y # q \/ x # sp => ready'[y][x] = ready[y][x]
      /\ unacked \subseteq unacked'
      /\ ~noAck => [q |-> q, sp |-> sp, c |-> c] \in unacked'
  BY DEF Take, TypeInv, TypeOK
<1>2. ~noAck => Holders(q, sp)' # {}
  BY <1>1 DEF Holders
<1>3. \A y \in Queues, x \in Sp : Holders(y, x) # {} => Holders(y, x)' # {}
  BY <1>1 DEF Holders
<1>4. ASSUME NEW y \in Queues, NEW x \in Sp, <<y, x>> \in pending'
      PROVE  ready'[y][x] > 0 \/ Holders(y, x)' # {} \/ InDelivery(y, x)'
  <2>1. CASE y = q /\ x = sp
    BY <1>2, <1>4, <2>1
  <2>2. CASE y # q \/ x # sp
    BY <1>1, <1>3, <1>4, <2>2 DEF NoLoss
  <2> QED
    BY <2>1, <2>2
<1> QED
  BY <1>4 DEF NoLoss

\* No step loses a message.
LEMMA NoLossStep == TypeInv /\ NoLoss /\ [Next]_vars => NoLoss'
<1> SUFFICES ASSUME TypeInv, NoLoss, [Next]_vars PROVE NoLoss'
  OBVIOUS
<1> USE DEF queueVars, loopVars, channelVars, consumerVars
<1>1. ASSUME NEW qs \in (SUBSET Queues) \ {{}}, Publish(qs) PROVE NoLoss'
  <2> DEFINE n == [q \in Queues |-> [sp \in Sp |-> IF q \in qs /\ sp = lastSp + 1 THEN 1 ELSE 0]]
  <2>1. n \in [Queues -> [Sp -> Nat]] /\ Insert(n)
    BY <1>1 DEF Publish
  <2>2. /\ \A q \in Queues, sp \in Sp : ready[q][sp] \in Nat
        /\ \A q \in Queues, sp \in Sp : ready'[q][sp] = ready[q][sp] + n[q][sp]
    <3>1. ready \in [Queues -> [Sp -> Nat]]
      BY DEF TypeInv, TypeOK
    <3> HIDE DEF n
    <3> QED
      BY <2>1, <3>1, InsertType
  <2>3. ASSUME NEW q \in Queues, NEW sp \in Sp, <<q, sp>> \in pending'
        PROVE  ready'[q][sp] > 0 \/ Holders(q, sp)' # {} \/ InDelivery(q, sp)'
    <3>1. CASE <<q, sp>> \in pending
      <4>1. Holders(q, sp)' = Holders(q, sp) /\ (InDelivery(q, sp)' <=> InDelivery(q, sp))
        BY <1>1 DEF Publish, Holders, InDelivery
      <4>2. ready[q][sp] > 0 => ready'[q][sp] > 0
        BY <2>1, <2>2
      <4> QED
        BY <3>1, <4>1, <4>2, Zenon DEF NoLoss
    <3>2. CASE <<q, sp>> \notin pending
      <4>1. q \in qs /\ sp = lastSp + 1
        BY <1>1, <2>3, <3>2 DEF Publish
      <4> QED
        BY <2>2, <4>1
    <3> QED
      BY <3>1, <3>2
  <2> QED
    BY <2>3 DEF NoLoss
<1>2. ASSUME NEW q \in Queues,
             AwaitMessage(q) \/ ReceiveMessageToken(q) \/ AwaitConsumer(q) \/ ReceiveConsumerToken(q)
      PROVE  NoLoss'
  <2>1. UNCHANGED <<ready, unacked, pending, inflight>> /\ pc[q] # "deliver" /\ \A x \in Queues : x # q => pc'[x] = pc[x]
    BY <1>2 DEF AwaitMessage, ReceiveMessageToken, AwaitConsumer, ReceiveConsumerToken, AtConsumers, TypeInv, TypeOK
  <2>2. \A x \in Queues, sp \in Sp : InDelivery(x, sp) => InDelivery(x, sp)'
    BY <2>1 DEF InDelivery
  <2> QED
    BY <2>1, <2>2, NothingTaken
<1>3. ASSUME NEW q \in Queues, NEW c \in Consumers, FoundNoMessage(q, c) PROVE NoLoss'
  <2>1. UNCHANGED <<ready, unacked, pending, inflight>> /\ pc[q] # "deliver" /\ \A x \in Queues : x # q => pc'[x] = pc[x]
    BY <1>3 DEF FoundNoMessage, TypeInv, TypeOK
  <2>2. \A x \in Queues, sp \in Sp : InDelivery(x, sp) => InDelivery(x, sp)'
    BY <2>1 DEF InDelivery
  <2> QED
    BY <2>1, <2>2, NothingTaken
<1>4. ASSUME NEW q \in Queues, NEW c \in Consumers, StartDelivery(q, c) PROVE NoLoss'
  <2>1. PICK sp \in Sp :
          /\ Take(q, sp, c, c \in NoAck)
          /\ inflight' = [inflight EXCEPT ![q] = [sp |-> sp, c |-> c, up |-> chState[ChannelOf[c]] = "open"]]
    BY <1>4 DEF StartDelivery
  <2>2. pending' = pending /\ pc[q] # "deliver" /\ pc' = [pc EXCEPT ![q] = "deliver"]
    BY <1>4 DEF StartDelivery, AtConsumers
  <2>3. c \in NoAck => InDelivery(q, sp)'
    BY <2>1, <2>2 DEF InDelivery, TypeInv, TypeOK
  <2>4. \A y \in Queues, x \in Sp : InDelivery(y, x) => InDelivery(y, x)'
    BY <2>1, <2>2 DEF InDelivery, TypeInv, TypeOK
  <2> QED
    BY <2>1, <2>2, <2>3, <2>4, TakeNoLoss
<1>5. ASSUME NEW q \in Queues, DeliveryDone(q) PROVE NoLoss'
  <2>1. /\ UNCHANGED <<ready, unacked>>
        /\ pending' = IF inflight[q].c \in NoAck THEN pending \ {<<q, inflight[q].sp>>} ELSE pending
        /\ \A x \in Queues : x # q => pc'[x] = pc[x] /\ inflight'[x] = inflight[x]
    BY <1>5 DEF DeliveryDone, TypeInv, TypeOK
  <2>2. ASSUME NEW y \in Queues, NEW x \in Sp, <<y, x>> \in pending'
        PROVE  ready'[y][x] > 0 \/ Holders(y, x)' # {} \/ InDelivery(y, x)'
    <3>1. ready[y][x] > 0 \/ Holders(y, x) # {} \/ InDelivery(y, x)
      BY <2>1, <2>2 DEF NoLoss
    <3>2. Holders(y, x)' = Holders(y, x)
      BY <2>1 DEF Holders
    <3>3. InDelivery(y, x) => InDelivery(y, x)'
      BY <2>1, <2>2 DEF InDelivery
    <3> QED
      BY <2>1, <3>1, <3>2, <3>3, Zenon
  <2> QED
    BY <2>2 DEF NoLoss
<1>6. ASSUME NEW q \in Queues, DeliveryFailed(q) PROVE NoLoss'
  <2> DEFINE d == inflight[q]
  <2>1. pc[q] = "deliver" /\ d.sp \in Sp
    BY <1>6 DEF DeliveryFailed, TypeInv, TypeOK
  <2>2. /\ ready'[q][d.sp] = ready[q][d.sp] + 1
        /\ \A y \in Queues, x \in Sp : y # q \/ x # d.sp => ready'[y][x] = ready[y][x]
    BY <1>6, <2>1 DEF DeliveryFailed, TypeInv, TypeOK
  <2>3. \A e \in unacked : e.q # q \/ e.sp # d.sp => e \in unacked'
    <3> DEFINE U == {[q |-> q, sp |-> d.sp]}
    <3>1. unacked' \in Deleted(unacked, U)
      BY <1>6 DEF DeliveryFailed
    <3>2. \A e : e.q # q \/ e.sp # d.sp => \A u \in U : e.q # u.q \/ e.sp # u.sp
      OBVIOUS
    <3> HIDE DEF U
    <3> QED
      BY <3>1, <3>2, DeletedKeeps
  <2>4. pending' = pending /\ \A x \in Queues : x # q => pc'[x] = pc[x] /\ inflight'[x] = inflight[x]
    BY <1>6 DEF DeliveryFailed, TypeInv, TypeOK
  <2>5. ASSUME NEW y \in Queues, NEW x \in Sp, <<y, x>> \in pending'
        PROVE  ready'[y][x] > 0 \/ Holders(y, x)' # {} \/ InDelivery(y, x)'
    <3>1. CASE y = q /\ x = d.sp
      BY <2>1, <2>2, <3>1 DEF TypeInv, TypeOK
    <3>2. CASE y # q \/ x # d.sp
      <4>1. Holders(y, x) # {} => Holders(y, x)' # {}
        BY <2>3, <3>2 DEF Holders
      <4>2. InDelivery(y, x) => InDelivery(y, x)'
        BY <2>4, <3>2 DEF InDelivery
      <4> QED
        BY <2>2, <2>4, <2>5, <3>2, <4>1, <4>2 DEF NoLoss
    <3> QED
      BY <3>1, <3>2
  <2> QED
    BY <2>5 DEF NoLoss
<1>7. ASSUME NEW q \in Queues, Purge(q) PROVE NoLoss'
  <2>1. /\ UNCHANGED <<unacked, pc, inflight>>
        /\ pending' = pending \ {<<q, sp>> : sp \in {x \in Sp : ready[q][x] > 0}}
        /\ \A y \in Queues : y # q => ready'[y] = ready[y]
    BY <1>7 DEF Purge, TypeInv, TypeOK
  <2>2. ASSUME NEW y \in Queues, NEW x \in Sp, <<y, x>> \in pending'
        PROVE  ready'[y][x] > 0 \/ Holders(y, x)' # {} \/ InDelivery(y, x)'
    <3>1. ready[y][x] > 0 \/ Holders(y, x) # {} \/ InDelivery(y, x)
      BY <2>1, <2>2 DEF NoLoss
    <3>2. Holders(y, x)' = Holders(y, x) /\ (InDelivery(y, x)' <=> InDelivery(y, x))
      BY <2>1 DEF Holders, InDelivery
    <3>3. ready[y][x] > 0 => y # q
      BY <2>1, <2>2
    <3>4. ready[y][x] > 0 => ready'[y][x] > 0
      BY <2>1, <3>3
    <3> QED
      BY <3>1, <3>2, <3>4, Zenon
  <2> QED
    BY <2>2 DEF NoLoss
<1>8. ASSUME NEW c \in Consumers, Consume(c) \/ CancelConsumer(c) PROVE NoLoss'
  BY <1>8, NothingTaken DEF Consume, CancelConsumer, InDelivery
<1>9. ASSUME NEW ch \in Channels, NEW tag, NEW multiple, BasicAck(ch, tag, multiple) PROVE NoLoss'
  BY <1>9, DisposedNotLost DEF BasicAck
<1>10. ASSUME NEW ch \in Channels, NEW tag, NEW multiple, NEW requeue,
              BasicReject(ch, tag, multiple, requeue)
       PROVE  NoLoss'
  <2> DEFINE S == Settled(ch, tag, multiple)
  <2>1. unacked' \in Deleted(unacked, S) /\ UNCHANGED <<pc, inflight>>
    BY <1>10 DEF BasicReject
  <2>2. CASE requeue
    <3>1. Insert(Copies(S)) /\ pending' = pending
      BY <1>10, <2>2 DEF BasicReject
    <3>2. IsFiniteSet(S)
      BY SettledPart, FS_Subset DEF TypeInv, TypeOK
    <3>3. \A e \in unacked : (\A r \in S : e.q # r.q \/ e.sp # r.sp) => e \in unacked'
      BY <2>1, DeletedKeeps
    <3> QED
      BY <2>1, <3>1, <3>2, <3>3, ReturnedNotLost
  <2>3. CASE ~requeue
    BY <1>10, <2>1, <2>3, DisposedNotLost DEF BasicReject
  <2> QED
    BY <2>2, <2>3
<1>11. ASSUME NEW ch \in Channels, NEW tag, NEW multiple, UnknownTag(ch, tag, multiple) PROVE NoLoss'
  BY <1>11, CloseNoLoss DEF UnknownTag
<1>12. ASSUME NEW ch \in Channels, NEW q \in Queues, NEW noAck \in BOOLEAN, BasicGet(ch, q, noAck)
       PROVE  NoLoss'
  <2>1. PICK sp \in Sp : /\ Take(q, sp, NoConsumer, noAck)
                         /\ pending' = IF noAck THEN pending \ {<<q, sp>>} ELSE pending
    BY <1>12 DEF BasicGet
  <2>2. \A y \in Queues, x \in Sp : InDelivery(y, x) => InDelivery(y, x)'
    BY <1>12 DEF BasicGet, InDelivery
  <2> QED
    BY <2>1, <2>2, TakeNoLoss
<1>13. ASSUME NEW ch \in Channels, (\E v : BasicQos(ch, v)) \/ ReplyWritten(ch) PROVE NoLoss'
  BY <1>13, NothingTaken DEF BasicQos, ReplyWritten, InDelivery
<1>14. ASSUME NEW ch \in Channels, NEW active, ClientFlow(ch, active) PROVE NoLoss'
  BY <1>14, NothingTaken DEF ClientFlow, InDelivery
<1>15. ASSUME NEW ch \in Channels, NEW requeue \in BOOLEAN, BasicRecover(ch, requeue) PROVE NoLoss'
  <2> DEFINE S == {u \in chUnacked[ch] : u.c = NoConsumer} \union HeldByConsumers(ch)
  <2>1. /\ unacked' \in Deleted(unacked, S) /\ Insert(Copies(S))
        /\ UNCHANGED <<pc, inflight, pending>>
    BY <1>15 DEF BasicRecover
  <2>2. IsFiniteSet(S)
    BY FS_Subset DEF HeldByConsumers, TypeInv, TypeOK
  <2>3. \A e \in unacked : (\A r \in S : e.q # r.q \/ e.sp # r.sp) => e \in unacked'
    BY <2>1, DeletedKeeps
  <2> HIDE DEF S
  <2> QED
    BY <2>1, <2>2, <2>3, ReturnedNotLost
<1>16. ASSUME NEW ch \in Channels, RecoverRaises(ch) \/ WriteError(ch) PROVE NoLoss'
  BY <1>16, NothingTaken DEF RecoverRaises, WriteError, InDelivery
<1>17. ASSUME NEW ch \in Channels, ChannelClose(ch) \/ Disconnect(ch) \/ Cleanup(ch) PROVE NoLoss'
  BY <1>17, CloseNoLoss DEF ChannelClose, Disconnect, Cleanup
<1>18. CASE UNCHANGED vars
  BY <1>18, NothingTaken DEF vars, InDelivery
<1> QED
  BY <1>1, <1>2, <1>3, <1>4, <1>5, <1>6, <1>7, <1>8, <1>9, <1>10, <1>11, <1>12, <1>13, <1>14,
     <1>15, <1>16, <1>17, <1>18 DEF Next, DeliverLoop, Settle, Client

\* A message routed to a queue and not disposed of is always in the ready deque,
\* held by a receiver, or on its way to a no_ack consumer, whatever the clients
\* and the network do.
THEOREM NothingLost == Spec => []NoLoss
<1>1. Init => NoLoss
  BY DEF Init, NoLoss
<1> QED
  BY TypeInit, TypeStep, NoLossStep, <1>1, PTL DEF Spec

-----------------------------------------------------------------------------
(* No deliver loop sleeps without a token while messages are ready. *)

\* Messages are put back, and the queues that were empty are told.
LEMMA InsertWakes ==
  ASSUME TypeInv, MessageWakeup, NEW n \in [Queues -> [Sp -> Nat]], Insert(n),
         NEW Q, NoLongerEmpty(n) \subseteq Q, MessageAvailable(Q), pc' = pc
  PROVE  MessageWakeup'
<1>1. ASSUME NEW q \in Queues, pc'[q] = "awaitMessage", ~ReadyEmpty(q)'
      PROVE  msgToken'[q]
  <2>1. PICK sp \in Sp : ready'[q][sp] # 0
    BY <1>1 DEF ReadyEmpty
  <2>2. ready'[q][sp] = ready[q][sp] + n[q][sp] /\ ready[q][sp] \in Nat /\ n[q][sp] \in Nat
    BY InsertType DEF TypeInv, TypeOK
  <2>3. CASE ~ReadyEmpty(q)
    BY <1>1, <2>3 DEF MessageWakeup, MessageAvailable
  <2>4. CASE ReadyEmpty(q)
    <3>1. n[q][sp] > 0
      BY <2>1, <2>2, <2>4 DEF ReadyEmpty
    <3>2. q \in NoLongerEmpty(n)
      BY <2>4, <3>1 DEF NoLongerEmpty
    <3> QED
      BY <3>2 DEF MessageAvailable
  <2> QED
    BY <2>3, <2>4
<1> QED
  BY <1>1 DEF MessageWakeup

\* No queue gets more ready messages or loses a token, and no loop goes to sleep.
LEMMA NothingReadied ==
  ASSUME MessageWakeup,
         \A q \in Queues : ReadyEmpty(q) => ReadyEmpty(q)',
         \A q \in Queues : pc'[q] = "awaitMessage" => pc[q] = "awaitMessage",
         \A q \in Queues : msgToken[q] => msgToken'[q]
  PROVE  MessageWakeup'
  BY DEF MessageWakeup

\* Taking the head of a deque empties no other and fills none.
LEMMA TakeKeepsEmpty ==
  ASSUME TypeInv, NEW q \in Queues, NEW sp \in Sp, NEW c, NEW noAck, Take(q, sp, c, noAck)
  PROVE  \A y \in Queues : ReadyEmpty(y) => ReadyEmpty(y)'
<1>1. ready[q][sp] > 0
  BY DEF Take, IsHead
<1>2. \A y \in Queues : y # q => ready'[y] = ready[y]
  BY DEF Take, TypeInv, TypeOK
<1> QED
  BY <1>1, <1>2 DEF ReadyEmpty

\* A channel that closes wakes the loops of the queues it gives messages back to.
LEMMA CloseWakes ==
  ASSUME TypeInv, MessageWakeup, NEW ch \in Channels, NEW s, CloseChannel(ch, s)
  PROVE  MessageWakeup'
<1> DEFINE held == {e \in unacked : e.c \in ChannelConsumers(ch)}
           R == held \union LeftOver(ch)
           n == Copies(R)
<1>1. Insert(n) /\ MessageAvailable(NoLongerEmpty(n)) /\ pc' = pc
  BY DEF CloseChannel
<1>2. IsFiniteSet(R)
  <2>1. IsFiniteSet(held) /\ IsFiniteSet(LeftOver(ch))
    BY FS_Subset DEF LeftOver, TypeInv, TypeOK
  <2> QED
    BY <2>1, FS_Union
<1> HIDE DEF R
<1>3. n \in [Queues -> [Sp -> Nat]]
  BY <1>2, CopiesType
<1> HIDE DEF n
<1> QED
  BY <1>1, <1>3, InsertWakes

\* No step leaves a loop asleep.
LEMMA MessageWakeupStep == TypeInv /\ MessageWakeup /\ [Next]_vars => MessageWakeup'
<1> SUFFICES ASSUME TypeInv, MessageWakeup, [Next]_vars PROVE MessageWakeup'
  OBVIOUS
<1> USE DEF queueVars, loopVars, channelVars, consumerVars
<1>1. ASSUME NEW qs \in (SUBSET Queues) \ {{}}, Publish(qs) PROVE MessageWakeup'
  <2> DEFINE n == [q \in Queues |-> [sp \in Sp |-> IF q \in qs /\ sp = lastSp + 1 THEN 1 ELSE 0]]
  <2>1. n \in [Queues -> [Sp -> Nat]] /\ Insert(n) /\ MessageAvailable(NoLongerEmpty(n)) /\ pc' = pc
    BY <1>1 DEF Publish
  <2> HIDE DEF n
  <2> QED
    BY <2>1, InsertWakes
<1>2. ASSUME NEW q \in Queues, AwaitMessage(q) PROVE MessageWakeup'
  <2>1. UNCHANGED <<ready, msgToken>> /\ ReadyEmpty(q) /\ \A x \in Queues : x # q => pc'[x] = pc[x]
    BY <1>2 DEF AwaitMessage, TypeInv, TypeOK
  <2>2. \A x \in Queues : ReadyEmpty(x)' <=> ReadyEmpty(x)
    BY <2>1 DEF ReadyEmpty
  <2> QED
    BY <2>1, <2>2 DEF MessageWakeup
<1>3. ASSUME NEW q \in Queues, ReceiveMessageToken(q) PROVE MessageWakeup'
  <2>1. /\ ready' = ready /\ pc'[q] = "woken"
        /\ \A x \in Queues : x # q => pc'[x] = pc[x] /\ msgToken'[x] = msgToken[x]
    BY <1>3 DEF ReceiveMessageToken, TypeInv, TypeOK
  <2>2. \A x \in Queues : ReadyEmpty(x)' <=> ReadyEmpty(x)
    BY <2>1 DEF ReadyEmpty
  <2> QED
    BY <2>1, <2>2 DEF MessageWakeup
<1>4. ASSUME NEW q \in Queues, AwaitConsumer(q) \/ ReceiveConsumerToken(q) PROVE MessageWakeup'
  <2>1. /\ UNCHANGED <<ready, msgToken>>
        /\ \A x \in Queues : pc'[x] = "awaitMessage" => pc[x] = "awaitMessage"
    BY <1>4 DEF AwaitConsumer, ReceiveConsumerToken, TypeInv, TypeOK
  <2> QED
    BY <2>1, NothingReadied DEF ReadyEmpty
<1>5. ASSUME NEW q \in Queues, NEW c \in Consumers, FoundNoMessage(q, c) PROVE MessageWakeup'
  <2>1. /\ UNCHANGED <<ready, msgToken>>
        /\ \A x \in Queues : pc'[x] = "awaitMessage" => pc[x] = "awaitMessage"
    BY <1>5 DEF FoundNoMessage, TypeInv, TypeOK
  <2> QED
    BY <2>1, NothingReadied DEF ReadyEmpty
<1>6. ASSUME NEW q \in Queues, NEW c \in Consumers, StartDelivery(q, c) PROVE MessageWakeup'
  <2>1. PICK sp \in Sp : Take(q, sp, c, c \in NoAck)
    BY <1>6 DEF StartDelivery
  <2>2. msgToken' = msgToken /\ \A x \in Queues : pc'[x] = "awaitMessage" => pc[x] = "awaitMessage"
    BY <1>6 DEF StartDelivery, TypeInv, TypeOK
  <2> QED
    BY <2>1, <2>2, TakeKeepsEmpty, NothingReadied
<1>7. ASSUME NEW q \in Queues, DeliveryDone(q) PROVE MessageWakeup'
  <2>1. /\ UNCHANGED <<ready, msgToken>>
        /\ \A x \in Queues : pc'[x] = "awaitMessage" => pc[x] = "awaitMessage"
    BY <1>7 DEF DeliveryDone, TypeInv, TypeOK
  <2> QED
    BY <2>1, NothingReadied DEF ReadyEmpty
<1>8. ASSUME NEW q \in Queues, DeliveryFailed(q) PROVE MessageWakeup'
  <2>1. /\ msgToken' = msgToken /\ pc'[q] = "top"
        /\ \A x \in Queues : x # q => pc'[x] = pc[x] /\ ready'[x] = ready[x]
    BY <1>8 DEF DeliveryFailed, TypeInv, TypeOK
  <2>2. \A x \in Queues : x # q => (ReadyEmpty(x)' <=> ReadyEmpty(x))
    BY <2>1 DEF ReadyEmpty
  <2> QED
    BY <2>1, <2>2 DEF MessageWakeup
<1>9. ASSUME NEW q \in Queues, Purge(q) PROVE MessageWakeup'
  <2>1. UNCHANGED <<pc, msgToken>> /\ \A x \in Queues : ReadyEmpty(x) => ReadyEmpty(x)'
    BY <1>9 DEF Purge, ReadyEmpty, TypeInv, TypeOK
  <2> QED
    BY <2>1, NothingReadied
<1>10. ASSUME NEW c \in Consumers, Consume(c) \/ CancelConsumer(c) PROVE MessageWakeup'
  BY <1>10, NothingReadied DEF Consume, CancelConsumer, ReadyEmpty
<1>11. ASSUME NEW ch \in Channels, NEW tag, NEW multiple, BasicAck(ch, tag, multiple) PROVE MessageWakeup'
  BY <1>11, NothingReadied DEF BasicAck, ReadyEmpty
<1>12. ASSUME NEW ch \in Channels, NEW tag, NEW multiple, NEW requeue,
              BasicReject(ch, tag, multiple, requeue)
       PROVE  MessageWakeup'
  <2> DEFINE S == Settled(ch, tag, multiple)
             n == Copies(S)
  <2>1. CASE requeue
    <3>1. Insert(n) /\ MessageAvailable(NoLongerEmpty(n)) /\ pc' = pc
      BY <1>12, <2>1 DEF BasicReject
    <3>2. n \in [Queues -> [Sp -> Nat]]
      <4>1. IsFiniteSet(S)
        BY SettledPart, FS_Subset DEF TypeInv, TypeOK
      <4> QED
        BY <4>1, CopiesType
    <3> HIDE DEF n
    <3> QED
      BY <3>1, <3>2, InsertWakes
  <2>2. CASE ~requeue
    BY <1>12, <2>2, NothingReadied DEF BasicReject, ReadyEmpty
  <2> QED
    BY <2>1, <2>2
<1>13. ASSUME NEW ch \in Channels, NEW tag, NEW multiple, UnknownTag(ch, tag, multiple) PROVE MessageWakeup'
  BY <1>13, CloseWakes DEF UnknownTag
<1>14. ASSUME NEW ch \in Channels, NEW q \in Queues, NEW noAck \in BOOLEAN, BasicGet(ch, q, noAck)
       PROVE  MessageWakeup'
  <2>1. PICK sp \in Sp : Take(q, sp, NoConsumer, noAck)
    BY <1>14 DEF BasicGet
  <2>2. UNCHANGED <<pc, msgToken>>
    BY <1>14 DEF BasicGet
  <2> QED
    BY <2>1, <2>2, TakeKeepsEmpty, NothingReadied
<1>15. ASSUME NEW ch \in Channels, (\E v : BasicQos(ch, v)) \/ ReplyWritten(ch) PROVE MessageWakeup'
  <2>1. CASE \E v : BasicQos(ch, v)
    BY <2>1, NothingReadied DEF BasicQos, ReadyEmpty
  <2>2. CASE ReplyWritten(ch)
    <3> DEFINE Q == IF reply[ch] = "both" THEN ChannelQueues(ch) ELSE {}
    <3>1. UNCHANGED <<ready, pc>> /\ MessageAvailable(Q)
      BY <2>2 DEF ReplyWritten
    <3> HIDE DEF Q
    <3>2. \A q \in Queues : msgToken[q] => msgToken'[q]
      BY <3>1, Zenon DEF MessageAvailable
    <3> QED
      BY <3>1, <3>2, NothingReadied DEF ReadyEmpty
  <2> QED
    BY <1>15, <2>1, <2>2
<1>16. ASSUME NEW ch \in Channels, NEW active, ClientFlow(ch, active) PROVE MessageWakeup'
  BY <1>16, NothingReadied DEF ClientFlow, ReadyEmpty
<1>17. ASSUME NEW ch \in Channels, NEW requeue \in BOOLEAN, BasicRecover(ch, requeue) PROVE MessageWakeup'
  <2> DEFINE S == {u \in chUnacked[ch] : u.c = NoConsumer} \union HeldByConsumers(ch)
             n == Copies(S)
  <2>1. Insert(n) /\ MessageAvailable(NoLongerEmpty(n)) /\ pc' = pc
    BY <1>17 DEF BasicRecover
  <2>2. n \in [Queues -> [Sp -> Nat]]
    <3>1. IsFiniteSet(S)
      BY FS_Subset DEF HeldByConsumers, TypeInv, TypeOK
    <3> QED
      BY <3>1, CopiesType
  <2> HIDE DEF n
  <2> QED
    BY <2>1, <2>2, InsertWakes
<1>18. ASSUME NEW ch \in Channels, RecoverRaises(ch) \/ WriteError(ch) PROVE MessageWakeup'
  BY <1>18, NothingReadied DEF RecoverRaises, WriteError, ReadyEmpty
<1>19. ASSUME NEW ch \in Channels, ChannelClose(ch) \/ Disconnect(ch) \/ Cleanup(ch) PROVE MessageWakeup'
  BY <1>19, CloseWakes DEF ChannelClose, Disconnect, Cleanup
<1>20. CASE UNCHANGED vars
  BY <1>20, NothingReadied DEF vars, ReadyEmpty
<1> QED
  BY <1>1, <1>2, <1>3, <1>4, <1>5, <1>6, <1>7, <1>8, <1>9, <1>10, <1>11, <1>12, <1>13, <1>14,
     <1>15, <1>16, <1>17, <1>18, <1>19, <1>20 DEF Next, DeliverLoop, Settle, Client

\* A deliver loop that waits for a message while its queue has one has a token to
\* receive, so it is never left asleep.
THEOREM NeverAsleep == Spec => []MessageWakeup
<1>1. Init => MessageWakeup
  BY DEF Init, MessageWakeup, ReadyEmpty
<1> QED
  BY TypeInit, TypeStep, MessageWakeupStep, <1>1, PTL DEF Spec

-----------------------------------------------------------------------------
(* The inductive invariant. *)

\* A channel with consumers has not been closed.
ActiveUp == \A c \in Consumers : cState[c] = "active" => chState[ChannelOf[c]] \in {"open", "lost"}

\* Only published messages are outstanding.
Published == \A m \in pending : m[2] <= lastSp

\* A message on its way to a no_ack consumer is outstanding.
Flight == \A q \in Queues, sp \in Sp : InDelivery(q, sp) => <<q, sp>> \in pending

AllExclusive == \A q \in Queues, sp \in Sp : Exclusive(q, sp)

Once == Flight /\ Matched /\ Unique /\ AllExclusive

PlaceInv == TypeInv /\ ActiveUp /\ Published /\ (~raced => Once)

SamePlace(e, f) == e.q = f.q /\ e.sp = f.sp

-----------------------------------------------------------------------------
(* Lemmas about the operators. *)

\* When no two entries are of the same message, Deleted removes every entry of a
\* message that is deleted.
LEMMA DeletedRemoves ==
  ASSUME NEW E, NEW U, NEW F \in Deleted(E, U),
         \A e, f \in E : SamePlace(e, f) => e = f
  PROVE  \A e \in E, u \in U : SamePlace(e, u) => e \notin F
<1> DEFINE Match == {e \in E : \E u \in U : e.q = u.q /\ e.sp = u.sp}
           Same(e, f) == e.q = f.q /\ e.sp = f.sp
<1>1. PICK D \in SUBSET Match :
        /\ F = E \ D
        /\ \A e \in Match : \E d \in D : Same(d, e)
  BY DEF Deleted
<1>2. ASSUME NEW e \in E, NEW u \in U, SamePlace(e, u) PROVE e \in D
  <2>1. e \in Match
    BY <1>2 DEF SamePlace
  <2>2. PICK d \in D : Same(d, e)
    BY <1>1, <2>1
  <2>3. d \in E /\ SamePlace(d, e)
    BY <2>2 DEF SamePlace
  <2> QED
    BY <2>3
<1> QED
  BY <1>1, <1>2

\* Copies is at most one when no two entries are of the same message.
LEMMA CopiesOne ==
  ASSUME NEW E, IsFiniteSet(E), NEW q \in Queues, NEW sp \in Sp,
         \A e, f \in E : SamePlace(e, f) => e = f
  PROVE  Copies(E)[q][sp] \in {0, 1}
<1> DEFINE T == {e \in E : e.q = q /\ e.sp = sp}
<1>1. Copies(E)[q][sp] = Cardinality(T)
  BY CopiesCount
<1>2. T = {} \/ \E x : T = {x}
  BY DEF SamePlace
<1> HIDE DEF T
<1>3. CASE T = {}
  BY <1>1, <1>3, FS_EmptySet
<1>4. CASE \E x : T = {x}
  BY <1>1, <1>4, FS_Singleton
<1> QED
  BY <1>2, <1>3, <1>4

\* The entries of different messages in the unacknowledged list differ.
LEMMA HoldersDiffer ==
  ASSUME TypeInv, AllExclusive
  PROVE  \A e, f \in unacked : SamePlace(e, f) => e = f
<1>1. SUFFICES ASSUME NEW e \in unacked, NEW f \in unacked, SamePlace(e, f) PROVE e = f
  OBVIOUS
<1>2. e.q \in Queues /\ e.sp \in Sp
  BY DEF TypeInv, TypeOK, Unack
<1>3. e \in Holders(e.q, e.sp) /\ f \in Holders(e.q, e.sp)
  BY <1>1 DEF Holders, SamePlace
<1>4. Exclusive(e.q, e.sp)
  BY <1>2 DEF AllExclusive
<1> QED
  BY <1>3, <1>4 DEF Exclusive

-----------------------------------------------------------------------------
(* The kinds of steps. *)

\* Nothing moves; fewer entries are owed.
LEMMA NothingMoves ==
  ASSUME Once, UNCHANGED <<ready, unacked, chUnacked, pending>>,
         \A q \in Queues, sp \in Sp : InDelivery(q, sp)' => InDelivery(q, sp),
         \A ch \in Channels : \A u \in chUnacked[ch] : Owed(ch, u)' => Owed(ch, u)
  PROVE  Once'
<1>1. \A q \in Queues, sp \in Sp : Holders(q, sp)' = Holders(q, sp)
  BY DEF Holders
<1>2. Flight'
  BY DEF Once, Flight
<1>3. AllExclusive'
  BY <1>1 DEF Once, AllExclusive, Exclusive
<1>4. Matched' /\ Unique'
  BY DEF Once, Matched, Unique
<1> QED
  BY <1>2, <1>3, <1>4 DEF Once

\* The entries R are taken back: no queue holds their messages any more, and no
\* entry of these messages is owed.
TakenBack(R) ==
  /\ \A r \in R : r.q \in Queues /\ r.sp \in Sp /\ Holders(r.q, r.sp) # {}
  /\ \A e \in unacked : e \in unacked' <=> ~ \E r \in R : SamePlace(e, r)
  /\ unacked' \subseteq unacked
  /\ \A k \in Channels : \A v \in chUnacked'[k] :
       /\ v \in chUnacked[k]
       /\ Owed(k, v)' => Owed(k, v) /\ ~ \E r \in R : SamePlace(v, r)
  /\ UNCHANGED <<pc, inflight>>

\* After that the lists still agree.
LEMMA TakenBackAgree ==
  ASSUME Once, NEW R, TakenBack(R)
  PROVE  /\ Matched' /\ Unique'
         /\ \A q \in Queues, sp \in Sp :
              /\ InDelivery(q, sp)' <=> InDelivery(q, sp)
              /\ (\E r \in R : r.q = q /\ r.sp = sp) =>
                    /\ Holders(q, sp)' = {} /\ Holders(q, sp) # {}
                    /\ ready[q][sp] = 0 /\ ~InDelivery(q, sp) /\ <<q, sp>> \in pending
              /\ (~ \E r \in R : r.q = q /\ r.sp = sp) => Holders(q, sp)' = Holders(q, sp)
<1>1. Matched'
  <2>1. SUFFICES ASSUME NEW k \in Channels, NEW v \in chUnacked'[k], Owed(k, v)'
                 PROVE  [q |-> v.q, sp |-> v.sp, c |-> v.c] \in unacked'
    BY DEF Matched
  <2>2. v \in chUnacked[k] /\ Owed(k, v) /\ ~ \E r \in R : SamePlace(v, r)
    BY <2>1 DEF TakenBack
  <2> DEFINE e == [q |-> v.q, sp |-> v.sp, c |-> v.c]
  <2>3. e \in unacked
    BY <2>2 DEF Once, Matched
  <2>4. ~ \E r \in R : SamePlace(e, r)
    BY <2>2 DEF SamePlace
  <2> QED
    BY <2>3, <2>4 DEF TakenBack
<1>2. Unique'
  BY DEF Once, Unique, TakenBack
<1>3. ASSUME NEW q \in Queues, NEW sp \in Sp
      PROVE  /\ InDelivery(q, sp)' <=> InDelivery(q, sp)
             /\ (\E r \in R : r.q = q /\ r.sp = sp) =>
                   /\ Holders(q, sp)' = {} /\ Holders(q, sp) # {}
                   /\ ready[q][sp] = 0 /\ ~InDelivery(q, sp) /\ <<q, sp>> \in pending
             /\ (~ \E r \in R : r.q = q /\ r.sp = sp) => Holders(q, sp)' = Holders(q, sp)
  <2>1. InDelivery(q, sp)' <=> InDelivery(q, sp)
    BY DEF TakenBack, InDelivery
  <2>2. ASSUME NEW r \in R, r.q = q, r.sp = sp
        PROVE  /\ Holders(q, sp)' = {} /\ Holders(q, sp) # {}
               /\ ready[q][sp] = 0 /\ ~InDelivery(q, sp) /\ <<q, sp>> \in pending
    <3>1. Holders(q, sp)' = {}
      BY <2>2 DEF TakenBack, Holders, SamePlace
    <3>2. Holders(q, sp) # {}
      BY <2>2 DEF TakenBack
    <3>3. Exclusive(q, sp)
      BY DEF Once, AllExclusive
    <3> QED
      BY <3>1, <3>2, <3>3, Zenon DEF Exclusive
  <2>3. ASSUME ~ \E r \in R : r.q = q /\ r.sp = sp
        PROVE  Holders(q, sp)' = Holders(q, sp)
    BY <2>3 DEF TakenBack, Holders, SamePlace
  <2> QED
    BY <2>1, <2>2, <2>3
<1> QED
  BY <1>1, <1>2, <1>3

\* The messages taken back are disposed of.
LEMMA DisposedOnce ==
  ASSUME Once, NEW R, TakenBack(R), ready' = ready, pending' = pending \ Messages(R)
  PROVE  Once'
<1>1. ASSUME NEW q \in Queues, NEW sp \in Sp
      PROVE  Exclusive(q, sp)' /\ (InDelivery(q, sp)' => <<q, sp>> \in pending')
  <2>1. Exclusive(q, sp) /\ (InDelivery(q, sp) => <<q, sp>> \in pending)
    BY DEF Once, AllExclusive, Flight
  <2>2. CASE \E r \in R : r.q = q /\ r.sp = sp
    <3>1. Holders(q, sp)' = {} /\ ready'[q][sp] = 0 /\ ~InDelivery(q, sp)'
      BY <2>2, TakenBackAgree
    <3> QED
      BY <3>1 DEF Exclusive
  <2>3. CASE ~ \E r \in R : r.q = q /\ r.sp = sp
    <3>1. Holders(q, sp)' = Holders(q, sp) /\ (InDelivery(q, sp)' <=> InDelivery(q, sp))
      BY <2>3, TakenBackAgree
    <3>2. <<q, sp>> \in pending' <=> <<q, sp>> \in pending
      BY <2>3 DEF Messages
    <3> QED
      BY <2>1, <3>1, <3>2 DEF Exclusive
  <2> QED
    BY <2>2, <2>3
<1> QED
  BY <1>1, TakenBackAgree DEF Once, AllExclusive, Flight

\* The messages taken back are put into the ready deque again, one copy each.
LEMMA ReturnedOnce ==
  ASSUME TypeInv, Once, NEW R, IsFiniteSet(R), TakenBack(R), Insert(Copies(R)), pending' = pending,
         \A e, f \in R : SamePlace(e, f) => e = f
  PROVE  Once'
<1>1. ASSUME NEW q \in Queues, NEW sp \in Sp
      PROVE  Exclusive(q, sp)' /\ (InDelivery(q, sp)' => <<q, sp>> \in pending')
  <2>1. Exclusive(q, sp) /\ (InDelivery(q, sp) => <<q, sp>> \in pending)
    BY DEF Once, AllExclusive, Flight
  <2> DEFINE n == Copies(R)
  <2>2. /\ n \in [Queues -> [Sp -> Nat]] /\ Insert(n)
        /\ n[q][sp] \in {0, 1}
        /\ n[q][sp] > 0 <=> \E r \in R : r.q = q /\ r.sp = sp
    <3>1. n \in [Queues -> [Sp -> Nat]]
      BY CopiesType
    <3>2. n[q][sp] \in {0, 1}
      BY CopiesOne
    <3>3. n[q][sp] > 0 <=> \E r \in R : r.q = q /\ r.sp = sp
      BY CopiesPositive
    <3> QED
      BY <3>1, <3>2, <3>3
  <2> HIDE DEF n
  <2>3. ready'[q][sp] = ready[q][sp] + n[q][sp] /\ ready[q][sp] \in Nat
    <3>1. ready \in [Queues -> [Sp -> Nat]]
      BY DEF TypeInv, TypeOK
    <3> QED
      BY <2>2, <3>1, InsertType
  <2>4. CASE \E r \in R : r.q = q /\ r.sp = sp
    <3>1. /\ Holders(q, sp)' = {} /\ ready[q][sp] = 0 /\ ~InDelivery(q, sp)'
          /\ <<q, sp>> \in pending'
      BY <2>4, TakenBackAgree
    <3>2. ready'[q][sp] = 1
      BY <2>2, <2>3, <2>4, <3>1
    <3> QED
      BY <3>1, <3>2 DEF Exclusive
  <2>5. CASE ~ \E r \in R : r.q = q /\ r.sp = sp
    <3>1. Holders(q, sp)' = Holders(q, sp) /\ (InDelivery(q, sp)' <=> InDelivery(q, sp))
      BY <2>5, TakenBackAgree
    <3>2. ready'[q][sp] = ready[q][sp]
      BY <2>2, <2>3, <2>5
    <3> QED
      BY <2>1, <3>1, <3>2 DEF Exclusive
  <2> QED
    BY <2>4, <2>5
<1> QED
  BY <1>1, TakenBackAgree DEF Once, AllExclusive, Flight

\* The head of a queue is taken, by a receiver that holds it or, for good, by one
\* that does not acknowledge.
LEMMA TakenOnce ==
  ASSUME TypeInv, Once, NEW q \in Queues, NEW sp \in Sp, NEW c, NEW noAck \in BOOLEAN,
         Take(q, sp, c, noAck),
         NEW ch \in Channels, NEW u, u.q = q, u.sp = sp, u.c = c,
         IF noAck THEN chUnacked' = chUnacked
         ELSE /\ chUnacked'[ch] = chUnacked[ch] \union {u}
              /\ \A k \in Channels : k # ch => chUnacked'[k] = chUnacked[k],
         UNCHANGED <<chState, cState>>,
         pending \ {<<q, sp>>} \subseteq pending', pending' \subseteq pending,
         ~noAck => pending' = pending,
         \A y \in Queues, x \in Sp : y # q \/ x # sp => (InDelivery(y, x)' => InDelivery(y, x)),
         InDelivery(q, sp)' => noAck /\ <<q, sp>> \in pending'
  PROVE  Once'
<1> DEFINE e == [q |-> q, sp |-> sp, c |-> c]
<1>1. /\ ready[q][sp] > 0 /\ ready'[q][sp] = ready[q][sp] - 1
      /\ \A y \in Queues, x \in Sp : y # q \/ x # sp => ready'[y][x] = ready[y][x]
      /\ unacked' = IF noAck THEN unacked ELSE unacked \union {e}
  BY DEF Take, IsHead, TypeInv, TypeOK
<1>2. ready[q][sp] \in Nat
  BY DEF TypeInv, TypeOK
<1>3. Holders(q, sp) = {} /\ ~InDelivery(q, sp) /\ <<q, sp>> \in pending /\ ready[q][sp] = 1
  <2>1. Exclusive(q, sp)
    BY DEF Once, AllExclusive
  <2> QED
    BY <1>1, <1>2, <2>1 DEF Exclusive
<1>4. \A y \in Queues, x \in Sp : y # q \/ x # sp => Holders(y, x)' = Holders(y, x)
  BY <1>1 DEF Holders
<1>5. Exclusive(q, sp)'
  <2>1. ready'[q][sp] = 0
    BY <1>1, <1>3
  <2>2. noAck => Holders(q, sp)' = {}
    BY <1>1, <1>3 DEF Holders
  <2>3. \A f, g \in Holders(q, sp)' : f = g
    BY <1>1, <1>3 DEF Holders
  <2>4. ~noAck => <<q, sp>> \in pending' /\ ~InDelivery(q, sp)'
    BY <1>3
  <2> QED
    BY <2>1, <2>2, <2>3, <2>4 DEF Exclusive
<1>6. AllExclusive'
  <2>1. ASSUME NEW y \in Queues, NEW x \in Sp, y # q \/ x # sp PROVE Exclusive(y, x)'
    <3>1. Exclusive(y, x)
      BY DEF Once, AllExclusive
    <3>2. Holders(y, x)' = Holders(y, x) /\ ready'[y][x] = ready[y][x]
      BY <1>1, <1>4, <2>1
    <3>3. (InDelivery(y, x)' => InDelivery(y, x)) /\ (<<y, x>> \in pending => <<y, x>> \in pending')
      BY <2>1
    <3> QED
      BY <3>1, <3>2, <3>3 DEF Exclusive
  <2> QED
    BY <1>5, <2>1 DEF AllExclusive
<1>7. Flight'
  <2>1. ASSUME NEW y \in Queues, NEW x \in Sp, InDelivery(y, x)' PROVE <<y, x>> \in pending'
    BY <1>3, <2>1 DEF Once, Flight
  <2> QED
    BY <2>1 DEF Flight
<1>8. ASSUME NEW k \in Channels, NEW v PROVE Owed(k, v)' <=> Owed(k, v)
  BY DEF Owed
<1>9. \A k \in Channels : \A v \in chUnacked[k] : Owed(k, v) => v.q # q \/ v.sp # sp
  <2>1. SUFFICES ASSUME NEW k \in Channels, NEW v \in chUnacked[k], Owed(k, v), v.q = q, v.sp = sp
                 PROVE  FALSE
    OBVIOUS
  <2>2. [q |-> v.q, sp |-> v.sp, c |-> v.c] \in unacked
    BY <2>1 DEF Once, Matched
  <2> QED
    BY <1>3, <2>1, <2>2 DEF Holders
<1>10. Matched' /\ Unique'
  <2>1. CASE noAck
    BY <1>1, <1>8, <2>1 DEF Once, Matched, Unique
  <2>2. CASE ~noAck
    <3>1. \A k \in Channels : \A v \in chUnacked'[k] : v \in chUnacked[k] \/ (k = ch /\ v = u)
      BY <2>2
    <3>2. Matched'
      BY <1>1, <1>8, <2>2, <3>1 DEF Once, Matched
    <3>3. Unique'
      BY <1>8, <1>9, <3>1 DEF Once, Unique
    <3> QED
      BY <3>2, <3>3
  <2> QED
    BY <2>1, <2>2
<1> QED
  BY <1>6, <1>7, <1>10 DEF Once

\* A socket that is lost makes no channel open.
LEMMA LostOwesLess ==
  ASSUME TypeInv, NEW ch \in Channels, chState' = [chState EXCEPT ![ch] = SocketLost(@)],
         UNCHANGED cState
  PROVE  /\ \A k \in Channels : \A u : Owed(k, u)' => Owed(k, u)
         /\ chState'[ch] # "open"
<1>1. /\ chState'[ch] = SocketLost(chState[ch])
      /\ \A k \in Channels : k # ch => chState'[k] = chState[k]
  BY DEF TypeInv, TypeOK
<1>2. SocketLost(chState[ch]) # "open"
  BY DEF SocketLost, TypeInv, TypeOK
<1>3. chState'[ch] # "open"
  BY <1>1, <1>2
<1>4. ASSUME NEW k \in Channels, NEW u, Owed(k, u)' PROVE Owed(k, u)
  BY <1>1, <1>3, <1>4 DEF Owed
<1> QED
  BY <1>3, <1>4

\* A delivery fails, while the consumer still is the one that holds the message.
LEMMA FailedOnce ==
  ASSUME PlaceInv, Once, NEW q \in Queues, DeliveryFailed(q), ~raced'
  PROVE  Once'
<1> USE DEF PlaceInv
<1> DEFINE d == inflight[q]
           ch == ChannelOf[d.c]
           e == [q |-> q, sp |-> d.sp, c |-> d.c]
           U == {[q |-> q, sp |-> d.sp]}
<1>1. pc[q] = "deliver" /\ d.sp \in Sp /\ d.c \in Consumers /\ ch \in Channels
  BY DeliveryAssumption DEF DeliveryFailed, TypeInv, TypeOK
<1>2. /\ unacked' \in Deleted(unacked, U)
      /\ chState' = [chState EXCEPT ![ch] = SocketLost(@)]
      /\ UNCHANGED <<chUnacked, cState, pending>>
      /\ d.c \notin NoAck => cState[d.c] = "active" /\ e \in unacked
  <2>1. /\ unacked' \in Deleted(unacked, U)
        /\ chState' = [chState EXCEPT ![ch] = SocketLost(@)]
        /\ UNCHANGED <<chUnacked, cState, pending>>
    BY DEF DeliveryFailed, consumerVars
  <2>2. raced' = (raced \/ (d.c \notin NoAck /\ (cState[d.c] # "active" \/ e \notin unacked)))
    BY Zenon DEF DeliveryFailed
  <2>3. d.c \notin NoAck => cState[d.c] = "active" /\ e \in unacked
    BY <2>2, Zenon
  <2> QED
    BY <2>1, <2>3
<1>3. /\ ready'[q][d.sp] = ready[q][d.sp] + 1
      /\ \A y \in Queues, x \in Sp : y # q \/ x # d.sp => ready'[y][x] = ready[y][x]
      /\ \A x \in Sp : ~InDelivery(q, x)'
      /\ \A y \in Queues, x \in Sp : InDelivery(y, x)' => InDelivery(y, x)
  BY <1>1 DEF DeliveryFailed, InDelivery, TypeInv, TypeOK
<1>4. /\ unacked' \subseteq unacked
      /\ \A f \in unacked : f \in unacked' <=> f.q # q \/ f.sp # d.sp
  <2>1. \A f : SamePlace(f, [q |-> q, sp |-> d.sp]) <=> f.q = q /\ f.sp = d.sp
    BY DEF SamePlace
  <2>2. \A f \in unacked : (\A u \in U : f.q # u.q \/ f.sp # u.sp) => f \in unacked'
    BY <1>2, DeletedKeeps
  <2>3. \A f \in unacked, u \in U : SamePlace(f, u) => f \notin unacked'
    BY <1>2, HoldersDiffer, DeletedRemoves DEF Once
  <2>4. unacked' \subseteq unacked
    BY <1>2, DeletedKeeps
  <2> QED
    BY <2>1, <2>2, <2>3, <2>4
<1>5. ready[q][d.sp] = 0 /\ <<q, d.sp>> \in pending
  <2>1. Exclusive(q, d.sp)
    BY <1>1 DEF Once, AllExclusive
  <2>2. CASE d.c \in NoAck
    <3>1. InDelivery(q, d.sp)
      BY <1>1, <2>2 DEF InDelivery
    <3> QED
      BY <1>1, <2>1, <3>1 DEF Exclusive, Once, Flight
  <2>3. CASE d.c \notin NoAck
    <3>1. Holders(q, d.sp) # {}
      BY <1>2, <2>3 DEF Holders
    <3> QED
      BY <2>1, <3>1 DEF Exclusive
  <2> QED
    BY <2>2, <2>3
<1>6. ASSUME NEW y \in Queues, NEW x \in Sp
      PROVE  Exclusive(y, x)' /\ (InDelivery(y, x)' => <<y, x>> \in pending')
  <2>1. CASE y = q /\ x = d.sp
    <3>1. Holders(y, x)' = {}
      BY <1>4, <2>1 DEF Holders
    <3>2. ready'[y][x] = 1 /\ ~InDelivery(y, x)' /\ <<y, x>> \in pending'
      BY <1>2, <1>3, <1>5, <2>1
    <3> QED
      BY <3>1, <3>2 DEF Exclusive
  <2>2. CASE y # q \/ x # d.sp
    <3>1. Exclusive(y, x) /\ (InDelivery(y, x) => <<y, x>> \in pending)
      BY DEF Once, AllExclusive, Flight
    <3>2. Holders(y, x)' = Holders(y, x)
      BY <1>4, <2>2 DEF Holders
    <3>3. ready'[y][x] = ready[y][x] /\ (InDelivery(y, x)' => InDelivery(y, x)) /\ pending' = pending
      BY <1>2, <1>3, <2>2
    <3> QED
      BY <3>1, <3>2, <3>3 DEF Exclusive
  <2> QED
    BY <2>1, <2>2
<1>7. (\A k \in Channels : \A u : Owed(k, u)' => Owed(k, u)) /\ chState'[ch] # "open"
  BY <1>1, <1>2, LostOwesLess
<1>8. Matched'
  <2>1. SUFFICES ASSUME NEW k \in Channels, NEW u \in chUnacked[k], Owed(k, u)'
                 PROVE  [q |-> u.q, sp |-> u.sp, c |-> u.c] \in unacked'
    BY <1>2 DEF Matched
  <2> DEFINE f == [q |-> u.q, sp |-> u.sp, c |-> u.c]
  <2>2. f \in unacked
    BY <1>7, <2>1 DEF Once, Matched
  <2>3. ASSUME u.q = q, u.sp = d.sp PROVE FALSE
    <3>1. f \in Holders(q, d.sp) /\ Exclusive(q, d.sp)
      BY <1>1, <2>2, <2>3 DEF Holders, Once, AllExclusive
    <3>2. d.c \notin NoAck
      <4>1. d.c \in NoAck => InDelivery(q, d.sp)
        BY <1>1 DEF InDelivery
      <4> QED
        BY <3>1, <4>1 DEF Exclusive
    <3>3. e \in Holders(q, d.sp) /\ cState[d.c] = "active"
      BY <1>2, <3>2 DEF Holders
    <3>4. u.c = d.c
      BY <3>1, <3>3 DEF Exclusive
    <3>5. u.c # NoConsumer /\ k = ch
      BY <1>1, <3>4, DeliveryAssumption DEF TypeInv, OwnEntries
    <3> QED
      BY <1>2, <1>7, <2>1, <3>3, <3>4, <3>5 DEF Owed
  <2> QED
    BY <1>4, <2>2, <2>3
<1>9. Unique'
  BY <1>2, <1>7 DEF Once, Unique
<1> QED
  BY <1>6, <1>8, <1>9 DEF Once, AllExclusive, Flight

\* Entries of an open channel are taken back: they are all owed, so each stands
\* for a message the queue holds, and no other owed entry does.
LEMMA SettledBack ==
  ASSUME PlaceInv, Once, NEW ch \in Channels, chState[ch] = "open",
         NEW T \in SUBSET chUnacked[ch], NEW S \in SUBSET T, RemoveFromChannel(ch, T),
         unacked' \in Deleted(unacked, S), UNCHANGED <<pc, inflight, chState, cState>>
  PROVE  /\ TakenBack(S)
         /\ \A e, f \in S : SamePlace(e, f) => e = f
<1> USE DEF PlaceInv
<1>1. \A u \in S : Owed(ch, u) /\ u \in ChannelUnack /\ u \in chUnacked[ch]
  BY DEF Owed, TypeInv, TypeOK
<1>2. ASSUME NEW u \in S PROVE u.q \in Queues /\ u.sp \in Sp /\ Holders(u.q, u.sp) # {}
  <2>1. u.q \in Queues /\ u.sp \in Sp
    BY <1>1 DEF ChannelUnack
  <2>2. [q |-> u.q, sp |-> u.sp, c |-> u.c] \in unacked
    BY <1>1 DEF Once, Matched
  <2> QED
    BY <2>1, <2>2 DEF Holders
<1>3. /\ unacked' \subseteq unacked
      /\ \A e \in unacked : e \in unacked' <=> ~ \E r \in S : SamePlace(e, r)
  <2>1. \A e \in unacked, u \in S : SamePlace(e, u) => e \notin unacked'
    BY HoldersDiffer, DeletedRemoves DEF Once
  <2>2. \A e \in unacked : (\A u \in S : e.q # u.q \/ e.sp # u.sp) => e \in unacked'
    BY DeletedKeeps
  <2>3. unacked' \subseteq unacked
    BY DeletedKeeps
  <2> QED
    BY <2>1, <2>2, <2>3 DEF SamePlace
<1>4. /\ chUnacked'[ch] = chUnacked[ch] \ T
      /\ \A k \in Channels : k # ch => chUnacked'[k] = chUnacked[k]
  BY DEF RemoveFromChannel, TypeInv, TypeOK
<1>5. \A e, f \in S : SamePlace(e, f) => e = f
  BY <1>1 DEF Once, Unique, SamePlace
<1>6. ASSUME NEW k \in Channels, NEW v \in chUnacked'[k]
      PROVE  /\ v \in chUnacked[k]
             /\ Owed(k, v)' => Owed(k, v) /\ ~ \E r \in S : SamePlace(v, r)
  <2>1. v \in chUnacked[k] /\ (k = ch => v \notin T)
    BY <1>4, <1>6
  <2>2. Owed(k, v)' => Owed(k, v)
    BY DEF Owed
  <2>3. ASSUME Owed(k, v), NEW r \in S, SamePlace(v, r) PROVE FALSE
    <3>1. k = ch /\ v = r
      BY <1>1, <2>1, <2>3 DEF Once, Unique, SamePlace
    <3> QED
      BY <2>1, <3>1
  <2> QED
    BY <2>1, <2>2, <2>3
<1> QED
  BY <1>2, <1>3, <1>5, <1>6 DEF TakenBack

\* What the queues take back when a channel closes.
ClosedEntries(ch) == {e \in unacked : e.c \in ChannelConsumers(ch)} \union LeftOver(ch)

\* A channel closes: what its consumers hold is taken back from the queues, the
\* rest entry by entry.
LEMMA ClosedBack ==
  ASSUME PlaceInv, Once, NEW ch \in Channels, NEW s \in {"closed", "gone"}, CloseChannel(ch, s)
  PROVE  /\ TakenBack(ClosedEntries(ch))
         /\ IsFiniteSet(ClosedEntries(ch))
         /\ \A e, f \in ClosedEntries(ch) : SamePlace(e, f) => e = f
<1> USE DEF PlaceInv
<1> DEFINE C == ChannelConsumers(ch)
           held == {e \in unacked : e.c \in C}
           L == LeftOver(ch)
           R == held \union L
<1>1. R = ClosedEntries(ch)
  BY DEF ClosedEntries
<1>2. /\ unacked' \in Deleted(unacked \ held, L)
      /\ Insert(Copies(R))
      /\ RemoveFromChannel(ch, chUnacked[ch])
      /\ chState' = [chState EXCEPT ![ch] = s]
      /\ cState' = [c \in Consumers |-> IF ChannelOf[c] = ch THEN "closed" ELSE cState[c]]
      /\ UNCHANGED <<pc, inflight, pending>>
  BY DEF CloseChannel
<1>3. \A c : c \in C <=> c \in Consumers /\ cState[c] = "active" /\ ChannelOf[c] = ch
  BY DEF ChannelConsumers
<1>4. ASSUME NEW u \in L
      PROVE  /\ u \in chUnacked[ch] /\ u \in ChannelUnack /\ u.c \notin C /\ Owed(ch, u)
             /\ [q |-> u.q, sp |-> u.sp, c |-> u.c] \in unacked
  <2>1. u \in chUnacked[ch] /\ u.c \notin C
    BY DEF LeftOver, HeldByConsumers
  <2>2. u \in ChannelUnack
    BY <2>1 DEF TypeInv, TypeOK
  <2>3. u.c # NoConsumer => u.c \in Consumers /\ ChannelOf[u.c] = ch
    BY <2>1, <2>2 DEF ChannelUnack, Holder, TypeInv, OwnEntries
  <2>4. Owed(ch, u)
    BY <1>3, <2>1, <2>3 DEF Owed
  <2> QED
    BY <2>1, <2>2, <2>4 DEF Once, Matched
<1>5. \A e, f \in unacked : SamePlace(e, f) => e = f
  BY HoldersDiffer DEF Once
<1>6. ASSUME NEW e \in held, NEW u \in L PROVE ~SamePlace(e, u)
  <2> DEFINE f == [q |-> u.q, sp |-> u.sp, c |-> u.c]
  <2>1. SamePlace(e, u) => e = f
    BY <1>4, <1>5 DEF SamePlace
  <2> QED
    BY <1>4, <2>1
<1>7. \A e, f \in R : SamePlace(e, f) => e = f
  <2>1. \A u, v \in L : SamePlace(u, v) => u = v
    BY <1>4 DEF Once, Unique, SamePlace
  <2>2. \A e, u : SamePlace(e, u) <=> SamePlace(u, e)
    BY DEF SamePlace
  <2> QED
    BY <1>5, <1>6, <2>1, <2>2
<1>8. IsFiniteSet(R)
  <2>1. IsFiniteSet(held) /\ IsFiniteSet(L)
    BY FS_Subset DEF LeftOver, TypeInv, TypeOK
  <2> QED
    BY <2>1, FS_Union
<1>9. ASSUME NEW r \in R PROVE r.q \in Queues /\ r.sp \in Sp /\ Holders(r.q, r.sp) # {}
  <2>1. CASE r \in held
    BY <2>1 DEF Holders, TypeInv, TypeOK, Unack
  <2>2. CASE r \in L
    <3>1. r.q \in Queues /\ r.sp \in Sp
      BY <1>4, <2>2 DEF ChannelUnack
    <3>2. [q |-> r.q, sp |-> r.sp, c |-> r.c] \in unacked
      BY <1>4, <2>2
    <3> QED
      BY <3>1, <3>2 DEF Holders
  <2> QED
    BY <2>1, <2>2
<1>10. /\ unacked' \subseteq unacked
       /\ \A e \in unacked : e \in unacked' <=> ~ \E r \in R : SamePlace(e, r)
  <2>1. unacked' \subseteq unacked \ held
    BY <1>2, DeletedKeeps
  <2>2. \A e \in unacked \ held : (\A u \in L : e.q # u.q \/ e.sp # u.sp) => e \in unacked'
    BY <1>2, DeletedKeeps
  <2>3. \A e \in unacked \ held, u \in L : SamePlace(e, u) => e \notin unacked'
    BY <1>2, <1>5, DeletedRemoves
  <2>4. ASSUME NEW e \in held PROVE e \notin unacked' /\ e \in R /\ SamePlace(e, e)
    BY <2>1 DEF SamePlace
  <2>5. ASSUME NEW e \in unacked \ held PROVE e \in unacked' <=> ~ \E r \in R : SamePlace(e, r)
    <3>1. \A r \in held : ~SamePlace(e, r)
      BY <1>5
    <3>2. e \in unacked' <=> ~ \E r \in L : SamePlace(e, r)
      BY <2>2, <2>3 DEF SamePlace
    <3> QED
      BY <3>1, <3>2
  <2> QED
    BY <2>1, <2>4, <2>5
<1>11. /\ chUnacked'[ch] = {}
       /\ \A k \in Channels : k # ch => chUnacked'[k] = chUnacked[k] /\ chState'[k] = chState[k]
  BY <1>2 DEF RemoveFromChannel, TypeInv, TypeOK
<1>12. ASSUME NEW k \in Channels, NEW v \in chUnacked'[k]
       PROVE  /\ v \in chUnacked[k]
              /\ Owed(k, v)' => Owed(k, v) /\ ~ \E r \in R : SamePlace(v, r)
  <2>1. k # ch /\ v \in chUnacked[k] /\ chState'[k] = chState[k]
    BY <1>11, <1>12
  <2>2. v.c # NoConsumer => v.c \in Consumers /\ ChannelOf[v.c] = k
    BY <2>1 DEF ChannelUnack, Holder, TypeInv, TypeOK, OwnEntries
  <2>3. v.c # NoConsumer => cState'[v.c] = cState[v.c]
    BY <1>2, <2>1, <2>2
  <2>4. Owed(k, v)' => Owed(k, v)
    BY <2>1, <2>3 DEF Owed
  <2>5. ASSUME Owed(k, v), NEW r \in held, SamePlace(v, r) PROVE FALSE
    <3> DEFINE f == [q |-> v.q, sp |-> v.sp, c |-> v.c]
    <3>1. f \in unacked
      BY <2>1, <2>5 DEF Once, Matched
    <3>2. f = r
      BY <1>5, <2>5, <3>1 DEF SamePlace
    <3>3. v.c = r.c /\ r.c \in C
      BY <3>2
    <3> QED
      BY <1>3, <2>1, <2>2, <3>3, DeliveryAssumption
  <2>6. ASSUME Owed(k, v), NEW r \in L, SamePlace(v, r) PROVE FALSE
    BY <1>4, <2>1, <2>6 DEF Once, Unique, SamePlace
  <2> QED
    BY <2>1, <2>4, <2>5, <2>6
<1> HIDE DEF R
<1>13. TakenBack(R)
  BY <1>2, <1>9, <1>10, <1>12 DEF TakenBack
<1> QED
  BY <1>1, <1>7, <1>8, <1>13

\* So every message is at one place again.
LEMMA CloseOnce ==
  ASSUME PlaceInv, Once, NEW ch \in Channels, NEW s \in {"closed", "gone"}, CloseChannel(ch, s)
  PROVE  Once'
<1>1. Insert(Copies(ClosedEntries(ch))) /\ pending' = pending
  BY DEF CloseChannel, ClosedEntries
<1> QED
  BY <1>1, ClosedBack, ReturnedOnce DEF PlaceInv

-----------------------------------------------------------------------------
(* Every step. *)

\* Consumers that receive messages are on a channel that is up, after each step.
LEMMA ActiveUpStep == TypeInv /\ ActiveUp /\ [Next]_vars => ActiveUp'
<1> SUFFICES ASSUME TypeInv, ActiveUp, [Next]_vars PROVE ActiveUp'
  OBVIOUS
<1> USE DEF queueVars, loopVars, channelVars, consumerVars
<1>1. CASE UNCHANGED <<chState, cState>>
  BY <1>1 DEF ActiveUp
<1>2. ASSUME NEW c \in Consumers, Consume(c) PROVE ActiveUp'
  <2>1. /\ chState' = chState /\ chState[ChannelOf[c]] = "open"
        /\ \A x \in Consumers : x # c => cState'[x] = cState[x]
    BY <1>2 DEF Consume, TypeInv, TypeOK
  <2> QED
    BY <2>1 DEF ActiveUp
<1>3. ASSUME NEW c \in Consumers, CancelConsumer(c) PROVE ActiveUp'
  <2>1. chState' = chState /\ \A x \in Consumers : cState'[x] = "active" => cState[x] = "active"
    BY <1>3 DEF CancelConsumer, TypeInv, TypeOK
  <2> QED
    BY <2>1 DEF ActiveUp
<1>4. ASSUME NEW ch, NEW s, CloseChannel(ch, s) PROVE ActiveUp'
  <2>1. /\ chState' = [chState EXCEPT ![ch] = s]
        /\ cState' = [c \in Consumers |-> IF ChannelOf[c] = ch THEN "closed" ELSE cState[c]]
    BY <1>4 DEF CloseChannel
  <2>2. \A c \in Consumers : cState'[c] = "active" => ChannelOf[c] # ch /\ cState[c] = "active"
    BY <2>1
  <2>3. \A k \in Channels : k # ch => chState'[k] = chState[k]
    BY <2>1 DEF TypeInv, TypeOK
  <2> QED
    BY <2>2, <2>3, DeliveryAssumption DEF ActiveUp
<1>5. ASSUME NEW ch, chState' = [chState EXCEPT ![ch] = SocketLost(@)], cState' = cState
      PROVE  ActiveUp'
  <2>1. \A k \in Channels : chState'[k] = chState[k] \/ chState'[k] = SocketLost(chState[k])
    BY <1>5 DEF TypeInv, TypeOK
  <2>2. \A k \in Channels : chState[k] \in {"open", "lost"} => SocketLost(chState[k]) = "lost"
    BY DEF SocketLost
  <2> QED
    BY <1>5, <2>1, <2>2, DeliveryAssumption DEF ActiveUp
<1>6. ASSUME NEW ch, RecoverRaises(ch) PROVE ActiveUp'
  <2>1. cState' = cState /\ \A k \in Channels : chState'[k] = chState[k] \/ chState'[k] = "lost"
    BY <1>6 DEF RecoverRaises, TypeInv, TypeOK
  <2> QED
    BY <2>1, DeliveryAssumption DEF ActiveUp
<1>7. ASSUME NEW q \in Queues, DeliveryFailed(q) PROVE ActiveUp'
  BY <1>5, <1>7 DEF DeliveryFailed
<1>8. ASSUME NEW ch \in Channels, WriteError(ch) PROVE ActiveUp'
  BY <1>5, <1>8 DEF WriteError
<1>9. ASSUME NEW qs, Publish(qs) PROVE ActiveUp'
  BY <1>1, <1>9 DEF Publish
<1>10. ASSUME NEW q \in Queues, DeliverLoop(q) \/ Purge(q) PROVE ActiveUp'
  BY <1>1, <1>10 DEF DeliverLoop, Purge, AwaitMessage, ReceiveMessageToken, AwaitConsumer,
     ReceiveConsumerToken, StartDelivery, FoundNoMessage, DeliveryDone
<1>11. ASSUME NEW ch \in Channels, Settle(ch) PROVE ActiveUp'
  BY <1>1, <1>4, <1>11 DEF Settle, BasicAck, BasicReject, UnknownTag
<1>12. ASSUME NEW ch \in Channels, Client(ch) PROVE ActiveUp'
  BY <1>1, <1>4, <1>6, <1>8, <1>12 DEF Client, BasicGet, BasicQos, ReplyWritten, ClientFlow, BasicRecover,
     ChannelClose, Disconnect, Cleanup
<1>13. CASE UNCHANGED vars
  BY <1>1, <1>13 DEF vars
<1> QED
  BY <1>2, <1>3, <1>7, <1>9, <1>10, <1>11, <1>12, <1>13 DEF Next

\* Only published messages become outstanding.
LEMMA PublishedStep == TypeInv /\ Published /\ [Next]_vars => Published'
<1> SUFFICES ASSUME TypeInv, Published, [Next]_vars PROVE Published'
  OBVIOUS
<1> USE DEF queueVars, loopVars, channelVars, consumerVars
<1>1. CASE lastSp' = lastSp /\ pending' \subseteq pending
  BY <1>1 DEF Published
<1>2. ASSUME NEW qs, Publish(qs) PROVE Published'
  <2>1. /\ lastSp \in Nat /\ lastSp' = lastSp + 1
        /\ \A m \in pending' : m \in pending \/ m[2] = lastSp + 1
        /\ \A m \in pending : m[2] \in Nat /\ m[2] <= lastSp
    BY <1>2, DeliveryAssumption DEF Publish, Published, TypeInv, TypeOK, Sp
  <2> QED
    BY <2>1 DEF Published
<1>3. ASSUME NEW q \in Queues, DeliverLoop(q) \/ DeliveryFailed(q) \/ Purge(q) PROVE Published'
  BY <1>1, <1>3 DEF DeliverLoop, Purge, AwaitMessage, ReceiveMessageToken, AwaitConsumer,
     ReceiveConsumerToken, StartDelivery, FoundNoMessage, DeliveryDone, DeliveryFailed
<1>4. ASSUME NEW c \in Consumers, Consume(c) \/ CancelConsumer(c) PROVE Published'
  BY <1>1, <1>4 DEF Consume, CancelConsumer
<1>5. ASSUME NEW ch \in Channels, Settle(ch) PROVE Published'
  BY <1>1, <1>5 DEF Settle, BasicAck, BasicReject, UnknownTag, CloseChannel
<1>6. ASSUME NEW ch \in Channels, Client(ch) PROVE Published'
  BY <1>1, <1>6 DEF Client, BasicGet, BasicQos, ReplyWritten, ClientFlow, BasicRecover, RecoverRaises,
     ChannelClose, Disconnect, Cleanup, WriteError, CloseChannel
<1>7. CASE UNCHANGED vars
  BY <1>1, <1>7 DEF vars
<1> QED
  BY <1>2, <1>3, <1>4, <1>5, <1>6, <1>7 DEF Next

\* As long as no write failed after its delivery was taken back, each step leaves
\* every message at one place.
LEMMA OnceStep == PlaceInv /\ Once /\ ~raced' /\ [Next]_vars => Once'
<1> SUFFICES ASSUME PlaceInv, Once, ~raced', [Next]_vars PROVE Once'
  OBVIOUS
<1> USE DEF queueVars, loopVars, channelVars, consumerVars
<1>1. ASSUME NEW qs \in (SUBSET Queues) \ {{}}, Publish(qs) PROVE Once'
  <2> DEFINE n == [q \in Queues |-> [sp \in Sp |-> IF q \in qs /\ sp = lastSp + 1 THEN 1 ELSE 0]]
  <2>1. n \in [Queues -> [Sp -> Nat]] /\ Insert(n)
    BY <1>1 DEF Publish
  <2>2. /\ \A q \in Queues, sp \in Sp : ready[q][sp] \in Nat
        /\ \A q \in Queues, sp \in Sp : ready'[q][sp] = ready[q][sp] + n[q][sp]
    <3>1. ready \in [Queues -> [Sp -> Nat]]
      BY DEF PlaceInv, TypeInv, TypeOK
    <3> HIDE DEF n
    <3> QED
      BY <2>1, <3>1, InsertType
  <2>3. ASSUME NEW q \in Queues, NEW sp \in Sp
        PROVE  Exclusive(q, sp)' /\ (InDelivery(q, sp)' => <<q, sp>> \in pending')
    <3>1. Holders(q, sp)' = Holders(q, sp) /\ (InDelivery(q, sp)' <=> InDelivery(q, sp))
      BY <1>1 DEF Publish, Holders, InDelivery
    <3>2. Exclusive(q, sp) /\ (InDelivery(q, sp) => <<q, sp>> \in pending)
      BY DEF Once, AllExclusive, Flight
    <3>3. CASE q \in qs /\ sp = lastSp + 1
      <4>1. <<q, sp>> \notin pending
        BY <3>3, DeliveryAssumption DEF PlaceInv, Published, TypeInv, TypeOK
      <4>2. ready[q][sp] = 0 /\ Holders(q, sp) = {} /\ ~InDelivery(q, sp)
        BY <3>2, <4>1 DEF Exclusive
      <4>3. ready'[q][sp] = 1 /\ <<q, sp>> \in pending'
        BY <1>1, <2>2, <3>3, <4>2 DEF Publish
      <4> QED
        BY <3>1, <4>2, <4>3 DEF Exclusive
    <3>4. CASE ~(q \in qs /\ sp = lastSp + 1)
      <4>1. ready'[q][sp] = ready[q][sp]
        BY <2>2, <3>4
      <4>2. <<q, sp>> \in pending' <=> <<q, sp>> \in pending
        BY <1>1, <3>4 DEF Publish
      <4> QED
        BY <3>1, <3>2, <4>1, <4>2 DEF Exclusive
    <3> QED
      BY <3>3, <3>4
  <2>4. Matched' /\ Unique'
    <3>1. UNCHANGED <<unacked, chUnacked, chState, cState>>
      BY <1>1 DEF Publish
    <3> QED
      BY <3>1 DEF Once, Matched, Unique, Owed
  <2> QED
    BY <2>3, <2>4 DEF Once, AllExclusive, Flight
<1>2. ASSUME NEW q \in Queues,
             AwaitMessage(q) \/ ReceiveMessageToken(q) \/ AwaitConsumer(q) \/ ReceiveConsumerToken(q)
      PROVE  Once'
  <2>1. /\ UNCHANGED <<ready, unacked, chUnacked, pending, inflight, chState, cState>>
        /\ \A x \in Queues : pc'[x] = "deliver" => pc[x] = "deliver"
    BY <1>2 DEF AwaitMessage, ReceiveMessageToken, AwaitConsumer, ReceiveConsumerToken, PlaceInv, TypeInv, TypeOK
  <2> QED
    BY <2>1, NothingMoves DEF InDelivery, Owed
<1>3. ASSUME NEW q \in Queues, NEW c \in Consumers, FoundNoMessage(q, c) PROVE Once'
  <2>1. /\ UNCHANGED <<ready, unacked, chUnacked, pending, inflight, chState, cState>>
        /\ \A x \in Queues : pc'[x] = "deliver" => pc[x] = "deliver"
    BY <1>3 DEF FoundNoMessage, PlaceInv, TypeInv, TypeOK
  <2> QED
    BY <2>1, NothingMoves DEF InDelivery, Owed
<1>4. ASSUME NEW q \in Queues, NEW c \in Consumers, StartDelivery(q, c) PROVE Once'
  <2> DEFINE ch == ChannelOf[c]
  <2>1. PICK sp \in Sp :
          /\ Take(q, sp, c, c \in NoAck)
          /\ NextDeliveryTag(ch, q, sp, c, c \in NoAck)
          /\ inflight' = [inflight EXCEPT ![q] = [sp |-> sp, c |-> c, up |-> chState[ch] = "open"]]
    BY <1>4 DEF StartDelivery
  <2> DEFINE u == [tag |-> deliveryTag[ch] + 1, q |-> q, sp |-> sp, c |-> c]
             noAck == c \in NoAck
  <2>2. ch \in Channels /\ u.q = q /\ u.sp = sp /\ u.c = c
    BY DeliveryAssumption
  <2>3. IF noAck THEN chUnacked' = chUnacked
        ELSE /\ chUnacked'[ch] = chUnacked[ch] \union {u}
             /\ \A k \in Channels : k # ch => chUnacked'[k] = chUnacked[k]
    BY <2>1, <2>2 DEF NextDeliveryTag, PlaceInv, TypeInv, TypeOK
  <2>4. UNCHANGED <<chState, cState, pending>> /\ pc' = [pc EXCEPT ![q] = "deliver"]
    BY <1>4 DEF StartDelivery
  <2>5. /\ inflight'[q].sp = sp /\ inflight'[q].c = c
        /\ \A y \in Queues : y # q => inflight'[y] = inflight[y] /\ pc'[y] = pc[y]
    BY <2>1, <2>4 DEF PlaceInv, TypeInv, TypeOK
  <2>6. \A y \in Queues, x \in Sp : y # q \/ x # sp => (InDelivery(y, x)' => InDelivery(y, x))
    BY <2>5 DEF InDelivery
  <2>7. <<q, sp>> \in pending
    <3>1. ready[q][sp] > 0 /\ Exclusive(q, sp)
      BY <2>1 DEF Take, IsHead, Once, AllExclusive
    <3> QED
      BY <3>1 DEF Exclusive
  <2>8. InDelivery(q, sp)' => noAck /\ <<q, sp>> \in pending'
    BY <2>4, <2>5, <2>7 DEF InDelivery
  <2>9. noAck \in BOOLEAN /\ Take(q, sp, c, noAck) /\ TypeInv
    BY <2>1 DEF PlaceInv
  <2> HIDE DEF noAck, u, ch
  <2> QED
    BY <2>2, <2>3, <2>4, <2>6, <2>8, <2>9, TakenOnce
<1>5. ASSUME NEW q \in Queues, DeliveryDone(q) PROVE Once'
  <2> DEFINE d == inflight[q]
  <2>1. pc[q] = "deliver" /\ d.sp \in Sp
    BY <1>5 DEF DeliveryDone, PlaceInv, TypeInv, TypeOK
  <2>2. /\ UNCHANGED <<ready, unacked, chUnacked, chState, cState>>
        /\ pending' = IF d.c \in NoAck THEN pending \ {<<q, d.sp>>} ELSE pending
        /\ pc'[q] = "top"
        /\ \A y \in Queues : y # q => inflight'[y] = inflight[y] /\ pc'[y] = pc[y]
    BY <1>5 DEF DeliveryDone, PlaceInv, TypeInv, TypeOK
  <2>3. ASSUME NEW y \in Queues, NEW x \in Sp
        PROVE  Exclusive(y, x)' /\ (InDelivery(y, x)' => <<y, x>> \in pending')
    <3>1. Exclusive(y, x) /\ (InDelivery(y, x) => <<y, x>> \in pending)
      BY DEF Once, AllExclusive, Flight
    <3>2. Holders(y, x)' = Holders(y, x) /\ ready'[y][x] = ready[y][x]
      BY <2>2 DEF Holders
    <3>3. InDelivery(y, x)' => InDelivery(y, x) /\ y # q
      BY <2>2 DEF InDelivery
    <3>4. CASE d.c \in NoAck /\ y = q /\ x = d.sp
      <4>1. InDelivery(y, x)
        BY <2>1, <3>4 DEF InDelivery
      <4> QED
        BY <3>1, <3>2, <3>3, <3>4, <4>1 DEF Exclusive
    <3>5. CASE ~(d.c \in NoAck /\ y = q /\ x = d.sp)
      <4>1. <<y, x>> \in pending => <<y, x>> \in pending'
        BY <2>2, <3>5
      <4> QED
        BY <3>1, <3>2, <3>3, <4>1 DEF Exclusive
    <3> QED
      BY <3>4, <3>5
  <2>4. Matched' /\ Unique'
    BY <2>2 DEF Once, Matched, Unique, Owed
  <2> QED
    BY <2>3, <2>4 DEF Once, AllExclusive, Flight
<1>6. ASSUME NEW q \in Queues, DeliveryFailed(q) PROVE Once'
  BY <1>6, FailedOnce
<1>7. ASSUME NEW q \in Queues, Purge(q) PROVE Once'
  <2>1. /\ UNCHANGED <<unacked, chUnacked, pc, inflight, chState, cState>>
        /\ pending' = pending \ {<<q, sp>> : sp \in {x \in Sp : ready[q][x] > 0}}
        /\ \A x \in Sp : ready'[q][x] = 0
        /\ \A y \in Queues : y # q => ready'[y] = ready[y]
    BY <1>7 DEF Purge, PlaceInv, TypeInv, TypeOK
  <2>2. ASSUME NEW y \in Queues, NEW x \in Sp
        PROVE  Exclusive(y, x)' /\ (InDelivery(y, x)' => <<y, x>> \in pending')
    <3>1. Exclusive(y, x) /\ (InDelivery(y, x) => <<y, x>> \in pending) /\ ready[y][x] \in Nat
      BY DEF Once, AllExclusive, Flight, PlaceInv, TypeInv, TypeOK
    <3>2. Holders(y, x)' = Holders(y, x) /\ (InDelivery(y, x)' <=> InDelivery(y, x))
      BY <2>1 DEF Holders, InDelivery
    <3>3. CASE y = q /\ ready[y][x] > 0
      <4>1. ready'[y][x] = 0 /\ Holders(y, x) = {} /\ ~InDelivery(y, x)
        BY <2>1, <3>1, <3>3 DEF Exclusive
      <4> QED
        BY <3>2, <4>1 DEF Exclusive
    <3>4. CASE ~(y = q /\ ready[y][x] > 0)
      <4>1. ready'[y][x] = ready[y][x] /\ (<<y, x>> \in pending => <<y, x>> \in pending')
        BY <2>1, <3>1, <3>4
      <4> QED
        BY <3>1, <3>2, <4>1 DEF Exclusive
    <3> QED
      BY <3>3, <3>4
  <2>3. Matched' /\ Unique'
    BY <2>1 DEF Once, Matched, Unique, Owed
  <2> QED
    BY <2>2, <2>3 DEF Once, AllExclusive, Flight
<1>8. ASSUME NEW c \in Consumers, Consume(c) \/ CancelConsumer(c) PROVE Once'
  <2>1. /\ UNCHANGED <<ready, unacked, chUnacked, pending, pc, inflight, chState>>
        /\ chState[ChannelOf[c]] = "open"
        /\ \A x \in Consumers : x # c => cState'[x] = cState[x]
    BY <1>8 DEF Consume, CancelConsumer, PlaceInv, TypeInv, TypeOK
  <2>2. ASSUME NEW k \in Channels, NEW u \in chUnacked[k], Owed(k, u)' PROVE Owed(k, u)
    <3>1. u.c # NoConsumer => u.c \in Consumers /\ ChannelOf[u.c] = k
      BY <2>2 DEF PlaceInv, TypeInv, TypeOK, OwnEntries, ChannelUnack, Holder
    <3> QED
      BY <2>1, <2>2, <3>1 DEF Owed
  <2> QED
    BY <2>1, <2>2, NothingMoves DEF InDelivery
<1>9. ASSUME NEW ch \in Channels, NEW tag, NEW multiple, BasicAck(ch, tag, multiple) PROVE Once'
  <2> DEFINE S == Settled(ch, tag, multiple)
  <2>1. /\ chState[ch] = "open" /\ RemoveFromChannel(ch, S) /\ unacked' \in Deleted(unacked, S)
        /\ S \subseteq chUnacked[ch]
        /\ ready' = ready /\ pending' = pending \ Messages(S)
        /\ UNCHANGED <<pc, inflight, chState, cState>>
    BY <1>9, SettledPart DEF BasicAck, MaySettle
  <2> HIDE DEF S
  <2>2. TakenBack(S)
    BY <2>1, SettledBack
  <2> QED
    BY <2>1, <2>2, DisposedOnce
<1>10. ASSUME NEW ch \in Channels, NEW tag, NEW multiple, NEW requeue,
              BasicReject(ch, tag, multiple, requeue)
       PROVE  Once'
  <2> DEFINE S == Settled(ch, tag, multiple)
  <2>1. /\ chState[ch] = "open" /\ RemoveFromChannel(ch, S) /\ unacked' \in Deleted(unacked, S)
        /\ S \subseteq chUnacked[ch]
        /\ UNCHANGED <<pc, inflight, chState, cState>>
    BY <1>10, SettledPart DEF BasicReject, MaySettle
  <2>2. \/ Insert(Copies(S)) /\ pending' = pending
        \/ ready' = ready /\ pending' = pending \ Messages(S)
    BY <1>10 DEF BasicReject
  <2>3. TypeInv /\ IsFiniteSet(S)
    BY <2>1, FS_Subset DEF PlaceInv, TypeInv, TypeOK
  <2> HIDE DEF S
  <2>4. TakenBack(S) /\ \A e, f \in S : SamePlace(e, f) => e = f
    BY <2>1, SettledBack
  <2> QED
    BY <2>2, <2>3, <2>4, DisposedOnce, ReturnedOnce
<1>11. ASSUME NEW ch \in Channels, NEW tag, NEW multiple, UnknownTag(ch, tag, multiple) PROVE Once'
  BY <1>11, CloseOnce DEF UnknownTag
<1>12. ASSUME NEW ch \in Channels, NEW q \in Queues, NEW noAck \in BOOLEAN, BasicGet(ch, q, noAck)
       PROVE  Once'
  <2>1. PICK sp \in Sp : /\ Take(q, sp, NoConsumer, noAck)
                         /\ NextDeliveryTag(ch, q, sp, NoConsumer, noAck)
                         /\ pending' = IF noAck THEN pending \ {<<q, sp>>} ELSE pending
    BY <1>12 DEF BasicGet
  <2> DEFINE u == [tag |-> deliveryTag[ch] + 1, q |-> q, sp |-> sp, c |-> NoConsumer]
  <2>2. u.q = q /\ u.sp = sp /\ u.c = NoConsumer
    OBVIOUS
  <2>3. IF noAck THEN chUnacked' = chUnacked
        ELSE /\ chUnacked'[ch] = chUnacked[ch] \union {u}
             /\ \A k \in Channels : k # ch => chUnacked'[k] = chUnacked[k]
    BY <2>1 DEF NextDeliveryTag, PlaceInv, TypeInv, TypeOK
  <2>4. UNCHANGED <<chState, cState, pc, inflight>>
    BY <1>12 DEF BasicGet
  <2>5. \A y \in Queues, x \in Sp : InDelivery(y, x)' => InDelivery(y, x)
    BY <2>4 DEF InDelivery
  <2>6. ~InDelivery(q, sp)
    <3>1. ready[q][sp] > 0 /\ Exclusive(q, sp)
      BY <2>1 DEF Take, IsHead, Once, AllExclusive
    <3> QED
      BY <3>1 DEF Exclusive
  <2>7. TypeInv
    BY DEF PlaceInv
  <2>8. pending \ {<<q, sp>>} \subseteq pending' /\ pending' \subseteq pending /\ (~noAck => pending' = pending)
    BY <2>1
  <2>9. InDelivery(q, sp)' => noAck /\ <<q, sp>> \in pending'
    BY <2>5, <2>6
  <2>10. Take(q, sp, NoConsumer, noAck)
    BY <2>1
  <2> HIDE DEF u
  <2> QED
    BY <2>2, <2>3, <2>4, <2>5, <2>7, <2>8, <2>9, <2>10, TakenOnce
<1>13. ASSUME NEW ch \in Channels, (\E v : BasicQos(ch, v)) \/ ReplyWritten(ch) PROVE Once'
  BY <1>13, NothingMoves DEF BasicQos, ReplyWritten, InDelivery, Owed
<1>14. ASSUME NEW ch \in Channels, NEW active, ClientFlow(ch, active) PROVE Once'
  BY <1>14, NothingMoves DEF ClientFlow, InDelivery, Owed
<1>15. ASSUME NEW ch \in Channels, NEW requeue \in BOOLEAN, BasicRecover(ch, requeue) PROVE Once'
  <2> DEFINE S == {u \in chUnacked[ch] : u.c = NoConsumer} \union HeldByConsumers(ch)
             T == chUnacked[ch]
  <2>1. /\ chState[ch] = "open" /\ RemoveFromChannel(ch, T) /\ unacked' \in Deleted(unacked, S)
        /\ Insert(Copies(S))
        /\ UNCHANGED <<pc, inflight, chState, cState, pending>>
    BY <1>15 DEF BasicRecover
  <2>2. S \subseteq T
    BY DEF HeldByConsumers
  <2>3. TypeInv /\ IsFiniteSet(S)
    BY <2>2, FS_Subset DEF PlaceInv, TypeInv, TypeOK
  <2> HIDE DEF S
  <2>4. TakenBack(S) /\ \A e, f \in S : SamePlace(e, f) => e = f
    BY <2>1, <2>2, SettledBack
  <2> QED
    BY <2>1, <2>3, <2>4, ReturnedOnce
<1>16. ASSUME NEW ch \in Channels, RecoverRaises(ch) \/ WriteError(ch) PROVE Once'
  <2>1. /\ UNCHANGED <<ready, unacked, chUnacked, pending, pc, inflight, cState>>
        /\ \A k \in Channels : chState'[k] = "open" => chState[k] = "open"
    <3>1. chState' = [chState EXCEPT ![ch] = "lost"] \/ chState' = [chState EXCEPT ![ch] = SocketLost(@)]
      BY <1>16 DEF RecoverRaises, WriteError
    <3>2. SocketLost(chState[ch]) # "open"
      BY DEF SocketLost, PlaceInv, TypeInv, TypeOK
    <3> QED
      BY <1>16, <3>1, <3>2 DEF RecoverRaises, WriteError, PlaceInv, TypeInv, TypeOK
  <2> QED
    BY <2>1, NothingMoves DEF InDelivery, Owed
<1>17. ASSUME NEW ch \in Channels, ChannelClose(ch) \/ Disconnect(ch) \/ Cleanup(ch) PROVE Once'
  BY <1>17, CloseOnce DEF ChannelClose, Disconnect, Cleanup
<1>18. CASE UNCHANGED vars
  BY <1>18, NothingMoves DEF vars, InDelivery, Owed
<1> QED
  BY <1>1, <1>2, <1>3, <1>4, <1>5, <1>6, <1>7, <1>8, <1>9, <1>10, <1>11, <1>12, <1>13, <1>14,
     <1>15, <1>16, <1>17, <1>18 DEF Next, DeliverLoop, Settle, Client

\* Once a write has failed after its delivery was taken back, that is remembered.
LEMMA RacedStays == [Next]_vars /\ raced => raced'
<1> SUFFICES ASSUME [Next]_vars, raced PROVE raced'
  OBVIOUS
<1>1. ASSUME NEW q, DeliveryFailed(q) PROVE raced'
  BY <1>1, Zenon DEF DeliveryFailed
<1>2. CASE UNCHANGED raced
  BY <1>2
<1>3. ASSUME NEW qs, Publish(qs) PROVE raced'
  BY <1>2, <1>3 DEF Publish
<1>4. ASSUME NEW q \in Queues, DeliverLoop(q) \/ Purge(q) PROVE raced'
  BY <1>2, <1>4 DEF DeliverLoop, Purge, AwaitMessage, ReceiveMessageToken, AwaitConsumer,
     ReceiveConsumerToken, StartDelivery, FoundNoMessage, DeliveryDone
<1>5. ASSUME NEW c \in Consumers, Consume(c) \/ CancelConsumer(c) PROVE raced'
  BY <1>2, <1>5 DEF Consume, CancelConsumer
<1>6. ASSUME NEW ch \in Channels, Settle(ch) PROVE raced'
  BY <1>2, <1>6 DEF Settle, BasicAck, BasicReject, UnknownTag, CloseChannel
<1>7. ASSUME NEW ch \in Channels, Client(ch) PROVE raced'
  BY <1>2, <1>7 DEF Client, BasicGet, BasicQos, ReplyWritten, ClientFlow, BasicRecover, RecoverRaises,
     ChannelClose, Disconnect, Cleanup, WriteError, CloseChannel
<1>8. CASE UNCHANGED vars
  BY <1>2, <1>8 DEF vars
<1> QED
  BY <1>1, <1>3, <1>4, <1>5, <1>6, <1>7, <1>8, Zenon DEF Next

\* The invariant holds initially.
LEMMA PlaceInit == Init => PlaceInv
<1> SUFFICES ASSUME Init PROVE PlaceInv
  OBVIOUS
<1>1. TypeInv
  BY TypeInit
<1>2. ActiveUp /\ Published
  BY DEF Init, ActiveUp, Published
<1>3. \A q \in Queues, sp \in Sp : Holders(q, sp) = {} /\ ~InDelivery(q, sp) /\ ready[q][sp] = 0
  BY DEF Init, Holders, InDelivery
<1>4. AllExclusive /\ Flight
  BY <1>3 DEF AllExclusive, Exclusive, Flight
<1>5. Matched /\ Unique
  BY DEF Init, Matched, Unique
<1> QED
  BY <1>1, <1>2, <1>4, <1>5 DEF PlaceInv, Once

\* Each step keeps it.
LEMMA PlaceStep == PlaceInv /\ [Next]_vars => PlaceInv'
<1> SUFFICES ASSUME PlaceInv, [Next]_vars PROVE PlaceInv'
  OBVIOUS
<1>1. TypeInv' /\ ActiveUp' /\ Published'
  BY TypeStep, ActiveUpStep, PublishedStep DEF PlaceInv
<1>2. ASSUME ~raced' PROVE Once'
  BY <1>2, RacedStays, OnceStep DEF PlaceInv
<1> QED
  BY <1>1, <1>2 DEF PlaceInv

-----------------------------------------------------------------------------
(* The theorems. *)

\* A message is at one place only and, once disposed of, nowhere, unless a write
\* failed after its delivery was taken back.
THEOREM AtOnePlace == Spec => []OnePlace
<1>1. PlaceInv => OnePlace
  BY DEF PlaceInv, Once, AllExclusive, OnePlace
<1> QED
  BY PlaceInit, PlaceStep, <1>1, PTL DEF Spec

\* Under the same condition an entry a client can still settle stands for exactly
\* one message that its queue holds for the same consumer.
THEOREM BothListsAgree == Spec => []ListsAgree
<1>1. PlaceInv => ListsAgree
  BY DEF PlaceInv, Once, ListsAgree
<1> QED
  BY PlaceInit, PlaceStep, <1>1, PTL DEF Spec

=============================================================================
