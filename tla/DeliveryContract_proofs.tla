---------------------- MODULE DeliveryContract_proofs -----------------------
(***************************************************************************)
(* What queues and channels promise, for every value of the constants of   *)
(* Delivery.                                                               *)
(*                                                                         *)
(* The queues implement QueueContract: the initial state is the            *)
(* contract's, and every step is a step of the contract or leaves all      *)
(* messages where they are, until a write fails after its delivery was     *)
(* taken back. The place of a message is defined from the ready deque and  *)
(* the lists of unacknowledged messages. NoLoss and OnePlace together      *)
(* make it depend on the ready deque and on the history of what is         *)
(* outstanding alone, and an action changes these two in a handful of      *)
(* ways only.                                                              *)
(*                                                                         *)
(* On a channel, an acknowledgement settles what it names, every message   *)
(* a queue holds is known to a channel that can give it back, and a        *)
(* settled delivery wakes the deliver loop that waits for its consumer.    *)
(* Each of the three fails for some workloads, by what the code does: the  *)
(* theorems name these workloads and cover all others.                     *)
(***************************************************************************)
EXTENDS Delivery_proofs

-----------------------------------------------------------------------------
(* Where a message is, told from the ready deque and from what is outstanding. *)

\* What is known of every state up to the first raced write.
Orderly == PlaceInv /\ Once /\ NoLoss

PlaceOf(q, sp) ==
  IF sp > lastSp THEN "unpublished"
  ELSE IF ready[q][sp] > 0 THEN "ready"
  ELSE IF <<q, sp>> \in pending THEN "held" ELSE "gone"

PlacesTold ==
  \A q \in Queues, sp \in Sp :
    /\ ready[q][sp] \in {0, 1}
    /\ ready[q][sp] > 0 => <<q, sp>> \in pending
    /\ <<q, sp>> \in pending => sp <= lastSp
    /\ Place(<<q, sp>>) = PlaceOf(q, sp)

\* The places of the refinement mapping are the ones an orderly queue tells.
LEMMA PlacesAreTold == Orderly => PlacesTold
<1> SUFFICES ASSUME Orderly, NEW q \in Queues, NEW sp \in Sp
             PROVE  /\ ready[q][sp] \in {0, 1}
                    /\ ready[q][sp] > 0 => <<q, sp>> \in pending
                    /\ <<q, sp>> \in pending => sp <= lastSp
                    /\ Place(<<q, sp>>) = PlaceOf(q, sp)
  BY DEF PlacesTold
<1>1. ready[q][sp] \in Nat /\ sp \in Nat /\ lastSp \in Nat
  BY DeliveryAssumption DEF Orderly, PlaceInv, TypeInv, TypeOK, Sp
<1>2. <<q, sp>> \in pending => sp <= lastSp
  BY DEF Orderly, PlaceInv, Published
<1>3. Exclusive(q, sp) /\ (InDelivery(q, sp) => <<q, sp>> \in pending)
  BY DEF Orderly, Once, AllExclusive, Flight
<1>4. ready[q][sp] \in {0, 1} /\ (ready[q][sp] > 0 => <<q, sp>> \in pending)
  BY <1>1, <1>3 DEF Exclusive
<1>5. ready[q][sp] = 0 =>
        (<<q, sp>> \in pending <=> Holders(q, sp) # {} \/ InDelivery(q, sp))
  BY <1>1, <1>3 DEF Orderly, NoLoss, Exclusive
<1> DEFINE some == Holders(q, sp) # {} \/ InDelivery(q, sp)
<1>6. Place(<<q, sp>>) =
        CASE sp > lastSp -> "unpublished"
          [] sp <= lastSp /\ ready[q][sp] > 0 -> "ready"
          [] sp <= lastSp /\ ready[q][sp] = 0 /\ some -> "held"
          [] OTHER -> "gone"
  BY DEF Place
<1> HIDE DEF some
<1>7. some <=> Holders(q, sp) # {} \/ InDelivery(q, sp)
  BY DEF some
<1>8. Place(<<q, sp>>) = PlaceOf(q, sp)
  <2>1. CASE sp > lastSp
    BY <1>1, <1>6, <2>1 DEF PlaceOf
  <2>2. CASE ~(sp > lastSp) /\ ready[q][sp] > 0
    BY <1>1, <1>6, <2>2 DEF PlaceOf
  <2>3. CASE ~(sp > lastSp) /\ ~(ready[q][sp] > 0)
    <3>1. ready[q][sp] = 0 /\ sp <= lastSp
      BY <1>1, <2>3
    <3>2. some <=> <<q, sp>> \in pending
      BY <1>5, <1>7, <3>1
    <3> QED
      BY <1>1, <1>6, <3>1, <3>2 DEF PlaceOf
  <2> QED
    BY <2>1, <2>2, <2>3
<1> QED
  BY <1>2, <1>4, <1>8

\* The same in the next state.
LEMMA PlacesAreToldNext == Orderly' => PlacesTold'
  BY PlacesAreTold, PTL

\* The places before and after a step, as the contract sees them.
Seen ==
  /\ PlacesTold /\ PlacesTold'
  /\ lastSp \in Nat
  /\ \A m \in Queues \X Sp :
       /\ places[m] = PlaceOf(m[1], m[2])
       /\ places'[m] = PlaceOf(m[1], m[2])'

\* So it is in every step, before and after it.
LEMMA SeenStep == Orderly /\ Orderly' => Seen
<1> SUFFICES ASSUME Orderly, Orderly' PROVE Seen
  OBVIOUS
<1>1. PlacesTold /\ PlacesTold'
  BY PlacesAreTold, PlacesAreToldNext
<1>2. lastSp \in Nat
  BY DeliveryAssumption DEF Orderly, PlaceInv, TypeInv, TypeOK
<1>3. ASSUME NEW m \in Queues \X Sp
      PROVE  /\ places[m] = PlaceOf(m[1], m[2])
             /\ places'[m] = PlaceOf(m[1], m[2])'
  <2>1. m = <<m[1], m[2]>> /\ m[1] \in Queues /\ m[2] \in Sp
    OBVIOUS
  <2>2. places[m] = Place(m) /\ places'[m] = Place(m)'
    BY DEF places
  <2>3. Place(m) = Place(<<m[1], m[2]>>) /\ Place(m)' = Place(<<m[1], m[2]>>)'
    BY <2>1
  <2> QED
    BY <1>1, <2>1, <2>2, <2>3 DEF PlacesTold
<1> QED
  BY <1>1, <1>2, <1>3 DEF Seen

-----------------------------------------------------------------------------
(* The kinds of steps. *)

\* A step that moves the messages M is a move of the contract.
LEMMA Moved ==
  ASSUME NEW M, NEW to,
         \A m \in Queues \X Sp : places'[m] = IF m \in M THEN to ELSE places[m]
  PROVE  Contract!Move(M, to)
<1>1. places' = [m \in Queues \X Sp |-> places'[m]]
  BY DEF places
<1>2. places' = [m \in Queues \X Sp |-> IF m \in M THEN to ELSE places[m]]
  BY <1>1
<1> QED
  BY <1>2 DEF Contract!Move, Contract!Sp, Sp

\* Nothing is published, disposed of or put back: every message stays.
LEMMA NothingMoved ==
  ASSUME Seen, UNCHANGED <<lastSp, ready, pending>>
  PROVE  UNCHANGED places
<1>1. \A m \in Queues \X Sp : places'[m] = places[m]
  BY DEF Seen, PlaceOf
<1> QED
  BY <1>1 DEF places

\* Messages come back to the ready deque, and none leaves it.
LEMMA Returned ==
  ASSUME Seen, UNCHANGED <<lastSp, pending>>,
         \A q \in Queues, sp \in Sp : ready[q][sp] > 0 => ready'[q][sp] > 0
  PROVE  Contract!Next
<1> DEFINE M == {m \in Queues \X Sp : places[m] = "held" /\ places'[m] = "ready"}
<1>1. ASSUME NEW m \in Queues \X Sp
      PROVE  places'[m] = IF m \in M THEN "ready" ELSE places[m]
  <2>1. /\ m[1] \in Queues /\ m[2] \in Sp /\ m = <<m[1], m[2]>>
        /\ places[m] = PlaceOf(m[1], m[2]) /\ places'[m] = PlaceOf(m[1], m[2])'
    BY DEF Seen
  <2> DEFINE q == m[1]
             sp == m[2]
  <2>2. /\ ready[q][sp] > 0 => ready'[q][sp] > 0
        /\ ready'[q][sp] > 0 => <<q, sp>> \in pending
        /\ <<q, sp>> \in pending => sp <= lastSp
    BY <2>1 DEF Seen, PlacesTold
  <2>3. sp \in Nat /\ lastSp \in Nat
    BY <2>1 DEF Seen, Sp
  <2>4. CASE ready'[q][sp] > 0 /\ ~(ready[q][sp] > 0)
    BY <2>1, <2>2, <2>3, <2>4 DEF PlaceOf
  <2>5. CASE ~(ready'[q][sp] > 0 /\ ~(ready[q][sp] > 0))
    BY <2>1, <2>2, <2>3, <2>5 DEF PlaceOf
  <2> QED
    BY <2>4, <2>5
<1>2. Contract!Move(M, "ready")
  BY <1>1, Moved
<1>3. M \in SUBSET Contract!At("held")
  BY DEF Contract!At, Contract!Sp, Sp
<1>4. Contract!Return(M)
  BY <1>2, <1>3 DEF Contract!Return
<1> QED
  BY <1>3, <1>4 DEF Contract!Next

\* Messages are disposed of; the ready deque stays as it is.
LEMMA Disposed ==
  ASSUME Seen, UNCHANGED <<lastSp, ready>>, pending' \subseteq pending
  PROVE  Contract!Next
<1> DEFINE M == {m \in Queues \X Sp : places[m] = "held" /\ m \notin pending'}
<1>1. ASSUME NEW m \in Queues \X Sp
      PROVE  places'[m] = IF m \in M THEN "gone" ELSE places[m]
  <2>1. /\ m[1] \in Queues /\ m[2] \in Sp /\ m = <<m[1], m[2]>>
        /\ places[m] = PlaceOf(m[1], m[2]) /\ places'[m] = PlaceOf(m[1], m[2])'
    BY DEF Seen
  <2> DEFINE q == m[1]
             sp == m[2]
  <2>2. /\ ready'[q][sp] > 0 => <<q, sp>> \in pending'
        /\ ready[q][sp] > 0 => <<q, sp>> \in pending
        /\ <<q, sp>> \in pending => sp <= lastSp
    BY <2>1 DEF Seen, PlacesTold
  <2>3. sp \in Nat /\ lastSp \in Nat
    BY <2>1 DEF Seen, Sp
  <2> QED
    BY <2>1, <2>2, <2>3 DEF PlaceOf
<1>2. Contract!Move(M, "gone")
  BY <1>1, Moved
<1>3. M \in SUBSET Contract!At("held")
  BY DEF Contract!At, Contract!Sp, Sp
<1>4. Contract!Dispose(M)
  BY <1>2, <1>3 DEF Contract!Dispose
<1> QED
  BY <1>3, <1>4 DEF Contract!Next

\* The head of a ready deque is taken, to be held or for good.
LEMMA Delivered ==
  ASSUME Orderly, Seen, NEW q \in Queues, NEW sp \in Sp, NEW c, NEW noAck, Take(q, sp, c, noAck),
         lastSp' = lastSp,
         pending' = pending \/ pending' = pending \ {<<q, sp>>}
  PROVE  Contract!Next
<1> DEFINE m == <<q, sp>>
<1>1. /\ ready[q][sp] > 0 /\ ready'[q][sp] = ready[q][sp] - 1
      /\ \A x \in Sp : ready[q][x] > 0 => sp <= x
      /\ \A y \in Queues, x \in Sp : y # q \/ x # sp => ready'[y][x] = ready[y][x]
  BY DEF Take, IsHead, Orderly, PlaceInv, TypeInv, TypeOK
<1>2. /\ ready[q][sp] = 1 /\ ready'[q][sp] = 0 /\ m \in pending /\ sp <= lastSp
      /\ sp \in Nat /\ lastSp \in Nat
  BY <1>1 DEF Seen, PlacesTold, Sp
<1>3. /\ m \in Queues \X Sp
      /\ places[m] = "ready"
      /\ places'[m] = IF m \in pending' THEN "held" ELSE "gone"
  BY <1>2 DEF Seen, PlaceOf
<1>4. ASSUME NEW n \in Queues \X Sp, n # m PROVE places'[n] = places[n]
  <2>1. /\ n[1] \in Queues /\ n[2] \in Sp /\ n = <<n[1], n[2]>>
        /\ places[n] = PlaceOf(n[1], n[2]) /\ places'[n] = PlaceOf(n[1], n[2])'
    BY DEF Seen
  <2>2. ready'[n[1]][n[2]] = ready[n[1]][n[2]]
    BY <1>1, <1>4, <2>1
  <2>3. <<n[1], n[2]>> \in pending' <=> <<n[1], n[2]>> \in pending
    BY <1>4, <2>1
  <2> QED
    BY <2>1, <2>2, <2>3 DEF PlaceOf
<1>5. ASSUME NEW n \in Queues \X Sp, places[n] = "ready", n[1] = q PROVE sp <= n[2]
  <2>1. n[2] \in Sp /\ places[n] = PlaceOf(q, n[2])
    BY <1>5 DEF Seen
  <2>2. ready[q][n[2]] > 0
    BY <1>5, <2>1 DEF PlaceOf
  <2> QED
    BY <1>1, <2>1, <2>2
<1> HIDE DEF m
<1>6. Contract!IsFirstReady(m)
  <2>1. m[1] = q /\ m[2] = sp
    BY DEF m
  <2>2. m \in Contract!At("ready")
    BY <1>3 DEF Contract!At, Contract!Sp, Sp
  <2>3. \A n \in Contract!At("ready") : n[1] = m[1] => m[2] <= n[2]
    BY <1>5, <2>1 DEF Contract!At, Contract!Sp, Sp
  <2> QED
    BY <2>2, <2>3 DEF Contract!IsFirstReady
<1>7. m \in Queues \X Contract!Sp
  BY <1>3 DEF Contract!Sp, Sp
<1>8. CASE m \in pending'
  <2>1. Contract!Move({m}, "held")
    BY <1>3, <1>4, <1>8, Moved
  <2> QED
    BY <1>6, <1>7, <2>1 DEF Contract!Next, Contract!Deliver
<1>9. CASE m \notin pending'
  <2>1. Contract!Move({m}, "gone")
    BY <1>3, <1>4, <1>9, Moved
  <2> QED
    BY <1>6, <1>7, <2>1 DEF Contract!Next, Contract!DeliverForGood
<1> QED
  BY <1>8, <1>9

\* The next message is published.
LEMMA PublishedNext ==
  ASSUME Orderly, Seen, NEW qs \in SUBSET Queues, Publish(qs)
  PROVE  Contract!Next
<1> DEFINE next == lastSp + 1
           n == [q \in Queues |-> [sp \in Sp |-> IF q \in qs /\ sp = lastSp + 1 THEN 1 ELSE 0]]
<1>1. /\ lastSp < MaxSp /\ lastSp' = next /\ lastSp \in Nat /\ next \in Sp
      /\ pending' = pending \union {<<q, next>> : q \in qs}
  BY DeliveryAssumption DEF Publish, Seen, Sp
<1>2. \A q \in Queues, sp \in Sp : ready'[q][sp] = ready[q][sp] + n[q][sp]
  <2>1. n \in [Queues -> [Sp -> Nat]] /\ Insert(n) /\ ready \in [Queues -> [Sp -> Nat]]
    BY DEF Publish, Orderly, PlaceInv, TypeInv, TypeOK
  <2> HIDE DEF n
  <2> QED
    BY <2>1, InsertType
<1>3. \A q \in Queues, x \in Sp : <<q, x>> \in Contract!At("unpublished") <=> x >= next
  <2>1. SUFFICES ASSUME NEW q \in Queues, NEW x \in Sp
                 PROVE  places[<<q, x>>] = "unpublished" <=> x >= next
    BY DEF Contract!At, Contract!Sp, Sp
  <2>2. places[<<q, x>>] = PlaceOf(q, x)
    BY DEF Seen
  <2>3. x \in Nat
    BY DEF Sp
  <2> QED
    BY <1>1, <2>2, <2>3 DEF PlaceOf
<1>4. ASSUME NEW m \in Queues \X Sp
      PROVE  places'[m] =
               IF m[2] # next THEN places[m] ELSE IF m[1] \in qs THEN "ready" ELSE "gone"
  <2> DEFINE q == m[1]
             sp == m[2]
  <2>1. /\ q \in Queues /\ sp \in Sp /\ m = <<q, sp>> /\ sp \in Nat
        /\ places[m] = PlaceOf(q, sp) /\ places'[m] = PlaceOf(q, sp)'
    BY DEF Seen, Sp
  <2>2. /\ ready[q][sp] \in {0, 1} /\ (ready[q][sp] > 0 => <<q, sp>> \in pending)
        /\ <<q, sp>> \in pending => sp <= lastSp
        /\ ready'[q][sp] = ready[q][sp] + n[q][sp]
    BY <1>2, <2>1 DEF Seen, PlacesTold
  <2>3. n[q][sp] = IF q \in qs /\ sp = next THEN 1 ELSE 0
    BY <2>1
  <2> HIDE DEF n
  <2>4. CASE sp = next
    <3>1. ready[q][sp] = 0 /\ <<q, sp>> \notin pending
      BY <1>1, <2>1, <2>2, <2>4
    <3>2. CASE q \in qs
      BY <1>1, <2>1, <2>2, <2>3, <2>4, <3>1, <3>2 DEF PlaceOf
    <3>3. CASE q \notin qs
      <4>1. <<q, sp>> \notin pending'
        BY <1>1, <3>1, <3>3
      <4> QED
        BY <1>1, <2>1, <2>2, <2>3, <2>4, <3>1, <3>3, <4>1 DEF PlaceOf
    <3> QED
      BY <3>2, <3>3
  <2>5. CASE sp # next
    <3>1. ready'[q][sp] = ready[q][sp]
      BY <2>2, <2>3, <2>5
    <3>2. <<q, sp>> \in pending' <=> <<q, sp>> \in pending
      BY <1>1, <2>5
    <3>3. sp > lastSp' <=> sp > lastSp
      BY <1>1, <2>1, <2>5
    <3> QED
      BY <2>1, <2>5, <3>1, <3>2, <3>3 DEF PlaceOf
  <2> QED
    BY <2>4, <2>5
<1>5. places' = [m \in Queues \X Sp |->
                   IF m[2] # next THEN places[m] ELSE IF m[1] \in qs THEN "ready" ELSE "gone"]
  <2>1. places' = [m \in Queues \X Sp |-> places'[m]]
    BY DEF places
  <2> QED
    BY <1>4, <2>1
<1>6. Contract!Publish(next, qs)
  BY <1>3, <1>5 DEF Contract!Publish, Contract!Sp, Sp
<1> QED
  BY <1>1, <1>6 DEF Contract!Next, Contract!Sp, Sp

\* A queue is purged.
LEMMA Purged ==
  ASSUME Orderly, Seen, NEW q \in Queues, Purge(q)
  PROVE  Contract!Next
<1> DEFINE M == {m \in Contract!At("ready") : m[1] = q}
<1>1. /\ \A x \in Sp : ready'[q][x] = 0
      /\ \A y \in Queues : y # q => ready'[y] = ready[y]
      /\ pending' = pending \ {<<q, sp>> : sp \in {x \in Sp : ready[q][x] > 0}}
      /\ lastSp' = lastSp
  BY DEF Purge, Orderly, PlaceInv, TypeInv, TypeOK
<1>2. ASSUME NEW m \in Queues \X Sp
      PROVE  places'[m] = IF m \in M THEN "gone" ELSE places[m]
  <2> DEFINE y == m[1]
             sp == m[2]
  <2>1. /\ y \in Queues /\ sp \in Sp /\ m = <<y, sp>> /\ sp \in Nat /\ lastSp \in Nat
        /\ places[m] = PlaceOf(y, sp) /\ places'[m] = PlaceOf(y, sp)'
    BY DEF Seen, Sp
  <2>2. m \in M <=> y = q /\ places[m] = "ready"
    BY <2>1 DEF Contract!At, Contract!Sp, Sp
  <2>3. /\ ready[y][sp] > 0 => <<y, sp>> \in pending
        /\ <<y, sp>> \in pending => sp <= lastSp
    BY <2>1 DEF Seen, PlacesTold
  <2>4. <<y, sp>> \in pending' <=> <<y, sp>> \in pending /\ ~(y = q /\ ready[y][sp] > 0)
    BY <1>1, <2>1
  <2>5. CASE y = q /\ ready[y][sp] > 0
    BY <1>1, <2>1, <2>2, <2>3, <2>4, <2>5 DEF PlaceOf
  <2>6. CASE ~(y = q /\ ready[y][sp] > 0)
    <3>1. ready'[y][sp] > 0 <=> ready[y][sp] > 0
      BY <1>1, <2>1, <2>6
    <3>2. m \notin M
      BY <2>1, <2>2, <2>6 DEF PlaceOf
    <3> QED
      BY <1>1, <2>1, <2>4, <2>6, <3>1, <3>2 DEF PlaceOf
  <2> QED
    BY <2>5, <2>6
<1>3. Contract!Move(M, "gone")
  BY <1>2, Moved
<1> QED
  BY <1>3 DEF Contract!Next, Contract!Purge

\* Putting copies of entries into the ready deques takes nothing out of them.
LEMMA InsertKeeps ==
  ASSUME TypeInv, NEW E, IsFiniteSet(E), Insert(Copies(E))
  PROVE  \A q \in Queues, sp \in Sp : ready[q][sp] > 0 => ready'[q][sp] > 0
<1> DEFINE n == Copies(E)
<1>1. n \in [Queues -> [Sp -> Nat]] /\ Insert(n) /\ ready \in [Queues -> [Sp -> Nat]]
  BY CopiesType DEF TypeInv, TypeOK
<1> HIDE DEF n
<1>2. \A q \in Queues, sp \in Sp : ready'[q][sp] = ready[q][sp] + n[q][sp]
  BY <1>1, InsertType
<1>3. \A q \in Queues, sp \in Sp : n[q][sp] \in Nat /\ ready[q][sp] \in Nat
  BY <1>1
<1> QED
  BY <1>2, <1>3

-----------------------------------------------------------------------------
(* Every step. *)

\* A step of the queues is a step of the contract, unless the write that failed
\* comes after its delivery was taken back.
LEMMA ContractStep ==
  ASSUME Orderly, Orderly', Next
  PROVE  Contract!Next \/ UNCHANGED places
<1> USE DEF queueVars, loopVars, channelVars, consumerVars
<1>1. Seen /\ TypeInv
  BY SeenStep DEF Orderly, PlaceInv
<1>2. ASSUME NEW qs \in (SUBSET Queues) \ {{}}, Publish(qs) PROVE Contract!Next
  BY <1>1, <1>2, PublishedNext
<1>3. ASSUME NEW q \in Queues, NEW c \in Consumers, StartDelivery(q, c) PROVE Contract!Next
  <2>1. PICK sp \in Sp : Take(q, sp, c, c \in NoAck)
    BY <1>3 DEF StartDelivery
  <2>2. lastSp' = lastSp /\ pending' = pending
    BY <1>3 DEF StartDelivery
  <2> QED
    BY <1>1, <2>1, <2>2, Delivered
<1>4. ASSUME NEW q \in Queues,
             AwaitMessage(q) \/ ReceiveMessageToken(q) \/ AwaitConsumer(q) \/ ReceiveConsumerToken(q)
               \/ \E c \in Consumers : FoundNoMessage(q, c)
      PROVE  UNCHANGED places
  BY <1>1, <1>4, NothingMoved DEF AwaitMessage, ReceiveMessageToken, AwaitConsumer,
     ReceiveConsumerToken, FoundNoMessage
<1>5. ASSUME NEW q \in Queues, DeliveryDone(q) PROVE Contract!Next
  <2>1. UNCHANGED <<lastSp, ready>> /\ pending' \subseteq pending
    BY <1>5 DEF DeliveryDone
  <2> QED
    BY <1>1, <2>1, Disposed
<1>6. ASSUME NEW q \in Queues, DeliveryFailed(q) PROVE Contract!Next
  <2>1. /\ UNCHANGED <<lastSp, pending>>
        /\ ready' = [ready EXCEPT ![q][inflight[q].sp] = @ + 1]
    BY <1>6 DEF DeliveryFailed
  <2>2. \A y \in Queues, sp \in Sp : ready[y][sp] > 0 => ready'[y][sp] > 0
    BY <1>1, <2>1 DEF TypeInv, TypeOK
  <2> QED
    BY <1>1, <2>1, <2>2, Returned
<1>7. ASSUME NEW q \in Queues, Purge(q) PROVE Contract!Next
  BY <1>1, <1>7, Purged
<1>8. ASSUME NEW c \in Consumers, Consume(c) \/ CancelConsumer(c) PROVE UNCHANGED places
  BY <1>1, <1>8, NothingMoved DEF Consume, CancelConsumer
<1>9. ASSUME NEW ch \in Channels, NEW tag, NEW multiple, BasicAck(ch, tag, multiple)
      PROVE  Contract!Next
  <2>1. UNCHANGED <<lastSp, ready>> /\ pending' \subseteq pending
    BY <1>9 DEF BasicAck
  <2> QED
    BY <1>1, <2>1, Disposed
<1>10. ASSUME NEW ch \in Channels, NEW tag, NEW multiple, NEW requeue,
              BasicReject(ch, tag, multiple, requeue)
       PROVE  Contract!Next
  <2> DEFINE S == Settled(ch, tag, multiple)
  <2>1. /\ lastSp' = lastSp
        /\ \/ Insert(Copies(S)) /\ pending' = pending
           \/ ready' = ready /\ pending' = pending \ Messages(S)
    BY <1>10 DEF BasicReject
  <2>2. IsFiniteSet(S)
    BY <1>1, SettledPart, FS_Subset DEF TypeInv, TypeOK
  <2> HIDE DEF S
  <2>3. CASE Insert(Copies(S)) /\ pending' = pending
    BY <1>1, <2>1, <2>2, <2>3, InsertKeeps, Returned
  <2>4. CASE ready' = ready /\ pending' = pending \ Messages(S)
    BY <1>1, <2>1, <2>4, Disposed
  <2> QED
    BY <2>1, <2>3, <2>4
<1>11. ASSUME NEW ch \in Channels, NEW s, CloseChannel(ch, s) PROVE Contract!Next
  <2> DEFINE R == {e \in unacked : e.c \in ChannelConsumers(ch)} \union LeftOver(ch)
  <2>1. UNCHANGED <<lastSp, pending>> /\ Insert(Copies(R))
    BY <1>11 DEF CloseChannel
  <2>2. IsFiniteSet(R)
    <3>1. IsFiniteSet({e \in unacked : e.c \in ChannelConsumers(ch)}) /\ IsFiniteSet(LeftOver(ch))
      BY <1>1, FS_Subset DEF LeftOver, TypeInv, TypeOK
    <3> QED
      BY <3>1, FS_Union
  <2> HIDE DEF R
  <2> QED
    BY <1>1, <2>1, <2>2, InsertKeeps, Returned
<1>12. ASSUME NEW ch \in Channels, NEW tag, NEW multiple, UnknownTag(ch, tag, multiple)
       PROVE  Contract!Next
  BY <1>11, <1>12 DEF UnknownTag
<1>13. ASSUME NEW ch \in Channels, NEW q \in Queues, NEW noAck, BasicGet(ch, q, noAck)
       PROVE  Contract!Next
  <2>1. PICK sp \in Sp : /\ Take(q, sp, NoConsumer, noAck)
                         /\ pending' = IF noAck THEN pending \ {<<q, sp>>} ELSE pending
    BY <1>13 DEF BasicGet
  <2>2. lastSp' = lastSp
    BY <1>13 DEF BasicGet
  <2> QED
    BY <1>1, <2>1, <2>2, Delivered
<1>14. ASSUME NEW ch \in Channels, NEW requeue, BasicRecover(ch, requeue) PROVE Contract!Next
  <2> DEFINE S == {u \in chUnacked[ch] : u.c = NoConsumer} \union HeldByConsumers(ch)
  <2>1. UNCHANGED <<lastSp, pending>> /\ Insert(Copies(S))
    BY <1>14 DEF BasicRecover
  <2>2. IsFiniteSet(S)
    BY <1>1, FS_Subset DEF HeldByConsumers, TypeInv, TypeOK
  <2> HIDE DEF S
  <2> QED
    BY <1>1, <2>1, <2>2, InsertKeeps, Returned
<1>15. ASSUME NEW ch \in Channels,
              (\E v : BasicQos(ch, v)) \/ ReplyWritten(ch) \/ (\E active : ClientFlow(ch, active))
                \/ RecoverRaises(ch) \/ WriteError(ch)
       PROVE  UNCHANGED places
  BY <1>1, <1>15, NothingMoved DEF BasicQos, ReplyWritten, ClientFlow, RecoverRaises, WriteError
<1>16. ASSUME NEW ch \in Channels, ChannelClose(ch) \/ Disconnect(ch) \/ Cleanup(ch)
       PROVE  Contract!Next
  BY <1>11, <1>16 DEF ChannelClose, Disconnect, Cleanup
<1> QED
  BY <1>2, <1>3, <1>4, <1>5, <1>6, <1>7, <1>8, <1>9, <1>10, <1>12, <1>13, <1>14, <1>15, <1>16
     DEF Next, DeliverLoop, Settle, Client

-----------------------------------------------------------------------------
(* The theorem. *)

\* The queues start as the contract says, and whatever the deliver loops, the
\* clients and the network do, messages only move as it allows: published in turn,
\* handed out in order, returned, disposed of, purged, and never back from gone,
\* until a write fails after its delivery was taken back.
THEOREM ContractKept == Spec => KeepsContract
<1>1. Init => Contract!Init
  <2>1. SUFFICES ASSUME Init PROVE places = [m \in Queues \X Sp |-> "unpublished"]
    BY DEF Contract!Init, Contract!Sp, Sp
  <2>2. ASSUME NEW m \in Queues \X Sp PROVE Place(m) = "unpublished"
    <3>1. Orderly
      BY <2>1, PlaceInit DEF Orderly, PlaceInv, Init, NoLoss
    <3>2. m[1] \in Queues /\ m[2] \in Sp /\ m = <<m[1], m[2]>>
      OBVIOUS
    <3>3. Place(m) = PlaceOf(m[1], m[2])
      BY <3>1, <3>2, PlacesAreTold DEF PlacesTold
    <3> QED
      BY <2>1, <3>2, <3>3 DEF PlaceOf, Init, Sp
  <2> QED
    BY <2>2 DEF places
<1>2. Init => PlaceInv /\ NoLoss
  BY PlaceInit DEF Init, NoLoss
<1>3. PlaceInv /\ NoLoss /\ [Next]_vars => (PlaceInv /\ NoLoss)'
  BY PlaceStep, NoLossStep DEF PlaceInv
<1>4. PlaceInv /\ NoLoss /\ PlaceInv' /\ NoLoss' /\ [Next]_vars
        => [Contract!Next \/ raced']_places
  <2> SUFFICES ASSUME PlaceInv, NoLoss, PlaceInv', NoLoss', [Next]_vars, ~raced'
               PROVE  Contract!Next \/ UNCHANGED places
    OBVIOUS
  <2>1. CASE UNCHANGED vars
    <3>1. UNCHANGED <<ready, lastSp, unacked, pc, inflight>>
      BY <2>1 DEF vars, queueVars, loopVars
    <3> QED
      BY <3>1 DEF places, Place, Holders, InDelivery
  <2>2. CASE Next
    <3>1. ~raced
      BY RacedStays
    <3>2. Orderly /\ Orderly'
      BY <3>1 DEF Orderly, PlaceInv
    <3> QED
      BY <2>2, <3>2, ContractStep
  <2> QED
    BY <2>1, <2>2
<1> QED
  BY <1>1, <1>2, <1>3, <1>4, PTL DEF Spec, KeepsContract

-----------------------------------------------------------------------------
(* Acknowledgements. *)

\* The search for a tag that the channel has an entry for stops at that entry;
\* one for a tag that was never handed out stops nowhere.
LEMMA SearchFinds ==
  ASSUME TypeInv, NEW ch \in Channels, NEW tag,
         (\E w \in chUnacked[ch] : w.tag = tag) \/ tag = deliveryTag[ch] + 1,
         NEW v, v \in FirstNotBelow(ch, tag)
  PROVE  v.tag = tag
<1>1. /\ \A u \in chUnacked[ch] : u.tag \in Nat /\ u.tag <= deliveryTag[ch]
      /\ deliveryTag[ch] \in Nat
  BY DEF TypeInv, TypeOK, ChannelUnack, TagsBelow
<1>2. v \in chUnacked[ch] /\ v.tag >= tag /\ \A w \in chUnacked[ch] : w.tag >= tag => v.tag <= w.tag
  BY DEF FirstNotBelow
<1>3. tag \in Nat
  BY <1>1
<1>4. \A a, b \in Nat : a >= b /\ (b >= b => a <= b) => a = b
  OBVIOUS
<1>5. CASE \E w \in chUnacked[ch] : w.tag = tag
  BY <1>1, <1>2, <1>3, <1>4, <1>5, Zenon
<1>6. CASE tag = deliveryTag[ch] + 1
  BY <1>1, <1>2, <1>6
<1> QED
  BY <1>5, <1>6

\* A case split on numbers.
LEMMA AtMost == \A a, b \in Nat : a <= b => a = b \/ a < b
  OBVIOUS

\* A client that settles only deliveries it holds, whatever else it does, settles
\* with an acknowledgement exactly the one with that tag, or with multiple exactly
\* those up to it.  For a tag that was settled before the search stops at the next
\* entry instead.
THEOREM AckExact ==
  ASSUME "stale tag" \notin Workload
  PROVE  Spec => AckSettlesItsTag
<1> DEFINE Exact ==
      \A ch \in Channels :
        LET settled == chUnacked[ch] \ chUnacked'[ch]
        IN  settled # {} =>
              \A tag \in 0..(MaxTag + 1), multiple \in BOOLEAN :
                BasicAck(ch, tag, multiple) => settled = Named(ch, tag, multiple)
<1>1. TypeInv => Exact
  <2> SUFFICES ASSUME TypeInv, NEW ch \in Channels, NEW tag \in 0..(MaxTag + 1),
                      NEW multiple \in BOOLEAN, BasicAck(ch, tag, multiple)
               PROVE  chUnacked[ch] \ chUnacked'[ch] = Named(ch, tag, multiple)
    OBVIOUS
  <2> DEFINE S == Settled(ch, tag, multiple)
  <2>1. chUnacked' = [chUnacked EXCEPT ![ch] = @ \ S]
    BY DEF BasicAck, RemoveFromChannel
  <2>2. S \subseteq chUnacked[ch] /\ S # {}
    BY SettledPart DEF BasicAck
  <2>3. chUnacked[ch] \ chUnacked'[ch] = S
    BY <2>1, <2>2 DEF TypeInv, TypeOK
  <2>4. \/ multiple /\ tag = 0
        \/ \E w \in chUnacked[ch] : w.tag = tag
        \/ tag = deliveryTag[ch] + 1
    BY DEF BasicAck, MaySettle, TagsSent
  <2>5. \A u \in chUnacked[ch] : u.tag \in Nat
    BY DEF TypeInv, TypeOK, ChannelUnack
  <2>6. CASE multiple /\ tag = 0
    BY <2>3, <2>6 DEF Settled, Named
  <2>7. CASE ~(multiple /\ tag = 0)
    <3>1. \A v \in FirstNotBelow(ch, tag) : v.tag = tag
      BY <2>4, <2>7, SearchFinds
    <3>2. PICK w \in FirstNotBelow(ch, tag) : TRUE
      BY <2>2, <2>7 DEF Settled
    <3>3. w \in chUnacked[ch] /\ w.tag = tag /\ tag \in Nat
      BY <2>5, <3>1, <3>2 DEF FirstNotBelow
    <3>4. CASE multiple
      <4>1. S = {u \in chUnacked[ch] : \E v \in FirstNotBelow(ch, tag) : u.tag <= v.tag}
        BY <2>7, <3>4 DEF Settled
      <4>2. S = {u \in chUnacked[ch] : u.tag <= tag}
        BY <3>1, <3>2, <3>3, <4>1
      <4> QED
        BY <2>3, <2>7, <3>4, <4>2 DEF Named
    <3>5. CASE ~multiple
      <4>1. S = FirstNotBelow(ch, tag)
        BY <3>5 DEF Settled
      <4>2. \A u \in chUnacked[ch] : u.tag = tag => u \in S
        BY <2>5, <3>3, <4>1 DEF FirstNotBelow
      <4> QED
        BY <2>2, <2>3, <3>1, <3>5, <4>1, <4>2 DEF Named
    <3> QED
      BY <3>4, <3>5
  <2> QED
    BY <2>6, <2>7
<1>2. TypeInv /\ [Next]_vars => [Exact]_vars
  BY <1>1
<1>3. AckSettlesItsTag <=> [][Exact]_vars
  BY DEF AckSettlesItsTag
<1> HIDE DEF Exact
<1> QED
  BY TypeInit, TypeStep, <1>2, <1>3, PTL DEF Spec

-----------------------------------------------------------------------------
(* Messages that are held. *)

\* The channel that is known to hold a message for the queue.
KnownAt(ch, e) ==
  /\ chState[ch] \in {"open", "lost"}
  /\ \E u \in chUnacked[ch] : SamePlace(u, e) /\ u.c = e.c

\* Basic.Recover drops the entries of cancelled consumers from the channel only.
Forgotten(e) ==
  /\ "cancel" \in Workload /\ Workload \intersect {"recover", "redeliver"} # {}
  /\ e.c \in Consumers
  /\ cState[e.c] \in {"cancelled", "closed"}

Known == \A e \in unacked : Forgotten(e) \/ \E ch \in Channels : KnownAt(ch, e)

\* Without cancels no consumer is cancelled.
Cancelled == (\E c \in Consumers : cState[c] = "cancelled") => "cancel" \in Workload

HeldInv == PlaceInv /\ Cancelled /\ (~raced => Known)

\* No message becomes unknown: each was held before or is known to a channel now,
\* and an entry that leaves its channel leaves no message behind.
LEMMA KnownStays ==
  ASSUME Known,
         \A c \in Consumers : cState[c] \in {"cancelled", "closed"}
                                 => cState'[c] \in {"cancelled", "closed"},
         \A e \in unacked' : e \in unacked \/ \E ch \in Channels : KnownAt(ch, e)',
         \A ch \in Channels : \A u \in chUnacked[ch] : chState[ch] \in {"open", "lost"} =>
           \/ chState'[ch] \in {"open", "lost"} /\ u \in chUnacked'[ch]
           \/ \A e \in unacked' : SamePlace(u, e) /\ u.c = e.c => Forgotten(e)'
  PROVE  Known'
<1> SUFFICES ASSUME NEW e \in unacked' PROVE Forgotten(e)' \/ \E ch \in Channels : KnownAt(ch, e)'
  BY DEF Known
<1>1. CASE \E ch \in Channels : KnownAt(ch, e)'
  BY <1>1
<1>2. CASE e \in unacked
  <2>1. CASE Forgotten(e)
    BY <2>1 DEF Forgotten
  <2>2. CASE \E ch \in Channels : KnownAt(ch, e)
    BY <2>2 DEF KnownAt
  <2> QED
    BY <1>2, <2>1, <2>2 DEF Known
<1> QED
  BY <1>1, <1>2

\* Only the states of sockets change.
LEMMA KnownOnSocket ==
  ASSUME Known, unacked' \subseteq unacked, UNCHANGED <<chUnacked, cState>>,
         \A ch \in Channels : chState[ch] \in {"open", "lost"} => chState'[ch] \in {"open", "lost"}
  PROVE  Known'
  BY KnownStays

\* A message is taken from the ready deque and, unless it is not acknowledged,
\* gets an entry on a channel that is up.
LEMMA KnownTaken ==
  ASSUME TypeInv, Known, NEW q \in Queues, NEW sp \in Sp, NEW c, NEW noAck, NEW ch \in Channels,
         Take(q, sp, c, noAck), NextDeliveryTag(ch, q, sp, c, noAck),
         chState[ch] \in {"open", "lost"}, UNCHANGED <<chState, cState>>
  PROVE  Known'
<1> DEFINE u == [tag |-> deliveryTag[ch] + 1, q |-> q, sp |-> sp, c |-> c]
<1>1. \A k \in Channels : chUnacked[k] \subseteq chUnacked'[k]
  BY DEF NextDeliveryTag, TypeInv, TypeOK
<1>2. ASSUME NEW e \in unacked', e \notin unacked PROVE KnownAt(ch, e)'
  <2>1. e = [q |-> q, sp |-> sp, c |-> c] /\ ~noAck
    BY <1>2 DEF Take
  <2>2. u \in chUnacked'[ch]
    BY <2>1 DEF NextDeliveryTag, TypeInv, TypeOK
  <2> QED
    BY <2>1, <2>2 DEF KnownAt, SamePlace
<1> QED
  BY <1>1, <1>2, KnownStays

\* Entries of an open channel are settled or requeued.
LEMMA KnownSettled ==
  ASSUME PlaceInv, Once, Known, NEW ch \in Channels, chState[ch] = "open",
         NEW T \in SUBSET chUnacked[ch], NEW S \in SUBSET T, RemoveFromChannel(ch, T),
         unacked' \in Deleted(unacked, S), UNCHANGED <<pc, inflight, chState, cState>>,
         \A u \in T \ S : \A e : u.c = e.c => Forgotten(e)'
  PROVE  Known'
<1>1. TakenBack(S)
  BY SettledBack
<1>2. /\ chUnacked'[ch] = chUnacked[ch] \ T
      /\ \A k \in Channels : k # ch => chUnacked'[k] = chUnacked[k]
  BY DEF RemoveFromChannel, PlaceInv, TypeInv, TypeOK
<1>3. unacked' \subseteq unacked /\ \A e \in unacked', r \in S : ~SamePlace(e, r)
  BY <1>1 DEF TakenBack
<1>4. \A u, e : SamePlace(u, e) <=> SamePlace(e, u)
  BY DEF SamePlace
<1> QED
  BY <1>2, <1>3, <1>4, KnownStays

\* A channel is closed: its queues take back all it had.
LEMMA KnownClosed ==
  ASSUME PlaceInv, Once, Known, NEW ch \in Channels, NEW s \in {"closed", "gone"},
         CloseChannel(ch, s)
  PROVE  Known'
<1> DEFINE R == ClosedEntries(ch)
<1>1. TakenBack(R)
  BY ClosedBack
<1>2. /\ chUnacked' = [chUnacked EXCEPT ![ch] = @ \ chUnacked[ch]]
      /\ chState' = [chState EXCEPT ![ch] = s]
      /\ cState' = [c \in Consumers |-> IF ChannelOf[c] = ch THEN "closed" ELSE cState[c]]
  BY DEF CloseChannel, RemoveFromChannel
<1>3. /\ \A k \in Channels : k # ch => chUnacked'[k] = chUnacked[k] /\ chState'[k] = chState[k]
      /\ \A c \in Consumers : cState[c] \in {"cancelled", "closed"}
                                 => cState'[c] \in {"cancelled", "closed"}
  BY <1>2 DEF PlaceInv, TypeInv, TypeOK
<1>4. ASSUME NEW u \in chUnacked[ch], NEW e \in unacked', SamePlace(u, e), u.c = e.c PROVE FALSE
  <2>1. e \in unacked /\ ~ \E r \in R : SamePlace(e, r)
    BY <1>1, <1>4 DEF TakenBack
  <2>2. CASE u.c \in ChannelConsumers(ch)
    <3>1. e \in R /\ SamePlace(e, e)
      BY <1>4, <2>1, <2>2 DEF ClosedEntries, SamePlace
    <3> QED
      BY <2>1, <3>1
  <2>3. CASE u.c \notin ChannelConsumers(ch)
    <3>1. u \in R /\ SamePlace(e, u)
      BY <1>4, <2>3 DEF ClosedEntries, LeftOver, HeldByConsumers, SamePlace
    <3> QED
      BY <2>1, <3>1
  <2> QED
    BY <2>2, <2>3
<1>5. unacked' \subseteq unacked
  BY <1>1 DEF TakenBack
<1> QED
  BY <1>3, <1>4, <1>5, KnownStays

\* As long as no write failed after its delivery was taken back, no step leaves a
\* message unknown.
LEMMA KnownStep ==
  ASSUME PlaceInv, Once, Cancelled, Known, ~raced', [Next]_vars
  PROVE  Known'
<1> USE DEF queueVars, loopVars, channelVars, consumerVars
<1>1. TypeInv
  BY DEF PlaceInv
<1>2. CASE UNCHANGED <<unacked, chUnacked, chState, cState>>
  BY <1>2, KnownOnSocket
<1>3. ASSUME NEW qs, Publish(qs) PROVE Known'
  BY <1>2, <1>3 DEF Publish
<1>4. ASSUME NEW q \in Queues,
             AwaitMessage(q) \/ ReceiveMessageToken(q) \/ AwaitConsumer(q) \/ ReceiveConsumerToken(q)
               \/ (\E c \in Consumers : FoundNoMessage(q, c)) \/ DeliveryDone(q) \/ Purge(q)
      PROVE  Known'
  BY <1>2, <1>4 DEF AwaitMessage, ReceiveMessageToken, AwaitConsumer, ReceiveConsumerToken,
     FoundNoMessage, DeliveryDone, Purge
<1>5. ASSUME NEW q \in Queues, NEW c \in Consumers, StartDelivery(q, c) PROVE Known'
  <2>1. PICK sp \in Sp : /\ Take(q, sp, c, c \in NoAck)
                         /\ NextDeliveryTag(ChannelOf[c], q, sp, c, c \in NoAck)
    BY <1>5 DEF StartDelivery
  <2>2. ChannelOf[c] \in Channels /\ chState[ChannelOf[c]] \in {"open", "lost"}
    BY <1>5, DeliveryAssumption DEF StartDelivery, QueueConsumers, PlaceInv, ActiveUp
  <2>3. UNCHANGED <<chState, cState>>
    BY <1>5 DEF StartDelivery
  <2> QED
    BY <1>1, <2>1, <2>2, <2>3, KnownTaken
<1>6. ASSUME NEW q \in Queues, NEW ch \in Channels, NEW noAck, BasicGet(ch, q, noAck) PROVE Known'
  <2>1. PICK sp \in Sp : /\ Take(q, sp, NoConsumer, noAck)
                         /\ NextDeliveryTag(ch, q, sp, NoConsumer, noAck)
    BY <1>6 DEF BasicGet
  <2>2. UNCHANGED <<chState, cState>> /\ chState[ch] = "open"
    BY <1>6 DEF BasicGet
  <2> QED
    BY <1>1, <2>1, <2>2, KnownTaken
<1>7. ASSUME NEW ch \in Channels, chState' = [chState EXCEPT ![ch] = SocketLost(@)],
             unacked' \subseteq unacked, UNCHANGED <<chUnacked, cState>>
      PROVE  Known'
  <2>1. \A k \in Channels : chState'[k] = chState[k] \/ chState'[k] = SocketLost(chState[k])
    BY <1>1, <1>7 DEF TypeInv, TypeOK
  <2>2. \A k \in Channels : chState[k] \in {"open", "lost"} => SocketLost(chState[k]) = "lost"
    BY DEF SocketLost
  <2> QED
    BY <1>7, <2>1, <2>2, KnownOnSocket
<1>8. ASSUME NEW q \in Queues, DeliveryFailed(q) PROVE Known'
  <2>1. ChannelOf[inflight[q].c] \in Channels
    BY <1>1, <1>8, DeliveryAssumption DEF DeliveryFailed, TypeInv, TypeOK
  <2>2. unacked' \subseteq unacked
    BY <1>8, DeletedKeeps DEF DeliveryFailed
  <2> QED
    BY <1>7, <1>8, <2>1, <2>2 DEF DeliveryFailed
<1>9. ASSUME NEW c \in Consumers, Consume(c) \/ CancelConsumer(c) PROVE Known'
  <2>1. UNCHANGED <<unacked, chUnacked, chState>>
    BY <1>9 DEF Consume, CancelConsumer
  <2>2. \A x \in Consumers : cState[x] \in {"cancelled", "closed"}
                              => cState'[x] \in {"cancelled", "closed"}
    BY <1>1, <1>9 DEF Consume, CancelConsumer, TypeInv, TypeOK
  <2> QED
    BY <2>1, <2>2, KnownStays
<1>10. ASSUME NEW ch \in Channels, NEW tag, NEW multiple,
              BasicAck(ch, tag, multiple) \/ \E requeue : BasicReject(ch, tag, multiple, requeue)
       PROVE  Known'
  <2> DEFINE S == Settled(ch, tag, multiple)
  <2>1. /\ chState[ch] = "open" /\ RemoveFromChannel(ch, S) /\ unacked' \in Deleted(unacked, S)
        /\ S \subseteq chUnacked[ch]
        /\ UNCHANGED <<pc, inflight, chState, cState>>
    BY <1>10, SettledPart DEF BasicAck, BasicReject, MaySettle
  <2> HIDE DEF S
  <2> QED
    BY <2>1, KnownSettled
<1>11. ASSUME NEW ch \in Channels, NEW requeue \in BOOLEAN, BasicRecover(ch, requeue) PROVE Known'
  <2> DEFINE S == {u \in chUnacked[ch] : u.c = NoConsumer} \union HeldByConsumers(ch)
             T == chUnacked[ch]
  <2>1. /\ chState[ch] = "open" /\ RemoveFromChannel(ch, T) /\ unacked' \in Deleted(unacked, S)
        /\ UNCHANGED <<pc, inflight, chState, cState>>
    BY <1>11 DEF BasicRecover
  <2>2. S \subseteq T
    BY DEF HeldByConsumers
  <2>3. Workload \intersect {"recover", "redeliver"} # {}
    BY <1>11 DEF BasicRecover
  <2>4. ASSUME NEW u \in T \ S, NEW e, u.c = e.c PROVE Forgotten(e)'
    <3>1. u.c \in Consumers /\ ChannelOf[u.c] = ch /\ cState[u.c] \in {"active", "cancelled"}
      BY <1>1, <2>4 DEF TypeInv, TypeOK, OwnEntries, ChannelUnack, Holder
    <3>2. cState[u.c] # "active"
      BY <2>4, <3>1 DEF HeldByConsumers, ChannelConsumers
    <3> QED
      BY <2>1, <2>3, <2>4, <3>1, <3>2 DEF Forgotten, Cancelled
  <2> HIDE DEF S
  <2> QED
    BY <2>1, <2>2, <2>4, KnownSettled
<1>12. ASSUME NEW ch \in Channels,
              (\E tag, multiple : UnknownTag(ch, tag, multiple))
                \/ ChannelClose(ch) \/ Disconnect(ch) \/ Cleanup(ch)
       PROVE  Known'
  BY <1>12, KnownClosed DEF UnknownTag, ChannelClose, Disconnect, Cleanup
<1>13. ASSUME NEW ch \in Channels, (\E v : BasicQos(ch, v)) \/ ReplyWritten(ch) \/ \E active : ClientFlow(ch, active)
       PROVE  Known'
  BY <1>2, <1>13 DEF BasicQos, ReplyWritten, ClientFlow
<1>14. ASSUME NEW ch \in Channels, WriteError(ch) PROVE Known'
  BY <1>7, <1>14 DEF WriteError
<1>15. ASSUME NEW ch \in Channels, RecoverRaises(ch) PROVE Known'
  <2>1. /\ UNCHANGED <<unacked, chUnacked, cState>>
        /\ \A k \in Channels : chState'[k] = chState[k] \/ chState'[k] = "lost"
    BY <1>1, <1>15 DEF RecoverRaises, TypeInv, TypeOK
  <2> QED
    BY <2>1, KnownOnSocket
<1>16. CASE UNCHANGED vars
  BY <1>2, <1>16 DEF vars
<1> QED
  BY <1>3, <1>4, <1>5, <1>6, <1>8, <1>9, <1>10, <1>11, <1>12, <1>13, <1>14, <1>15, <1>16
     DEF Next, DeliverLoop, Settle, Client

\* A consumer is cancelled only by a client that cancels.
LEMMA CancelledStep == TypeInv /\ Cancelled /\ [Next]_vars => Cancelled'
<1> SUFFICES ASSUME TypeInv, Cancelled, [Next]_vars PROVE Cancelled'
  OBVIOUS
<1> USE DEF queueVars, loopVars, channelVars, consumerVars
<1>1. CASE \A c \in Consumers : cState'[c] = "cancelled" => cState[c] = "cancelled"
  BY <1>1 DEF Cancelled
<1>2. CASE cState' = cState
  BY <1>1, <1>2
<1>3. ASSUME NEW qs, Publish(qs) PROVE Cancelled'
  BY <1>2, <1>3 DEF Publish
<1>4. ASSUME NEW q \in Queues, DeliverLoop(q) \/ DeliveryFailed(q) \/ Purge(q) PROVE Cancelled'
  BY <1>2, <1>4 DEF DeliverLoop, Purge, AwaitMessage, ReceiveMessageToken, AwaitConsumer,
     ReceiveConsumerToken, StartDelivery, FoundNoMessage, DeliveryDone, DeliveryFailed
<1>5. ASSUME NEW c \in Consumers, Consume(c) PROVE Cancelled'
  BY <1>1, <1>5 DEF Consume, TypeInv, TypeOK
<1>6. ASSUME NEW c \in Consumers, CancelConsumer(c) PROVE Cancelled'
  BY <1>6 DEF CancelConsumer, Cancelled
<1>7. ASSUME NEW ch \in Channels, NEW s, CloseChannel(ch, s) PROVE Cancelled'
  BY <1>1, <1>7 DEF CloseChannel
<1>8. ASSUME NEW ch \in Channels, Settle(ch) PROVE Cancelled'
  BY <1>2, <1>7, <1>8 DEF Settle, BasicAck, BasicReject, UnknownTag
<1>9. ASSUME NEW ch \in Channels, Client(ch) PROVE Cancelled'
  BY <1>2, <1>7, <1>9 DEF Client, BasicGet, BasicQos, ReplyWritten, ClientFlow, BasicRecover, RecoverRaises,
     ChannelClose, Disconnect, Cleanup, WriteError
<1>10. CASE UNCHANGED vars
  BY <1>2, <1>10 DEF vars
<1> QED
  BY <1>3, <1>4, <1>5, <1>6, <1>8, <1>9, <1>10 DEF Next

\* The invariant holds initially, and each step keeps it.
LEMMA HeldInit == Init => HeldInv
<1> SUFFICES ASSUME Init PROVE Cancelled /\ Known
  BY PlaceInit DEF HeldInv
<1> QED
  BY DEF Init, Cancelled, Known

\* Every step keeps what the channels and queues hold in agreement.
LEMMA HeldStep == HeldInv /\ [Next]_vars => HeldInv'
<1> SUFFICES ASSUME HeldInv, [Next]_vars PROVE HeldInv'
  OBVIOUS
<1>1. PlaceInv' /\ Cancelled'
  BY PlaceStep, CancelledStep DEF HeldInv, PlaceInv
<1>2. ASSUME ~raced' PROVE Known'
  BY <1>2, RacedStays, KnownStep DEF HeldInv, PlaceInv
<1> QED
  BY <1>1, <1>2 DEF HeldInv

\* A client that cancels a consumer while it holds deliveries, and then recovers,
\* leaves their messages behind.  For all other workloads whatever a queue holds
\* is known to a channel that can still settle or return it.
THEOREM NeverStranded ==
  ASSUME "cancel" \notin Workload \/ Workload \intersect {"recover", "redeliver"} = {}
  PROVE  Spec => []NoStrandedMessages
<1>1. HeldInv => NoStrandedMessages
  <2> SUFFICES ASSUME HeldInv, ~raced, NEW e \in unacked
               PROVE  \E ch \in Channels :
                        /\ chState[ch] \in {"open", "lost"}
                        /\ \E u \in chUnacked[ch] : u.q = e.q /\ u.sp = e.sp /\ u.c = e.c
    BY DEF NoStrandedMessages
  <2>1. \E ch \in Channels : KnownAt(ch, e)
    BY DEF HeldInv, Known, Forgotten
  <2> QED
    BY <2>1 DEF KnownAt, SamePlace
<1> QED
  BY HeldInit, HeldStep, <1>1, PTL DEF Spec

\* In any workload it is the messages of cancelled consumers alone that can be
\* left behind: a message held for a consumer that still receives, or fetched with
\* Basic.Get, is known to a channel.
OnlyCancelledStranded ==
  ~raced => \A e \in unacked :
    \/ e.c # NoConsumer /\ cState[e.c] \in {"cancelled", "closed"}
    \/ \E ch \in Channels : KnownAt(ch, e)

\* What Channel#close and recover of channel.cr leave behind is held for consumers that
\* were cancelled or closed, whatever clients do.
THEOREM StrandedByCancel == Spec => []OnlyCancelledStranded
<1>1. HeldInv => OnlyCancelledStranded
  BY DeliveryAssumption DEF HeldInv, Known, Forgotten, OnlyCancelledStranded
<1> QED
  BY HeldInit, HeldStep, <1>1, PTL DEF Spec

-----------------------------------------------------------------------------
(* Waiting for a consumer. *)

\* An entry is of the queue its consumer consumes from.
OwnQueue == \A ch \in Channels : \A u \in chUnacked[ch] : u.c # NoConsumer => u.q = QueueOf[u.c]

\* Each consumer has a limit of its own.
NoGlobal == \A ch \in Channels : qos[ch].global = FALSE

Room(c) ==
  LET ch == ChannelOf[c]
  IN  flow[ch] /\ (qos[ch].count = 0 \/ cUnacked[c] < qos[ch].count)

\* A token is there, or a handler that is writing its reply will send one.
Announced(q) == consToken[q] \/ ToldSoon(q)

Told == \A c \in Consumers :
  pc[QueueOf[c]] = "awaitConsumer" /\ cState[c] = "active" /\ Room(c) => Announced(QueueOf[c])

ToldInv == TypeInv /\ OwnQueue /\ NoGlobal /\ Told

\* Without global limits a consumer accepts when it has room.
LEMMA RoomAccepts == NoGlobal => \A c \in Consumers : Accepts(c) <=> Room(c)
<1> SUFFICES ASSUME NoGlobal, NEW c \in Consumers PROVE Accepts(c) <=> Room(c)
  OBVIOUS
<1>1. qos[ChannelOf[c]].global = FALSE
  BY DeliveryAssumption DEF NoGlobal
<1> QED
  BY <1>1 DEF Accepts, Room

\* Tokens and unfinished handlers are kept, those of consumers that are kept too.
LEMMA AnnouncedKept ==
  ASSUME NEW q, consToken[q] => consToken'[q],
         \A c \in Consumers : cState[c] = "active" /\ QueueOf[c] = q /\ reply[ChannelOf[c]] # "none"
           => cState'[c] = "active" /\ reply'[ChannelOf[c]] # "none"
  PROVE  Announced(q) => Announced(q)'
  BY DEF Announced, ToldSoon, QueueConsumers

\* No consumer gets room in a queue whose deliver loop is not told.
LEMMA NoneAdmitted ==
  ASSUME Told,
         \A q \in Queues : pc'[q] = "awaitConsumer" =>
           pc[q] = "awaitConsumer" /\ (Announced(q) => Announced(q)'),
         \A c \in Consumers : cState'[c] = "active" /\ Room(c)' /\ ~Announced(QueueOf[c])'
           => cState[c] = "active" /\ Room(c)
  PROVE  Told'
  BY DeliveryAssumption DEF Told

\* A consumer with no more room than before, under the same limit.
LEMMA LessRoom ==
  ASSUME TypeInv, UNCHANGED <<flow, qos>>, NEW c \in Consumers,
         cUnacked'[c] \in Nat, cUnacked'[c] >= cUnacked[c]
  PROVE  Room(c)' => Room(c)
<1>1. ChannelOf[c] \in Channels
  BY DeliveryAssumption
<1>2. qos[ChannelOf[c]].count \in Nat /\ cUnacked[c] \in Nat
  BY <1>1 DEF TypeInv, TypeOK
<1> QED
  BY <1>2 DEF Room

\* Entries S are released, and the deliver loops of their consumers told.
LEMMA ReleasedTold ==
  ASSUME TypeInv, OwnQueue, Told, NEW ch \in Channels, NEW S \in SUBSET chUnacked[ch],
         ReleaseConsumers(S), \A u \in S : u.c # NoConsumer => Announced(u.q)',
         \A q \in Queues : Announced(q) => Announced(q)',
         UNCHANGED <<pc, cState, flow, qos>>
  PROVE  Told'
<1>1. ASSUME NEW c \in Consumers, cState'[c] = "active", Room(c)', ~Announced(QueueOf[c])'
      PROVE  cState[c] = "active" /\ Room(c)
  <2>1. QueueOf[c] \in Queues
    BY DeliveryAssumption
  <2>2. {u \in S : u.c = c} = {}
    BY <1>1, <2>1, DeliveryAssumption DEF OwnQueue
  <2>3. cUnacked'[c] = cUnacked[c] - Cardinality({u \in S : u.c = c})
    BY DEF ReleaseConsumers
  <2>4. cUnacked[c] \in Nat
    BY DEF TypeInv, TypeOK
  <2>5. Cardinality({u \in S : u.c = c}) = 0
    BY <2>2, FS_EmptySet, Zenon
  <2>6. cUnacked'[c] = cUnacked[c]
    BY <2>3, <2>4, <2>5
  <2> QED
    BY <1>1, <2>4, <2>6, LessRoom
<1> QED
  BY <1>1, NoneAdmitted

\* What the client changes of the limits is told to the queues of the channel, once
\* its answer has been written.
LEMMA QosTold ==
  ASSUME TypeInv, Told, NEW ch \in Channels, NEW v \in QosValues, BasicQos(ch, v)
  PROVE  Told'
<1>1. /\ UNCHANGED <<pc, cState, flow, cUnacked, consToken>>
      /\ \A k \in Channels : k # ch => qos'[k] = qos[k] /\ reply'[k] = reply[k]
      /\ qos'[ch].count = v[1]
      /\ reply[ch] = "none"
      /\ TellsConsumers(ch, v[1]) => reply'[ch] # "none"
  BY DEF BasicQos, consumerVars, loopVars, TypeInv, TypeOK
<1>2. v[1] \in Nat /\ qos[ch].count \in Nat
  BY DeliveryAssumption DEF TypeInv, TypeOK
<1>3. ASSUME NEW c \in Consumers, cState'[c] = "active", Room(c)', ~Announced(QueueOf[c])'
      PROVE  cState[c] = "active" /\ Room(c)
  <2>1. cState[c] = "active" /\ reply'[ChannelOf[c]] = "none"
    BY <1>1, <1>3 DEF Announced, ToldSoon, QueueConsumers
  <2>2. CASE ChannelOf[c] # ch
    <3>1. ChannelOf[c] \in Channels
      BY DeliveryAssumption
    <3>2. Room(c)
      BY <1>1, <1>3, <2>2, <3>1 DEF Room
    <3> QED
      BY <2>1, <3>2
  <2>3. CASE ChannelOf[c] = ch
    <3>1. ~(qos[ch].count > 0 /\ (v[1] > qos[ch].count \/ v[1] = 0))
      BY <1>1, <2>1, <2>3 DEF TellsConsumers
    <3>2. flow[ch] /\ (v[1] = 0 \/ cUnacked[c] < v[1]) /\ cUnacked[c] \in Nat
      BY <1>1, <1>3, <2>3 DEF Room, TypeInv, TypeOK
    <3>3. qos[ch].count = 0 \/ cUnacked[c] < qos[ch].count
      BY <1>2, <3>1, <3>2
    <3> QED
      BY <2>1, <2>3, <3>2, <3>3 DEF Room
  <2> QED
    BY <2>2, <2>3
<1>4. \A q \in Queues : Announced(q) => Announced(q)'
  BY <1>1, AnnouncedKept, DeliveryAssumption
<1> QED
  BY <1>1, <1>3, <1>4, NoneAdmitted

\* The queues are told once the answer has been written.
LEMMA WrittenTold ==
  ASSUME TypeInv, Told, NEW ch \in Channels, ReplyWritten(ch)
  PROVE  Told'
<1>1. /\ UNCHANGED <<pc, cState, flow, qos, cUnacked>>
      /\ \A k \in Channels : k # ch => reply'[k] = reply[k]
      /\ ConsumerAvailable(ChannelQueues(ch))
  BY DEF ReplyWritten, consumerVars, TypeInv, TypeOK
<1>2. \A q \in Queues : consToken'[q] <=> consToken[q] \/ q \in ChannelQueues(ch)
  BY <1>1, Zenon DEF ConsumerAvailable
<1>3. ASSUME NEW q \in Queues, Announced(q) PROVE Announced(q)'
  <2>1. CASE q \in ChannelQueues(ch)
    BY <1>2, <2>1 DEF Announced
  <2>2. CASE q \notin ChannelQueues(ch)
    <3>1. \A c \in Consumers : cState[c] = "active" /\ QueueOf[c] = q => ChannelOf[c] # ch
      BY <2>2 DEF ChannelQueues, ChannelConsumers
    <3> QED
      BY <1>1, <1>2, <1>3, <3>1, AnnouncedKept, DeliveryAssumption
  <2> QED
    BY <2>1, <2>2
<1> QED
  BY <1>1, <1>3, NoneAdmitted DEF Room

\* Every entry is made for a consumer of the queue, or for none.
LEMMA OwnQueueStep == TypeInv /\ OwnQueue /\ [Next]_vars => OwnQueue'
<1> SUFFICES ASSUME TypeInv, OwnQueue, [Next]_vars PROVE OwnQueue'
  OBVIOUS
<1> USE DEF queueVars, loopVars, channelVars, consumerVars
<1>1. CASE \A ch \in Channels : chUnacked'[ch] \subseteq chUnacked[ch]
  BY <1>1 DEF OwnQueue
<1>2. ASSUME NEW ch \in Channels, NEW T, RemoveFromChannel(ch, T) PROVE OwnQueue'
  BY <1>1, <1>2 DEF RemoveFromChannel, TypeInv, TypeOK
<1>3. ASSUME NEW ch, NEW q, NEW sp, NEW c, NEW noAck, NextDeliveryTag(ch, q, sp, c, noAck),
             c # NoConsumer => q = QueueOf[c]
      PROVE  OwnQueue'
  <2>1. \A k \in Channels : \A u \in chUnacked'[k] : u \in chUnacked[k] \/ (u.q = q /\ u.c = c)
    BY <1>3 DEF NextDeliveryTag, TypeInv, TypeOK
  <2> QED
    BY <1>3, <2>1 DEF OwnQueue
<1>4. CASE UNCHANGED chUnacked
  BY <1>1, <1>4
<1>5. ASSUME NEW qs, Publish(qs) PROVE OwnQueue'
  BY <1>4, <1>5 DEF Publish
<1>6. ASSUME NEW q \in Queues, DeliverLoop(q) \/ DeliveryFailed(q) \/ Purge(q) PROVE OwnQueue'
  <2>1. ASSUME NEW c \in Consumers, StartDelivery(q, c) PROVE OwnQueue'
    BY <1>3, <2>1 DEF StartDelivery, QueueConsumers
  <2> QED
    BY <1>4, <1>6, <2>1 DEF DeliverLoop, Purge, AwaitMessage, ReceiveMessageToken, AwaitConsumer,
       ReceiveConsumerToken, FoundNoMessage, DeliveryDone, DeliveryFailed
<1>7. ASSUME NEW c \in Consumers, Consume(c) \/ CancelConsumer(c) PROVE OwnQueue'
  BY <1>4, <1>7 DEF Consume, CancelConsumer
<1>8. ASSUME NEW ch \in Channels, NEW s, CloseChannel(ch, s) PROVE OwnQueue'
  BY <1>2, <1>8 DEF CloseChannel
<1>9. ASSUME NEW ch \in Channels, Settle(ch) PROVE OwnQueue'
  BY <1>2, <1>8, <1>9 DEF Settle, BasicAck, BasicReject, UnknownTag
<1>10. ASSUME NEW ch \in Channels, Client(ch) PROVE OwnQueue'
  <2>1. ASSUME NEW q \in Queues, NEW noAck, BasicGet(ch, q, noAck) PROVE OwnQueue'
    BY <1>3, <2>1 DEF BasicGet
  <2> QED
    BY <1>2, <1>4, <1>8, <1>10, <2>1 DEF Client, BasicQos, ReplyWritten, ClientFlow, BasicRecover, RecoverRaises,
       ChannelClose, Disconnect, Cleanup, WriteError
<1>11. CASE UNCHANGED vars
  BY <1>4, <1>11 DEF vars
<1> QED
  BY <1>5, <1>6, <1>7, <1>9, <1>10, <1>11 DEF Next

\* Limits stay those of single consumers if clients only use such limits.
LEMMA NoGlobalStep ==
  ASSUME \A v \in QosValues : v[2] = FALSE
  PROVE  TypeInv /\ NoGlobal /\ [Next]_vars => NoGlobal'
<1> SUFFICES ASSUME TypeInv, NoGlobal, [Next]_vars PROVE NoGlobal'
  OBVIOUS
<1> USE DEF queueVars, loopVars, channelVars, consumerVars
<1>1. CASE UNCHANGED qos
  BY <1>1 DEF NoGlobal
<1>2. ASSUME NEW ch \in Channels, NEW v \in QosValues, BasicQos(ch, v) PROVE NoGlobal'
  BY <1>2 DEF BasicQos, NoGlobal, TypeInv, TypeOK
<1>3. ASSUME NEW qs, Publish(qs) PROVE NoGlobal'
  BY <1>1, <1>3 DEF Publish
<1>4. ASSUME NEW q \in Queues, DeliverLoop(q) \/ DeliveryFailed(q) \/ Purge(q) PROVE NoGlobal'
  BY <1>1, <1>4 DEF DeliverLoop, Purge, AwaitMessage, ReceiveMessageToken, AwaitConsumer,
     ReceiveConsumerToken, StartDelivery, FoundNoMessage, DeliveryDone, DeliveryFailed
<1>5. ASSUME NEW c \in Consumers, Consume(c) \/ CancelConsumer(c) PROVE NoGlobal'
  BY <1>1, <1>5 DEF Consume, CancelConsumer
<1>6. ASSUME NEW ch \in Channels, Settle(ch) PROVE NoGlobal'
  BY <1>1, <1>6 DEF Settle, BasicAck, BasicReject, UnknownTag, CloseChannel
<1>7. ASSUME NEW ch \in Channels, Client(ch) PROVE NoGlobal'
  BY <1>1, <1>2, <1>7 DEF Client, BasicGet, ReplyWritten, ClientFlow, BasicRecover, RecoverRaises,
     ChannelClose, Disconnect, Cleanup, WriteError, CloseChannel
<1>8. CASE UNCHANGED vars
  BY <1>1, <1>8 DEF vars
<1> QED
  BY <1>3, <1>4, <1>5, <1>6, <1>7, <1>8 DEF Next

\* Each step leaves the deliver loops told, unless it rejects.
LEMMA ToldStep ==
  ASSUME Workload \intersect {"reject", "requeue"} = {},
         TypeInv, TypeInv', OwnQueue, NoGlobal, Told, [Next]_vars
  PROVE  Told'
<1> USE DEF queueVars, loopVars, channelVars, consumerVars
<1>1. CASE /\ UNCHANGED <<cState, cUnacked, flow, qos, reply>>
           /\ \A q \in Queues : pc'[q] = "awaitConsumer" =>
                pc[q] = "awaitConsumer" /\ (consToken[q] => consToken'[q])
  BY <1>1, NoneAdmitted, AnnouncedKept DEF Room
<1>2. ASSUME NEW qs, Publish(qs) PROVE Told'
  BY <1>1, <1>2 DEF Publish
<1>3. ASSUME NEW q \in Queues,
             AwaitMessage(q) \/ ReceiveMessageToken(q) \/ ReceiveConsumerToken(q)
               \/ (\E c \in Consumers : FoundNoMessage(q, c)) \/ DeliveryDone(q)
               \/ DeliveryFailed(q)
      PROVE  Told'
  <2>1. /\ UNCHANGED <<cState, cUnacked, flow, qos, reply>>
        /\ \E p \in {"awaitMessage", "woken", "top"} : pc' = [pc EXCEPT ![q] = p]
        /\ consToken' = consToken \/ (pc' = [pc EXCEPT ![q] = "top"] /\ consToken' = [consToken EXCEPT ![q] = FALSE])
    BY <1>3 DEF AwaitMessage, ReceiveMessageToken, ReceiveConsumerToken,
       FoundNoMessage, DeliveryDone, DeliveryFailed
  <2>2. \A y \in Queues : pc'[y] = "awaitConsumer" => pc[y] = "awaitConsumer" /\ y # q
    BY <2>1 DEF TypeInv, TypeOK
  <2>3. \A y \in Queues : y # q => consToken'[y] = consToken[y]
    BY <2>1 DEF TypeInv, TypeOK
  <2> QED
    BY <1>1, <2>1, <2>2, <2>3
<1>4. ASSUME NEW q \in Queues, Purge(q) PROVE Told'
  BY <1>1, <1>4 DEF Purge
<1>5. ASSUME NEW q \in Queues, AwaitConsumer(q) PROVE Told'
  <2>1. /\ UNCHANGED <<cState, cUnacked, flow, qos, reply, consToken>>
        /\ \A y \in Queues : y # q => pc'[y] = pc[y]
        /\ \A c \in QueueConsumers(q) : ~Accepts(c)
    BY <1>5 DEF AwaitConsumer, TypeInv, TypeOK
  <2>2. \A c \in Consumers : Room(c)' <=> Room(c)
    BY <2>1 DEF Room
  <2>3. \A c \in Consumers : QueueOf[c] = q /\ cState[c] = "active" => ~Room(c)
    BY <2>1, RoomAccepts DEF QueueConsumers
  <2>4. \A y \in Queues : Announced(y) => Announced(y)'
    BY <2>1, AnnouncedKept
  <2> QED
    BY <2>1, <2>2, <2>3, <2>4, DeliveryAssumption DEF Told
<1>6. ASSUME NEW q \in Queues, NEW c \in Consumers, StartDelivery(q, c) PROVE Told'
  <2>1. /\ UNCHANGED <<cState, flow, qos, reply, consToken>>
        /\ pc' = [pc EXCEPT ![q] = "deliver"]
        /\ cUnacked' = IF c \in NoAck THEN cUnacked ELSE [cUnacked EXCEPT ![c] = @ + 1]
    BY <1>6 DEF StartDelivery
  <2>2. \A x \in Consumers : cUnacked'[x] \in Nat /\ cUnacked'[x] >= cUnacked[x]
    BY <2>1 DEF TypeInv, TypeOK
  <2>3. \A x \in Consumers : Room(x)' => Room(x)
    BY <2>1, <2>2, LessRoom
  <2>4. \A y \in Queues : pc'[y] = "awaitConsumer" => pc[y] = "awaitConsumer"
    BY <2>1 DEF TypeInv, TypeOK
  <2> QED
    BY <2>1, <2>3, <2>4, AnnouncedKept, NoneAdmitted
<1>7. ASSUME NEW c \in Consumers, Consume(c) PROVE Told'
  <2>1. /\ UNCHANGED <<pc, cUnacked, flow, qos, reply>>
        /\ ConsumerAvailable({QueueOf[c]})
        /\ \A x \in Consumers : x # c => cState'[x] = cState[x]
        /\ cState'[c] = "active"
    BY <1>7 DEF Consume, TypeInv, TypeOK
  <2>2. \A q \in Queues : consToken'[q] <=> consToken[q] \/ q = QueueOf[c]
    BY <2>1, Zenon DEF ConsumerAvailable
  <2>3. \A x \in Consumers : cState'[x] = "active" /\ Room(x)' /\ ~Announced(QueueOf[x])'
          => cState[x] = "active" /\ Room(x)
    BY <2>1, <2>2, DeliveryAssumption DEF Room, Announced
  <2>4. \A q \in Queues : Announced(q) => Announced(q)'
    BY <2>1, <2>2, AnnouncedKept
  <2> QED
    BY <2>1, <2>3, <2>4, NoneAdmitted
<1>8. ASSUME NEW c \in Consumers, CancelConsumer(c) PROVE Told'
  <2>1. /\ UNCHANGED <<pc, cUnacked, flow, qos, reply, consToken>>
        /\ \A x \in Consumers : cState'[x] = "active" => cState[x] = "active"
        /\ \A x \in Consumers : x # c => cState'[x] = cState[x]
        /\ reply[ChannelOf[c]] = "none"
    BY <1>8 DEF CancelConsumer, TypeInv, TypeOK
  <2>2. \A q \in Queues : Announced(q) => Announced(q)'
    BY <2>1, AnnouncedKept
  <2> QED
    BY <2>1, <2>2, NoneAdmitted DEF Room
<1>9. ASSUME NEW ch \in Channels, NEW tag, NEW multiple, BasicAck(ch, tag, multiple) PROVE Told'
  <2> DEFINE S == Settled(ch, tag, multiple)
             Q == {u.q : u \in S}
  <2>1. /\ ReleaseConsumers(S) /\ ConsumerAvailable(Q) /\ S \subseteq chUnacked[ch]
        /\ UNCHANGED <<pc, cState, flow, qos, reply>>
    BY <1>9, SettledPart DEF BasicAck
  <2>2. \A u \in S : u.q \in Q /\ u.q \in Queues
    BY <2>1 DEF TypeInv, TypeOK, ChannelUnack
  <2> HIDE DEF S, Q
  <2>3. \A q \in Queues : consToken'[q] <=> consToken[q] \/ q \in Q
    BY <2>1, Zenon DEF ConsumerAvailable
  <2>4. \A q \in Queues : Announced(q) => Announced(q)'
    BY <2>1, <2>3, AnnouncedKept
  <2>5. \A u \in S : Announced(u.q)'
    BY <2>2, <2>3 DEF Announced
  <2> QED
    BY <2>1, <2>4, <2>5, ReleasedTold
<1>10. ASSUME NEW ch \in Channels, NEW tag, NEW multiple, NEW requeue \in BOOLEAN,
              BasicReject(ch, tag, multiple, requeue)
       PROVE  FALSE
  <2>1. (IF requeue THEN "requeue" ELSE "reject") \in Workload
    BY <1>10 DEF BasicReject
  <2> QED
    BY <2>1
<1>11. ASSUME NEW ch \in Channels, NEW requeue \in BOOLEAN, BasicRecover(ch, requeue) PROVE Told'
  <2> DEFINE S == HeldByConsumers(ch)
  <2>1. /\ ReleaseConsumers(S) /\ S \subseteq chUnacked[ch]
        /\ requeue \/ S = {}
        /\ requeue => reply'[ch] # "none"
        /\ reply[ch] = "none"
        /\ \A k \in Channels : k # ch => reply'[k] = reply[k]
        /\ UNCHANGED <<pc, cState, flow, qos, consToken>>
    BY <1>11 DEF BasicRecover, HeldByConsumers, TypeInv, TypeOK
  <2>2. ASSUME NEW u \in S PROVE Announced(u.q)'
    <3>1. u.c \in QueueConsumers(u.q) /\ ChannelOf[u.c] = ch
      BY DeliveryAssumption DEF HeldByConsumers, OwnQueue, ChannelConsumers, QueueConsumers
    <3>2. u.c \in QueueConsumers(u.q)'
      BY <2>1, <3>1 DEF QueueConsumers
    <3> QED
      BY <2>1, <3>1, <3>2 DEF Announced, ToldSoon
  <2> HIDE DEF S
  <2>3. \A q \in Queues : Announced(q) => Announced(q)'
    BY <2>1, AnnouncedKept, DeliveryAssumption
  <2> QED
    BY <2>1, <2>2, <2>3, ReleasedTold
<1>12. ASSUME NEW ch \in Channels, NEW v \in QosValues, BasicQos(ch, v) PROVE Told'
  BY <1>12, QosTold
<1>13. ASSUME NEW ch \in Channels, NEW active \in BOOLEAN, ClientFlow(ch, active) PROVE Told'
  <2> DEFINE Q == IF active THEN ChannelQueues(ch) ELSE {}
  <2>1. /\ UNCHANGED <<pc, cUnacked, cState, qos, reply>> /\ ConsumerAvailable(Q)
        /\ flow'[ch] = active /\ \A k \in Channels : k # ch => flow'[k] = flow[k]
    BY <1>13 DEF ClientFlow, TypeInv, TypeOK
  <2>2. \A c \in Consumers : active /\ cState[c] = "active" /\ ChannelOf[c] = ch => QueueOf[c] \in Q
    BY DEF ChannelQueues, ChannelConsumers
  <2> HIDE DEF Q
  <2>3. \A q \in Queues : consToken'[q] <=> consToken[q] \/ q \in Q
    BY <2>1, Zenon DEF ConsumerAvailable
  <2>4. ASSUME NEW c \in Consumers, cState'[c] = "active", Room(c)', ~Announced(QueueOf[c])'
        PROVE  cState[c] = "active" /\ Room(c)
    <3>1. ChannelOf[c] \in Channels /\ QueueOf[c] \in Queues
      BY DeliveryAssumption
    <3>2. CASE ChannelOf[c] = ch
      BY <2>1, <2>2, <2>3, <2>4, <3>1, <3>2 DEF Room, Announced
    <3>3. CASE ChannelOf[c] # ch
      BY <2>1, <2>4, <3>1, <3>3 DEF Room
    <3> QED
      BY <3>2, <3>3
  <2>5. \A q \in Queues : Announced(q) => Announced(q)'
    BY <2>1, <2>3, AnnouncedKept
  <2> QED
    BY <2>1, <2>4, <2>5, NoneAdmitted
<1>14. ASSUME NEW ch \in Channels, NEW s, CloseChannel(ch, s), reply[ch] = "none" PROVE Told'
  <2>1. /\ UNCHANGED <<pc, flow, qos, reply, consToken>>
        /\ \A c \in Consumers : cState'[c] = "active" =>
             cState[c] = "active" /\ cUnacked'[c] = cUnacked[c]
        /\ \A c \in Consumers : ChannelOf[c] # ch => cState'[c] = cState[c]
    BY <1>14 DEF CloseChannel
  <2>2. \A q \in Queues : Announced(q) => Announced(q)'
    BY <1>14, <2>1, AnnouncedKept
  <2> QED
    BY <2>1, <2>2, NoneAdmitted DEF Room
<1>15. ASSUME NEW ch \in Channels,
              (\E tag, multiple : UnknownTag(ch, tag, multiple))
                \/ ChannelClose(ch) \/ Disconnect(ch) \/ Cleanup(ch)
       PROVE  Told'
  BY <1>14, <1>15 DEF UnknownTag, MaySettle, ChannelClose, Disconnect, Cleanup
<1>16. ASSUME NEW ch \in Channels,
              (\E q, noAck : BasicGet(ch, q, noAck)) \/ WriteError(ch) \/ RecoverRaises(ch)
       PROVE  Told'
  BY <1>1, <1>16 DEF BasicGet, WriteError, RecoverRaises
<1>17. CASE UNCHANGED vars
  BY <1>1, <1>17 DEF vars
<1>18. ASSUME NEW ch \in Channels, ReplyWritten(ch) PROVE Told'
  BY <1>18, WrittenTold
<1> QED
  BY <1>2, <1>3, <1>5, <1>6, <1>7, <1>8, <1>9, <1>10, <1>11, <1>12, <1>13, <1>15, <1>16, <1>17, <1>18, <1>4
     DEF Next, DeliverLoop, Settle, Client

\* Clients that acknowledge what they get, under limits of each consumer's own, do
\* not leave a deliver loop waiting for a consumer that would accept: it has a
\* token to receive, or a handler of Basic.Qos or Basic.Recover that is still
\* writing its reply will send one.  A rejection frees its consumer without telling the queue, and
\* under a limit of the whole channel an acknowledgement tells only one queue.
THEOREM ConsumersTold ==
  ASSUME Workload \intersect {"reject", "requeue"} = {},
         \A v \in QosValues : v[2] = FALSE
  PROVE  Spec => []ConsumerWakeup
<1>1. Init => ToldInv
  <2> SUFFICES ASSUME Init PROVE OwnQueue /\ NoGlobal /\ Told
    BY TypeInit DEF ToldInv
  <2>1. OwnQueue /\ Told
    BY DeliveryAssumption DEF Init, OwnQueue, Told
  <2>2. NoGlobal
    BY DEF Init, NoGlobal
  <2> QED
    BY <2>1, <2>2
<1>2. ToldInv /\ [Next]_vars => ToldInv'
  <2> SUFFICES ASSUME ToldInv, [Next]_vars PROVE ToldInv'
    OBVIOUS
  <2>1. TypeInv' /\ OwnQueue' /\ NoGlobal'
    BY TypeStep, OwnQueueStep, NoGlobalStep DEF ToldInv
  <2> QED
    BY <2>1, ToldStep DEF ToldInv
<1>3. ToldInv => ConsumerWakeup
  BY RoomAccepts, DeliveryAssumption DEF ToldInv, Told, ConsumerWakeup, QueueConsumers, Announced
<1> QED
  BY <1>1, <1>2, <1>3, PTL DEF Spec

=============================================================================
