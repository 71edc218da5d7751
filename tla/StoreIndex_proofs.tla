------------------------- MODULE StoreIndex_proofs --------------------------
(***************************************************************************)
(* Proofs about Store for every value of its constants: that whoever       *)
(* blocks holds the locks the code holds there and nobody is told of a     *)
(* confirm without the lock of @awaiting_confirm; that every variable has  *)
(* its type, and that the index files of a queue say at every moment what  *)
(* the queue has in memory.                                                *)
(*                                                                         *)
(* Of the index, the lemmas come first: the elements, the order and the    *)
(* duplicates of a sequence that gets or loses a position, the sorted      *)
(* sequence of a set (compact_index! writes one), what a restart reads.    *)
(* Tidy says of one queue what the proof needs: its files hold what its    *)
(* memory holds, and no position is there twice; each operation keeps it.  *)
(* DurableInv is the inductive invariant.                                  *)
(***************************************************************************)
EXTENDS Store, FiniteSetTheorems, SequenceTheorems, WellFoundedInduction, TLAPS

-----------------------------------------------------------------------------
(* The inductive invariant behind Locks: the types of the variables it      *)
(* speaks of, and Locks itself.                                             *)

PublisherStates == {None, "lock", "await", "roll", "rolling"}
LoopStates == {None, "lock", "confirming", "write"}

LockTypes ==
  /\ pc \in [Channels -> PublisherStates]
  /\ serving = [q \in Queues |-> At(serving[q].pc, serving[q].sp, serving[q].no_ack)]
  /\ \A q \in Queues : serving[q].pc \in LoopStates
  /\ writer \in Channels \union {None}
  /\ holder \in Agents
  /\ awaiting \subseteq Channels

LockInv == LockTypes /\ Locks

\* All that Locks speaks of
lockVars == <<pc, serving, writer, holder, left, awaiting>>

-----------------------------------------------------------------------------
(* Kinds of steps.                                                          *)

\* A step of something else.
LEMMA OthersKeepLocks ==
  ASSUME LockInv, UNCHANGED lockVars
  PROVE  LockInv'
BY DEF LockInv, LockTypes, Locks, lockVars, Agents

\* A publisher that neither holds a lock nor takes one, or that only goes from one
\* wait to another.
LEMMA PublisherWaits ==
  ASSUME LockInv, StoreAssumption,
         NEW c \in Channels, NEW p \in {None, "lock", "await"},
         pc[c] \notin {"roll", "rolling"}, pc' = [pc EXCEPT ![c] = p],
         UNCHANGED <<serving, writer, holder, left>>,
         awaiting \subseteq awaiting', awaiting' \subseteq Channels
  PROVE  LockInv'
<1>1. LockTypes'
  BY DEF LockInv, LockTypes, Agents, PublisherStates
<1>2. Locks'
  <2>1. \A d \in Channels : /\ pc'[d] \in {"roll", "rolling"} <=> pc[d] \in {"roll", "rolling"}
                            /\ pc'[d] = "rolling" <=> pc[d] = "rolling"
    BY DEF LockInv, LockTypes, None
  <2> QED
    BY <2>1 DEF LockInv, Locks
<1> QED
  BY <1>1, <1>2 DEF LockInv

\* The lock of @awaiting_confirm is free: nobody is being told.
LEMMA FreeLock ==
  ASSUME LockInv, holder = None
  PROVE  left = {}
BY DEF LockInv, Locks

-----------------------------------------------------------------------------
(* Publishing.                                                              *)

\* Writing a message, with or without a new segment before it, keeps LockInv.
LEMMA WriteKeepsLocks ==
  ASSUME LockInv, StoreAssumption, NEW c \in Channels, NEW tag,
         pc[c] \in {None, "lock"}, writer = None, Write(c, tag)
  PROVE  LockInv'
<1>1. CASE RoomInSegment
  <2>1. UNCHANGED <<serving, holder, left, writer>>
    BY <1>1 DEF Write
  <2>2. \E p \in {None, "await"} : pc' = [pc EXCEPT ![c] = p]
    BY <1>1 DEF Write
  <2>3. awaiting \subseteq awaiting' /\ awaiting' \subseteq Channels
    BY <1>1 DEF Write, AwaitConfirm, LockInv, LockTypes
  <2> QED
    BY <2>1, <2>2, <2>3, PublisherWaits DEF None
<1>2. CASE ~RoomInSegment
  <2>1. /\ pc' = [pc EXCEPT ![c] = "roll"] /\ writer' = c
        /\ UNCHANGED <<serving, holder, left, awaiting>>
    BY <1>2 DEF Write
  <2>2. \A d \in Channels : pc[d] \notin {"roll", "rolling"}
    BY StoreAssumption DEF LockInv, Locks, StoreAssumption
  <2>3. LockTypes'
    BY <2>1 DEF LockInv, LockTypes, PublisherStates, Agents
  <2>4. Locks'
    BY <2>1, <2>2 DEF LockInv, LockTypes, Locks, PublisherStates
  <2> QED
    BY <2>3, <2>4 DEF LockInv
<1> QED
  BY <1>1, <1>2

\* A publish, whether the write lock is free or not.
LEMMA PublishKeepsLocks ==
  ASSUME LockInv, StoreAssumption, NEW c \in Channels,
         Publish(c) \/ TakeWriteLock(c) \/ AddedToAwaiting(c)
  PROVE  LockInv'
<1>1. CASE Publish(c) /\ writer = None
  BY <1>1, WriteKeepsLocks DEF Publish
<1>2. CASE Publish(c) /\ writer # None
  <2>1. pc' = [pc EXCEPT ![c] = "lock"] /\ UNCHANGED <<serving, writer, holder, left, awaiting>>
    BY <1>2 DEF Publish, store, queues, history
  <2> QED
    BY <1>2, <2>1, PublisherWaits DEF Publish, LockInv, LockTypes, None
<1>3. CASE TakeWriteLock(c)
  BY <1>3, WriteKeepsLocks DEF TakeWriteLock
<1>4. CASE AddedToAwaiting(c)
  <2>1. /\ pc' = [pc EXCEPT ![c] = None] /\ awaiting' = awaiting \union {c}
        /\ UNCHANGED <<serving, writer, holder, left>>
    BY <1>4 DEF AddedToAwaiting, AwaitConfirm, store, queues, history
  <2> QED
    BY <1>4, <2>1, PublisherWaits DEF AddedToAwaiting, LockInv, LockTypes, None
<1> QED
  BY <1>1, <1>2, <1>3, <1>4

\* The publisher that opens a segment takes the second lock, and gives both back.
LEMMA RollKeepsLocks ==
  ASSUME LockInv, StoreAssumption, NEW c \in Channels,
         RollTakesLock(c) \/ Rolled(c)
  PROVE  LockInv'
<1>1. CASE RollTakesLock(c)
  <2>1. /\ pc[c] = "roll" /\ holder = None
        /\ pc' = [pc EXCEPT ![c] = "rolling"] /\ holder' = c /\ left' = awaiting
        /\ UNCHANGED <<serving, writer, awaiting>>
    BY <1>1 DEF RollTakesLock, Confirming, store, queues, history
  <2>2. writer = c /\ \A d \in Channels : pc[d] # "rolling"
    BY <2>1, StoreAssumption DEF LockInv, Locks, StoreAssumption
  <2>3. \A q \in Queues : serving[q].pc # "confirming" /\ q # c
    BY <2>1, StoreAssumption DEF LockInv, Locks, StoreAssumption
  <2>4. LockTypes'
    BY <2>1 DEF LockInv, LockTypes, PublisherStates, Agents
  <2>5. Locks'
    BY <2>1, <2>2, <2>3, StoreAssumption DEF LockInv, LockTypes, Locks, StoreAssumption
  <2> QED
    BY <2>4, <2>5 DEF LockInv
<1>2. CASE Rolled(c)
  <2>1. /\ holder = c /\ left = {} /\ holder' = None /\ writer' = None
        /\ pc' = [pc EXCEPT ![c] = None] /\ awaiting' = {c}
        /\ UNCHANGED <<serving, left>>
    BY <1>2 DEF Rolled, AwaitConfirm
  <2>2. /\ writer = c
        /\ \A d \in Channels \ {c} : pc[d] \notin {"roll", "rolling"}
    BY <2>1 DEF LockInv, Locks
  <2>3. \A q \in Queues : serving[q].pc # "confirming" /\ q # None
    BY <2>1, StoreAssumption DEF LockInv, Locks, StoreAssumption
  <2>4. LockTypes'
    BY <2>1 DEF LockInv, LockTypes, PublisherStates, Agents
  <2>5. Locks'
    BY <2>1, <2>2, <2>3, StoreAssumption DEF LockInv, LockTypes, Locks, StoreAssumption, None
  <2> QED
    BY <2>4, <2>5 DEF LockInv
<1> QED
  BY <1>1, <1>2

-----------------------------------------------------------------------------
(* Confirming.                                                              *)

\* So does an fsync fiber.
LEMMA FsyncKeepsLocks ==
  ASSUME LockInv, StoreAssumption, FsyncBegins \/ FsyncTakesLock \/ FsyncDone
  PROVE  LockInv'
<1>1. CASE holder' = Fsync /\ left' = awaiting /\ holder = None
           /\ UNCHANGED <<pc, serving, writer, awaiting>>
  BY <1>1, StoreAssumption
     DEF LockInv, LockTypes, Locks, Agents, StoreAssumption, Fsync, None
<1>2. CASE UNCHANGED lockVars
  BY <1>2, OthersKeepLocks
<1>3. CASE FsyncDone
  <2>1. /\ holder = Fsync /\ left = {} /\ holder' = None /\ awaiting' = {}
        /\ UNCHANGED <<pc, serving, writer, left>>
    BY <1>3 DEF FsyncDone, store, queues, history
  <2> QED
    BY <2>1, StoreAssumption
       DEF LockInv, LockTypes, Locks, Agents, StoreAssumption, Fsync, None
<1>4. CASE FsyncBegins \/ FsyncTakesLock
  BY <1>1, <1>2, <1>4
     DEF FsyncBegins, FsyncTakesLock, Confirming, lockVars, store, queues, history
<1> QED
  BY <1>3, <1>4

\* One channel fewer to tell.
LEMMA TellingKeepsLocks ==
  ASSUME LockInv, NEW c \in Channels, confirm_ack(c)
  PROVE  LockInv'
<1>1. /\ left # {} /\ left' \subseteq left
      /\ UNCHANGED <<pc, serving, writer, holder, awaiting>>
  BY DEF confirm_ack, store, queues
<1> QED
  BY <1>1 DEF LockInv, LockTypes, Locks, Agents

-----------------------------------------------------------------------------
(* Delivering.                                                              *)

\* A deliver loop that does not hold the lock and does not take it.
LEMMA LoopMoves ==
  ASSUME LockInv, NEW q \in Queues, NEW p \in LoopStates \ {"confirming"}, NEW sp, NEW b,
         serving[q].pc # "confirming",
         serving' = [serving EXCEPT ![q] = At(p, sp, b)],
         UNCHANGED <<pc, writer, holder, left, awaiting>>
  PROVE  LockInv'
<1>1. LockTypes'
  BY DEF LockInv, LockTypes, Agents, At
<1>2. Locks'
  BY DEF LockInv, LockTypes, Locks, At
<1> QED
  BY <1>1, <1>2 DEF LockInv

\* One that takes the lock to tell the channels.
LEMMA LoopConfirms ==
  ASSUME LockInv, StoreAssumption, NEW q \in Queues, NEW sp, NEW b, holder = None,
         serving' = [serving EXCEPT ![q] = At("confirming", sp, b)],
         Confirming(q), UNCHANGED <<pc, writer, awaiting>>
  PROVE  LockInv'
<1>1. LockTypes'
  BY DEF LockInv, LockTypes, Agents, Confirming, LoopStates, At
<1>2. /\ \A c \in Channels : pc[c] # "rolling" /\ c # q
      /\ \A r \in Queues : serving[r].pc # "confirming"
      /\ q # None
  BY StoreAssumption DEF LockInv, Locks, StoreAssumption
<1>3. Locks'
  BY <1>2 DEF LockInv, LockTypes, Locks, Confirming, At
<1> QED
  BY <1>1, <1>3 DEF LockInv

\* The deliver loop.
LEMMA DeliveringKeepsLocks ==
  ASSUME LockInv, StoreAssumption, NEW q \in Queues, Deliver(q) \/ Delivering(q)
  PROVE  LockInv'
<1>1. CASE Deliver(q)
  <2>1. PICK b : \/ /\ serving' = [serving EXCEPT ![q] = At("write", Head(ready[q]), b)]
                    /\ UNCHANGED <<pc, writer, holder, left, awaiting>>
                 \/ /\ serving' = [serving EXCEPT ![q] = At("confirming", Head(ready[q]), b)]
                    /\ holder = None
                    /\ Confirming(q) /\ UNCHANGED <<pc, writer, awaiting>>
                 \/ /\ serving' = [serving EXCEPT ![q] = At("lock", Head(ready[q]), b)]
                    /\ UNCHANGED <<pc, writer, holder, left, awaiting>>
    BY <1>1 DEF Deliver
  <2>2. serving[q].pc # "confirming"
    BY <1>1 DEF Deliver, None
  <2> QED
    BY <2>1, <2>2, LoopMoves, LoopConfirms DEF LoopStates
<1>2. CASE DeliveryTakesLock(q)
  <2>1. serving' = [serving EXCEPT ![q] = At("confirming", serving[q].sp, serving[q].no_ack)]
    BY <1>2 DEF DeliveryTakesLock
  <2> QED
    BY <1>2, <2>1, LoopConfirms DEF DeliveryTakesLock, store, history
<1>3. CASE DeliveryConfirmed(q)
  <2>1. serving' = [serving EXCEPT ![q] = At("write", serving[q].sp, serving[q].no_ack)]
    BY <1>3 DEF DeliveryConfirmed
  <2>2. /\ holder = q /\ left = {} /\ holder' = None /\ awaiting' = {}
        /\ UNCHANGED <<pc, writer, left>>
    BY <1>3 DEF DeliveryConfirmed, store, history
  <2>3. LockTypes'
    BY <2>1, <2>2 DEF LockInv, LockTypes, Agents, LoopStates, At
  <2>4. /\ \A c \in Channels : pc[c] # "rolling" /\ c # None
        /\ \A r \in Queues \ {q} : serving[r].pc # "confirming"
        /\ \A r \in Queues : r # None
    BY <2>2, StoreAssumption DEF LockInv, Locks, StoreAssumption
  <2>5. Locks'
    BY <2>1, <2>2, <2>4 DEF LockInv, LockTypes, Locks, At
  <2> QED
    BY <2>3, <2>5 DEF LockInv
<1>4. CASE Delivered(q) \/ DeliveryFails(q)
  <2>1. /\ serving[q].pc # "confirming" /\ serving' = [serving EXCEPT ![q] = At(None, 0, FALSE)]
        /\ UNCHANGED <<pc, writer, holder, left, awaiting>>
    BY <1>4 DEF Delivered, DeliveryFails, NotServing, At, confirm
  <2> QED
    BY <2>1, LoopMoves DEF LoopStates, None
<1> QED
  BY <1>1, <1>2, <1>3, <1>4 DEF Delivering

-----------------------------------------------------------------------------
(* Settling, collecting, restarting.                                        *)

\* So do an ack, a reject and a purge.
LEMMA SettlingKeepsLocks ==
  ASSUME LockInv, NEW q \in Queues, Ack(q) \/ Reject(q) \/ Purge(q)
  PROVE  LockInv'
<1>1. UNCHANGED lockVars
  BY DEF Ack, Reject, Purge, lockVars, confirm
<1> QED
  BY <1>1, OthersKeepLocks

\* A collection touches no lock.
LEMMA CollectingKeepsLocks ==
  ASSUME LockInv, gc_segments
  PROVE  LockInv'
<1>1. UNCHANGED lockVars
  BY DEF gc_segments, lockVars, queues, confirm
<1> QED
  BY <1>1, OthersKeepLocks

\* All locks are free after a restart.
LEMMA RestartFreesLocks ==
  ASSUME StoreAssumption, ProcessCrash \/ MachineCrash \/ Shutdown
  PROVE  LockInv'
<1>1. /\ pc' = [c \in Channels |-> None]
      /\ serving' = [q \in Queues |-> NotServing]
      /\ writer' = None /\ holder' = None /\ left' = {} /\ awaiting' = {}
  BY DEF ProcessCrash, MachineCrash, Shutdown, Restart
<1> QED
  BY <1>1, StoreAssumption
     DEF LockInv, LockTypes, Locks, Agents, PublisherStates, LoopStates, NotServing, At,
         StoreAssumption, None

-----------------------------------------------------------------------------
\* The invariant holds in every state.
LEMMA LockInvHolds == Spec => []LockInv
<1>1. Init => LockInv
  BY StoreAssumption
     DEF Init, LockInv, LockTypes, Locks, Agents, PublisherStates, LoopStates, NotServing,
         At, StoreAssumption, None
<1>2. LockInv /\ [Next]_vars => LockInv'
  <2> SUFFICES ASSUME LockInv, [Next]_vars PROVE LockInv'
    OBVIOUS
  <2>1. CASE UNCHANGED vars
    BY <2>1, OthersKeepLocks DEF vars, store, queues, confirm, lockVars
  <2>2. ASSUME NEW c \in Channels, Publish(c) \/ Publishing(c) PROVE LockInv'
    BY <2>2, PublishKeepsLocks, RollKeepsLocks, StoreAssumption DEF Publishing
  <2>3. CASE Confirm
    BY <2>3, FsyncKeepsLocks, TellingKeepsLocks, StoreAssumption DEF Confirm
  <2>4. ASSUME NEW q \in Queues,
               Delivering(q) \/ Deliver(q) \/ Ack(q) \/ Reject(q) \/ Purge(q)
        PROVE LockInv'
    BY <2>4, DeliveringKeepsLocks, SettlingKeepsLocks, StoreAssumption
  <2>5. CASE gc_segments
    BY <2>5, CollectingKeepsLocks
  <2>6. CASE ProcessCrash \/ MachineCrash \/ Shutdown
    BY <2>6, RestartFreesLocks, StoreAssumption
  <2> QED
    BY <2>1, <2>2, <2>3, <2>4, <2>5, <2>6 DEF Next
<1> QED
  BY <1>1, <1>2, PTL DEF Spec

\* Whoever blocks in a publish, in an fsync fiber or in a deliver loop holds exactly
\* the locks the code holds there (@write_lock and @awaiting_confirm_lock of
\* vhost.cr), whatever happens around it and also after a crash; in particular a
\* channel is only told of confirms under the lock, and only if it waits for them.
THEOREM LocksHeld == Spec => []Locks
<1>1. LockInv => Locks
  BY DEF LockInv
<1> QED
  BY <1>1, LockInvHolds, PTL

-----------------------------------------------------------------------------
(* Sequences of positions. *)

\* A nonempty set of numbers has a least element.
LEMMA LeastElement ==
  ASSUME NEW S \in SUBSET Nat, S # {}
  PROVE  \E n \in S : \A m \in S : n <= m
<1> DEFINE R == OpToRel(<, Nat)
<1>1. IsWellFoundedOn(R, Nat)
  BY NatLessThanWellFounded
<1>2. \A x, y \in Nat : <<x, y>> \in R <=> x < y
  BY DEF OpToRel
<1> HIDE DEF R
<1>3. PICK x \in S : \A y \in S : <<y, x>> \notin R
  BY <1>1, WFMin
<1>4. ASSUME NEW y \in S PROVE x <= y
  <2>1. ~(y < x) /\ x \in Nat /\ y \in Nat
    BY <1>2, <1>3
  <2> QED
    BY <2>1
<1> QED
  BY <1>4

\* The sequence t is s with e at place k and what was there one place further.
IsInserted(t, s, k, e) ==
  /\ t \in Seq(Nat) /\ Len(t) = Len(s) + 1
  /\ k \in 1..(Len(s) + 1) /\ t[k] = e
  /\ \A i \in 1..(k - 1) : t[i] = s[i]
  /\ \A i \in k..Len(s) : t[i + 1] = s[i]

\* The sequences low and high are the halves of s before and from place k.
IsSplit(low, high, s, k) ==
  /\ low \in Seq(Nat) /\ Len(low) = k - 1
  /\ high \in Seq(Nat) /\ Len(high) = Len(s) - k + 1
  /\ \A i \in 1..(k - 1) : low[i] = s[i]
  /\ \A i \in k..Len(s) : high[i - k + 1] = s[i]

\* Two halves of a sequence with an element between them.
LEMMA ElementBetween ==
  ASSUME NEW s \in Seq(Nat), NEW k \in 1..Len(s), NEW e \in Nat,
         NEW low, NEW high, IsSplit(low, high, s, k)
  PROVE  IsInserted((low \o <<e>>) \o high, s, k, e)
<1> DEFINE front == low \o <<e>>
           t == front \o high
<1>1. Len(s) \in Nat
  BY LenProperties
<1>2. /\ low \in Seq(Nat) /\ Len(low) = k - 1
      /\ high \in Seq(Nat) /\ Len(high) = Len(s) - k + 1
  BY DEF IsSplit
<1>3. /\ <<e>> \in Seq(Nat) /\ Len(<<e>>) = 1 /\ <<e>>[1] = e
  OBVIOUS
<1>4. /\ front \in Seq(Nat) /\ Len(front) = Len(low) + 1
      /\ \A i \in 1..(Len(low) + 1) :
           front[i] = IF i <= Len(low) THEN low[i] ELSE <<e>>[i - Len(low)]
  BY <1>2, <1>3, ConcatProperties
<1> HIDE DEF front
<1>5. /\ t \in Seq(Nat) /\ Len(t) = Len(front) + Len(high)
      /\ \A i \in 1..(Len(front) + Len(high)) :
           t[i] = IF i <= Len(front) THEN front[i] ELSE high[i - Len(front)]
  BY <1>2, <1>4, ConcatProperties
<1> HIDE DEF t
<1>6. Len(front) = k /\ Len(t) = Len(s) + 1
  BY <1>1, <1>2, <1>4, <1>5
<1>7. t[k] = e
  <2>1. k \in 1..(Len(low) + 1) /\ ~(k <= Len(low)) /\ k - Len(low) = 1
        /\ k \in 1..(Len(front) + Len(high)) /\ k <= Len(front)
    BY <1>1, <1>2, <1>6
  <2> QED
    BY <1>3, <1>4, <1>5, <2>1
<1>8. ASSUME NEW i \in 1..(k - 1) PROVE t[i] = s[i]
  <2>1. i \in 1..(Len(low) + 1) /\ i <= Len(low)
        /\ i \in 1..(Len(front) + Len(high)) /\ i <= Len(front)
    BY <1>1, <1>2, <1>6
  <2>2. low[i] = s[i]
    BY DEF IsSplit
  <2>3. t[i] = front[i]
    BY <1>5, <2>1
  <2>4. front[i] = low[i]
    BY <1>4, <2>1
  <2> QED
    BY <2>2, <2>3, <2>4
<1>9. ASSUME NEW i \in k..Len(s) PROVE t[i + 1] = s[i]
  <2>1. /\ i + 1 \in 1..(Len(front) + Len(high)) /\ ~(i + 1 <= Len(front))
        /\ (i + 1) - Len(front) = i - k + 1
    BY <1>1, <1>2, <1>6
  <2>2. high[i - k + 1] = s[i]
    BY DEF IsSplit
  <2>3. t[i + 1] = IF i + 1 <= Len(front) THEN front[i + 1] ELSE high[(i + 1) - Len(front)]
    BY <1>5, <2>1
  <2> QED
    BY <2>1, <2>2, <2>3, Zenon
<1>10. k \in 1..(Len(s) + 1)
  BY <1>1
<1>11. IsInserted(t, s, k, e)
  BY <1>5, <1>6, <1>7, <1>8, <1>9, <1>10 DEF IsInserted
<1> QED
  BY <1>11 DEF t, front

\* What InsertAt does to each place.
LEMMA InsertAtElements ==
  ASSUME NEW s \in Seq(Nat), NEW k \in 1..Len(s), NEW e \in Nat
  PROVE  IsInserted(InsertAt(s, k, e), s, k, e)
<1> DEFINE low == SubSeq(s, 1, k - 1)
           high == SubSeq(s, k, Len(s))
<1>1. Len(s) \in Nat /\ \A i \in 1..Len(s) : s[i] \in Nat
  BY LenProperties, ElementOfSeq
<1>2. /\ low \in Seq(Nat) /\ Len(low) = k - 1
      /\ \A i \in 1..(k - 1) : low[i] = s[i]
  <2>1. /\ \A i \in 1..(k - 1) : s[i] \in Nat
        /\ 1 \in Int /\ k - 1 \in Int /\ (k - 1) - 1 + 1 = k - 1
        /\ (IF 1 <= k - 1 THEN (k - 1) - 1 + 1 ELSE 0) = k - 1
        /\ \A i \in 1..(k - 1) : 1 + i - 1 = i
    BY <1>1
  <2> QED
    BY <2>1, SubSeqProperties
<1>3. /\ high \in Seq(Nat) /\ Len(high) = Len(s) - k + 1
      /\ \A i \in 1..(Len(s) - k + 1) : high[i] = s[k + i - 1]
  <2>1. /\ \A i \in k..Len(s) : s[i] \in Nat
        /\ k \in Int /\ Len(s) \in Int /\ k <= Len(s)
    BY <1>1
  <2> QED
    BY <2>1, SubSeqProperties
<1>4. InsertAt(s, k, e) = (low \o <<e>>) \o high
  BY DEF InsertAt
<1> HIDE DEF low, high
<1>5. \A i \in k..Len(s) : high[i - k + 1] = s[i]
  <2>1. \A i \in k..Len(s) : /\ i - k + 1 \in 1..(Len(s) - k + 1)
                             /\ k + (i - k + 1) - 1 = i
    BY <1>1
  <2> QED
    BY <1>3, <2>1
<1>6. IsSplit(low, high, s, k)
  BY <1>2, <1>3, <1>5 DEF IsSplit
<1> QED
  BY <1>4, <1>6, ElementBetween

\* ReadyQueue#insert puts the position before the first higher one.
LEMMA InsertedAt ==
  ASSUME NEW s \in Seq(Nat), NEW sp \in Nat
  PROVE  \E k \in 1..(Len(s) + 1) :
           /\ IsInserted(Inserted(s, sp), s, k, sp)
           /\ \A i \in 1..(k - 1) : s[i] <= sp
           /\ k <= Len(s) => s[k] > sp
<1>1. PICK I : I = {i \in 1..Len(s) : s[i] > sp}
  OBVIOUS
<1>2. Inserted(s, sp) = IF I = {} \/ Min(I) = 0 THEN Append(s, sp)
                        ELSE InsertAt(s, Min(I), sp)
  BY <1>1 DEF Inserted, SelectInSeq
<1>3. Len(s) \in Nat /\ \A i \in 1..Len(s) : s[i] \in Nat
  BY LenProperties, ElementOfSeq
<1>4. CASE I = {}
  <2>1. Inserted(s, sp) = Append(s, sp)
    BY <1>2, <1>4
  <2>2. /\ Append(s, sp) \in Seq(Nat) /\ Len(Append(s, sp)) = Len(s) + 1
        /\ Append(s, sp)[Len(s) + 1] = sp
        /\ \A i \in 1..Len(s) : Append(s, sp)[i] = s[i]
    BY AppendProperties
  <2>3. \A i \in 1..Len(s) : s[i] <= sp
    BY <1>1, <1>3, <1>4
  <2>4. /\ Len(s) + 1 \in 1..(Len(s) + 1) /\ (Len(s) + 1) - 1 = Len(s)
        /\ (Len(s) + 1)..Len(s) = {} /\ ~(Len(s) + 1 <= Len(s))
    BY <1>3
  <2>5. IsInserted(Append(s, sp), s, Len(s) + 1, sp)
    BY <2>2, <2>4 DEF IsInserted
  <2> QED
    BY <2>1, <2>3, <2>4, <2>5
<1>5. CASE I # {}
  <2>1. I \in SUBSET Nat
    BY <1>1, <1>3
  <2>2. PICK k \in I : \A i \in I : k <= i
    BY <1>5, <2>1, LeastElement
  <2>3. Min(I) \in I /\ \A i \in I : Min(I) <= i
    BY <2>2 DEF Min
  <2>4. Min(I) = k
    <3>1. Min(I) <= k /\ k <= Min(I)
      BY <2>2, <2>3, Zenon
    <3>2. Min(I) \in Nat /\ k \in Nat
      BY <2>1, <2>2, <2>3, Zenon
    <3> QED
      BY <3>1, <3>2
  <2>5. k \in 1..Len(s) /\ k # 0 /\ s[k] > sp /\ k \in 1..(Len(s) + 1)
    BY <1>1, <1>3
  <2>6. \A i \in 1..(k - 1) : s[i] <= sp
    <3> SUFFICES ASSUME NEW i \in 1..(k - 1), s[i] > sp PROVE FALSE
      BY <1>3, <2>5
    <3>1. i \in 1..Len(s) /\ ~(k <= i)
      BY <1>3, <2>5
    <3> QED
      BY <1>1, <2>2, <3>1
  <2>7. Inserted(s, sp) = InsertAt(s, k, sp)
    BY <1>2, <1>5, <2>4, <2>5
  <2>8. IsInserted(InsertAt(s, k, sp), s, k, sp)
    BY <2>5, InsertAtElements
  <2> QED
    BY <2>5, <2>6, <2>7, <2>8
<1> QED
  BY <1>4, <1>5

-----------------------------------------------------------------------------
(* What becomes of a sequence of positions when one more is inserted, and   *)
(* when it loses its head, which is the same step backwards.                *)

\* No position twice, unless it is in X.
Once(s, X) == \A i, j \in 1..Len(s) : s[i] = s[j] /\ s[i] \notin X => i = j

\* In order.
Ascending(s) == \A i, j \in 1..Len(s) : i < j => s[i] <= s[j]

\* Where the element at place i goes when one is inserted at k, and where it was.
Shifted(i, k) == IF i < k THEN i ELSE i + 1
Unshifted(i, k) == IF i < k THEN i ELSE i - 1

\* The places and the elements of a sequence.
LEMMA ElementsOfSeq ==
  ASSUME NEW s \in Seq(Nat)
  PROVE  /\ Len(s) \in Nat /\ DOMAIN s = 1..Len(s)
         /\ \A i \in 1..Len(s) : s[i] \in Nat /\ s[i] \in ToSet(s)
         /\ \A x \in ToSet(s) : \E i \in 1..Len(s) : x = s[i]
         /\ ToSet(s) \subseteq Nat
<1>1. /\ Len(s) \in Nat /\ DOMAIN s = 1..Len(s)
      /\ \A i \in 1..Len(s) : s[i] \in Nat
  BY LenProperties, ElementOfSeq
<1>2. \A x : x \in ToSet(s) <=> \E i \in DOMAIN s : x = s[i]
  BY Zenon DEF ToSet
<1> QED
  BY <1>1, <1>2

\* The elements that were there, in their new places.
LEMMA ShiftedPlace ==
  ASSUME NEW s \in Seq(Nat), NEW t, NEW k, NEW e, IsInserted(t, s, k, e),
         NEW i \in 1..Len(s)
  PROVE  /\ Shifted(i, k) \in 1..Len(t) /\ Shifted(i, k) # k
         /\ t[Shifted(i, k)] = s[i]
<1>1. Len(s) \in Nat /\ Len(t) = Len(s) + 1 /\ k \in 1..(Len(s) + 1)
  BY ElementsOfSeq DEF IsInserted
<1>2. CASE i < k
  <2>1. i \in 1..(k - 1) /\ Shifted(i, k) = i
    BY <1>1, <1>2 DEF Shifted
  <2>2. t[i] = s[i]
    BY <2>1 DEF IsInserted
  <2> QED
    BY <1>1, <1>2, <2>1, <2>2
<1>3. CASE ~(i < k)
  <2>1. i \in k..Len(s) /\ Shifted(i, k) = i + 1
    BY <1>1, <1>3 DEF Shifted
  <2>2. t[i + 1] = s[i]
    BY <2>1 DEF IsInserted
  <2> QED
    BY <1>1, <1>3, <2>1, <2>2
<1> QED
  BY <1>2, <1>3

\* And back.
LEMMA UnshiftedPlace ==
  ASSUME NEW s \in Seq(Nat), NEW t, NEW k, NEW e, IsInserted(t, s, k, e),
         NEW i \in 1..Len(t), i # k
  PROVE  /\ Unshifted(i, k) \in 1..Len(s)
         /\ Shifted(Unshifted(i, k), k) = i
         /\ t[i] = s[Unshifted(i, k)]
<1>1. Len(s) \in Nat /\ Len(t) = Len(s) + 1 /\ k \in 1..(Len(s) + 1)
  BY ElementsOfSeq DEF IsInserted
<1>2. Unshifted(i, k) \in 1..Len(s) /\ Shifted(Unshifted(i, k), k) = i
  BY <1>1 DEF Unshifted, Shifted
<1> QED
  BY <1>2, ShiftedPlace

\* An insert adds its element and no other.
LEMMA InsertedElements ==
  ASSUME NEW s \in Seq(Nat), NEW t, NEW k, NEW e \in Nat, IsInserted(t, s, k, e)
  PROVE  ToSet(t) = ToSet(s) \union {e}
<1>1. t \in Seq(Nat) /\ k \in 1..Len(t) /\ t[k] = e
  BY ElementsOfSeq DEF IsInserted
<1>2. e \in ToSet(t)
  BY <1>1, ElementsOfSeq
<1>3. ASSUME NEW x \in ToSet(s) PROVE x \in ToSet(t)
  <2>1. PICK i \in 1..Len(s) : x = s[i]
    BY ElementsOfSeq
  <2>2. Shifted(i, k) \in 1..Len(t) /\ t[Shifted(i, k)] = x
    BY <2>1, ShiftedPlace
  <2> QED
    BY <1>1, <2>2, ElementsOfSeq
<1>4. ASSUME NEW x \in ToSet(t), x # e PROVE x \in ToSet(s)
  <2>1. PICK i \in 1..Len(t) : x = t[i]
    BY <1>1, ElementsOfSeq
  <2>2. i # k
    BY <1>1, <1>4, <2>1
  <2> QED
    BY <2>1, <2>2, UnshiftedPlace, ElementsOfSeq
<1> QED
  BY <1>2, <1>3, <1>4

\* An insert repeats no position unless the one inserted was there.
LEMMA InsertedOnce ==
  ASSUME NEW s \in Seq(Nat), NEW t, NEW k, NEW e \in Nat, IsInserted(t, s, k, e), NEW X
  PROVE  Once(t, X) <=> Once(s, X) /\ (e \in ToSet(s) => e \in X)
<1>1. t \in Seq(Nat) /\ k \in 1..Len(t) /\ t[k] = e
  BY ElementsOfSeq DEF IsInserted
<1>2. ASSUME Once(t, X) PROVE Once(s, X)
  <2> SUFFICES ASSUME NEW i \in 1..Len(s), NEW j \in 1..Len(s),
                      s[i] = s[j], s[i] \notin X
               PROVE  i = j
    BY DEF Once
  <2>1. Shifted(i, k) = Shifted(j, k)
    BY <1>2, ShiftedPlace DEF Once
  <2>2. i \in Int /\ j \in Int /\ k \in Int
    BY <1>1, ElementsOfSeq
  <2> QED
    BY <2>1, <2>2 DEF Shifted
<1>3. ASSUME Once(t, X), e \in ToSet(s) PROVE e \in X
  <2>1. PICK i \in 1..Len(s) : e = s[i]
    BY <1>3, ElementsOfSeq
  <2>2. Shifted(i, k) \in 1..Len(t) /\ Shifted(i, k) # k /\ t[Shifted(i, k)] = t[k]
    BY <1>1, <2>1, ShiftedPlace
  <2> QED
    BY <1>1, <1>3, <2>2 DEF Once
<1>4. ASSUME Once(s, X), e \in ToSet(s) => e \in X PROVE Once(t, X)
  <2> SUFFICES ASSUME NEW i \in 1..Len(t), NEW j \in 1..Len(t),
                      t[i] = t[j], t[i] \notin X
               PROVE  i = j
    BY DEF Once
  <2>1. ASSUME NEW m \in 1..Len(t), m # k, t[m] \notin X PROVE t[m] # e
    BY <1>4, <2>1, UnshiftedPlace, ElementsOfSeq
  <2>2. CASE i = k \/ j = k
    BY <1>1, <2>1, <2>2
  <2>3. CASE i # k /\ j # k
    <3>1. Unshifted(i, k) = Unshifted(j, k)
      BY <1>4, <2>3, UnshiftedPlace DEF Once
    <3> QED
      BY <2>3, <3>1, UnshiftedPlace
  <2> QED
    BY <2>2, <2>3
<1> QED
  BY <1>2, <1>3, <1>4

\* Order with and without the inserted position.
LEMMA InsertedAscending ==
  ASSUME NEW s \in Seq(Nat), NEW t, NEW k, NEW e \in Nat, IsInserted(t, s, k, e)
  PROVE  /\ Ascending(t) => Ascending(s)
         /\ /\ Ascending(s) /\ \A i \in 1..(k - 1) : s[i] <= e
            /\ k <= Len(s) => s[k] > e
            => Ascending(t)
<1>1. /\ t \in Seq(Nat) /\ k \in 1..Len(t) /\ t[k] = e /\ Len(t) = Len(s) + 1
      /\ Len(s) \in Nat
  BY ElementsOfSeq DEF IsInserted
<1>2. ASSUME Ascending(t) PROVE Ascending(s)
  <2> SUFFICES ASSUME NEW i \in 1..Len(s), NEW j \in 1..Len(s), i < j
               PROVE  s[i] <= s[j]
    BY DEF Ascending
  <2>1. Shifted(i, k) < Shifted(j, k)
    BY <1>1 DEF Shifted
  <2>2. /\ Shifted(i, k) \in 1..Len(t) /\ t[Shifted(i, k)] = s[i]
        /\ Shifted(j, k) \in 1..Len(t) /\ t[Shifted(j, k)] = s[j]
    BY ShiftedPlace
  <2>3. t[Shifted(i, k)] <= t[Shifted(j, k)]
    BY <1>2, <2>1, <2>2 DEF Ascending
  <2> QED
    BY <2>2, <2>3
<1>3. ASSUME Ascending(s), \A i \in 1..(k - 1) : s[i] <= e, k <= Len(s) => s[k] > e
      PROVE  Ascending(t)
  <2> SUFFICES ASSUME NEW i \in 1..Len(t), NEW j \in 1..Len(t), i < j
               PROVE  t[i] <= t[j]
    BY DEF Ascending
  <2>1. CASE i = k
    <3>1. k \in 1..Len(s) /\ s[k] > e
      BY <1>1, <1>3, <2>1
    <3>2. PICK m \in 1..Len(s) : m = Unshifted(j, k) /\ t[j] = s[m]
      BY <2>1, UnshiftedPlace
    <3>3. m = k \/ k < m
      BY <1>1, <2>1, <3>2 DEF Unshifted
    <3>4. s[k] <= s[m]
      <4>1. CASE m = k
        BY <3>1, <4>1, ElementsOfSeq
      <4>2. CASE k < m
        BY <1>3, <3>1, <4>2 DEF Ascending
      <4> QED
        BY <3>3, <4>1, <4>2
    <3>5. s[k] \in Nat /\ s[m] \in Nat
      BY <3>1, ElementsOfSeq
    <3>6. e <= s[m]
      BY <3>1, <3>4, <3>5
    <3> QED
      BY <1>1, <2>1, <3>2, <3>6
  <2>2. CASE j = k
    <3>1. i \in 1..(k - 1) /\ i \in 1..Len(s) /\ i < k
      BY <1>1, <2>2
    <3>2. t[i] = s[i]
      BY <3>1 DEF IsInserted
    <3>3. s[i] <= e
      BY <1>3, <3>1
    <3> QED
      BY <1>1, <2>2, <3>2, <3>3
  <2>3. CASE i # k /\ j # k
    <3>1. /\ Unshifted(i, k) \in 1..Len(s) /\ t[i] = s[Unshifted(i, k)]
          /\ Unshifted(j, k) \in 1..Len(s) /\ t[j] = s[Unshifted(j, k)]
      BY <2>3, UnshiftedPlace
    <3>2. Unshifted(i, k) < Unshifted(j, k)
      BY <1>1, <2>3 DEF Unshifted
    <3>3. s[Unshifted(i, k)] <= s[Unshifted(j, k)]
      BY <1>3, <3>1, <3>2 DEF Ascending
    <3> QED
      BY <3>1, <3>3
  <2> QED
    BY <2>1, <2>2, <2>3
<1> QED
  BY <1>2, <1>3

\* A sequence that gets one more at its end.
LEMMA AppendInserts ==
  ASSUME NEW s \in Seq(Nat), NEW e \in Nat
  PROVE  IsInserted(Append(s, e), s, Len(s) + 1, e)
<1>1. /\ Append(s, e) \in Seq(Nat) /\ Len(Append(s, e)) = Len(s) + 1
      /\ Append(s, e)[Len(s) + 1] = e
      /\ \A i \in 1..Len(s) : Append(s, e)[i] = s[i]
  BY AppendProperties
<1>2. /\ Len(s) \in Nat /\ Len(s) + 1 \in 1..(Len(s) + 1) /\ (Len(s) + 1) - 1 = Len(s)
      /\ (Len(s) + 1)..Len(s) = {}
  BY LenProperties
<1> QED
  BY <1>1, <1>2 DEF IsInserted

\* A sequence that loses its head.
LEMMA HeadInserted ==
  ASSUME NEW s \in Seq(Nat), s # <<>>
  PROVE  /\ Head(s) \in Nat /\ Tail(s) \in Seq(Nat)
         /\ IsInserted(s, Tail(s), 1, Head(s))
<1>1. /\ Head(s) \in Nat /\ Tail(s) \in Seq(Nat) /\ Len(Tail(s)) = Len(s) - 1
      /\ \A i \in 1..Len(Tail(s)) : Tail(s)[i] = s[i + 1]
      /\ Head(s) = s[1]
  BY HeadTailProperties
<1>2. Len(s) \in Nat /\ Len(s) > 0
  BY LenProperties, EmptySeq
<1>3. /\ Len(s) = Len(Tail(s)) + 1 /\ 1 \in 1..(Len(Tail(s)) + 1) /\ 1..(1 - 1) = {}
  BY <1>1, <1>2
<1> QED
  BY <1>1, <1>3 DEF IsInserted

-----------------------------------------------------------------------------
(* The numbers of a finite set in order, and what a restart makes of an     *)
(* index.                                                                   *)

\* The sequence s holds the numbers of S, from the least up.
SortedFrom(s, S) ==
  /\ s \in Seq(Nat) /\ ToSet(s) = S
  /\ \A i, j \in 1..Len(s) : i < j => s[i] < s[j]

\* How many numbers of S are below x.
Below(S, x) == {y \in S : y < x}
Rank(S, x) == Cardinality(Below(S, x))

\* Who is lower has fewer below.
LEMMA RankGrows ==
  ASSUME NEW S \in SUBSET Nat, IsFiniteSet(S), NEW x \in S, NEW z \in Nat, x < z
  PROVE  /\ Rank(S, x) \in Nat /\ Rank(S, z) \in Nat
         /\ Rank(S, x) < Rank(S, z) /\ Rank(S, z) <= Cardinality(S)
<1>1. Below(S, z) \in SUBSET S /\ Below(S, x) \in SUBSET Below(S, z)
  <2>1. \A y \in S : y < x => y < z
    <3> SUFFICES ASSUME NEW y \in S, y < x PROVE y < z
      OBVIOUS
    <3>1. y \in Nat /\ x \in Nat
      OBVIOUS
    <3> QED
      BY <3>1
  <2> QED
    BY <2>1 DEF Below
<1>2. x \in Below(S, z) /\ x \notin Below(S, x)
  BY DEF Below
<1>3. /\ IsFiniteSet(Below(S, z)) /\ Cardinality(Below(S, z)) <= Cardinality(S)
  BY <1>1, FS_Subset
<1>4. /\ IsFiniteSet(Below(S, x)) /\ Cardinality(Below(S, x)) <= Cardinality(Below(S, z))
      /\ Cardinality(Below(S, z)) = Cardinality(Below(S, x)) => Below(S, z) = Below(S, x)
  BY <1>1, <1>3, FS_Subset
<1>5. Cardinality(Below(S, x)) \in Nat /\ Cardinality(Below(S, z)) \in Nat
  BY <1>3, <1>4, FS_CardinalityType
<1>6. Cardinality(Below(S, x)) # Cardinality(Below(S, z))
  BY <1>2, <1>4
<1> QED
  BY <1>3, <1>4, <1>5, <1>6 DEF Rank

\* Fewer numbers are below one of a set than the set has.
LEMMA RankBounded ==
  ASSUME NEW S \in SUBSET Nat, IsFiniteSet(S), NEW x \in S
  PROVE  Rank(S, x) \in 0..(Cardinality(S) - 1) /\ Cardinality(S) \in Nat
<1>1. x + 1 \in Nat /\ x < x + 1
  OBVIOUS
<1>2. /\ Rank(S, x) \in Nat /\ Rank(S, x + 1) \in Nat
      /\ Rank(S, x) < Rank(S, x + 1) /\ Rank(S, x + 1) <= Cardinality(S)
  BY <1>1, RankGrows
<1>3. Cardinality(S) \in Nat
  BY FS_CardinalityType
<1> QED
  BY <1>2, <1>3

\* Every rank is somebody's.
LEMMA RanksTaken ==
  ASSUME NEW S \in SUBSET Nat, IsFiniteSet(S), NEW r \in 0..(Cardinality(S) - 1)
  PROVE  \E x \in S : Rank(S, x) = r
<1>1. PICK n \in Nat : n = Cardinality(S)
  BY FS_CardinalityType
<1>2. PICK f : f = [x \in S |-> Rank(S, x)]
  OBVIOUS
<1>3. f \in [S -> 0..(n - 1)]
  BY <1>1, <1>2, RankBounded
<1>4. \A x, z \in S : f[x] = f[z] => x = z
  <2> SUFFICES ASSUME NEW x \in S, NEW z \in S, x # z PROVE f[x] # f[z]
    OBVIOUS
  <2>1. x \in Nat /\ z \in Nat /\ f[x] = Rank(S, x) /\ f[z] = Rank(S, z)
    BY <1>2
  <2>2. CASE x < z
    <3>1. Rank(S, x) \in Nat /\ Rank(S, z) \in Nat /\ Rank(S, x) < Rank(S, z)
      BY <2>1, <2>2, RankGrows
    <3> QED
      BY <2>1, <3>1
  <2>3. CASE z < x
    <3>1. Rank(S, x) \in Nat /\ Rank(S, z) \in Nat /\ Rank(S, z) < Rank(S, x)
      BY <2>1, <2>3, RankGrows
    <3> QED
      BY <2>1, <3>1
  <2> QED
    BY <2>1, <2>2, <2>3
<1>5. f \in Injection(S, 0..(n - 1))
  BY <1>3, <1>4 DEF Injection, IsInjective
<1>6. IsFiniteSet(0..(n - 1)) /\ Cardinality(0..(n - 1)) = n
  BY FS_Interval
<1>7. f \in Surjection(S, 0..(n - 1))
  BY <1>1, <1>5, <1>6, FS_Injection
<1>8. \A y \in 0..(n - 1) : \E x \in S : f[x] = y
  BY <1>7 DEF Surjection
<1> QED
  BY <1>1, <1>2, <1>8

\* Sorted is what its name says.
LEMMA SortedSet ==
  ASSUME NEW S \in SUBSET Nat, IsFiniteSet(S)
  PROVE  SortedFrom(Sorted(S), S)
<1>1. PICK n \in Nat : n = Cardinality(S)
  BY FS_CardinalityType
<1>2. PICK s : s = Sorted(S)
  OBVIOUS
<1>3. s = [i \in 1..n |-> CHOOSE x \in S : Rank(S, x) = i - 1]
  BY <1>1, <1>2 DEF Sorted, Rank, Below
<1>4. ASSUME NEW i \in 1..n PROVE s[i] \in S /\ Rank(S, s[i]) = i - 1
  <2>1. i - 1 \in 0..(n - 1)
    OBVIOUS
  <2>2. \E x \in S : Rank(S, x) = i - 1
    BY <1>1, <2>1, RanksTaken
  <2> QED
    BY <1>3, <2>2
<1>5. s \in Seq(Nat) /\ Len(s) = n
  <2>1. s \in [1..n -> Nat]
    BY <1>3, <1>4
  <2> QED
    BY <2>1
<1>6. ASSUME NEW i \in 1..n, NEW j \in 1..n, i < j PROVE s[i] < s[j]
  <2>1. /\ s[i] \in S /\ Rank(S, s[i]) = i - 1
        /\ s[j] \in S /\ Rank(S, s[j]) = j - 1
    BY <1>4
  <2>2. s[i] \in Nat /\ s[j] \in Nat
    BY <2>1
  <2>3. s[i] # s[j]
    BY <2>1, <1>6
  <2>4. ~(s[j] < s[i])
    <3> SUFFICES ASSUME s[j] < s[i] PROVE FALSE
      OBVIOUS
    <3>1. Rank(S, s[j]) < Rank(S, s[i])
      BY <2>1, <2>2, RankGrows
    <3> QED
      BY <2>1, <3>1, <1>6
  <2> QED
    BY <2>2, <2>3, <2>4
<1>7. ToSet(s) = S
  <2>1. ASSUME NEW x \in ToSet(s) PROVE x \in S
    <3>1. PICK i \in 1..n : x = s[i]
      BY <1>5, ElementsOfSeq
    <3> QED
      BY <1>4, <3>1
  <2>2. ASSUME NEW x \in S PROVE x \in ToSet(s)
    <3>1. Rank(S, x) \in 0..(n - 1)
      BY <1>1, RankBounded
    <3>2. PICK i \in 1..n : i - 1 = Rank(S, x)
      <4>1. Rank(S, x) + 1 \in 1..n /\ (Rank(S, x) + 1) - 1 = Rank(S, x)
        BY <3>1
      <4> QED
        BY <4>1
    <3>3. s[i] \in S /\ Rank(S, s[i]) = Rank(S, x)
      BY <1>4, <3>2
    <3>4. s[i] \in Nat /\ x \in Nat
      BY <3>3
    <3>5. ~(s[i] < x) /\ ~(x < s[i])
      <4>1. ASSUME s[i] < x PROVE FALSE
        <5>1. Rank(S, s[i]) < Rank(S, x) /\ Rank(S, x) \in Nat
          BY <3>3, <3>4, <4>1, RankGrows
        <5> QED
          BY <3>3, <5>1
      <4>2. ASSUME x < s[i] PROVE FALSE
        <5>1. Rank(S, x) < Rank(S, s[i]) /\ Rank(S, x) \in Nat
          BY <3>3, <3>4, <4>2, RankGrows
        <5> QED
          BY <3>3, <5>1
      <4> QED
        BY <4>1, <4>2
    <3>6. s[i] = x
      BY <3>4, <3>5
    <3> QED
      BY <1>5, <3>6, ElementsOfSeq
  <2> QED
    BY <2>1, <2>2
<1> QED
  BY <1>2, <1>5, <1>6, <1>7 DEF SortedFrom


\* restore_index makes the positions ready that are in the enq file and not in the
\* ack file, in the order of the enq file.
LEMMA RestoredElements ==
  ASSUME NEW ix, ix.enq \in Seq(Nat)
  PROVE  /\ Restored(ix) \in Seq(Nat) /\ ToSet(Restored(ix)) = Live(ix)
         /\ \A X : Once(ix.enq, X) => Once(Restored(ix), X)
         /\ Ascending(ix.enq) => Ascending(Restored(ix))
<1>1. PICK enq \in Seq(Nat) : enq = ix.enq
  OBVIOUS
<1>2. PICK A : A = ToSet(ix.ack)
  OBVIOUS
<1>3. PICK K : K = {i \in 1..Len(enq) : enq[i] \notin A}
  OBVIOUS
<1>4. PICK kept : kept = Sorted(K)
  OBVIOUS
<1>5. PICK t : t = [k \in DOMAIN kept |-> enq[kept[k]]]
  OBVIOUS
<1>6. /\ Len(enq) \in Nat /\ DOMAIN enq = 1..Len(enq)
      /\ \A i \in 1..Len(enq) : enq[i] \in Nat /\ enq[i] \in ToSet(enq)
      /\ \A x \in ToSet(enq) : \E i \in 1..Len(enq) : x = enq[i]
  BY ElementsOfSeq
<1>7. Restored(ix) = t
  <2>1. {i \in DOMAIN ix.enq : ix.enq[i] \notin ToSet(ix.ack)} = K
    BY <1>1, <1>2, <1>3, <1>6
  <2>2. Restored(ix) = [k \in DOMAIN Sorted(K) |-> ix.enq[Sorted(K)[k]]]
    BY <2>1 DEF Restored
  <2> QED
    BY <1>1, <1>4, <1>5, <2>2
<1>8. Live(ix) = ToSet(enq) \ A
  BY <1>1, <1>2 DEF Live
<1>9. K \in SUBSET Nat /\ IsFiniteSet(K)
  <2>1. K \in SUBSET (1..Len(enq)) /\ IsFiniteSet(1..Len(enq))
    BY <1>3, <1>6, FS_Interval
  <2>2. IsFiniteSet(K)
    BY <2>1, FS_Subset
  <2>3. K \in SUBSET Nat
    BY <1>6, <2>1
  <2> QED
    BY <2>2, <2>3
<1>10. SortedFrom(kept, K)
  BY <1>4, <1>9, SortedSet
<1>11. /\ kept \in Seq(Nat) /\ ToSet(kept) = K
       /\ \A i, j \in 1..Len(kept) : i < j => kept[i] < kept[j]
  BY <1>10 DEF SortedFrom
<1>12. PICK n \in Nat : n = Len(kept)
  BY <1>11, ElementsOfSeq
<1>13. /\ DOMAIN kept = 1..n
       /\ \A k \in 1..n : kept[k] \in Nat /\ kept[k] \in K
       /\ \A i \in K : \E k \in 1..n : kept[k] = i
  BY <1>11, <1>12, ElementsOfSeq
<1>14. \A i, j \in 1..n : i < j => kept[i] < kept[j]
  BY <1>11, <1>12
<1>15. /\ \A k \in 1..n : /\ t[k] = enq[kept[k]] /\ kept[k] \in 1..Len(enq)
                          /\ t[k] \in Nat /\ t[k] \in ToSet(enq) /\ t[k] \notin A
       /\ t \in [1..n -> Nat]
  BY <1>3, <1>5, <1>6, <1>13
<1>16. t \in Seq(Nat) /\ Len(t) = n
  BY <1>15
<1>17. ToSet(t) = ToSet(enq) \ A
  <2>1. ASSUME NEW x \in ToSet(t) PROVE x \in ToSet(enq) \ A
    <3>1. PICK k \in 1..n : x = t[k]
      BY <1>16, ElementsOfSeq
    <3> QED
      BY <1>15, <3>1
  <2>2. ASSUME NEW x \in ToSet(enq) \ A PROVE x \in ToSet(t)
    <3>1. PICK i \in 1..Len(enq) : x = enq[i]
      BY <1>6
    <3>2. i \in K
      BY <1>3, <3>1
    <3>3. PICK k \in 1..n : kept[k] = i
      BY <1>13, <3>2
    <3>4. t[k] = x
      BY <1>15, <3>1, <3>3
    <3> QED
      BY <1>16, <3>4, ElementsOfSeq
  <2> QED
    BY <2>1, <2>2
<1>18. ASSUME NEW X, Once(enq, X) PROVE Once(t, X)
  <2> SUFFICES ASSUME NEW i \in 1..n, NEW j \in 1..n, t[i] = t[j], t[i] \notin X
               PROVE  i = j
    BY <1>16 DEF Once
  <2>1. kept[i] = kept[j]
    BY <1>15, <1>18 DEF Once
  <2>2. ~(i < j) /\ ~(j < i)
    <3>1. kept[i] \in Nat /\ kept[j] \in Nat
      BY <1>13
    <3>2. ~(kept[i] < kept[j]) /\ ~(kept[j] < kept[i])
      BY <2>1, <3>1
    <3> QED
      BY <1>14, <3>2
  <2> QED
    BY <2>2
<1>19. ASSUME Ascending(enq) PROVE Ascending(t)
  <2> SUFFICES ASSUME NEW i \in 1..n, NEW j \in 1..n, i < j PROVE t[i] <= t[j]
    BY <1>16 DEF Ascending
  <2>1. kept[i] < kept[j]
    BY <1>14
  <2>2. kept[i] \in 1..Len(enq) /\ kept[j] \in 1..Len(enq)
    BY <1>15
  <2>3. enq[kept[i]] <= enq[kept[j]]
    BY <1>19, <2>1, <2>2 DEF Ascending
  <2> QED
    BY <1>15, <2>3
<1> QED
  BY <1>1, <1>7, <1>8, <1>16, <1>17, <1>18, <1>19

-----------------------------------------------------------------------------
(* The index files of a queue.                                              *)

IndexFiles == [enq : Seq(Nat), synced : Nat, ack : Seq(Nat)]

\* What the files dx say after delete_message, compaction included.
IsDeleted(dx, ix, sp, M) ==
  /\ dx \in IndexFiles
  /\ Full(ix) => /\ ToSet(dx.enq) = M /\ ToSet(dx.ack) = {} /\ Live(dx) = M
                 /\ dx.synced = 0 /\ Len(dx.ack) = 0
                 /\ Ascending(dx.enq) /\ \A X : Once(dx.enq, X)
  /\ ~Full(ix) => /\ dx.enq = ix.enq /\ dx.synced = ix.synced
                  /\ ToSet(dx.ack) = ToSet(ix.ack) \union {sp}
                  /\ Live(dx) = Live(ix) \ {sp}
                  /\ Len(dx.ack) <= AckMax

\* Deleted is what IsDeleted says.
LEMMA DeletedFiles ==
  ASSUME NEW ix \in IndexFiles, NEW sp \in Nat, NEW M \in SUBSET Nat, IsFiniteSet(M),
         StoreAssumption
  PROVE  IsDeleted(Deleted(ix, sp, M), ix, sp, M)
<1> DEFINE dx == Deleted(ix, sp, M)
<1>1. ix.enq \in Seq(Nat) /\ ix.synced \in Nat /\ ix.ack \in Seq(Nat)
  BY DEF IndexFiles
<1>2. CASE Full(ix)
  <2>1. dx = [enq |-> Sorted(M), synced |-> 0, ack |-> <<>>]
    BY <1>2 DEF Deleted
  <2>2. SortedFrom(Sorted(M), M)
    BY SortedSet
  <2>3. /\ Sorted(M) \in Seq(Nat) /\ ToSet(Sorted(M)) = M
        /\ \A i, j \in 1..Len(Sorted(M)) : i < j => Sorted(M)[i] < Sorted(M)[j]
    BY <2>2 DEF SortedFrom
  <2>4. /\ dx.enq = Sorted(M) /\ dx.synced = 0 /\ dx.ack = <<>>
    BY <2>1
  <2>5. dx \in IndexFiles
    BY <2>1, <2>3 DEF IndexFiles
  <2>6. ToSet(<<>>) = {}
    BY DEF ToSet
  <2>7. Live(dx) = M
    BY <2>3, <2>4, <2>6 DEF Live
  <2>8. PICK s : s = Sorted(M)
    OBVIOUS
  <2>9. /\ Len(s) \in Nat /\ \A i \in 1..Len(s) : s[i] \in Nat
        /\ \A i, j \in 1..Len(s) : i < j => s[i] < s[j]
    BY <2>3, <2>8, ElementsOfSeq
  <2>10. Ascending(s)
    BY <2>9 DEF Ascending
  <2>11. \A X : Once(s, X)
    <3> SUFFICES ASSUME NEW i \in 1..Len(s), NEW j \in 1..Len(s), s[i] = s[j] PROVE i = j
      BY DEF Once
    <3>1. s[i] \in Nat /\ ~(s[i] < s[j]) /\ ~(s[j] < s[i])
      BY <2>9
    <3>2. ~(i < j) /\ ~(j < i)
      BY <2>9, <3>1
    <3> QED
      BY <2>9, <3>2
  <2> QED
    BY <1>2, <2>3, <2>4, <2>5, <2>6, <2>7, <2>8, <2>10, <2>11 DEF IsDeleted
<1>3. CASE ~Full(ix)
  <2>1. dx = [ix EXCEPT !.ack = Append(@, sp)]
    BY <1>3 DEF Deleted
  <2>2. /\ Append(ix.ack, sp) \in Seq(Nat) /\ Len(Append(ix.ack, sp)) = Len(ix.ack) + 1
    BY <1>1, AppendProperties
  <2>3. dx.enq = ix.enq /\ dx.synced = ix.synced /\ dx.ack = Append(ix.ack, sp)
    BY <2>1 DEF IndexFiles
  <2>4. dx \in IndexFiles
    BY <2>1, <2>2 DEF IndexFiles
  <2>5. ToSet(Append(ix.ack, sp)) = ToSet(ix.ack) \union {sp}
    BY <1>1, AppendInserts, InsertedElements
  <2>6. Live(dx) = Live(ix) \ {sp}
    BY <2>3, <2>5 DEF Live
  <2>7. Len(ix.ack) \in Nat /\ AckMax \in Nat
    BY <1>1, LenProperties, StoreAssumption DEF StoreAssumption
  <2>8. Len(ix.ack) + 1 <= AckMax
    BY <1>3, <2>7 DEF Full
  <2> QED
    BY <1>3, <2>2, <2>3, <2>4, <2>5, <2>6, <2>8 DEF IsDeleted
<1> QED
  BY <1>2, <1>3

\* What they say after a publish.
LEMMA EnqueuedFiles ==
  ASSUME NEW ix \in IndexFiles, NEW sp \in Nat
  PROVE  LET ex == Enqueued(ix, sp)
         IN  /\ ex \in IndexFiles
             /\ ex.enq = Append(ix.enq, sp) /\ ex.synced = ix.synced /\ ex.ack = ix.ack
             /\ ToSet(ex.enq) = ToSet(ix.enq) \union {sp}
             /\ Len(ex.enq) = Len(ix.enq) + 1
             /\ Live(ex) = Live(ix) \union ({sp} \ ToSet(ix.ack))
             /\ \A X : Once(ex.enq, X) <=> Once(ix.enq, X)
                                            /\ (sp \in ToSet(ix.enq) => sp \in X)
             /\ Ascending(ix.enq) /\ (\A x \in ToSet(ix.enq) : x <= sp)
                  => Ascending(ex.enq)
<1> DEFINE ex == Enqueued(ix, sp)
<1>1. ix.enq \in Seq(Nat) /\ ix.synced \in Nat /\ ix.ack \in Seq(Nat)
  BY DEF IndexFiles
<1>2. ex = [ix EXCEPT !.enq = Append(@, sp)]
  BY DEF Enqueued
<1>3. ex.enq = Append(ix.enq, sp) /\ ex.synced = ix.synced /\ ex.ack = ix.ack
  BY <1>2 DEF IndexFiles
<1>4. Append(ix.enq, sp) \in Seq(Nat) /\ Len(Append(ix.enq, sp)) = Len(ix.enq) + 1
  BY <1>1, AppendProperties
<1>5. ex \in IndexFiles
  BY <1>2, <1>4 DEF IndexFiles
<1>6. IsInserted(Append(ix.enq, sp), ix.enq, Len(ix.enq) + 1, sp)
  BY <1>1, AppendInserts
<1>7. ToSet(Append(ix.enq, sp)) = ToSet(ix.enq) \union {sp}
  BY <1>1, <1>6, InsertedElements
<1>8. Live(ex) = Live(ix) \union ({sp} \ ToSet(ix.ack))
  BY <1>3, <1>7 DEF Live
<1>9. \A X : Once(Append(ix.enq, sp), X)
               <=> Once(ix.enq, X) /\ (sp \in ToSet(ix.enq) => sp \in X)
  BY <1>1, <1>6, InsertedOnce
<1>10. Ascending(ix.enq) /\ (\A x \in ToSet(ix.enq) : x <= sp)
         => Ascending(Append(ix.enq, sp))
  <2> SUFFICES ASSUME Ascending(ix.enq), \A x \in ToSet(ix.enq) : x <= sp
               PROVE  Ascending(Append(ix.enq, sp))
    OBVIOUS
  <2>1. \A i \in 1..Len(ix.enq) : ix.enq[i] <= sp
    BY <1>1, ElementsOfSeq
  <2>2. Len(ix.enq) \in Nat /\ (Len(ix.enq) + 1) - 1 = Len(ix.enq)
        /\ ~(Len(ix.enq) + 1 <= Len(ix.enq))
    BY <1>1, LenProperties
  <2> QED
    BY <1>1, <1>6, <2>1, <2>2, InsertedAscending
<1> QED
  BY <1>3, <1>4, <1>5, <1>7, <1>8, <1>9, <1>10

-----------------------------------------------------------------------------
(* One queue: the index files ix, the ready deque r, the unacked positions  *)
(* u, what a delivery in flight took (t) or holds unacked (h), the settled  *)
(* positions st; X are the spoiled positions and P all positions there are. *)

Contained(ix, r, u, t, st, P) ==
  /\ ix \in IndexFiles /\ r \in Seq(Nat)
  /\ ToSet(r) \subseteq P /\ u \subseteq P /\ t \subseteq P
  /\ ToSet(ix.enq) \subseteq P /\ ToSet(ix.ack) \subseteq P /\ ToSet(ix.ack) \subseteq st
  /\ ix.synced <= Len(ix.enq) /\ Len(ix.ack) <= AckMax

Held(r, u, t) == (ToSet(r) \union u) \union t

\* The files say what the memory says.
Exact(ix, r, u, t, X) == Live(ix) \ X = Held(r, u, t) \ X

\* A position is in one place.
Single(ix, r, u, t, h, X) ==
  /\ Once(r, X) /\ Once(ix.enq, X)
  /\ ToSet(r) \intersect u \subseteq X /\ t \intersect (ToSet(r) \union u) \subseteq X
  /\ h \subseteq u

Tidy(ix, r, u, t, h, st, X, P) ==
  Contained(ix, r, u, t, st, P) /\ Exact(ix, r, u, t, X) /\ Single(ix, r, u, t, h, X)

\* Nothing happens to the queue while others settle, publish or spoil positions.
LEMMA TidyWider ==
  ASSUME NEW ix, NEW r, NEW u, NEW t, NEW h, NEW st, NEW X, NEW P,
         NEW st2, NEW X2, NEW P2,
         Tidy(ix, r, u, t, h, st, X, P), st \subseteq st2, X \subseteq X2, P \subseteq P2
  PROVE  Tidy(ix, r, u, t, h, st2, X2, P2)
<1>1. Contained(ix, r, u, t, st2, P2)
  BY DEF Tidy, Contained
<1>2. Exact(ix, r, u, t, X2)
  BY DEF Tidy, Exact
<1>3. \A s : Once(s, X) => Once(s, X2)
  BY DEF Once
<1>4. Single(ix, r, u, t, h, X2)
  BY <1>3 DEF Tidy, Single
<1> QED
  BY <1>1, <1>2, <1>4 DEF Tidy

\* A publish: the new position goes to the end of the deque and of the enq file.
LEMMA TidyEnqueued ==
  ASSUME NEW ix, NEW r, NEW u, NEW t, NEW h, NEW st, NEW X, NEW P,
         Tidy(ix, r, u, t, h, st, X, P), NEW sp \in Nat, sp \notin ToSet(ix.ack),
         sp \in ToSet(ix.enq) \union Held(r, u, t) => sp \in X
  PROVE  Tidy(Enqueued(ix, sp), Append(r, sp), u, t, h, st, X, P \union {sp})
<1>1. /\ ix \in IndexFiles /\ r \in Seq(Nat) /\ ix.synced <= Len(ix.enq)
      /\ ix.synced \in Nat /\ ix.enq \in Seq(Nat)
  BY DEF Tidy, Contained, IndexFiles
<1>2. PICK ex : ex = Enqueued(ix, sp)
  OBVIOUS
<1>3. /\ ex \in IndexFiles /\ ex.synced = ix.synced /\ ex.ack = ix.ack
      /\ ToSet(ex.enq) = ToSet(ix.enq) \union {sp}
      /\ Len(ex.enq) = Len(ix.enq) + 1
      /\ Live(ex) = Live(ix) \union ({sp} \ ToSet(ix.ack))
      /\ \A Y : Once(ex.enq, Y) <=> Once(ix.enq, Y) /\ (sp \in ToSet(ix.enq) => sp \in Y)
  BY <1>1, <1>2, EnqueuedFiles
<1>4. IsInserted(Append(r, sp), r, Len(r) + 1, sp) /\ Append(r, sp) \in Seq(Nat)
  BY <1>1, AppendInserts, AppendProperties
<1>5. ToSet(Append(r, sp)) = ToSet(r) \union {sp}
  BY <1>1, <1>4, InsertedElements
<1>6. Once(Append(r, sp), X) <=> Once(r, X) /\ (sp \in ToSet(r) => sp \in X)
  BY <1>1, <1>4, InsertedOnce
<1>7. ex.synced <= Len(ex.enq)
  BY <1>1, <1>3, LenProperties
<1>8. Contained(ex, Append(r, sp), u, t, st, P \union {sp})
  BY <1>3, <1>4, <1>5, <1>7 DEF Tidy, Contained
<1>9. sp \notin ToSet(ix.ack)
      /\ (sp \in ToSet(r) => sp \in X) /\ (sp \in ToSet(ix.enq) => sp \in X)
      /\ (sp \in u => sp \in X) /\ (sp \in t => sp \in X)
  BY DEF Held
<1>10. Exact(ex, Append(r, sp), u, t, X)
  BY <1>3, <1>5, <1>9 DEF Tidy, Exact, Held
<1>11. Single(ex, Append(r, sp), u, t, h, X)
  BY <1>3, <1>5, <1>6, <1>9 DEF Tidy, Single
<1> QED
  BY <1>2, <1>8, <1>10, <1>11 DEF Tidy

\* The position sp leaves the memory: r2, u2, t2 and h2 are left.
Leaves(sp, r, u, t, r2, u2, t2, h2, X) ==
  /\ r2 \in Seq(Nat) /\ Once(r2, X)
  /\ ToSet(r2) \subseteq ToSet(r) /\ u2 \subseteq u /\ t2 \subseteq t /\ h2 \subseteq u2
  /\ Held(r, u, t) \ X \subseteq Held(r2, u2, t2) \union {sp}
  /\ sp \in Held(r2, u2, t2) => sp \in X

\* A position leaves the queue for good, and a compaction writes M.
LEMMA TidyDeleted ==
  ASSUME StoreAssumption,
         NEW ix, NEW r, NEW u, NEW t, NEW h, NEW st, NEW X, NEW P,
         Tidy(ix, r, u, t, h, st, X, P), P \in SUBSET Nat, IsFiniteSet(P),
         NEW sp \in P, NEW r2, NEW u2, NEW t2, NEW h2, NEW X2, NEW M \in SUBSET P,
         X \subseteq X2, Leaves(sp, r, u, t, r2, u2, t2, h2, X2),
         Full(ix) => M \ X2 = Held(r2, u2, t2) \ X2
  PROVE  Tidy(Deleted(ix, sp, M), r2, u2, t2, h2, st \union {sp}, X2, P)
<1>1. /\ r2 \in Seq(Nat) /\ Once(r2, X2)
      /\ ToSet(r2) \subseteq ToSet(r) /\ u2 \subseteq u /\ t2 \subseteq t /\ h2 \subseteq u2
      /\ Held(r, u, t) \ X2 \subseteq Held(r2, u2, t2) \union {sp}
      /\ sp \in Held(r2, u2, t2) => sp \in X2
  BY DEF Leaves
<1>2. ix \in IndexFiles
  BY DEF Tidy, Contained
<1>3. sp \in Nat /\ M \in SUBSET Nat /\ IsFiniteSet(M)
  <2>1. M \in SUBSET P
    OBVIOUS
  <2>2. IsFiniteSet(M)
    BY <2>1, FS_Subset
  <2> QED
    BY <2>1, <2>2
<1>4. PICK dx : dx = Deleted(ix, sp, M)
  OBVIOUS
<1>5. IsDeleted(dx, ix, sp, M)
  BY <1>2, <1>3, <1>4, DeletedFiles, StoreAssumption
<1>6. /\ dx \in IndexFiles
      /\ Full(ix) => /\ ToSet(dx.enq) = M /\ ToSet(dx.ack) = {} /\ Live(dx) = M
                     /\ dx.synced = 0 /\ Len(dx.ack) = 0
                     /\ \A Y : Once(dx.enq, Y)
      /\ ~Full(ix) => /\ dx.enq = ix.enq /\ dx.synced = ix.synced
                      /\ ToSet(dx.ack) = ToSet(ix.ack) \union {sp}
                      /\ Live(dx) = Live(ix) \ {sp}
                      /\ Len(dx.ack) <= AckMax
  BY <1>5 DEF IsDeleted
<1>7. /\ dx.synced <= Len(dx.enq) /\ Len(dx.ack) <= AckMax
  <2>1. CASE Full(ix)
    <3>1. Len(dx.enq) \in Nat
      BY <1>6, LenProperties DEF IndexFiles
    <3> QED
      BY <1>6, <2>1, <3>1, StoreAssumption DEF StoreAssumption
  <2>2. CASE ~Full(ix)
    BY <1>6, <2>2 DEF Tidy, Contained
  <2> QED
    BY <2>1, <2>2
<1>8. Contained(dx, r2, u2, t2, st \union {sp}, P)
  <2>1. /\ ToSet(r) \subseteq P /\ u \subseteq P /\ t \subseteq P
        /\ ToSet(ix.enq) \subseteq P /\ ToSet(ix.ack) \subseteq P /\ ToSet(ix.ack) \subseteq st
    BY DEF Tidy, Contained
  <2>2. /\ ToSet(dx.enq) \subseteq P /\ ToSet(dx.ack) \subseteq P
        /\ ToSet(dx.ack) \subseteq st \union {sp}
    BY <1>6, <2>1
  <2> QED
    BY <1>6, <1>7, <1>1, <2>1, <2>2 DEF Contained
<1>9. Live(ix) \ X = Held(r, u, t) \ X
  BY DEF Tidy, Exact
<1>10. Held(r2, u2, t2) \subseteq Held(r, u, t)
  BY <1>1 DEF Held
<1>11. Exact(dx, r2, u2, t2, X2)
  <2>1. CASE Full(ix)
    BY <1>6, <2>1 DEF Exact
  <2>2. CASE ~Full(ix)
    <3>1. Live(ix) \ X2 = Held(r, u, t) \ X2
      BY <1>9
    <3>2. (Live(ix) \ {sp}) \ X2 = Held(r2, u2, t2) \ X2
      BY <1>10, <1>1, <3>1
    <3> QED
      BY <1>6, <2>2, <3>2 DEF Exact
  <2> QED
    BY <2>1, <2>2
<1>12. Single(dx, r2, u2, t2, h2, X2)
  <2>1. /\ Once(ix.enq, X)
        /\ ToSet(r) \intersect u \subseteq X /\ t \intersect (ToSet(r) \union u) \subseteq X
    BY DEF Tidy, Single
  <2>2. Once(ix.enq, X2)
    BY <2>1 DEF Once
  <2>3. Once(dx.enq, X2)
    BY <1>6, <2>2
  <2>4. /\ ToSet(r2) \intersect u2 \subseteq X2
        /\ t2 \intersect (ToSet(r2) \union u2) \subseteq X2
    BY <1>1, <2>1
  <2> QED
    BY <1>1, <2>3, <2>4 DEF Single
<1> QED
  BY <1>4, <1>8, <1>11, <1>12 DEF Tidy

\* A position only moves in memory.
LEMMA TidyMoved ==
  ASSUME NEW ix, NEW r, NEW u, NEW t, NEW h, NEW st, NEW X, NEW P,
         Tidy(ix, r, u, t, h, st, X, P),
         NEW r2 \in Seq(Nat), NEW u2, NEW t2, NEW h2,
         Once(r2, X), Held(r2, u2, t2) = Held(r, u, t),
         ToSet(r2) \intersect u2 \subseteq X, t2 \intersect (ToSet(r2) \union u2) \subseteq X,
         h2 \subseteq u2
  PROVE  Tidy(ix, r2, u2, t2, h2, st, X, P)
<1>1. ToSet(r2) \subseteq P /\ u2 \subseteq P /\ t2 \subseteq P
  BY DEF Tidy, Contained, Held
<1>2. Contained(ix, r2, u2, t2, st, P)
  BY <1>1 DEF Tidy, Contained
<1>3. Exact(ix, r2, u2, t2, X)
  BY DEF Tidy, Exact
<1>4. Single(ix, r2, u2, t2, h2, X)
  BY DEF Tidy, Single
<1> QED
  BY <1>2, <1>3, <1>4 DEF Tidy

\* New files and an empty deque.
LEMMA TidyPurged ==
  ASSUME StoreAssumption,
         NEW ix, NEW r, NEW u, NEW t, NEW h, NEW st, NEW X, NEW P,
         Tidy(ix, r, u, t, h, st, X, P), NEW st2, NEW X2, st \subseteq st2,
         X2 = (X \union u) \union t
  PROVE  Tidy(NoIndex, <<>>, u, t, h, st2, X2, P)
<1>1. ToSet(<<>>) = {} /\ <<>> \in Seq(Nat) /\ Len(<<>>) = 0
  BY DEF ToSet
<1>2. /\ NoIndex \in IndexFiles /\ NoIndex.enq = <<>> /\ NoIndex.synced = 0 /\ NoIndex.ack = <<>>
  BY <1>1 DEF NoIndex, IndexFiles
<1>3. Contained(NoIndex, <<>>, u, t, st2, P)
  BY <1>1, <1>2, StoreAssumption DEF Tidy, Contained, StoreAssumption
<1>4. Exact(NoIndex, <<>>, u, t, X2)
  BY <1>1, <1>2 DEF Exact, Held, Live
<1>5. Once(<<>>, X2)
  BY <1>1 DEF Once
<1>6. Single(NoIndex, <<>>, u, t, h, X2)
  BY <1>1, <1>2, <1>5 DEF Tidy, Single
<1> QED
  BY <1>3, <1>4, <1>6 DEF Tidy

\* A start with the index files fx.
LEMMA TidyRestored ==
  ASSUME NEW fx \in IndexFiles, NEW st, NEW X, NEW P,
         ToSet(fx.enq) \subseteq P, ToSet(fx.ack) \subseteq P, ToSet(fx.ack) \subseteq st,
         fx.synced <= Len(fx.enq), Len(fx.ack) <= AckMax, Once(fx.enq, X)
  PROVE  Tidy(fx, Restored(fx), {}, {}, {}, st, X, P)
<1>1. fx.enq \in Seq(Nat)
  BY DEF IndexFiles
<1>2. /\ Restored(fx) \in Seq(Nat) /\ ToSet(Restored(fx)) = Live(fx)
      /\ Once(Restored(fx), X)
  BY <1>1, RestoredElements
<1>3. Live(fx) \subseteq P
  BY DEF Live
<1>4. Contained(fx, Restored(fx), {}, {}, st, P)
  BY <1>2, <1>3 DEF Contained
<1>5. Exact(fx, Restored(fx), {}, {}, X)
  BY <1>2 DEF Exact, Held
<1>6. Single(fx, Restored(fx), {}, {}, {}, X)
  BY <1>2 DEF Single
<1> QED
  BY <1>4, <1>5, <1>6 DEF Tidy

-----------------------------------------------------------------------------
(* The invariant of the store and its queues.                               *)

\* What the deliver loop delivers to a consumer that acknowledges
HeldUnacked(q) == {sp \in {serving[q].sp} : serving[q].pc # None /\ ~serving[q].no_ack}

QueueTidy(q) == Tidy(index[q], ready[q], unacked[q], InFlight(q), HeldUnacked(q),
                     settled[q], spoiled, Positions)

Shapes == /\ ready = [q \in Queues |-> ready[q]] /\ unacked = [q \in Queues |-> unacked[q]]
          /\ index = [q \in Queues |-> index[q]] /\ settled = [q \in Queues |-> settled[q]]

QueuesInv == Shapes /\ \A q \in Queues : QueueTidy(q)

StoreTypes ==
  /\ wseg \in Nat \ {0} /\ wsize \in 0..SegSize
  /\ wseg \in segments /\ segments \subseteq 1..wseg
  /\ Positions \in SUBSET Nat /\ IsFiniteSet(Positions)
  /\ \A sp \in Positions : sp < Next_sp /\ Segment(sp) <= wseg
  /\ synced \subseteq Positions /\ gone \subseteq Positions /\ promised \subseteq Positions
  /\ total \in [Channels -> Nat] /\ confirmed \in [Channels -> Nat]
  /\ \A c \in Channels : confirmed[c] <= total[c]

DurableInv == LockInv /\ StoreTypes /\ QueuesInv /\ appended \in BOOLEAN

\* All that QueuesInv speaks of
queueVars == <<owner, ready, unacked, index, serving, settled, spoiled>>

\* Steps that touch no queue.
LEMMA OthersKeepQueues ==
  ASSUME QueuesInv, UNCHANGED queueVars
  PROVE  QueuesInv'
<1>1. /\ Positions' = Positions
      /\ \A q \in Queues : InFlight(q)' = InFlight(q) /\ HeldUnacked(q)' = HeldUnacked(q)
  BY DEF queueVars, Positions, InFlight, HeldUnacked
<1> QED
  BY <1>1 DEF QueuesInv, Shapes, QueueTidy, queueVars

\* What happens to one queue, to the others nothing.
SameQueue(r) == /\ index'[r] = index[r] /\ ready'[r] = ready[r] /\ unacked'[r] = unacked[r]
                /\ serving'[r] = serving[r] /\ settled[r] \subseteq settled'[r]

\* A queue nothing happens to stays tidy while others publish and settle.
LEMMA SameQueueTidy ==
  ASSUME NEW r \in Queues, QueueTidy(r), SameQueue(r),
         spoiled \subseteq spoiled', Positions \subseteq Positions'
  PROVE  QueueTidy(r)'
<1>1. InFlight(r)' = InFlight(r) /\ HeldUnacked(r)' = HeldUnacked(r)
  BY DEF SameQueue, InFlight, HeldUnacked
<1>2. Tidy(index[r], ready[r], unacked[r], InFlight(r), HeldUnacked(r), settled'[r],
           spoiled', Positions')
  BY TidyWider DEF QueueTidy, SameQueue
<1> QED
  BY <1>1, <1>2 DEF QueueTidy, SameQueue

\* It is enough to look at the one queue a step is about.
LEMMA OneQueueSteps ==
  ASSUME QueuesInv, NEW q \in Queues, QueueTidy(q)', Shapes',
         \A r \in Queues \ {q} : SameQueue(r),
         spoiled \subseteq spoiled', Positions \subseteq Positions'
  PROVE  QueuesInv'
<1>1. \A r \in Queues \ {q} : QueueTidy(r)'
  BY SameQueueTidy DEF QueuesInv
<1> QED
  BY <1>1 DEF QueuesInv

-----------------------------------------------------------------------------
(* Delivering and settling.                                                 *)

\* The loop goes on with the delivery it has.
LEMMA LoopKeepsQueues ==
  ASSUME QueuesInv, LockInv, NEW q \in Queues, NEW p \in {"confirming", "write"},
         serving[q].pc # None,
         serving' = [serving EXCEPT ![q] = At(p, @.sp, @.no_ack)],
         UNCHANGED <<owner, ready, unacked, index, settled, spoiled>>
  PROVE  QueuesInv'
<1>1. serving = [r \in Queues |-> serving[r]]
  BY DEF LockInv, LockTypes
<1>2. /\ serving'[q].pc = p /\ serving'[q].sp = serving[q].sp
      /\ serving'[q].no_ack = serving[q].no_ack
      /\ \A r \in Queues \ {q} : serving'[r] = serving[r]
  BY <1>1 DEF At
<1>3. /\ InFlight(q)' = InFlight(q) /\ HeldUnacked(q)' = HeldUnacked(q)
      /\ Positions' = Positions
  BY <1>2 DEF InFlight, HeldUnacked, Positions, None
<1>4. \A r \in Queues \ {q} : SameQueue(r)
  BY <1>2 DEF SameQueue
<1>5. QueueTidy(q)'
  BY <1>3 DEF QueuesInv, QueueTidy
<1>6. Shapes'
  BY DEF QueuesInv, Shapes
<1> QED
  BY <1>3, <1>4, <1>5, <1>6, OneQueueSteps

\* The deliver loop takes the head of the ready deque.
LEMMA DeliverKeepsQueues ==
  ASSUME QueuesInv, LockInv, NEW q \in Queues, Deliver(q)
  PROVE  QueuesInv'
<1>1. PICK b \in {FALSE, TRUE} :
        /\ serving[q].pc = None /\ ready[q] # <<>>
        /\ unacked' = [unacked EXCEPT ![q] = IF b THEN @ ELSE @ \union {Head(ready[q])}]
        /\ \E p \in {"write", "confirming", "lock"} :
             serving' = [serving EXCEPT ![q] = At(p, Head(ready[q]), b)]
        /\ ready' = [ready EXCEPT ![q] = Tail(@)]
        /\ UNCHANGED <<owner, index, settled, spoiled>>
  BY DEF Deliver, store, history
<1>2. serving = [r \in Queues |-> serving[r]]
  BY DEF LockInv, LockTypes
<1>3. PICK h : h = Head(ready[q])
  OBVIOUS
<1>4. /\ serving'[q].pc # None /\ serving'[q].sp = h /\ serving'[q].no_ack = b
      /\ \A r \in Queues \ {q} : serving'[r] = serving[r]
  BY <1>1, <1>2, <1>3 DEF At, None
<1>5. /\ ready'[q] = Tail(ready[q]) /\ unacked'[q] = IF b THEN unacked[q] ELSE unacked[q] \union {h}
      /\ \A r \in Queues \ {q} : ready'[r] = ready[r] /\ unacked'[r] = unacked[r]
      /\ index' = index /\ settled' = settled /\ spoiled' = spoiled /\ Positions' = Positions
      /\ Shapes'
  BY <1>1, <1>3 DEF QueuesInv, Shapes, Positions
<1>6. /\ InFlight(q) = {} /\ HeldUnacked(q) = {}
      /\ InFlight(q)' = (IF b THEN {h} ELSE {}) /\ HeldUnacked(q)' = (IF b THEN {} ELSE {h})
  BY <1>1, <1>4 DEF InFlight, HeldUnacked
<1>7. Tidy(index[q], ready[q], unacked[q], {}, {}, settled[q], spoiled, Positions)
  BY <1>6 DEF QueuesInv, QueueTidy
<1>8. ready[q] \in Seq(Nat)
  BY <1>7 DEF Tidy, Contained
<1>9. h \in Nat /\ Tail(ready[q]) \in Seq(Nat) /\ IsInserted(ready[q], Tail(ready[q]), 1, h)
  BY <1>1, <1>3, <1>8, HeadInserted
<1>10. ToSet(ready[q]) = ToSet(Tail(ready[q])) \union {h}
  BY <1>9, InsertedElements
<1>11. Once(Tail(ready[q]), spoiled) /\ (h \in ToSet(Tail(ready[q])) => h \in spoiled)
  BY <1>7, <1>9, InsertedOnce DEF Tidy, Single
<1>12. ToSet(ready[q]) \intersect unacked[q] \subseteq spoiled
  BY <1>7 DEF Tidy, Single
<1>13. Held(Tail(ready[q]), unacked'[q], InFlight(q)') = Held(ready[q], unacked[q], {})
  BY <1>5, <1>6, <1>10 DEF Held
<1>14. /\ ToSet(Tail(ready[q])) \intersect unacked'[q] \subseteq spoiled
       /\ InFlight(q)' \intersect (ToSet(Tail(ready[q])) \union unacked'[q]) \subseteq spoiled
       /\ HeldUnacked(q)' \subseteq unacked'[q]
  BY <1>5, <1>6, <1>10, <1>11, <1>12
<1>15. Tidy(index[q], Tail(ready[q]), unacked'[q], InFlight(q)', HeldUnacked(q)',
            settled[q], spoiled, Positions)
  BY <1>7, <1>9, <1>11, <1>13, <1>14, TidyMoved
<1>16. QueueTidy(q)'
  BY <1>5, <1>15 DEF QueueTidy
<1>17. \A r \in Queues \ {q} : SameQueue(r)
  BY <1>4, <1>5 DEF SameQueue
<1> QED
  BY <1>5, <1>16, <1>17, OneQueueSteps

\* A position goes back into the ready deque, from a delivery that failed or from a
\* consumer that rejects it.
LEMMA RequeueKeepsQueues ==
  ASSUME QueuesInv, LockInv, StoreTypes, NEW q \in Queues, DeliveryFails(q) \/ Reject(q)
  PROVE  QueuesInv'
<1>1. PICK sp : /\ unacked' = [unacked EXCEPT ![q] = @ \ {sp}]
                /\ ready' = [ready EXCEPT ![q] = Inserted(@, sp)]
                /\ UNCHANGED <<owner, index, settled, spoiled>>
                /\ \/ /\ sp = serving[q].sp /\ serving[q].pc # None
                      /\ serving' = [serving EXCEPT ![q] = NotServing]
                   \/ /\ sp \in unacked[q] /\ sp # serving[q].sp /\ serving' = serving
  BY DEF DeliveryFails, Reject, store, history, None
<1>2. serving = [r \in Queues |-> serving[r]]
  BY DEF LockInv, LockTypes
<1>3. Tidy(index[q], ready[q], unacked[q], InFlight(q), HeldUnacked(q), settled[q], spoiled,
           Positions)
  BY DEF QueuesInv, QueueTidy
<1>4. /\ ready'[q] = Inserted(ready[q], sp) /\ unacked'[q] = unacked[q] \ {sp}
      /\ \A r \in Queues \ {q} : /\ ready'[r] = ready[r] /\ unacked'[r] = unacked[r]
                                 /\ serving'[r] = serving[r]
      /\ index' = index /\ settled' = settled /\ spoiled' = spoiled /\ Positions' = Positions
      /\ Shapes'
  BY <1>1, <1>2 DEF QueuesInv, Shapes, Positions
<1>5. /\ sp \in unacked[q] \union InFlight(q)
      /\ InFlight(q)' = InFlight(q) \ {sp} /\ HeldUnacked(q)' = HeldUnacked(q) \ {sp}
  <2>1. CASE sp = serving[q].sp /\ serving[q].pc # None
             /\ serving' = [serving EXCEPT ![q] = NotServing]
    <3>1. serving'[q].pc = None
      BY <1>2, <2>1 DEF NotServing, At
    <3>2. HeldUnacked(q) \subseteq unacked[q]
      BY <1>3 DEF Tidy, Single
    <3> QED
      BY <2>1, <3>1, <3>2 DEF InFlight, HeldUnacked
  <2>2. CASE sp \in unacked[q] /\ sp # serving[q].sp /\ serving' = serving
    BY <2>2 DEF InFlight, HeldUnacked
  <2> QED
    BY <1>1, <2>1, <2>2
<1>6. /\ ready[q] \in Seq(Nat) /\ unacked[q] \subseteq Positions
      /\ InFlight(q) \subseteq Positions /\ ToSet(ready[q]) \subseteq Positions
  BY <1>3 DEF Tidy, Contained
<1>7. /\ Once(ready[q], spoiled) /\ ToSet(ready[q]) \intersect unacked[q] \subseteq spoiled
      /\ InFlight(q) \intersect (ToSet(ready[q]) \union unacked[q]) \subseteq spoiled
      /\ HeldUnacked(q) \subseteq unacked[q]
  BY <1>3 DEF Tidy, Single
<1>8. sp \in Nat
  BY <1>5, <1>6 DEF StoreTypes
<1>9. PICK k \in 1..(Len(ready[q]) + 1) : IsInserted(Inserted(ready[q], sp), ready[q], k, sp)
  BY <1>6, <1>8, InsertedAt
<1>10. /\ Inserted(ready[q], sp) \in Seq(Nat)
       /\ ToSet(Inserted(ready[q], sp)) = ToSet(ready[q]) \union {sp}
  <2>1. Inserted(ready[q], sp) \in Seq(Nat)
    BY <1>9 DEF IsInserted
  <2>2. ToSet(Inserted(ready[q], sp)) = ToSet(ready[q]) \union {sp}
    BY <1>6, <1>8, <1>9, InsertedElements
  <2> QED
    BY <2>1, <2>2
<1>11. Once(Inserted(ready[q], sp), spoiled)
  <2>1. sp \in ToSet(ready[q]) => sp \in spoiled
    BY <1>5, <1>7
  <2> QED
    BY <1>6, <1>7, <1>8, <1>9, <2>1, InsertedOnce
<1>12. Held(ready'[q], unacked'[q], InFlight(q)') = Held(ready[q], unacked[q], InFlight(q))
  BY <1>4, <1>5, <1>10 DEF Held
<1>13. /\ ToSet(ready'[q]) \intersect unacked'[q] \subseteq spoiled
       /\ InFlight(q)' \intersect (ToSet(ready'[q]) \union unacked'[q]) \subseteq spoiled
       /\ HeldUnacked(q)' \subseteq unacked'[q]
  BY <1>4, <1>5, <1>7, <1>10
<1>14. ready'[q] \in Seq(Nat) /\ Once(ready'[q], spoiled)
  BY <1>4, <1>10, <1>11
<1>15. Tidy(index[q], ready'[q], unacked'[q], InFlight(q)', HeldUnacked(q)',
            settled[q], spoiled, Positions)
  BY <1>3, <1>12, <1>13, <1>14, TidyMoved
<1>16. QueueTidy(q)'
  BY <1>4, <1>15 DEF QueueTidy
<1>17. \A r \in Queues \ {q} : SameQueue(r)
  BY <1>4 DEF SameQueue
<1> QED
  BY <1>4, <1>16, <1>17, OneQueueSteps

\* A message delivered to a consumer that does not acknowledge is deleted.
LEMMA DeliveredKeepsQueues ==
  ASSUME StoreAssumption, StoreTypes, QueuesInv, LockInv, NEW q \in Queues, Delivered(q)
  PROVE  QueuesInv'
<1>1. PICK sp : sp = serving[q].sp
  OBVIOUS
<1>2. serving = [r \in Queues |-> serving[r]]
  BY DEF LockInv, LockTypes
<1>3. /\ serving[q].pc # None /\ serving' = [serving EXCEPT ![q] = NotServing]
      /\ UNCHANGED <<owner, ready, unacked>>
  BY DEF Delivered, None
<1>4. /\ \A r \in Queues \ {q} : serving'[r] = serving[r]
      /\ InFlight(q)' = {} /\ HeldUnacked(q)' = {} /\ Positions' = Positions
  <2>1. serving'[q].pc = None /\ \A r \in Queues \ {q} : serving'[r] = serving[r]
    BY <1>2, <1>3 DEF NotServing, At
  <2> QED
    BY <1>3, <2>1 DEF InFlight, HeldUnacked, Positions
<1>5. Tidy(index[q], ready[q], unacked[q], InFlight(q), HeldUnacked(q), settled[q], spoiled,
           Positions)
  BY DEF QueuesInv, QueueTidy
<1>6. /\ ready[q] \in Seq(Nat) /\ unacked[q] \subseteq Positions
      /\ InFlight(q) \subseteq Positions /\ ToSet(ready[q]) \subseteq Positions
  BY <1>5 DEF Tidy, Contained
<1>7. /\ Once(ready[q], spoiled) /\ ToSet(ready[q]) \intersect unacked[q] \subseteq spoiled
      /\ InFlight(q) \intersect (ToSet(ready[q]) \union unacked[q]) \subseteq spoiled
      /\ HeldUnacked(q) \subseteq unacked[q]
  BY <1>5 DEF Tidy, Single
<1>8. CASE serving[q].no_ack /\ delete_message(q, serving[q].sp, {})
  <2>1. InFlight(q) = {sp} /\ sp \in Positions
    BY <1>1, <1>3, <1>6, <1>8 DEF InFlight
  <2>2. PICK M : M = InMemory(q) \ {sp}
    OBVIOUS
  <2>3. /\ index'[q] = Deleted(index[q], sp, M) /\ settled'[q] = settled[q] \union {sp}
        /\ \A r \in Queues \ {q} : index'[r] = index[r] /\ settled'[r] = settled[r]
        /\ spoiled' = spoiled /\ Shapes'
    BY <1>1, <1>3, <1>8, <2>2 DEF delete_message, QueuesInv, Shapes
  <2>4. Tidy(Deleted(index[q], sp, M), ready[q], unacked[q], {}, {},
             settled[q] \union {sp}, spoiled, Positions)
    <3>1. Positions \in SUBSET Nat /\ IsFiniteSet(Positions)
      BY DEF StoreTypes
    <3>2. /\ Held(ready[q], unacked[q], InFlight(q)) \ spoiled
               \subseteq Held(ready[q], unacked[q], {}) \union {sp}
          /\ sp \in Held(ready[q], unacked[q], {}) => sp \in spoiled
      BY <1>7, <2>1 DEF Held
    <3>3. M \in SUBSET Positions /\ M \ spoiled = Held(ready[q], unacked[q], {}) \ spoiled
      BY <1>6, <1>7, <2>1, <2>2 DEF Held, InMemory
    <3>4. Leaves(sp, ready[q], unacked[q], InFlight(q), ready[q], unacked[q], {}, {}, spoiled)
      BY <1>6, <1>7, <3>2 DEF Leaves
    <3> QED
      BY <1>5, <2>1, <3>1, <3>3, <3>4, StoreAssumption, TidyDeleted
  <2>5. QueueTidy(q)'
    BY <1>3, <1>4, <2>3, <2>4 DEF QueueTidy
  <2>6. \A r \in Queues \ {q} : SameQueue(r)
    BY <1>3, <1>4, <2>3 DEF SameQueue
  <2> QED
    BY <1>4, <2>3, <2>5, <2>6, OneQueueSteps
<1>9. CASE ~serving[q].no_ack /\ UNCHANGED <<index, settled, dirty, rewritten, spoiled>>
  <2>1. InFlight(q) = {}
    BY <1>9 DEF InFlight
  <2>2. Tidy(index[q], ready[q], unacked[q], {}, {}, settled[q], spoiled, Positions)
    BY <1>5, <2>1 DEF Tidy, Single
  <2>3. QueueTidy(q)'
    BY <1>3, <1>4, <1>9, <2>2 DEF QueueTidy
  <2>4. \A r \in Queues \ {q} : SameQueue(r)
    BY <1>3, <1>4, <1>9 DEF SameQueue
  <2>5. Shapes'
    BY <1>3, <1>9 DEF QueuesInv, Shapes
  <2> QED
    BY <1>4, <1>9, <2>3, <2>4, <2>5, OneQueueSteps
<1> QED
  BY <1>8, <1>9 DEF Delivered

\* A consumer acknowledges; a compaction forgets the delivery in flight.
LEMMA AckKeepsQueues ==
  ASSUME StoreAssumption, StoreTypes, QueuesInv, LockInv, NEW q \in Queues, Ack(q)
  PROVE  QueuesInv'
<1>1. PICK sp \in unacked[q] \ {serving[q].sp} :
        /\ unacked' = [unacked EXCEPT ![q] = @ \ {sp}]
        /\ delete_message(q, sp, InFlight(q))
        /\ UNCHANGED <<owner, ready, serving>>
  BY DEF Ack
<1>2. Tidy(index[q], ready[q], unacked[q], InFlight(q), HeldUnacked(q), settled[q], spoiled,
           Positions)
  BY DEF QueuesInv, QueueTidy
<1>3. /\ ready[q] \in Seq(Nat) /\ unacked[q] \subseteq Positions
      /\ InFlight(q) \subseteq Positions /\ ToSet(ready[q]) \subseteq Positions
  BY <1>2 DEF Tidy, Contained
<1>4. /\ Once(ready[q], spoiled) /\ ToSet(ready[q]) \intersect unacked[q] \subseteq spoiled
      /\ HeldUnacked(q) \subseteq unacked[q]
  BY <1>2 DEF Tidy, Single
<1>5. sp \notin InFlight(q) /\ sp \notin HeldUnacked(q)
  BY DEF InFlight, HeldUnacked
<1>6. PICK M : M = InMemory(q) \ {sp}
  OBVIOUS
<1>7. /\ index'[q] = Deleted(index[q], sp, M) /\ settled'[q] = settled[q] \union {sp}
      /\ unacked'[q] = unacked[q] \ {sp}
      /\ \A r \in Queues \ {q} : /\ index'[r] = index[r] /\ settled'[r] = settled[r]
                                 /\ unacked'[r] = unacked[r]
      /\ Shapes'
  BY <1>1, <1>6 DEF delete_message, QueuesInv, Shapes
<1>8. /\ InFlight(q)' = InFlight(q) /\ HeldUnacked(q)' = HeldUnacked(q)
      /\ Positions' = Positions
  BY <1>1 DEF InFlight, HeldUnacked, Positions
<1>9. spoiled \subseteq spoiled' /\ (Full(index[q]) => InFlight(q) \subseteq spoiled')
  BY <1>1 DEF delete_message
<1>10. Tidy(Deleted(index[q], sp, M), ready[q], unacked[q] \ {sp}, InFlight(q),
            HeldUnacked(q), settled[q] \union {sp}, spoiled', Positions)
  <2>1. Positions \in SUBSET Nat /\ IsFiniteSet(Positions)
    BY DEF StoreTypes
  <2>2. /\ Held(ready[q], unacked[q], InFlight(q)) \ spoiled'
             \subseteq Held(ready[q], unacked[q] \ {sp}, InFlight(q)) \union {sp}
        /\ sp \in Held(ready[q], unacked[q] \ {sp}, InFlight(q)) => sp \in spoiled'
    BY <1>4, <1>5, <1>9 DEF Held
  <2>3. Once(ready[q], spoiled')
    BY <1>4, <1>9 DEF Once
  <2>4. sp \in Positions /\ M \in SUBSET Positions
    BY <1>3, <1>6 DEF InMemory
  <2>5. Leaves(sp, ready[q], unacked[q], InFlight(q), ready[q], unacked[q] \ {sp},
               InFlight(q), HeldUnacked(q), spoiled')
    BY <1>3, <1>4, <1>5, <2>2, <2>3 DEF Leaves
  <2>6. Full(index[q]) => M \ spoiled' = Held(ready[q], unacked[q] \ {sp}, InFlight(q)) \ spoiled'
    BY <1>4, <1>6, <1>9 DEF Held, InMemory
  <2> QED
    BY <1>2, <1>9, <2>1, <2>4, <2>5, <2>6, StoreAssumption, TidyDeleted
<1>11. QueueTidy(q)'
  BY <1>1, <1>7, <1>8, <1>10 DEF QueueTidy
<1>12. \A r \in Queues \ {q} : SameQueue(r)
  BY <1>1, <1>7 DEF SameQueue
<1> QED
  BY <1>7, <1>8, <1>9, <1>11, <1>12, OneQueueSteps

\* A purge empties deque and files.
LEMMA PurgeKeepsQueues ==
  ASSUME StoreAssumption, QueuesInv, NEW q \in Queues, Purge(q)
  PROVE  QueuesInv'
<1>1. /\ index' = [index EXCEPT ![q] = NoIndex] /\ ready' = [ready EXCEPT ![q] = <<>>]
      /\ settled' = [settled EXCEPT ![q] = @ \union ToSet(ready[q])]
      /\ spoiled' = (spoiled \union unacked[q]) \union InFlight(q)
      /\ UNCHANGED <<owner, unacked, serving>>
  BY DEF Purge, confirm
<1>2. Tidy(index[q], ready[q], unacked[q], InFlight(q), HeldUnacked(q), settled[q], spoiled,
           Positions)
  BY DEF QueuesInv, QueueTidy
<1>3. /\ index'[q] = NoIndex /\ ready'[q] = <<>> /\ settled[q] \subseteq settled'[q]
      /\ \A r \in Queues \ {q} : index'[r] = index[r] /\ ready'[r] = ready[r]
                                 /\ settled'[r] = settled[r]
      /\ Shapes'
  BY <1>1 DEF QueuesInv, Shapes
<1>4. /\ InFlight(q)' = InFlight(q) /\ HeldUnacked(q)' = HeldUnacked(q)
      /\ Positions' = Positions
  BY <1>1 DEF InFlight, HeldUnacked, Positions
<1>5. Tidy(NoIndex, <<>>, unacked[q], InFlight(q), HeldUnacked(q), settled'[q], spoiled',
           Positions)
  BY <1>1, <1>2, <1>3, StoreAssumption, TidyPurged
<1>6. QueueTidy(q)'
  BY <1>1, <1>3, <1>4, <1>5 DEF QueueTidy
<1>7. \A r \in Queues \ {q} : SameQueue(r)
  BY <1>1, <1>3 DEF SameQueue
<1>8. spoiled \subseteq spoiled'
  BY <1>1
<1> QED
  BY <1>3, <1>4, <1>6, <1>7, <1>8, OneQueueSteps

\* A collection touches no queue; it only makes known what it takes from deliveries.
LEMMA CollectingKeepsQueues ==
  ASSUME QueuesInv, gc_segments
  PROVE  QueuesInv'
<1>1. /\ UNCHANGED <<owner, ready, unacked, index, serving, settled>>
      /\ spoiled \subseteq spoiled'
  BY DEF gc_segments, queues
<1>2. \A r \in Queues : SameQueue(r)
  BY <1>1 DEF SameQueue
<1>3. Positions' = Positions
  BY <1>1 DEF Positions
<1>4. \A r \in Queues : QueueTidy(r)'
  BY <1>1, <1>2, <1>3, SameQueueTidy DEF QueuesInv
<1>5. Shapes'
  BY <1>1 DEF QueuesInv, Shapes
<1> QED
  BY <1>4, <1>5 DEF QueuesInv

-----------------------------------------------------------------------------
(* Publishing.                                                              *)

\* An msync changes what would survive the machine, not what the files say.
LEMMA SyncKeepsQueues ==
  ASSUME QueuesInv, SyncFiles, UNCHANGED <<owner, ready, unacked, serving, settled, spoiled>>
  PROVE  QueuesInv'
<1>1. index' = [q \in Queues |-> IF q \in toSync THEN WrittenBack(index[q]) ELSE index[q]]
  BY DEF SyncFiles
<1>2. Shapes'
  BY <1>1 DEF QueuesInv, Shapes
<1>3. ASSUME NEW q \in Queues PROVE QueueTidy(q)'
  <2>1. QueueTidy(q) /\ Positions' = Positions
        /\ InFlight(q)' = InFlight(q) /\ HeldUnacked(q)' = HeldUnacked(q)
    BY DEF QueuesInv, Positions, InFlight, HeldUnacked
  <2>2. /\ index[q] \in IndexFiles /\ index[q].enq \in Seq(Nat)
    BY <2>1 DEF QueueTidy, Tidy, Contained, IndexFiles
  <2>3. /\ index'[q] \in IndexFiles /\ index'[q].enq = index[q].enq
        /\ index'[q].ack = index[q].ack /\ index'[q].synced <= Len(index'[q].enq)
    <3>1. Len(index[q].enq) \in Nat
      BY <2>2, LenProperties
    <3>2. CASE q \in toSync
      <4>1. index'[q] = [index[q] EXCEPT !.synced = Len(index[q].enq)]
        BY <1>1, <3>2 DEF WrittenBack
      <4>2. index'[q] \in IndexFiles
        BY <2>2, <3>1, <4>1 DEF IndexFiles
      <4>3. /\ index'[q].enq = index[q].enq /\ index'[q].ack = index[q].ack
            /\ index'[q].synced = Len(index[q].enq)
        BY <2>2, <4>1 DEF IndexFiles
      <4> QED
        BY <3>1, <4>2, <4>3
    <3>3. CASE q \notin toSync
      BY <1>1, <2>1, <2>2, <3>3 DEF QueueTidy, Tidy, Contained
    <3> QED
      BY <3>2, <3>3
  <2>4. Live(index'[q]) = Live(index[q])
    BY <2>3 DEF Live
  <2>5. Tidy(index'[q], ready[q], unacked[q], InFlight(q), HeldUnacked(q), settled[q], spoiled,
             Positions)
    BY <2>1, <2>3, <2>4 DEF QueueTidy, Tidy, Contained, Exact, Single
  <2> QED
    BY <2>1, <2>5 DEF QueueTidy
<1> QED
  BY <1>2, <1>3 DEF QueuesInv

\* Two at once.
LEMMA ConcatTwo ==
  ASSUME NEW s \in Seq(Nat), NEW a \in Nat, NEW b \in Nat
  PROVE  /\ s \o <<a>> = Append(s, a)
         /\ s \o <<a, b>> = Append(Append(s, a), b)
<1>1. s \o <<a>> = Append(s, a) /\ Append(s, a) \in Seq(Nat)
  BY AppendIsConcat, AppendProperties
<1>2. Append(s, a) \o <<b>> = Append(Append(s, a), b)
  BY <1>1, AppendIsConcat
<1>3. <<a>> \in Seq(Nat) /\ <<b>> \in Seq(Nat) /\ <<a>> \o <<b>> = <<a, b>>
  <2>1. /\ <<a>> \in Seq(Nat) /\ Len(<<a>>) = 1 /\ <<a>>[1] = a
        /\ <<b>> \in Seq(Nat)
    OBVIOUS
  <2>2. /\ Append(<<a>>, b) \in Seq(Nat) /\ Len(Append(<<a>>, b)) = 2
        /\ Append(<<a>>, b)[1] = a /\ Append(<<a>>, b)[2] = b
    BY <2>1, AppendProperties
  <2>3. /\ <<a, b>> \in Seq(Nat) /\ Len(<<a, b>>) = 2
        /\ <<a, b>>[1] = a /\ <<a, b>>[2] = b
    OBVIOUS
  <2>4. \A i \in 1..2 : Append(<<a>>, b)[i] = <<a, b>>[i]
    BY <2>2, <2>3
  <2>5. Append(<<a>>, b) = <<a, b>>
    BY <2>2, <2>3, <2>4, SeqEqual
  <2> QED
    BY <2>1, <2>5, AppendIsConcat
<1>4. (s \o <<a>>) \o <<b>> = s \o (<<a>> \o <<b>>)
  BY <1>3, ConcatAssociative
<1> QED
  BY <1>1, <1>2, <1>3, <1>4

\* A queue that gets one fresh position.
LEMMA TidyPublished ==
  ASSUME NEW q \in Queues, QueueTidy(q), NEW sp \in Nat, sp \notin Positions
  PROVE  Tidy(Enqueued(index[q], sp), Append(ready[q], sp), unacked[q], InFlight(q),
              HeldUnacked(q), settled[q], spoiled, Positions \union {sp})
<1>1. sp \notin ToSet(index[q].ack) /\ sp \notin ToSet(index[q].enq)
      /\ sp \notin Held(ready[q], unacked[q], InFlight(q))
  BY DEF QueueTidy, Tidy, Contained, Held
<1> QED
  BY <1>1, TidyEnqueued DEF QueueTidy

\* Or two, one after the other.
LEMMA TidyPublishedTwo ==
  ASSUME NEW q \in Queues, QueueTidy(q), NEW a \in Nat, NEW b \in Nat, a # b,
         a \notin Positions, b \notin Positions
  PROVE  Tidy(Enqueued(Enqueued(index[q], a), b), Append(Append(ready[q], a), b), unacked[q],
              InFlight(q), HeldUnacked(q), settled[q], spoiled,
              (Positions \union {a}) \union {b})
<1>1. PICK ix : ix = Enqueued(index[q], a)
  OBVIOUS
<1>2. PICK r : r = Append(ready[q], a)
  OBVIOUS
<1>3. Tidy(ix, r, unacked[q], InFlight(q), HeldUnacked(q), settled[q], spoiled,
           Positions \union {a})
  BY <1>1, <1>2, TidyPublished
<1>4. b \notin ToSet(ix.ack) /\ b \notin ToSet(ix.enq) /\ b \notin Held(r, unacked[q], InFlight(q))
  BY <1>3 DEF Tidy, Contained, Held
<1>5. Tidy(Enqueued(ix, b), Append(r, b), unacked[q], InFlight(q), HeldUnacked(q), settled[q],
           spoiled, (Positions \union {a}) \union {b})
  BY <1>3, <1>4, TidyEnqueued
<1> QED
  BY <1>1, <1>2, <1>5

\* The message goes to the queues it is routed to.
LEMMA RoutedKeepsQueues ==
  ASSUME QueuesInv, NEW sp \in Nat, sp \notin Positions, Routed(sp),
         Positions' = Positions \union {sp}, UNCHANGED <<unacked, serving, settled, spoiled>>
  PROVE  QueuesInv'
<1>1. Shapes'
  BY DEF QueuesInv, Shapes, Routed
<1>2. ASSUME NEW q \in Queues PROVE QueueTidy(q)'
  <2>1. QueueTidy(q)
    BY DEF QueuesInv
  <2>2. InFlight(q)' = InFlight(q) /\ HeldUnacked(q)' = HeldUnacked(q)
    BY DEF InFlight, HeldUnacked
  <2>3. CASE q \in Bound
    <3>1. ready'[q] = Append(ready[q], sp) /\ index'[q] = Enqueued(index[q], sp)
      BY <2>3 DEF Routed
    <3> QED
      BY <2>1, <2>2, <3>1, TidyPublished DEF QueueTidy
  <2>4. CASE q \notin Bound
    <3>1. SameQueue(q)
      BY <2>4 DEF Routed, SameQueue
    <3> QED
      BY <2>1, <3>1, SameQueueTidy
  <2> QED
    BY <2>3, <2>4
<1> QED
  BY <1>1, <1>2 DEF QueuesInv

\* A queue gets one position, or two.
GetsOne(q, a) == /\ ready'[q] = Append(ready[q], a)
                 /\ index'[q] = Enqueued(index[q], a)
GetsTwo(q, a, b) == /\ ready'[q] = Append(Append(ready[q], a), b)
                    /\ index'[q] = Enqueued(Enqueued(index[q], a), b)

\* The dead letter queue gets the copy, before or after the message or alone.
LEMMA DeadLettersGet ==
  ASSUME StoreAssumption, QueuesInv, NEW sp \in Nat, NEW last \in Bound,
         RoutedAndDropped(sp, last)
  PROVE  \/ DeadLetters \notin Bound /\ GetsOne(DeadLetters, sp + 1)
         \/ /\ DeadLetters \in Bound
            /\ GetsTwo(DeadLetters, sp, sp + 1) \/ GetsTwo(DeadLetters, sp + 1, sp)
<1>1. PICK q \in Queues : q = DeadLetters /\ q # Limited
  BY StoreAssumption DEF StoreAssumption
<1>2. PICK copy \in Nat : copy = sp + 1
  OBVIOUS
<1>3. ready[q] \in Seq(Nat) /\ index[q] \in IndexFiles /\ index[q].enq \in Seq(Nat)
  BY DEF QueuesInv, QueueTidy, Tidy, Contained, IndexFiles
<1>4. CASE q \notin Bound
  <2>1. /\ ready'[q] = ready[q] \o <<copy>>
        /\ index'[q] = [index[q] EXCEPT !.enq = @ \o <<copy>>]
    BY <1>1, <1>2, <1>4 DEF RoutedAndDropped
  <2>2. ready'[q] = Append(ready[q], copy) /\ index'[q] = Enqueued(index[q], copy)
    BY <1>3, <2>1, ConcatTwo DEF Enqueued
  <2> QED
    BY <1>1, <1>2, <1>4, <2>2 DEF GetsOne
<1>5. CASE q \in Bound
  <2>1. PICK a \in Nat, b \in Nat :
          /\ (a = sp /\ b = copy) \/ (a = copy /\ b = sp)
          /\ ready'[q] = ready[q] \o <<a, b>>
          /\ index'[q] = [index[q] EXCEPT !.enq = @ \o <<a, b>>]
    <3>1. CASE last = q
      BY <1>1, <1>2, <1>5, <3>1 DEF RoutedAndDropped
    <3>2. CASE last # q
      BY <1>1, <1>2, <1>5, <3>2 DEF RoutedAndDropped
    <3> QED
      BY <3>1, <3>2
  <2>2. ready'[q] = Append(Append(ready[q], a), b)
    <3>1. ready[q] \o <<a, b>> = Append(Append(ready[q], a), b)
      BY <1>3, ConcatTwo
    <3> QED
      BY <2>1, <3>1
  <2>3. index'[q] = Enqueued(Enqueued(index[q], a), b)
    <3>1. index[q].enq \o <<a, b>> = Append(Append(index[q].enq, a), b)
      BY <1>3, ConcatTwo
    <3> QED
      BY <1>3, <2>1, <3>1 DEF Enqueued, IndexFiles
  <2>4. GetsTwo(q, a, b)
    BY <2>2, <2>3 DEF GetsTwo
  <2> QED
    BY <1>1, <1>2, <1>5, <2>1, <2>4
<1> QED
  BY <1>4, <1>5

\* The dead letter queue after a message was dropped.
LEMMA DeadLettersTidy ==
  ASSUME StoreAssumption, QueuesInv, NEW sp \in Nat, sp \notin Positions, sp + 1 \notin Positions,
         NEW last \in Bound, RoutedAndDropped(sp, last), UNCHANGED <<unacked, serving>>,
         settled'[DeadLetters] = settled[DeadLetters], spoiled \subseteq spoiled',
         Positions' = (Positions \union {sp}) \union {sp + 1}
  PROVE  QueueTidy(DeadLetters)'
<1>1. PICK q \in Queues : q = DeadLetters
  BY StoreAssumption DEF StoreAssumption
<1>2. PICK copy \in Nat : copy = sp + 1 /\ copy # sp /\ copy \notin Positions
  OBVIOUS
<1>3. QueueTidy(q)
  BY DEF QueuesInv
<1>4. /\ InFlight(q)' = InFlight(q) /\ HeldUnacked(q)' = HeldUnacked(q)
      /\ settled'[q] = settled[q] /\ unacked'[q] = unacked[q]
  BY <1>1 DEF InFlight, HeldUnacked
<1>5. CASE GetsOne(q, copy)
  <2>1. Tidy(index'[q], ready'[q], unacked[q], InFlight(q), HeldUnacked(q), settled[q], spoiled,
             Positions \union {copy})
    BY <1>2, <1>3, <1>5, TidyPublished DEF GetsOne
  <2>2. Tidy(index'[q], ready'[q], unacked[q], InFlight(q), HeldUnacked(q), settled[q], spoiled',
             Positions')
    BY <1>2, <2>1, TidyWider
  <2> QED
    BY <1>1, <1>4, <2>2 DEF QueueTidy
<1>6. ASSUME NEW a \in Nat, NEW b \in Nat, {a, b} = {sp, copy}, a # b, GetsTwo(q, a, b)
      PROVE  QueueTidy(q)'
  <2>1. a \notin Positions /\ b \notin Positions
        /\ (Positions \union {a}) \union {b} = Positions'
    BY <1>2, <1>6
  <2>2. Tidy(Enqueued(Enqueued(index[q], a), b), Append(Append(ready[q], a), b), unacked[q],
             InFlight(q), HeldUnacked(q), settled[q], spoiled,
             (Positions \union {a}) \union {b})
    BY <1>3, <1>6, <2>1, TidyPublishedTwo
  <2>3. Tidy(index'[q], ready'[q], unacked[q], InFlight(q), HeldUnacked(q), settled[q], spoiled,
             Positions')
    BY <1>6, <2>1, <2>2 DEF GetsTwo
  <2>4. Tidy(index'[q], ready'[q], unacked[q], InFlight(q), HeldUnacked(q), settled[q], spoiled',
             Positions')
    BY <2>3, TidyWider
  <2> QED
    BY <1>4, <2>4 DEF QueueTidy
<1>7. GetsOne(q, copy) \/ GetsTwo(q, sp, copy) \/ GetsTwo(q, copy, sp)
  BY <1>1, <1>2, StoreAssumption, DeadLettersGet
<1>8. CASE GetsTwo(q, sp, copy)
  BY <1>1, <1>2, <1>6, <1>8
<1>9. CASE GetsTwo(q, copy, sp)
  BY <1>1, <1>2, <1>6, <1>9
<1> QED
  BY <1>1, <1>5, <1>7, <1>8, <1>9

\* The limited queue deletes its only message and takes the new one; a compaction
\* writes the new position too, before it is appended to the enq file.
LEMMA LimitedTidy ==
  ASSUME StoreAssumption, StoreTypes, QueuesInv, NEW sp \in Nat, sp \notin Positions,
         NEW last \in Bound, RoutedAndDropped(sp, last), UNCHANGED <<unacked, serving>>,
         Limited \in Bound, Len(ready[Limited]) = 1,
         settled' = [settled EXCEPT ![Limited] = @ \union {Head(ready[Limited])}],
         spoiled \subseteq spoiled',
         Full(index[Limited]) => {sp} \union InFlight(Limited) \subseteq spoiled',
         Positions \union {sp} \subseteq Positions'
  PROVE  QueueTidy(Limited)'
<1>1. PICK q \in Queues : q = Limited
  BY StoreAssumption DEF StoreAssumption
<1>2. PICK h : h = Head(ready[q])
  OBVIOUS
<1>3. PICK rest : rest = Tail(ready[q])
  OBVIOUS
<1>4. PICK M : M = ToSet(Append(rest, sp)) \union unacked[q]
  OBVIOUS
<1>5. PICK P : P = Positions \union {sp}
  OBVIOUS
<1>6. /\ ready'[q] = Append(rest, sp)
      /\ index'[q] = Enqueued(Deleted(index[q], h, M), sp)
      /\ settled'[q] = settled[q] \union {h}
      /\ unacked'[q] = unacked[q]
      /\ InFlight(q)' = InFlight(q) /\ HeldUnacked(q)' = HeldUnacked(q)
  BY <1>1, <1>2, <1>3, <1>4 DEF RoutedAndDropped, QueuesInv, Shapes, InFlight, HeldUnacked
<1>7. QueueTidy(q) /\ ready[q] \in Seq(Nat) /\ ready[q] # <<>>
  <2>1. QueueTidy(q) /\ ready[q] \in Seq(Nat)
    BY DEF QueuesInv, QueueTidy, Tidy, Contained
  <2>2. Len(ready[q]) = 1
    BY <1>1
  <2>3. ready[q] # <<>>
    <3>1. Len(<<>>) # 1
      OBVIOUS
    <3> QED
      BY <2>2, <3>1, Zenon
  <2> QED
    BY <2>1, <2>3
<1>8. h \in Nat /\ rest \in Seq(Nat) /\ IsInserted(ready[q], rest, 1, h)
  BY <1>2, <1>3, <1>7, HeadInserted
<1>9. ToSet(ready[q]) = ToSet(rest) \union {h}
  BY <1>8, InsertedElements
<1>10. Tidy(index[q], ready[q], unacked[q], InFlight(q), HeldUnacked(q), settled[q], spoiled',
            P)
  BY <1>5, <1>7, TidyWider DEF QueueTidy
<1>11. Once(rest, spoiled') /\ (h \in ToSet(rest) => h \in spoiled')
  BY <1>8, <1>10, InsertedOnce DEF Tidy, Single
<1>12. /\ ToSet(ready[q]) \intersect unacked[q] \subseteq spoiled'
       /\ InFlight(q) \intersect (ToSet(ready[q]) \union unacked[q]) \subseteq spoiled'
       /\ HeldUnacked(q) \subseteq unacked[q]
  BY <1>10 DEF Tidy, Single
<1>13. ToSet(Append(rest, sp)) = ToSet(rest) \union {sp}
  BY <1>8, AppendInserts, InsertedElements
<1>14. /\ ToSet(ready[q]) \subseteq Positions /\ unacked[q] \subseteq Positions
       /\ ToSet(index[q].ack) \subseteq Positions /\ ToSet(index[q].enq) \subseteq Positions
       /\ InFlight(q) \subseteq Positions /\ index[q] \in IndexFiles
  BY <1>7 DEF QueueTidy, Tidy, Contained
<1>15. /\ P \in SUBSET Nat /\ IsFiniteSet(P) /\ h \in Positions /\ h \in P /\ M \in SUBSET P
  <2>1. Positions \in SUBSET Nat /\ IsFiniteSet(Positions)
    BY DEF StoreTypes
  <2>2. IsFiniteSet(P)
    BY <1>5, <2>1, FS_AddElement
  <2> QED
    BY <1>4, <1>5, <1>9, <1>13, <1>14, <2>1, <2>2
<1>16. Leaves(h, ready[q], unacked[q], InFlight(q), rest, unacked[q], InFlight(q),
              HeldUnacked(q), spoiled')
  <2>1. /\ Held(ready[q], unacked[q], InFlight(q)) \ spoiled'
             \subseteq Held(rest, unacked[q], InFlight(q)) \union {h}
        /\ h \in Held(rest, unacked[q], InFlight(q)) => h \in spoiled'
    BY <1>9, <1>11, <1>12 DEF Held
  <2> QED
    BY <1>8, <1>9, <1>11, <1>12, <2>1 DEF Leaves
<1>17. Full(index[q]) => M \ spoiled' = Held(rest, unacked[q], InFlight(q)) \ spoiled'
  BY <1>1, <1>4, <1>13 DEF Held
<1>18. PICK dx : dx = Deleted(index[q], h, M)
  OBVIOUS
<1>19. Tidy(dx, rest, unacked[q], InFlight(q), HeldUnacked(q), settled[q] \union {h}, spoiled', P)
  BY <1>10, <1>15, <1>16, <1>17, <1>18, StoreAssumption, TidyDeleted
<1>20. IsDeleted(dx, index[q], h, M)
  <2>1. M \in SUBSET Nat /\ IsFiniteSet(M)
    BY <1>15, FS_Subset
  <2> QED
    BY <1>8, <1>14, <1>18, <2>1, StoreAssumption, DeletedFiles
<1>21. /\ sp \notin ToSet(dx.ack)
       /\ sp \in ToSet(dx.enq) \union Held(rest, unacked[q], InFlight(q)) => sp \in spoiled'
  <2>1. sp \notin Held(rest, unacked[q], InFlight(q))
    BY <1>9, <1>14 DEF Held
  <2>2. CASE Full(index[q])
    <3>1. sp \in spoiled'
      BY <1>1, <2>2
    <3>2. ToSet(dx.ack) = {}
      BY <1>20, <2>2 DEF IsDeleted
    <3> QED
      BY <3>1, <3>2
  <2>3. CASE ~Full(index[q])
    <3>1. dx.enq = index[q].enq /\ ToSet(dx.ack) = ToSet(index[q].ack) \union {h}
      BY <1>20, <2>3 DEF IsDeleted
    <3> QED
      BY <1>14, <1>15, <2>1, <3>1
  <2> QED
    BY <2>2, <2>3
<1>22. Tidy(Enqueued(dx, sp), Append(rest, sp), unacked[q], InFlight(q), HeldUnacked(q),
            settled[q] \union {h}, spoiled', P \union {sp})
  BY <1>19, <1>21, TidyEnqueued
<1>23. P \union {sp} \subseteq Positions'
  BY <1>5
<1>24. Tidy(Enqueued(dx, sp), Append(rest, sp), unacked[q], InFlight(q), HeldUnacked(q),
            settled[q] \union {h}, spoiled', Positions')
  BY <1>22, <1>23, TidyWider
<1> QED
  BY <1>1, <1>6, <1>18, <1>24 DEF QueueTidy

\* The message, and the copy of the one that is dropped for it, go to their queues.
LEMMA DroppedKeepsQueues ==
  ASSUME StoreAssumption, StoreTypes, QueuesInv, NEW sp \in Nat, sp \notin Positions,
         sp + 1 \notin Positions, NEW last \in Bound, RoutedAndDropped(sp, last),
         UNCHANGED <<unacked, serving>>, Limited \in Bound, Len(ready[Limited]) = 1,
         settled' = [settled EXCEPT ![Limited] = @ \union {Head(ready[Limited])}],
         spoiled \subseteq spoiled',
         Full(index[Limited]) => {sp} \union InFlight(Limited) \subseteq spoiled',
         Positions' = (Positions \union {sp}) \union {sp + 1}
  PROVE  QueuesInv'
<1>1. Shapes'
  BY DEF QueuesInv, Shapes, RoutedAndDropped
<1>2. QueueTidy(Limited)'
  BY LimitedTidy, StoreAssumption
<1>3. Limited \in Queues /\ DeadLetters \in Queues /\ DeadLetters # Limited
  BY StoreAssumption DEF StoreAssumption
<1>4. \A q \in Queues \ {Limited} : settled'[q] = settled[q]
  BY DEF QueuesInv, Shapes
<1>5. QueueTidy(DeadLetters)'
  BY <1>3, <1>4, DeadLettersTidy, StoreAssumption
<1>6. ASSUME NEW q \in Queues \ {Limited, DeadLetters} PROVE QueueTidy(q)'
  <2>1. QueueTidy(q)
    BY DEF QueuesInv
  <2>2. InFlight(q)' = InFlight(q) /\ HeldUnacked(q)' = HeldUnacked(q) /\ unacked'[q] = unacked[q]
        /\ settled'[q] = settled[q]
    BY <1>4 DEF InFlight, HeldUnacked
  <2>3. CASE q \in Bound
    <3>1. ready'[q] = Append(ready[q], sp) /\ index'[q] = Enqueued(index[q], sp)
      BY <2>3 DEF RoutedAndDropped
    <3>2. Tidy(index'[q], ready'[q], unacked[q], InFlight(q), HeldUnacked(q), settled[q],
               spoiled, Positions \union {sp})
      BY <2>1, <3>1, TidyPublished
    <3>3. Tidy(index'[q], ready'[q], unacked[q], InFlight(q), HeldUnacked(q), settled[q],
               spoiled', Positions')
      BY <3>2, TidyWider
    <3> QED
      BY <2>2, <3>3 DEF QueueTidy
  <2>4. CASE q \notin Bound
    <3>1. SameQueue(q)
      BY <2>2, <2>4 DEF RoutedAndDropped, SameQueue
    <3> QED
      BY <2>1, <3>1, SameQueueTidy
  <2> QED
    BY <2>3, <2>4
<1> QED
  BY <1>1, <1>2, <1>5, <1>6 DEF QueuesInv

\* Whatever the limited queue does about it, a message is in the queues it is routed
\* to, and the copy of a dropped one in the dead letter queue.
LEMMA DepositKeepsQueues ==
  ASSUME StoreAssumption, StoreTypes, QueuesInv, NEW c \in Channels, NEW tag, NEW sp \in Nat,
         \A p \in Positions : p < sp, Deposit(c, tag, sp), UNCHANGED <<unacked, serving>>
  PROVE  QueuesInv'
<1>1. Positions \in SUBSET Nat
  BY DEF StoreTypes
<1>2. sp \notin Positions /\ sp + 1 \notin Positions /\ sp + 1 \in Nat
  BY <1>1
<1>3. CASE /\ Routed(sp) /\ UNCHANGED <<settled, spoiled>>
           /\ DOMAIN owner' = Positions \union {sp}
  BY <1>2, <1>3, RoutedKeepsQueues DEF Positions
<1>4. CASE /\ Limited \in Bound /\ Len(ready[Limited]) = 1
           /\ \E last \in Bound : RoutedAndDropped(sp, last)
           /\ DOMAIN owner' = Positions \union {sp, sp + 1}
           /\ settled' = [settled EXCEPT ![Limited] = @ \union {Head(ready[Limited])}]
           /\ IF Full(index[Limited])
                THEN spoiled' = spoiled \union {sp} \union InFlight(Limited)
                ELSE spoiled' = spoiled
  <2>1. Positions' = (Positions \union {sp}) \union {sp + 1}
    BY <1>4 DEF Positions
  <2>2. PICK last \in Bound : RoutedAndDropped(sp, last)
    BY <1>4
  <2>3. /\ spoiled \subseteq spoiled'
        /\ Full(index[Limited]) => {sp} \union InFlight(Limited) \subseteq spoiled'
    BY <1>4
  <2> QED
    BY <1>2, <1>4, <2>1, <2>2, <2>3, StoreAssumption, DroppedKeepsQueues
<1> QED
  BY <1>3, <1>4 DEF Deposit

-----------------------------------------------------------------------------
(* Crashes and restarts.                                                    *)

\* The sequence t has nothing that s has not, and as well kept.
IsPart(t, s) == /\ t \in Seq(Nat) /\ ToSet(t) \subseteq ToSet(s)
                /\ \A X : Once(s, X) => Once(t, X)
                /\ Ascending(s) => Ascending(t)

\* The part of an enq file that was written back.
LEMMA PrefixElements ==
  ASSUME NEW s \in Seq(Nat), NEW n \in 0..Len(s), NEW t, t = SubSeq(s, 1, n)
  PROVE  IsPart(t, s)
<1>1. Len(s) \in Nat
  BY LenProperties
<1>2. t \in Seq(Nat) /\ Len(t) = n /\ \A i \in 1..n : t[i] = s[i]
  BY <1>1
<1>3. \A i \in 1..n : i \in 1..Len(s)
  BY <1>1
<1>4. ASSUME NEW x \in ToSet(t) PROVE x \in ToSet(s)
  <2>1. PICK i \in 1..n : x = t[i]
    BY <1>2, ElementsOfSeq
  <2> QED
    BY <1>2, <1>3, <2>1, ElementsOfSeq
<1>5. ASSUME NEW X, Once(s, X) PROVE Once(t, X)
  BY <1>2, <1>3, <1>5 DEF Once
<1>6. Ascending(s) => Ascending(t)
  BY <1>2, <1>3 DEF Ascending
<1> QED
  BY <1>2, <1>4, <1>5, <1>6 DEF IsPart

\* The index files a start finds where the machine left ix, and where the broker did.
IsLeft(fx, ix) ==
  \E enq \in {ix.enq, SubSeq(ix.enq, 1, ix.synced)}, ack \in {ix.ack, <<>>} :
    fx = [enq |-> enq, synced |-> Len(enq), ack |-> ack]
IsFound(fx, ix) == fx = ix \/ IsLeft(fx, ix)

\* The files a start finds after the machine crashed.
LEMMA MachineLeaves ==
  ASSUME MachineCrash
  PROVE  \E found : /\ Restart(found) /\ found = [q \in Queues |-> found[q]]
                    /\ \A q \in Queues : IsLeft(found[q], index[q])
<1> DEFINE Enq(enqs, q) == IF q \in enqs THEN index[q].enq
                           ELSE SubSeq(index[q].enq, 1, index[q].synced)
           Acks(acks, q) == IF q \in acks THEN index[q].ack ELSE <<>>
           Found(enqs, acks) == [q \in Queues |-> [enq |-> Enq(enqs, q),
                                                   synced |-> Len(Enq(enqs, q)),
                                                   ack |-> Acks(acks, q)]]
<1>1. PICK enqs, acks : Restart(Found(enqs, acks))
  BY DEF MachineCrash
<1>2. PICK found : found = Found(enqs, acks)
  OBVIOUS
<1>3. found = [q \in Queues |-> found[q]]
  BY <1>2
<1>4. ASSUME NEW q \in Queues PROVE IsLeft(found[q], index[q])
  <2>1. found[q] = [enq |-> Enq(enqs, q), synced |-> Len(Enq(enqs, q)), ack |-> Acks(acks, q)]
    BY <1>2
  <2>2. /\ Enq(enqs, q) \in {index[q].enq, SubSeq(index[q].enq, 1, index[q].synced)}
        /\ Acks(acks, q) \in {index[q].ack, <<>>}
    OBVIOUS
  <2> HIDE DEF Enq, Acks, Found
  <2> QED
    BY <2>1, <2>2 DEF IsLeft
<1> HIDE DEF Found
<1> QED
  BY <1>1, <1>2, <1>3, <1>4

\* The files a start finds, whatever stopped the broker.
LEMMA RestartFinds ==
  ASSUME QueuesInv, ProcessCrash \/ MachineCrash \/ Shutdown
  PROVE  \E found : /\ Restart(found) /\ found = [q \in Queues |-> found[q]]
                    /\ \A q \in Queues : IsFound(found[q], index[q])
<1>1. CASE ProcessCrash \/ Shutdown
  <2>1. Restart(index)
    BY <1>1 DEF ProcessCrash, Shutdown
  <2>2. index = [q \in Queues |-> index[q]] /\ \A q \in Queues : IsFound(index[q], index[q])
    BY DEF QueuesInv, Shapes, IsFound
  <2> QED
    BY <2>1, <2>2
<1>2. CASE MachineCrash
  BY <1>2, MachineLeaves DEF IsFound
<1> QED
  BY <1>1, <1>2

\* What is found is a part of what was there.
LEMMA FoundFiles ==
  ASSUME NEW ix \in IndexFiles, ix.synced <= Len(ix.enq), NEW fx, IsFound(fx, ix)
  PROVE  /\ fx \in IndexFiles /\ fx.synced <= Len(fx.enq)
         /\ ToSet(fx.enq) \subseteq ToSet(ix.enq)
         /\ \A X : Once(ix.enq, X) => Once(fx.enq, X)
         /\ Ascending(ix.enq) => Ascending(fx.enq)
         /\ fx.ack \in {ix.ack, <<>>}
<1>1. ix.enq \in Seq(Nat) /\ ix.synced \in Nat /\ ix.ack \in Seq(Nat) /\ <<>> \in Seq(Nat)
  BY DEF IndexFiles
<1>2. Len(ix.enq) \in Nat
  BY <1>1, LenProperties
<1>3. CASE fx = ix
  BY <1>3
<1>4. ASSUME NEW enq \in {ix.enq, SubSeq(ix.enq, 1, ix.synced)}, NEW ack \in {ix.ack, <<>>},
             fx = [enq |-> enq, synced |-> Len(enq), ack |-> ack]
      PROVE  /\ fx \in IndexFiles /\ fx.synced <= Len(fx.enq)
             /\ ToSet(fx.enq) \subseteq ToSet(ix.enq)
             /\ \A X : Once(ix.enq, X) => Once(fx.enq, X)
             /\ Ascending(ix.enq) => Ascending(fx.enq)
             /\ fx.ack \in {ix.ack, <<>>}
  <2>1. IsPart(enq, ix.enq)
    <3>1. CASE enq = ix.enq
      BY <1>1, <3>1 DEF IsPart
    <3>2. CASE enq = SubSeq(ix.enq, 1, ix.synced)
      <4>1. ix.synced \in 0..Len(ix.enq)
        BY <1>1, <1>2
      <4> QED
        BY <1>1, <3>2, <4>1, PrefixElements
    <3> QED
      BY <3>1, <3>2
  <2>2. fx.enq = enq /\ fx.synced = Len(enq) /\ fx.ack = ack
    BY <1>4
  <2>3. enq \in Seq(Nat) /\ Len(enq) \in Nat
    BY <2>1, LenProperties DEF IsPart
  <2>4. fx \in IndexFiles
    BY <1>1, <1>4, <2>3 DEF IndexFiles
  <2>5. fx.synced <= Len(fx.enq)
    BY <2>2, <2>3
  <2> QED
    BY <2>1, <2>2, <2>4, <2>5 DEF IsPart
<1> QED
  BY <1>3, <1>4 DEF IsFound, IsLeft

\* A restart of any kind.
LEMMA RestartKeepsQueues ==
  ASSUME StoreAssumption, QueuesInv, ProcessCrash \/ MachineCrash \/ Shutdown
  PROVE  QueuesInv'
<1>1. PICK found : /\ Restart(found) /\ found = [q \in Queues |-> found[q]]
                   /\ \A q \in Queues : IsFound(found[q], index[q])
  BY RestartFinds
<1>2. /\ index' = found
      /\ ready' = [q \in Queues |-> Restored(found[q])]
      /\ unacked' = [q \in Queues |-> {}]
      /\ serving' = [q \in Queues |-> NotServing]
      /\ Positions' = Positions
  BY <1>1 DEF Restart, Positions
<1>3. settled' = settled /\ spoiled \subseteq spoiled'
  BY DEF ProcessCrash, MachineCrash, Shutdown
<1>4. Shapes'
  BY <1>1, <1>2, <1>3 DEF QueuesInv, Shapes
<1>5. ASSUME NEW q \in Queues PROVE QueueTidy(q)'
  <2>1. Tidy(index[q], ready[q], unacked[q], InFlight(q), HeldUnacked(q), settled[q], spoiled,
             Positions)
    BY DEF QueuesInv, QueueTidy
  <2>2. PICK fx : fx = found[q]
    OBVIOUS
  <2>3. /\ fx \in IndexFiles /\ fx.synced <= Len(fx.enq)
        /\ ToSet(fx.enq) \subseteq ToSet(index[q].enq)
        /\ Once(fx.enq, spoiled)
        /\ fx.ack \in {index[q].ack, <<>>}
    BY <1>1, <2>1, <2>2, FoundFiles DEF Tidy, Contained, Single
  <2>4. /\ ToSet(fx.ack) \subseteq Positions /\ ToSet(fx.ack) \subseteq settled[q]
        /\ Len(fx.ack) <= AckMax
    <3>1. ToSet(<<>>) = {} /\ Len(<<>>) = 0
      BY DEF ToSet
    <3>2. CASE fx.ack = index[q].ack
      BY <2>1, <3>2 DEF Tidy, Contained
    <3>3. CASE fx.ack = <<>>
      BY <3>1, <3>3, StoreAssumption DEF StoreAssumption
    <3> QED
      BY <2>3, <3>2, <3>3
  <2>5. ToSet(fx.enq) \subseteq Positions
    BY <2>1, <2>3 DEF Tidy, Contained
  <2>6. Once(fx.enq, spoiled')
    BY <1>3, <2>3 DEF Once
  <2>7. Tidy(fx, Restored(fx), {}, {}, {}, settled[q], spoiled', Positions)
    BY <2>3, <2>4, <2>5, <2>6, TidyRestored
  <2>8. InFlight(q)' = {} /\ HeldUnacked(q)' = {}
    BY <1>2 DEF InFlight, HeldUnacked, NotServing, At, None
  <2> QED
    BY <1>2, <1>3, <2>2, <2>7, <2>8 DEF QueueTidy
<1> QED
  BY <1>4, <1>5 DEF QueuesInv

-----------------------------------------------------------------------------
(* The segments and the positions in them.                                  *)

\* The segment and the place of a position.
LEMMA PositionParts ==
  ASSUME NEW n \in Nat \ {0}, NEW w \in Nat, NEW r \in 0..(n - 1)
  PROVE  /\ w * n + r \in Nat /\ (w * n + r) \div n = w /\ (w * n + r) % n = r
<1>1. w * n \in Nat
  OBVIOUS
<1>2. (w * n + r) \div n = w
  OBVIOUS
<1>3. (w * n + r) % n = r
  OBVIOUS
<1> QED
  BY <1>1, <1>2, <1>3

\* The segment after is above it.
LEMMA NextSegment ==
  ASSUME NEW n \in Nat \ {0}, NEW w \in Nat, NEW v \in Nat, w <= v
  PROVE  w * n \in Nat /\ v * n \in Nat /\ w * n <= v * n /\ (w + 1) * n = w * n + n
OBVIOUS

\* A step that appends nothing and takes no file away.
LEMMA SameStoreTypes ==
  ASSUME StoreTypes, UNCHANGED <<wseg, wsize, segments, owner, gone, total, confirmed>>,
         synced' \subseteq Positions, promised' \subseteq Positions
  PROVE  StoreTypes'
<1>1. Positions' = Positions /\ Next_sp' = Next_sp
  BY DEF Positions, Next_sp
<1>2. \A sp : Segment(sp)' = Segment(sp)
  BY DEF Segment
<1> QED
  BY <1>1, <1>2 DEF StoreTypes

\* What a message, and the copy of the one dropped for it, does to the positions: the
\* message is at the place r of the segment w.
LEMMA DepositTypes ==
  ASSUME StoreAssumption, StoreTypes, NEW c \in Channels, NEW tag, NEW w \in Nat \ {0},
         NEW r \in 0..(SegSize - 1), NEW sp, sp = w * SegSize + r,
         wseg <= w, \A p \in Positions : p < sp, Deposit(c, tag, sp),
         wseg' = w, w \in segments', segments' \subseteq 1..w,
         UNCHANGED <<synced, gone>>, total' \in [Channels -> Nat],
         confirmed' \in [Channels -> Nat], \A d \in Channels : confirmed'[d] <= total'[d]
  PROVE  StoreTypes'
<1>1. PICK n \in Nat \ {0} : n = SegSize
  BY StoreAssumption DEF StoreAssumption
<1>2. sp \in Nat /\ sp \div n = w /\ sp % n = r /\ w * n \in Nat
  <2>1. r \in 0..(n - 1) /\ sp = w * n + r
    BY <1>1
  <2>2. w * n + r \in Nat /\ (w * n + r) \div n = w /\ (w * n + r) % n = r
    BY <2>1, PositionParts
  <2>3. w * n \in Nat
    OBVIOUS
  <2> QED
    BY <2>1, <2>2, <2>3
<1>3. PICK k \in {1, 2} : /\ wsize' = r + k /\ r + k <= n
                          /\ DOMAIN owner' = Positions \union (IF k = 1 THEN {sp}
                                                               ELSE {sp, sp + 1})
                          /\ promised' \subseteq promised \union {sp}
  <2>1. \/ /\ DOMAIN owner' = Positions \union {sp} /\ wsize' = (sp % SegSize) + 1
           /\ promised' \subseteq promised \union {sp}
        \/ /\ DOMAIN owner' = Positions \union {sp, sp + 1} /\ wsize' = (sp % SegSize) + 2
           /\ (sp % SegSize) + 2 <= SegSize
           /\ promised' \subseteq promised \union {sp}
    BY DEF Deposit
  <2>2. r + 1 <= n
    BY <1>1
  <2> QED
    BY <1>1, <1>2, <2>1, <2>2
<1>4. Positions' \subseteq (Positions \union {sp}) \union {sp + 1} /\ sp \in Positions'
      /\ Positions \subseteq Positions'
  BY <1>3 DEF Positions
<1>5. sp + 1 \in Positions' => k = 2
  <2>1. sp + 1 \notin Positions
    <3>1. ASSUME sp + 1 \in Positions PROVE FALSE
      <4>1. sp + 1 < sp
        BY <3>1
      <4> QED
        BY <1>2, <4>1
    <3> QED
      BY <3>1
  <2>2. sp + 1 # sp
    BY <1>2
  <2> QED
    BY <1>3, <2>1, <2>2 DEF Positions
<1>6. Next_sp' = w * n + wsize' /\ wsize' \in 0..n /\ wsize' = r + k
  BY <1>1, <1>3 DEF Next_sp
<1>7. ASSUME NEW p \in Positions' PROVE p \in Nat /\ p < Next_sp' /\ p \div n <= w
  <2>1. CASE p \in Positions
    <3>1. p \in Nat /\ p < sp /\ p \div n <= wseg
      BY <1>1, <2>1 DEF StoreTypes, Segment
    <3>2. p \div n <= w
      <4>1. p \div n \in Int /\ wseg \in Nat
        BY <3>1 DEF StoreTypes
      <4> QED
        BY <3>1, <4>1
    <3>3. sp < Next_sp'
      BY <1>1, <1>2, <1>3, <1>6
    <3>4. Next_sp' \in Nat
      BY <1>2, <1>6
    <3> QED
      BY <1>2, <3>1, <3>2, <3>3, <3>4
  <2>2. CASE p = sp
    BY <1>1, <1>2, <1>3, <1>6, <2>2
  <2>3. CASE p = sp + 1
    <3>1. k = 2
      BY <1>5, <2>3
    <3>2. r + 1 \in 0..(n - 1) /\ p = w * n + (r + 1)
      BY <1>1, <1>2, <1>3, <2>3, <3>1
    <3>3. p \in Nat /\ p \div n = w
      BY <3>2, PositionParts
    <3> QED
      BY <1>2, <1>6, <3>1, <3>2, <3>3
  <2> QED
    BY <1>4, <2>1, <2>2, <2>3
<1>8. IsFiniteSet(Positions')
  <2>1. IsFiniteSet(Positions)
    BY DEF StoreTypes
  <2>2. IsFiniteSet((Positions \union {sp}) \union {sp + 1})
    BY <2>1, FS_AddElement
  <2> QED
    BY <1>4, <2>2, FS_Subset
<1>9. \A p \in Positions' : p < Next_sp' /\ Segment(p)' <= wseg'
  BY <1>1, <1>7 DEF Segment
<1>10. Positions' \in SUBSET Nat
  BY <1>7
<1>11. /\ synced' \subseteq Positions' /\ gone' \subseteq Positions'
       /\ promised' \subseteq Positions'
  BY <1>3, <1>4 DEF StoreTypes
<1>12. wsize' \in 0..SegSize
  BY <1>1, <1>6
<1> QED
  BY <1>8, <1>9, <1>10, <1>11, <1>12 DEF StoreTypes

\* publish_and_return counts the message, and appends it or opens a segment.
LEMMA WriteKeepsTypes ==
  ASSUME StoreAssumption, StoreTypes, NEW c \in Channels, NEW tag, Write(c, tag),
         total' \in [Channels -> Nat], \A d \in Channels : total[d] <= total'[d]
  PROVE  StoreTypes'
<1>1. /\ confirmed' = confirmed /\ confirmed \in [Channels -> Nat]
      /\ \A d \in Channels : confirmed'[d] <= total'[d]
  <2>1. confirmed' = confirmed
    BY DEF Write
  <2>2. confirmed \in [Channels -> Nat] /\ total \in [Channels -> Nat]
        /\ \A d \in Channels : confirmed[d] <= total[d]
    BY DEF StoreTypes
  <2> QED
    BY <2>1, <2>2
<1>2. CASE RoomInSegment
  <2>1. Deposit(c, tag, Next_sp) /\ UNCHANGED <<wseg, segments, synced, gone>>
    BY <1>2 DEF Write
  <2>2. PICK w \in Nat \ {0}, r \in 0..(SegSize - 1), sp \in {Next_sp} :
          w = wseg /\ r = wsize
    BY <1>2, StoreAssumption DEF StoreTypes, RoomInSegment, StoreAssumption
  <2>3. sp = w * SegSize + r /\ \A p \in Positions : p < sp
    BY <2>2 DEF Next_sp, StoreTypes
  <2>4. wseg <= w /\ wseg' = w /\ w \in segments' /\ segments' \subseteq 1..w
    BY <2>1, <2>2 DEF StoreTypes
  <2> QED
    BY <1>1, <2>1, <2>2, <2>3, <2>4, StoreAssumption, DepositTypes
<1>3. CASE ~RoomInSegment
  <2>1. /\ synced' \subseteq Positions
        /\ UNCHANGED <<wseg, wsize, appended, segments, owner, gone, promised>>
    BY <1>3 DEF Write, SyncFiles, Covered, StoreTypes
  <2>2. Positions' = Positions /\ Next_sp' = Next_sp /\ \A sp : Segment(sp)' = Segment(sp)
    BY <2>1 DEF Positions, Next_sp, Segment
  <2> QED
    BY <1>1, <2>1, <2>2 DEF StoreTypes
<1> QED
  BY <1>2, <1>3

\* A publish keeps the types.
LEMMA PublishKeepsTypes ==
  ASSUME StoreAssumption, StoreTypes, NEW c \in Channels, Publish(c) \/ TakeWriteLock(c)
  PROVE  StoreTypes'
<1>1. total \in [Channels -> Nat] /\ confirmed \in [Channels -> Nat]
      /\ \A d \in Channels : confirmed[d] <= total[d]
  BY DEF StoreTypes
<1>2. total' \in [Channels -> Nat] /\ \A d \in Channels : total[d] <= total'[d]
  <2>1. total' = [total EXCEPT ![c] = @ + 1] \/ total' = total
    BY DEF Publish, TakeWriteLock
  <2> QED
    BY <1>1, <2>1
<1>3. CASE \E tag : Write(c, tag)
  BY <1>2, <1>3, StoreAssumption, WriteKeepsTypes
<1>4. CASE UNCHANGED <<store, confirmed, history>>
  <2>1. UNCHANGED <<wseg, wsize, segments, owner, synced, gone, confirmed, promised>>
    BY <1>4 DEF store, history
  <2>2. Positions' = Positions /\ Next_sp' = Next_sp /\ \A sp : Segment(sp)' = Segment(sp)
    BY <2>1 DEF Positions, Next_sp, Segment
  <2>3. \A d \in Channels : confirmed'[d] <= total'[d]
    BY <1>1, <1>2, <2>1
  <2> QED
    BY <1>1, <1>2, <2>1, <2>2, <2>3 DEF StoreTypes
<1> QED
  BY <1>3, <1>4 DEF Publish, TakeWriteLock

\* The first message of a new segment.
LEMMA RolledKeepsTypes ==
  ASSUME StoreAssumption, StoreTypes, NEW c \in Channels, Rolled(c)
  PROVE  StoreTypes'
<1>1. PICK n \in Nat \ {0} : n = SegSize
  BY StoreAssumption DEF StoreAssumption
<1>2. PICK w \in Nat \ {0} : w = wseg + 1
  BY DEF StoreTypes
<1>3. PICK r \in 0..(n - 1) : r = 0
  BY <1>1
<1>4. PICK sp : sp = (wseg + 1) * SegSize
  OBVIOUS
<1>5. wseg \in Nat /\ wsize \in 0..n /\ segments \subseteq 1..wseg
      /\ \A p \in Positions : p \in Nat /\ p < wseg * n + wsize
  BY <1>1 DEF StoreTypes, Next_sp
<1>6. w * n \in Nat /\ wseg * n \in Nat /\ w * n = wseg * n + n
  BY <1>2, <1>5, NextSegment
<1>7. sp = w * n + r /\ \A p \in Positions : p < sp
  <2>1. sp = w * n /\ sp \in Nat
    BY <1>1, <1>2, <1>4, <1>6
  <2>2. wseg * n + wsize <= sp
    BY <1>5, <1>6, <2>1
  <2>3. ASSUME NEW p \in Positions PROVE p < sp
    <3>1. p \in Nat /\ p < wseg * n + wsize
      BY <1>5
    <3> QED
      BY <1>5, <1>6, <2>1, <2>2, <3>1
  <2> QED
    BY <1>3, <2>1, <2>3
<1>8. wseg <= w /\ wseg' = w /\ w \in segments' /\ segments' \subseteq 1..w
  BY <1>2, <1>5 DEF Rolled
<1>9. /\ Deposit(c, total[c], sp) /\ UNCHANGED <<synced, gone, total, confirmed>>
      /\ total' \in [Channels -> Nat] /\ confirmed' \in [Channels -> Nat]
      /\ \A d \in Channels : confirmed'[d] <= total'[d]
  BY <1>4 DEF Rolled, StoreTypes
<1> QED
  BY <1>1, <1>2, <1>3, <1>7, <1>8, <1>9, StoreAssumption, DepositTypes

\* Confirming counts no further than the channel has.
LEMMA ConfirmKeepsTypes ==
  ASSUME StoreTypes, NEW c \in Channels, confirm_ack(c)
  PROVE  StoreTypes'
<1>1. /\ UNCHANGED <<wseg, wsize, segments, owner, synced, gone, total>>
      /\ confirmed' = [confirmed EXCEPT ![c] = total[c]]
      /\ promised' \subseteq promised \union Positions
  BY DEF confirm_ack, ConfirmedNow, store
<1>2. Positions' = Positions /\ Next_sp' = Next_sp /\ \A sp : Segment(sp)' = Segment(sp)
  BY <1>1 DEF Positions, Next_sp, Segment
<1>3. total \in [Channels -> Nat] /\ confirmed \in [Channels -> Nat]
      /\ \A d \in Channels : confirmed[d] <= total[d]
  BY DEF StoreTypes
<1>4. confirmed' \in [Channels -> Nat] /\ \A d \in Channels : confirmed'[d] <= total'[d]
  BY <1>1, <1>3
<1>5. promised' \subseteq Positions
  BY <1>1 DEF StoreTypes
<1> QED
  BY <1>1, <1>2, <1>4, <1>5 DEF StoreTypes

\* A bounded set of numbers has a greatest one.
LEMMA GreatestElement ==
  ASSUME NEW S \in SUBSET Nat, S # {}, NEW b \in Nat, \A x \in S : x <= b
  PROVE  MaxOf(S) \in S /\ \A x \in S : x <= MaxOf(S)
<1> DEFINE B == {m \in Nat : \A x \in S : x <= m}
<1>1. B \in SUBSET Nat /\ B # {}
  OBVIOUS
<1>2. PICK m \in B : \A k \in B : m <= k
  BY <1>1, LeastElement
<1>3. m \in Nat /\ \A x \in S : x \in Nat /\ x <= m
  BY <1>2
<1>4. m \in S
  <2>1. SUFFICES ASSUME m \notin S PROVE FALSE
    OBVIOUS
  <2>2. PICK x \in S : TRUE
    OBVIOUS
  <2>3. \A y \in S : y <= m - 1
    BY <1>3, <2>1
  <2>4. m - 1 \in Nat
    BY <1>3, <2>2, <2>3
  <2>5. m - 1 \in B
    BY <2>3, <2>4
  <2>6. m <= m - 1
    BY <1>2, <2>5
  <2> QED
    BY <1>3, <2>6
<1>5. \E x \in S : \A y \in S : y <= x
  BY <1>3, <1>4
<1> QED
  BY <1>5 DEF MaxOf

\* No collection takes the segment that is written.
LEMMA CollectingKeepsTypes ==
  ASSUME StoreAssumption, StoreTypes, QueuesInv, gc_segments
  PROVE  StoreTypes'
<1>1. UNCHANGED <<wseg, wsize, owner, synced, promised, total, confirmed>>
  BY DEF gc_segments, confirm
<1>2. Positions' = Positions /\ Next_sp' = Next_sp /\ \A sp : Segment(sp)' = Segment(sp)
  BY <1>1 DEF Positions, Next_sp, Segment
<1>3. wseg \in segments' /\ segments' \subseteq segments \union {wseg}
  <2>1. CASE segments' = {wseg}
    BY <2>1
  <2>2. CASE Referenced # {} /\ segments' = segments \ Unneeded(Referenced)
    <3>1. Referenced \subseteq Positions
      BY DEF Referenced, InMemory, QueuesInv, QueueTidy, Tidy, Contained
    <3>2. /\ wseg \in Nat /\ wsize \in 0..SegSize /\ Positions \in SUBSET Nat
          /\ \A sp \in Positions : sp < Next_sp
      BY DEF StoreTypes
    <3>3. Next_sp \in Nat /\ \A sp \in Referenced : sp <= Next_sp
      <4>1. SegSize \in Nat \ {0}
        BY StoreAssumption DEF StoreAssumption
      <4>2. wseg * SegSize \in Nat /\ wsize \in Nat
        BY <3>2, <4>1, NextSegment
      <4>3. Next_sp \in Nat
        BY <4>2 DEF Next_sp
      <4> HIDE DEF Next_sp
      <4>4. ASSUME NEW sp \in Referenced PROVE sp <= Next_sp
        <5>1. sp \in Nat /\ sp < Next_sp
          BY <3>1, <3>2
        <5> QED
          BY <4>3, <5>1
      <4> QED
        BY <4>3, <4>4
    <3>4. MaxOf(Referenced) \in Referenced
      BY <2>2, <3>1, <3>2, <3>3, GreatestElement
    <3>5. Segment(MaxOf(Referenced)) <= wseg
      BY <3>1, <3>4 DEF StoreTypes
    <3>6. wseg \notin Unneeded(Referenced)
      <4>1. PICK m : m = Segment(MaxOf(Referenced))
        OBVIOUS
      <4>2. m \in Int
        BY <3>1, <3>2, <3>4, <4>1, StoreAssumption DEF Segment, StoreAssumption
      <4>3. ~(wseg < m)
        BY <3>2, <3>5, <4>1, <4>2
      <4> QED
        BY <4>1, <4>3 DEF Unneeded
    <3> QED
      BY <2>2, <3>6 DEF StoreTypes
  <2> QED
    BY <2>1, <2>2 DEF gc_segments
<1>4. gone' \subseteq Positions
  BY DEF gc_segments, Unused, StoreTypes
<1>5. segments' \subseteq 1..wseg
  BY <1>3 DEF StoreTypes
<1> QED
  BY <1>1, <1>2, <1>3, <1>4, <1>5 DEF StoreTypes

\* A start finds the segments there were, and counts from zero.
LEMMA RestartKeepsTypes ==
  ASSUME StoreAssumption, StoreTypes, ProcessCrash \/ MachineCrash \/ Shutdown
  PROVE  StoreTypes'
<1>1. \E found : Restart(found)
  BY DEF ProcessCrash, MachineCrash, Shutdown
<1>2. /\ UNCHANGED <<wseg, segments, promised>> /\ DOMAIN owner' = Positions
      /\ total' = [c \in Channels |-> 0] /\ confirmed' = [c \in Channels |-> 0]
      /\ wsize' \in {wsize, SegSize}
      /\ synced' \subseteq Positions /\ gone' \subseteq Positions
  BY <1>1 DEF Restart, ProcessCrash, MachineCrash, Shutdown, StoreTypes
<1>3. Positions' = Positions /\ \A sp : Segment(sp)' = Segment(sp)
  BY <1>2 DEF Positions, Segment
<1>4. PICK n \in Nat \ {0} : n = SegSize
  BY StoreAssumption DEF StoreAssumption
<1>5. wsize \in 0..n /\ wsize' \in 0..n /\ wsize <= wsize'
  BY <1>2, <1>4 DEF StoreTypes
<1>6. \A p \in Positions : p < Next_sp'
  <2>1. wseg * n \in Nat
    BY NextSegment DEF StoreTypes
  <2>2. Next_sp = wseg * n + wsize /\ Next_sp' = wseg * n + wsize'
    BY <1>2, <1>4 DEF Next_sp
  <2>3. Next_sp \in Nat /\ Next_sp' \in Nat /\ Next_sp <= Next_sp'
    BY <1>5, <2>1, <2>2
  <2>4. \A p \in Positions : p \in Nat /\ p < Next_sp
    BY DEF StoreTypes
  <2> HIDE DEF Next_sp
  <2> QED
    BY <2>3, <2>4
<1>7. /\ total' \in [Channels -> Nat] /\ confirmed' \in [Channels -> Nat]
      /\ \A c \in Channels : confirmed'[c] <= total'[c]
  BY <1>2
<1> QED
  BY <1>2, <1>3, <1>4, <1>5, <1>6, <1>7 DEF StoreTypes

-----------------------------------------------------------------------------
(* The invariant holds.                                                     *)

\* A new broker has empty queues and empty index files.
LEMMA DurableInit == Init => DurableInv
<1> SUFFICES ASSUME Init PROVE DurableInv
  OBVIOUS
<1>1. LockInv
  BY StoreAssumption
     DEF Init, LockInv, LockTypes, Locks, Agents, PublisherStates, LoopStates, NotServing,
         At, StoreAssumption, None
<1>2. Positions = {}
  BY DEF Init, Positions
<1>3. StoreTypes
  <2>1. IsFiniteSet({})
    BY FS_EmptySet
  <2>2. wsize \in 0..SegSize
    BY StoreAssumption DEF Init, StoreAssumption
  <2> QED
    BY <1>2, <2>1, <2>2 DEF Init, StoreTypes
<1>4. Shapes
  BY DEF Init, Shapes
<1>5. ASSUME NEW q \in Queues PROVE QueueTidy(q)
  <2>1. ToSet(<<>>) = {} /\ <<>> \in Seq(Nat) /\ Len(<<>>) = 0
    BY DEF ToSet
  <2>2. /\ NoIndex \in IndexFiles /\ NoIndex.enq = <<>> /\ NoIndex.synced = 0
        /\ NoIndex.ack = <<>>
    BY <2>1 DEF NoIndex, IndexFiles
  <2>3. InFlight(q) = {} /\ HeldUnacked(q) = {}
    BY DEF Init, InFlight, HeldUnacked, NotServing, At, None
  <2>4. ready[q] = <<>> /\ unacked[q] = {} /\ index[q] = NoIndex
    BY DEF Init
  <2>5. Contained(NoIndex, <<>>, {}, {}, settled[q], Positions)
    BY <2>1, <2>2, StoreAssumption DEF Contained, StoreAssumption
  <2>6. Exact(NoIndex, <<>>, {}, {}, spoiled)
    BY <2>1, <2>2 DEF Exact, Held, Live
  <2>7. Once(<<>>, spoiled)
    BY <2>1 DEF Once
  <2>8. Single(NoIndex, <<>>, {}, {}, {}, spoiled)
    BY <2>1, <2>2, <2>7 DEF Single
  <2> QED
    BY <2>3, <2>4, <2>5, <2>6, <2>8 DEF QueueTidy, Tidy
<1>6. appended \in BOOLEAN
  BY DEF Init
<1> QED
  BY <1>1, <1>3, <1>4, <1>5, <1>6 DEF DurableInv, QueuesInv

\* A message that is written, in the segment there is or in a new one.
LEMMA PublishingKeepsDurable ==
  ASSUME StoreAssumption, DurableInv, NEW c \in Channels, Publish(c) \/ Publishing(c)
  PROVE  StoreTypes' /\ QueuesInv'
<1>1. StoreTypes /\ QueuesInv /\ LockInv
  BY DEF DurableInv
<1>2. CASE RollTakesLock(c) \/ AddedToAwaiting(c)
  <2>1. UNCHANGED <<store, queues, total, confirmed, history>>
    BY <1>2 DEF RollTakesLock, AddedToAwaiting
  <2>2. UNCHANGED queueVars
    BY <2>1 DEF store, queues, history, queueVars
  <2>3. /\ UNCHANGED <<wseg, wsize, segments, owner, gone, total, confirmed>>
        /\ synced' \subseteq Positions /\ promised' \subseteq Positions
    BY <1>1, <2>1 DEF store, history, StoreTypes
  <2> QED
    BY <1>1, <2>2, <2>3, OthersKeepQueues, SameStoreTypes
<1>3. CASE Rolled(c)
  <2>1. StoreTypes'
    BY <1>1, <1>3, StoreAssumption, RolledKeepsTypes
  <2>2. PICK sp : sp = (wseg + 1) * SegSize
    OBVIOUS
  <2>3. Deposit(c, total[c], sp) /\ UNCHANGED <<unacked, serving>>
    BY <1>3, <2>2 DEF Rolled
  <2>4. sp \in Nat /\ \A p \in Positions : p < sp
    <3>1. PICK n \in Nat \ {0} : n = SegSize
      BY StoreAssumption DEF StoreAssumption
    <3>2. /\ wseg \in Nat /\ wsize \in 0..n
          /\ \A p \in Positions : p \in Nat /\ p < wseg * n + wsize
      BY <1>1, <3>1 DEF StoreTypes, Next_sp
    <3>3. wseg * n \in Nat /\ (wseg + 1) * n = wseg * n + n
      BY <3>2, NextSegment
    <3>4. sp = wseg * n + n
      BY <2>2, <3>1, <3>3
    <3>5. sp \in Nat /\ wseg * n + wsize <= sp
      BY <3>2, <3>3, <3>4
    <3>6. ASSUME NEW p \in Positions PROVE p < sp
      <4>1. p \in Nat /\ p < wseg * n + wsize
        BY <3>2
      <4> QED
        BY <3>2, <3>3, <3>5, <4>1
    <3> QED
      BY <3>5, <3>6
  <2>5. QueuesInv'
    BY <1>1, <2>3, <2>4, StoreAssumption, DepositKeepsQueues
  <2> QED
    BY <2>1, <2>5
<1>4. CASE Publish(c) \/ TakeWriteLock(c)
  <2>1. StoreTypes'
    BY <1>1, <1>4, StoreAssumption, PublishKeepsTypes
  <2>2. CASE \E tag : Write(c, tag)
    <3>1. PICK tag : Write(c, tag)
      BY <2>2
    <3>2. CASE RoomInSegment
      <4>1. Deposit(c, tag, Next_sp) /\ UNCHANGED <<unacked, serving>>
        BY <3>1, <3>2 DEF Write
      <4>2. PICK sp : sp = Next_sp
        OBVIOUS
      <4>3. sp \in Nat
        <5>1. SegSize \in Nat /\ wseg \in Nat /\ wsize \in 0..SegSize
          BY <1>1, StoreAssumption DEF StoreTypes, StoreAssumption
        <5>2. wseg * SegSize \in Nat /\ wsize \in Nat
          BY <5>1
        <5> QED
          BY <4>2, <5>2 DEF Next_sp
      <4>4. \A p \in Positions : p < sp
        BY <1>1, <4>2 DEF StoreTypes
      <4> HIDE DEF Next_sp
      <4> QED
        BY <1>1, <2>1, <4>1, <4>2, <4>3, <4>4, StoreAssumption, DepositKeepsQueues
    <3>3. CASE ~RoomInSegment
      <4>1. SyncFiles /\ UNCHANGED <<owner, ready, unacked, serving, settled, spoiled>>
        BY <3>1, <3>3 DEF Write
      <4> QED
        BY <1>1, <2>1, <4>1, SyncKeepsQueues
    <3> QED
      BY <3>2, <3>3
  <2>3. CASE UNCHANGED <<store, queues, history>>
    <3>1. UNCHANGED queueVars
      BY <2>3 DEF store, queues, history, queueVars
    <3> QED
      BY <1>1, <2>1, <3>1, OthersKeepQueues
  <2> QED
    BY <1>4, <2>1, <2>2, <2>3 DEF Publish, TakeWriteLock
<1> QED
  BY <1>2, <1>3, <1>4 DEF Publishing

\* What fsync fibers do.
LEMMA ConfirmKeepsDurable ==
  ASSUME StoreAssumption, DurableInv, Confirm
  PROVE  StoreTypes' /\ QueuesInv'
<1>1. StoreTypes /\ QueuesInv
  BY DEF DurableInv
<1>2. CASE FsyncBegins
  <2>1. /\ SyncFiles
        /\ UNCHANGED <<wseg, wsize, appended, segments, owner, gone, ready, unacked, serving,
                       settled, total, confirmed, promised, spoiled>>
    BY <1>2 DEF FsyncBegins
  <2>2. synced' \subseteq Positions /\ promised' \subseteq Positions
    BY <1>1, <2>1 DEF SyncFiles, Covered, StoreTypes
  <2> QED
    BY <1>1, <2>1, <2>2, SyncKeepsQueues, SameStoreTypes
<1>3. CASE FsyncTakesLock \/ FsyncDone
  <2>1. UNCHANGED <<store, queues, total, confirmed, history>>
    BY <1>3 DEF FsyncTakesLock, FsyncDone
  <2>2. UNCHANGED queueVars
    BY <2>1 DEF store, queues, history, queueVars
  <2>3. /\ UNCHANGED <<wseg, wsize, segments, owner, gone, total, confirmed>>
        /\ synced' \subseteq Positions /\ promised' \subseteq Positions
    BY <1>1, <2>1 DEF store, history, StoreTypes
  <2> QED
    BY <1>1, <2>2, <2>3, OthersKeepQueues, SameStoreTypes
<1>4. ASSUME NEW c \in Channels, confirm_ack(c) PROVE StoreTypes' /\ QueuesInv'
  <2>1. UNCHANGED queueVars
    BY <1>4 DEF confirm_ack, store, queues, queueVars
  <2> QED
    BY <1>1, <1>4, <2>1, OthersKeepQueues, ConfirmKeepsTypes
<1> QED
  BY <1>2, <1>3, <1>4 DEF Confirm

\* What deliver loops, consumers and a purge do.
LEMMA SettlingKeepsDurable ==
  ASSUME StoreAssumption, DurableInv, NEW q \in Queues,
         Delivering(q) \/ Deliver(q) \/ Ack(q) \/ Reject(q) \/ Purge(q)
  PROVE  StoreTypes' /\ QueuesInv'
<1>1. StoreTypes /\ QueuesInv /\ LockInv
  BY DEF DurableInv
<1>2. /\ UNCHANGED <<wseg, wsize, segments, owner, gone, total, confirmed, synced, promised>>
  BY DEF Delivering, DeliveryTakesLock, DeliveryConfirmed, Delivered, DeliveryFails, Deliver,
         Ack, Reject, Purge, store, confirm, history
<1>3. StoreTypes'
  BY <1>1, <1>2, SameStoreTypes DEF StoreTypes
<1>4. CASE DeliveryTakesLock(q) \/ DeliveryConfirmed(q)
  <2>1. serving[q].pc # None
    BY <1>1, <1>4, StoreAssumption DEF DeliveryTakesLock, DeliveryConfirmed, LockInv, Locks, None
  <2>2. PICK p \in {"confirming", "write"} :
          serving' = [serving EXCEPT ![q] = At(p, @.sp, @.no_ack)]
    BY <1>4 DEF DeliveryTakesLock, DeliveryConfirmed
  <2>3. UNCHANGED <<owner, ready, unacked, index, settled, spoiled>>
    BY <1>4 DEF DeliveryTakesLock, DeliveryConfirmed, store, history
  <2> QED
    BY <1>1, <1>3, <2>1, <2>2, <2>3, LoopKeepsQueues
<1>5. CASE Delivered(q)
  BY <1>1, <1>3, <1>5, StoreAssumption, DeliveredKeepsQueues
<1>6. CASE DeliveryFails(q) \/ Reject(q)
  BY <1>1, <1>3, <1>6, RequeueKeepsQueues
<1>7. CASE Deliver(q)
  BY <1>1, <1>3, <1>7, DeliverKeepsQueues
<1>8. CASE Ack(q)
  BY <1>1, <1>3, <1>8, StoreAssumption, AckKeepsQueues
<1>9. CASE Purge(q)
  BY <1>1, <1>3, <1>9, StoreAssumption, PurgeKeepsQueues
<1> QED
  BY <1>4, <1>5, <1>6, <1>7, <1>8, <1>9 DEF Delivering

\* Every step keeps the invariant.
LEMMA DurableStep ==
  ASSUME StoreAssumption, DurableInv, [Next]_vars
  PROVE  StoreTypes' /\ QueuesInv'
<1>1. CASE UNCHANGED vars
  <2>1. UNCHANGED queueVars
    BY <1>1 DEF vars, store, queues, history, queueVars
  <2>2. /\ UNCHANGED <<wseg, wsize, segments, owner, gone, total, confirmed>>
        /\ synced' \subseteq Positions /\ promised' \subseteq Positions
    BY <1>1 DEF vars, store, confirm, history, DurableInv, StoreTypes
  <2> QED
    BY <2>1, <2>2, OthersKeepQueues, SameStoreTypes DEF DurableInv
<1>2. ASSUME NEW c \in Channels, Publish(c) \/ Publishing(c) PROVE StoreTypes' /\ QueuesInv'
  BY <1>2, StoreAssumption, PublishingKeepsDurable
<1>3. CASE Confirm
  BY <1>3, StoreAssumption, ConfirmKeepsDurable
<1>4. ASSUME NEW q \in Queues,
             Delivering(q) \/ Deliver(q) \/ Ack(q) \/ Reject(q) \/ Purge(q)
      PROVE StoreTypes' /\ QueuesInv'
  BY <1>4, StoreAssumption, SettlingKeepsDurable
<1>5. CASE gc_segments
  BY <1>5, StoreAssumption, CollectingKeepsQueues, CollectingKeepsTypes DEF DurableInv
<1>6. CASE ProcessCrash \/ MachineCrash \/ Shutdown
  BY <1>6, StoreAssumption, RestartKeepsQueues, RestartKeepsTypes DEF DurableInv
<1> QED
  BY <1>1, <1>2, <1>3, <1>4, <1>5, <1>6 DEF Next

\* A file is appended to or opened again.
LEMMA AppendedIsFlag ==
  ASSUME appended \in BOOLEAN, [Next]_vars
  PROVE  appended' \in BOOLEAN
<1>1. ASSUME NEW c \in Channels, Publish(c) \/ Publishing(c) PROVE appended' \in BOOLEAN
  <2>1. ASSUME NEW tag, Write(c, tag) PROVE appended' \in BOOLEAN
    BY <2>1 DEF Write, Deposit
  <2>2. CASE Publish(c) \/ TakeWriteLock(c)
    BY <2>1, <2>2 DEF Publish, TakeWriteLock, store
  <2>3. CASE Rolled(c)
    BY <2>3 DEF Rolled, Deposit
  <2>4. CASE RollTakesLock(c) \/ AddedToAwaiting(c)
    BY <2>4 DEF RollTakesLock, AddedToAwaiting, store
  <2> QED
    BY <1>1, <2>2, <2>3, <2>4 DEF Publishing
<1>2. CASE Confirm
  BY <1>2 DEF Confirm, FsyncBegins, FsyncTakesLock, FsyncDone, confirm_ack, store
<1>3. ASSUME NEW q \in Queues,
             Delivering(q) \/ Deliver(q) \/ Ack(q) \/ Reject(q) \/ Purge(q)
      PROVE  appended' \in BOOLEAN
  BY <1>3 DEF Delivering, DeliveryTakesLock, DeliveryConfirmed, Delivered, DeliveryFails,
              Deliver, Ack, Reject, Purge, store
<1>4. CASE gc_segments \/ UNCHANGED vars
  BY <1>4 DEF gc_segments, vars, store
<1>5. CASE ProcessCrash \/ MachineCrash \/ Shutdown
  BY <1>5 DEF ProcessCrash, MachineCrash, Shutdown, Restart
<1> QED
  BY <1>1, <1>2, <1>3, <1>4, <1>5 DEF Next

\* The invariant holds in every state.
LEMMA DurableInvHolds == Spec => []DurableInv
<1>1. /\ LockInv /\ StoreTypes /\ QueuesInv /\ appended \in BOOLEAN
      /\ [Next]_vars
      => (StoreTypes /\ QueuesInv)'
  BY DurableStep, StoreAssumption DEF DurableInv
<1>2. Init => StoreTypes /\ QueuesInv
  BY DurableInit DEF DurableInv
<1>4. appended \in BOOLEAN /\ [Next]_vars => (appended \in BOOLEAN)'
  BY AppendedIsFlag
<1>5. Init => appended \in BOOLEAN
  BY DEF Init
<1>3. Spec => [](LockInv /\ StoreTypes /\ QueuesInv /\ appended \in BOOLEAN)
  BY <1>1, <1>2, <1>4, <1>5, LockInvHolds, PTL DEF Spec
<1> QED
  BY <1>3, PTL DEF DurableInv

\* Every variable of the store has its type, and the locks are held by those who
\* block for them: the segment that is written exists and is the last, only positions
\* that were written are in deques and index files (ready, unacked, the enq file), an
\* ack file never outgrows its capacity (durable_queue.cr compacts it) and no channel is
\* told of a confirm it has not counted.
THEOREM StoreTypesHold == Spec => []StoreTypeOK
<1>1. ASSUME DurableInv PROVE StoreTypeOK
  <2>1. ASSUME NEW q \in Queues
        PROVE  /\ InMemory(q) \subseteq Positions
               /\ ToSet(index[q].enq) \subseteq Positions
               /\ index[q].synced \in 0..Len(index[q].enq)
               /\ Len(index[q].ack) <= AckMax
    <3>1. /\ ToSet(ready[q]) \subseteq Positions /\ unacked[q] \subseteq Positions
          /\ ToSet(index[q].enq) \subseteq Positions /\ index[q] \in IndexFiles
          /\ index[q].synced <= Len(index[q].enq) /\ Len(index[q].ack) <= AckMax
      BY <1>1 DEF DurableInv, QueuesInv, QueueTidy, Tidy, Contained
    <3>2. index[q].synced \in Nat /\ Len(index[q].enq) \in Nat
      BY <3>1, LenProperties DEF IndexFiles
    <3> QED
      BY <3>1, <3>2 DEF InMemory
  <2>2. /\ \A c \in Channels : /\ confirmed[c] <= total[c]
                               /\ pc[c] \in {None, "lock", "await", "roll", "rolling"}
        /\ writer \in Channels \union {None} /\ holder \in Agents /\ awaiting \subseteq Channels
        /\ Locks
    BY <1>1 DEF DurableInv, StoreTypes, LockInv, LockTypes, PublisherStates
  <2>3. /\ wseg \in segments /\ segments \subseteq 1..wseg /\ wsize \in 0..SegSize
        /\ appended \in BOOLEAN
        /\ synced \subseteq Positions /\ gone \subseteq Positions
    BY <1>1 DEF DurableInv, StoreTypes
  <2> QED
    BY <2>1, <2>2, <2>3 DEF StoreTypeOK
<1>2. DurableInv => StoreTypeOK
  BY <1>1
<1> QED
  BY <1>2, DurableInvHolds, PTL

\* What the enq and ack files of a queue say is what the queue has in memory, at any
\* moment the process may die (durable_queue.cr's publish, delete_message,
\* compact_index! and purge, the drop of overflow inside a publish, restore_index): not
\* a message more, not one less, but for those that a known deviation has touched.
THEOREM IndexesExact == Spec => []IndexExact
<1>1. ASSUME DurableInv, NEW q \in Queues
      PROVE  Live(index[q]) \ spoiled = (InMemory(q) \union InFlight(q)) \ spoiled
  BY <1>1 DEF DurableInv, QueuesInv, QueueTidy, Tidy, Exact, Held, InMemory
<1>2. DurableInv => IndexExact
  BY <1>1 DEF IndexExact
<1> QED
  BY <1>2, DurableInvHolds, PTL

=============================================================================
