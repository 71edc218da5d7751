------------------------ MODULE StoreDurability_proofs ------------------------
(***************************************************************************)
(* Proofs about Store for every value of its constants: that no collection  *)
(* takes what a queue refers to, and that a confirmed message is kept       *)
(* through crashes until it is settled. Both rest on StoreIndex_proofs: what *)
(* an index file says is what the queue has in memory.                      *)
(***************************************************************************)
EXTENDS StoreIndex_proofs

-----------------------------------------------------------------------------
(* The inductive invariant.                                                 *)

\* What the kernel's cache has of the enq file of one queue
Unsynced(ix) == {ix.enq[i] : i \in ix.synced + 1..Len(ix.enq)}

\* A queue has these positions, wherever they are.
HeldBy(q) == Held(ready[q], unacked[q], InFlight(q))

\* What no msync wrote back, the store knows: a message that the last fsync did not
\* cover, and an enq file that was not compacted has nothing else that is not
\* written back.
SyncInv ==
  /\ Positions \ synced \subseteq later
  /\ promised \intersect later \subseteq exposed
  /\ \A q \in Bound \ rewritten : Unsynced(index[q]) \subseteq later

\* What a queue has can be read.
KeptOnDisk == \A q \in Queues : \A sp \in HeldBy(q) \ spoiled : Readable(sp)

\* A message that was confirmed, or that its channel still waits for, is in every
\* queue it was routed to until it is settled there.
KeptInQueues ==
  \A sp \in Positions \ spoiled :
    sp \in promised \/ owner[sp].ch \in Channels =>
      \A q \in Bound : sp \in settled[q] \union HeldBy(q)

DiskInv == SyncInv /\ KeptOnDisk /\ KeptInQueues

-----------------------------------------------------------------------------
(* Steps that publish nothing and do not stop the broker.                   *)

\* What the queue has it had, and had it before unless it is settled now.
Passes(q) ==
  /\ HeldBy(q)' \subseteq HeldBy(q) /\ HeldBy(q) \subseteq HeldBy(q)' \union settled'[q]
  /\ settled[q] \subseteq settled'[q]

\* A queue whose delivery is not touched keeps what it has.
LEMMA OthersPass ==
  ASSUME NEW q \in Queues, UNCHANGED <<ready, unacked>>, serving'[q] = serving[q],
         settled[q] \subseteq settled'[q]
  PROVE  Passes(q)
BY DEF Passes, HeldBy, InFlight

\* A queue nothing happens to keeps what it has.
LEMMA SameQueuePasses ==
  ASSUME NEW q \in Queues, SameQueue(q)
  PROVE  Passes(q)
BY DEF Passes, HeldBy, InFlight, SameQueue

\* It is enough to look at the one queue a step is about.
LEMMA OneQueuePasses ==
  ASSUME NEW q \in Queues, Passes(q), \A r \in Queues \ {q} : SameQueue(r)
  PROVE  \A r \in Queues : Passes(r)
BY SameQueuePasses

\* The elements of a deque after an insert, an append and a shift.
LEMMA ElementsMoved ==
  ASSUME NEW s \in Seq(Nat)
  PROVE  /\ \A sp \in Nat : ToSet(Inserted(s, sp)) = ToSet(s) \union {sp}
         /\ \A sp \in Nat : ToSet(Append(s, sp)) = ToSet(s) \union {sp}
         /\ s # <<>> => ToSet(s) = ToSet(Tail(s)) \union {Head(s)}
<1>1. ASSUME NEW sp \in Nat PROVE ToSet(Inserted(s, sp)) = ToSet(s) \union {sp}
  <2>1. PICK k \in 1..(Len(s) + 1) : IsInserted(Inserted(s, sp), s, k, sp)
    BY InsertedAt
  <2> QED
    BY <2>1, InsertedElements
<1>2. ASSUME NEW sp \in Nat PROVE ToSet(Append(s, sp)) = ToSet(s) \union {sp}
  <2>1. IsInserted(Append(s, sp), s, Len(s) + 1, sp)
    BY AppendInserts
  <2> QED
    BY <2>1, InsertedElements
<1>3. ASSUME s # <<>> PROVE ToSet(s) = ToSet(Tail(s)) \union {Head(s)}
  <2>1. PICK t, h : t = Tail(s) /\ h = Head(s)
    OBVIOUS
  <2>2. h \in Nat /\ t \in Seq(Nat) /\ IsInserted(s, t, 1, h)
    BY <1>3, <2>1, HeadInserted
  <2>3. ToSet(s) = ToSet(t) \union {h}
    BY <2>2, InsertedElements
  <2> QED
    BY <2>1, <2>3
<1> QED
  BY <1>1, <1>2, <1>3

\* The deliver loop goes on.
LEMMA LoopPasses ==
  ASSUME StoreAssumption, DurableInv, NEW q \in Queues,
         DeliveryTakesLock(q) \/ DeliveryConfirmed(q) \/ Delivered(q)
  PROVE  \A r \in Queues : Passes(r)
<1>1. serving = [r \in Queues |-> serving[r]] /\ Shapes
  BY DEF DurableInv, LockInv, LockTypes, QueuesInv
<1>2. CASE DeliveryTakesLock(q) \/ DeliveryConfirmed(q)
  <2>1. serving[q].pc # None
    BY <1>2, StoreAssumption
       DEF DeliveryTakesLock, DeliveryConfirmed, DurableInv, LockInv, Locks, None
  <2>2. PICK p \in {"confirming", "write"} :
          serving' = [serving EXCEPT ![q] = At(p, @.sp, @.no_ack)]
    BY <1>2 DEF DeliveryTakesLock, DeliveryConfirmed
  <2>3. UNCHANGED <<ready, unacked, index, settled>>
    BY <1>2 DEF DeliveryTakesLock, DeliveryConfirmed, store, history
  <2>4. \A r \in Queues \ {q} : SameQueue(r)
    BY <1>1, <2>2, <2>3 DEF SameQueue
  <2>5. /\ serving'[q].pc = p /\ serving'[q].sp = serving[q].sp
        /\ serving'[q].no_ack = serving[q].no_ack
    BY <1>1, <2>2 DEF At
  <2>6. InFlight(q)' = InFlight(q)
    BY <2>1, <2>5 DEF InFlight, None
  <2>7. Passes(q)
    BY <2>3, <2>6 DEF Passes, HeldBy
  <2> QED
    BY <2>4, <2>7, OneQueuePasses
<1>3. CASE Delivered(q)
  <2>1. /\ serving' = [serving EXCEPT ![q] = NotServing] /\ UNCHANGED <<ready, unacked>>
        /\ \/ /\ settled' = [settled EXCEPT ![q] = @ \union {serving[q].sp}]
              /\ index' = [index EXCEPT ![q] = index'[q]]
           \/ ~serving[q].no_ack /\ UNCHANGED <<index, settled>>
    BY <1>1, <1>3 DEF Delivered, delete_message, Shapes
  <2>2. \A r \in Queues \ {q} : SameQueue(r)
    BY <1>1, <2>1 DEF SameQueue, Shapes
  <2>3. /\ InFlight(q)' = {} /\ settled[q] \subseteq settled'[q]
        /\ InFlight(q) \subseteq settled'[q]
    BY <1>1, <2>1 DEF InFlight, NotServing, At, None, Shapes
  <2>4. Passes(q)
    BY <2>1, <2>3 DEF Passes, HeldBy, Held
  <2> QED
    BY <2>2, <2>4, OneQueuePasses
<1> QED
  BY <1>2, <1>3

\* The deliver loop takes the head of the deque.
LEMMA DeliverPasses ==
  ASSUME DurableInv, NEW q \in Queues, Deliver(q)
  PROVE  \A r \in Queues : Passes(r)
<1>1. PICK b \in {FALSE, TRUE} :
        /\ serving[q].pc = None /\ ready[q] # <<>>
        /\ unacked' = [unacked EXCEPT ![q] = IF b THEN @ ELSE @ \union {Head(ready[q])}]
        /\ \E p \in {"write", "confirming", "lock"} :
             serving' = [serving EXCEPT ![q] = At(p, Head(ready[q]), b)]
        /\ ready' = [ready EXCEPT ![q] = Tail(@)]
        /\ UNCHANGED <<index, settled>>
  BY DEF Deliver, store, history
<1>2. serving = [r \in Queues |-> serving[r]] /\ Shapes /\ ready[q] \in Seq(Nat)
  BY DEF DurableInv, LockInv, LockTypes, QueuesInv, QueueTidy, Tidy, Contained
<1>3. PICK h : h = Head(ready[q])
  OBVIOUS
<1>4. /\ serving'[q].pc # None /\ serving'[q].sp = h /\ serving'[q].no_ack = b
      /\ \A r \in Queues \ {q} : serving'[r] = serving[r]
  BY <1>1, <1>2, <1>3 DEF At, None
<1>5. /\ ready'[q] = Tail(ready[q]) /\ unacked'[q] = IF b THEN unacked[q] ELSE unacked[q] \union {h}
      /\ \A r \in Queues \ {q} : ready'[r] = ready[r] /\ unacked'[r] = unacked[r]
      /\ index' = index /\ settled' = settled
  BY <1>1, <1>2, <1>3 DEF Shapes
<1>6. InFlight(q) = {} /\ InFlight(q)' = IF b THEN {h} ELSE {}
  BY <1>1, <1>4 DEF InFlight
<1>7. ToSet(ready[q]) = ToSet(ready'[q]) \union {h}
  BY <1>1, <1>2, <1>3, <1>5, ElementsMoved
<1>8. Passes(q)
  BY <1>5, <1>6, <1>7 DEF Passes, HeldBy, Held
<1>9. \A r \in Queues \ {q} : SameQueue(r)
  BY <1>4, <1>5 DEF SameQueue
<1> QED
  BY <1>8, <1>9, OneQueuePasses

\* A position goes back into the deque.
LEMMA RequeuePasses ==
  ASSUME DurableInv, NEW q \in Queues, DeliveryFails(q) \/ Reject(q)
  PROVE  \A r \in Queues : Passes(r)
<1>1. PICK sp : /\ unacked' = [unacked EXCEPT ![q] = @ \ {sp}]
                /\ ready' = [ready EXCEPT ![q] = Inserted(@, sp)]
                /\ UNCHANGED <<index, settled>>
                /\ \/ /\ sp = serving[q].sp /\ serving[q].pc # None
                      /\ serving' = [serving EXCEPT ![q] = NotServing]
                   \/ /\ sp \in unacked[q] /\ serving' = serving
  BY DEF DeliveryFails, Reject, store, history, None
<1>2. /\ serving = [r \in Queues |-> serving[r]] /\ Shapes /\ ready[q] \in Seq(Nat)
      /\ HeldUnacked(q) \subseteq unacked[q] /\ InFlight(q) \subseteq Positions
      /\ unacked[q] \subseteq Positions /\ Positions \in SUBSET Nat
  BY DEF DurableInv, LockInv, LockTypes, QueuesInv, QueueTidy, Tidy, Contained, Single,
         StoreTypes
<1>3. /\ sp \in unacked[q] \union InFlight(q) /\ sp \in Nat
      /\ InFlight(q)' \subseteq InFlight(q) /\ InFlight(q) \subseteq InFlight(q)' \union {sp}
  <2>1. CASE sp \in unacked[q] /\ serving' = serving
    BY <1>2, <2>1 DEF InFlight
  <2>2. CASE /\ sp = serving[q].sp /\ serving[q].pc # None
             /\ serving' = [serving EXCEPT ![q] = NotServing]
    <3>1. serving'[q].pc = None
      BY <1>2, <2>2 DEF NotServing, At
    <3>2. sp \in HeldUnacked(q) \union InFlight(q)
      BY <2>2 DEF HeldUnacked, InFlight
    <3>3. InFlight(q)' = {} /\ InFlight(q) \subseteq {sp}
      BY <2>2, <3>1 DEF InFlight
    <3> QED
      BY <1>2, <3>2, <3>3
  <2> QED
    BY <1>1, <2>1, <2>2
<1>4. /\ unacked'[q] = unacked[q] \ {sp} /\ ready'[q] = Inserted(ready[q], sp)
      /\ settled' = settled
  BY <1>1, <1>2 DEF Shapes
<1>5. ToSet(ready'[q]) = ToSet(ready[q]) \union {sp}
  BY <1>2, <1>3, <1>4, ElementsMoved
<1>6. Passes(q)
  BY <1>3, <1>4, <1>5 DEF Passes, HeldBy, Held
<1>7. \A r \in Queues \ {q} : SameQueue(r)
  BY <1>1, <1>2 DEF SameQueue, Shapes
<1> QED
  BY <1>6, <1>7, OneQueuePasses

\* A message is settled, or all that are ready.
LEMMA SettlePasses ==
  ASSUME DurableInv, NEW q \in Queues, Ack(q) \/ Purge(q)
  PROVE  \A r \in Queues : Passes(r)
<1>1. Shapes
  BY DEF DurableInv, QueuesInv
<1>2. CASE Ack(q)
  <2>1. PICK sp : /\ unacked' = [unacked EXCEPT ![q] = @ \ {sp}]
                  /\ settled' = [settled EXCEPT ![q] = @ \union {sp}]
                  /\ index' = [index EXCEPT ![q] = Deleted(@, sp, InMemory(q) \ {sp})]
                  /\ UNCHANGED <<ready, serving>>
    BY <1>2 DEF Ack, delete_message
  <2>2. \A r \in Queues \ {q} : SameQueue(r)
    BY <1>1, <2>1 DEF SameQueue, Shapes
  <2>3. unacked'[q] = unacked[q] \ {sp} /\ settled'[q] = settled[q] \union {sp}
        /\ InFlight(q)' = InFlight(q)
    BY <1>1, <2>1 DEF InFlight, Shapes
  <2>4. Passes(q)
    BY <2>1, <2>3 DEF Passes, HeldBy, Held
  <2> QED
    BY <2>2, <2>4, OneQueuePasses
<1>3. CASE Purge(q)
  <2>1. /\ index' = [index EXCEPT ![q] = NoIndex] /\ ready' = [ready EXCEPT ![q] = <<>>]
        /\ settled' = [settled EXCEPT ![q] = @ \union ToSet(ready[q])]
        /\ UNCHANGED <<unacked, serving>>
    BY <1>3 DEF Purge, confirm
  <2>2. \A r \in Queues \ {q} : SameQueue(r)
    BY <1>1, <2>1 DEF SameQueue, Shapes
  <2>3. ready'[q] = <<>> /\ settled'[q] = settled[q] \union ToSet(ready[q])
        /\ InFlight(q)' = InFlight(q) /\ ToSet(<<>>) = {}
    BY <1>1, <2>1 DEF InFlight, Shapes, ToSet
  <2>4. Passes(q)
    BY <2>1, <2>3 DEF Passes, HeldBy, Held
  <2> QED
    BY <2>2, <2>4, OneQueuePasses
<1> QED
  BY <1>2, <1>3

-----------------------------------------------------------------------------
(* What such steps leave as it was.                                         *)

\* Where every queue keeps or gives away what it has, all it has stays readable.
LEMMA PassesKeepOnDisk ==
  ASSUME KeptOnDisk, \A q \in Queues : Passes(q), UNCHANGED <<segments, gone>>,
         spoiled \subseteq spoiled'
  PROVE  KeptOnDisk'
<1> SUFFICES ASSUME NEW q \in Queues, NEW sp, sp \in HeldBy(q)', sp \notin spoiled'
             PROVE  Readable(sp)'
  BY DEF KeptOnDisk
<1>1. sp \in HeldBy(q) \ spoiled
  BY DEF Passes
<1>2. Readable(sp)
  BY <1>1 DEF KeptOnDisk
<1> QED
  BY <1>2 DEF Readable, Segment

\* While queues only pass on or settle what they have, confirmed messages stay in them.
LEMMA PassesKeepInQueues ==
  ASSUME StoreAssumption, KeptInQueues, \A q \in Queues : Passes(q), spoiled \subseteq spoiled',
         owner' = owner,
         \A sp \in promised' : sp \in promised \/ owner[sp].ch \in Channels
  PROVE  KeptInQueues'
<1> SUFFICES ASSUME NEW sp, sp \in Positions', sp \notin spoiled',
                    sp \in promised' \/ owner'[sp].ch \in Channels, NEW q \in Bound
             PROVE  sp \in settled'[q] \union HeldBy(q)'
  BY DEF KeptInQueues
<1>1. sp \in Positions \ spoiled /\ (sp \in promised \/ owner[sp].ch \in Channels)
  BY DEF Positions
<1>2. sp \in settled[q] \union HeldBy(q)
  BY <1>1 DEF KeptInQueues
<1>3. Passes(q)
  BY StoreAssumption DEF StoreAssumption
<1> QED
  BY <1>2, <1>3 DEF Passes

\* An enq file has no more that is not written back, or is known to be compacted.
LEMMA QuietKeepsSync ==
  ASSUME SyncInv, UNCHANGED <<owner, synced, promised, later, exposed>>,
         rewritten \subseteq rewritten',
         \A q \in Bound : q \in rewritten' \/ Unsynced(index'[q]) \subseteq Unsynced(index[q])
  PROVE  SyncInv'
<1>1. Positions' = Positions
  BY DEF Positions
<1>2. \A q \in Bound \ rewritten' : Unsynced(index'[q]) \subseteq later'
  BY DEF SyncInv
<1> QED
  BY <1>1, <1>2 DEF SyncInv

\* No enq file gets anything, but for those that are compacted.
FilesQuiet ==
  /\ \A r \in Queues : r \in rewritten' \/ Unsynced(index'[r]) \subseteq Unsynced(index[r])
  /\ rewritten \subseteq rewritten' /\ spoiled \subseteq spoiled'

\* delete_message leaves nothing new to sync, unless it compacts, which is remembered.
LEMMA DeleteIsQuiet ==
  ASSUME DurableInv, NEW q \in Queues, NEW sp, NEW others, delete_message(q, sp, others)
  PROVE  FilesQuiet
<1>1. Shapes /\ index[q] \in IndexFiles
  BY DEF DurableInv, QueuesInv, QueueTidy, Tidy, Contained
<1>2. index' = [index EXCEPT ![q] = Deleted(@, sp, InMemory(q) \ {sp})]
  BY DEF delete_message
<1>3. \A r \in Queues \ {q} : index'[r] = index[r]
  BY <1>1, <1>2 DEF Shapes
<1>4. CASE Full(index[q])
  BY <1>3, <1>4 DEF delete_message, FilesQuiet
<1>5. CASE ~Full(index[q])
  <2>1. index'[q] = [index[q] EXCEPT !.ack = Append(@, sp)]
    BY <1>1, <1>2, <1>5 DEF Deleted, Shapes
  <2>2. index'[q].enq = index[q].enq /\ index'[q].synced = index[q].synced
    BY <1>1, <2>1 DEF IndexFiles
  <2>3. Unsynced(index'[q]) = Unsynced(index[q])
    BY <2>2 DEF Unsynced
  <2> QED
    BY <1>3, <1>5, <2>3 DEF delete_message, FilesQuiet
<1> QED
  BY <1>4, <1>5

\* New index files have nothing to sync.
LEMMA EmptyUnsynced == Unsynced(NoIndex) = {}
<1>1. NoIndex.synced = 0 /\ Len(NoIndex.enq) = 0
  BY DEF NoIndex
<1>2. 0 + 1..0 = {}
  OBVIOUS
<1> QED
  BY <1>1, <1>2 DEF Unsynced

\* Delivering and settling.
LEMMA SettlingKeepsDisk ==
  ASSUME StoreAssumption, DurableInv, DiskInv, NEW q \in Queues,
         Delivering(q) \/ Deliver(q) \/ Ack(q) \/ Reject(q) \/ Purge(q)
  PROVE  DiskInv'
<1>1. UNCHANGED <<wseg, segments, owner, gone, synced, promised, later, exposed>>
  BY DEF Delivering, DeliveryTakesLock, DeliveryConfirmed, Delivered, DeliveryFails, Deliver,
         Ack, Reject, Purge, store, confirm, history
<1>2. \A r \in Queues : Passes(r)
  BY StoreAssumption, LoopPasses, DeliverPasses, RequeuePasses, SettlePasses DEF Delivering
<1>3. FilesQuiet
  <2>1. CASE UNCHANGED <<index, rewritten, spoiled>>
    BY <2>1 DEF FilesQuiet
  <2>2. ASSUME NEW sp, NEW others, delete_message(q, sp, others) PROVE FilesQuiet
    BY <2>2, DeleteIsQuiet
  <2>3. CASE Purge(q)
    <3>1. index' = [index EXCEPT ![q] = NoIndex] /\ rewritten' = rewritten
          /\ spoiled \subseteq spoiled'
      BY <2>3 DEF Purge
    <3>2. Shapes
      BY DEF DurableInv, QueuesInv
    <3>3. Unsynced(index'[q]) = {} /\ \A r \in Queues \ {q} : index'[r] = index[r]
      BY <3>1, <3>2, EmptyUnsynced DEF Shapes
    <3> QED
      BY <3>1, <3>3 DEF FilesQuiet
  <2> QED
    BY <2>1, <2>2, <2>3
       DEF Delivering, DeliveryTakesLock, DeliveryConfirmed, Delivered, DeliveryFails, Deliver,
           Ack, Reject, history
<1>4. SyncInv'
  BY <1>1, <1>3, StoreAssumption, QuietKeepsSync DEF DiskInv, FilesQuiet, StoreAssumption
<1>5. KeptOnDisk'
  BY <1>1, <1>2, <1>3, PassesKeepOnDisk DEF DiskInv, FilesQuiet
<1>6. KeptInQueues'
  BY <1>1, <1>2, <1>3, StoreAssumption, PassesKeepInQueues DEF DiskInv, FilesQuiet
<1> QED
  BY <1>4, <1>5, <1>6 DEF DiskInv

\* A collection keeps the segments and the bytes of all that is referenced; what only
\* a delivery in flight has may go.
LEMMA CollectingKeepsDisk ==
  ASSUME StoreAssumption, DurableInv, DiskInv, gc_segments
  PROVE  DiskInv'
<1>1. UNCHANGED <<wseg, owner, synced, promised, later, exposed, ready, unacked, index,
                  serving, settled, rewritten>>
  BY DEF gc_segments, queues, confirm
<1>2. spoiled' = spoiled \union UNION {InFlight(q) \ Referenced : q \in Queues}
  BY DEF gc_segments
<1>3. \A q \in Queues : Passes(q)
  BY <1>1, OthersPass
<1>4. SyncInv'
  BY <1>1, QuietKeepsSync DEF DiskInv
<1>5. KeptInQueues'
  BY <1>1, <1>2, <1>3, StoreAssumption, PassesKeepInQueues DEF DiskInv
<1>6. ASSUME NEW q \in Queues, NEW sp, sp \in HeldBy(q)', sp \notin spoiled'
      PROVE  Readable(sp)'
  <2>1. HeldBy(q)' = HeldBy(q)
    BY <1>1 DEF HeldBy, InFlight
  <2>2. sp \in Referenced
    <3>1. sp \in InMemory(q) \/ sp \in InFlight(q)
      BY <1>6, <2>1 DEF HeldBy, Held, InMemory
    <3>2. InMemory(q) \subseteq Referenced
      BY DEF Referenced
    <3> QED
      BY <1>2, <1>6, <3>1, <3>2
  <2>3. Segment(sp) \in segments /\ sp \notin gone
    BY <1>2, <1>6, <2>1 DEF DiskInv, KeptOnDisk, Readable
  <2>4. /\ segments' = segments \ Unneeded(Referenced)
        /\ gone' = gone \union Unused(Referenced)
    BY <2>2 DEF gc_segments
  <2>5. Segment(sp) \notin Unneeded(Referenced) /\ sp \notin Unused(Referenced)
    BY <2>2 DEF Unneeded, Unused
  <2> QED
    BY <2>3, <2>4, <2>5 DEF Readable, Segment
<1>7. KeptOnDisk'
  BY <1>6 DEF KeptOnDisk
<1> QED
  BY <1>4, <1>5, <1>7 DEF DiskInv

-----------------------------------------------------------------------------
(* Confirming.                                                              *)

\* An msync of the segment and of the indexes that were published to.
LEMMA SyncKeepsDisk ==
  ASSUME StoreAssumption, DurableInv, DiskInv, SyncFiles,
         UNCHANGED <<wseg, segments, owner, gone, ready, unacked, serving, settled, promised,
                     spoiled>>
  PROVE  DiskInv'
<1>1. \A q \in Queues : Passes(q)
  BY OthersPass
<1>2. KeptOnDisk'
  BY <1>1, PassesKeepOnDisk DEF DiskInv
<1>3. KeptInQueues'
  BY <1>1, StoreAssumption, PassesKeepInQueues DEF DiskInv
<1>4. Positions' = Positions
  BY DEF Positions
<1>5. PICK F : F = Unwritten(Bound \ (toSync \union rewritten))
                    \union LeftOut
  OBVIOUS
<1>6. /\ later' = later \intersect F /\ exposed' = exposed \intersect F
      /\ rewritten' = rewritten \ toSync /\ synced' = synced \union Covered
  BY <1>5 DEF SyncFiles
<1>10. Positions' \ synced' \subseteq later'
  <2>1. Positions \ (synced \union Covered) \subseteq F
    BY <1>5 DEF Covered, LeftOut
  <2> QED
    BY <1>4, <1>6, <2>1 DEF DiskInv, SyncInv
<1>7. promised' \intersect later' \subseteq exposed'
  BY <1>6 DEF DiskInv, SyncInv
<1>8. ASSUME NEW q \in Bound \ rewritten' PROVE Unsynced(index'[q]) \subseteq later'
  <2>1. index'[q] = IF q \in toSync THEN WrittenBack(index[q]) ELSE index[q]
    BY StoreAssumption DEF SyncFiles, StoreAssumption
  <2>2. index[q] \in IndexFiles
    BY StoreAssumption
       DEF DurableInv, QueuesInv, QueueTidy, Tidy, Contained, StoreAssumption
  <2>3. CASE q \in toSync
    <3>1. index'[q].synced = Len(index[q].enq) /\ index'[q].enq = index[q].enq
      BY <2>1, <2>2, <2>3 DEF WrittenBack, IndexFiles
    <3>2. Len(index[q].enq) \in Nat
      BY <2>2, LenProperties DEF IndexFiles
    <3>3. Len(index[q].enq) + 1..Len(index[q].enq) = {}
      BY <3>2
    <3> QED
      BY <3>1, <3>3 DEF Unsynced
  <2>4. CASE q \notin toSync
    <3>1. q \in Bound \ (toSync \union rewritten)
      BY <1>6, <2>4
    <3>2. Unsynced(index[q]) \subseteq F
      BY <1>5, <3>1 DEF Unwritten, Unsynced
    <3>3. Unsynced(index[q]) \subseteq later
      BY <3>1 DEF DiskInv, SyncInv
    <3> QED
      BY <1>6, <2>1, <2>4, <3>2, <3>3
  <2> QED
    BY <2>3, <2>4
<1>9. SyncInv'
  BY <1>7, <1>8, <1>10 DEF SyncInv
<1> QED
  BY <1>2, <1>3, <1>9 DEF DiskInv

\* A fiber waits or goes on.
LEMMA WaitsKeepDisk ==
  ASSUME StoreAssumption, DurableInv, DiskInv, UNCHANGED <<store, queues, history>>
  PROVE  DiskInv'
<1>1. UNCHANGED <<wseg, segments, owner, gone, synced, ready, unacked, index, serving, settled,
                  promised, later, exposed, rewritten, spoiled>>
  BY DEF store, queues, history
<1>2. \A q \in Queues : Passes(q)
  BY <1>1, OthersPass
<1>3. KeptOnDisk'
  BY <1>1, <1>2, PassesKeepOnDisk DEF DiskInv
<1>4. KeptInQueues'
  BY <1>1, <1>2, StoreAssumption, PassesKeepInQueues DEF DiskInv
<1>5. SyncInv'
  BY <1>1, QuietKeepsSync DEF DiskInv
<1> QED
  BY <1>3, <1>4, <1>5 DEF DiskInv

\* The fsync fibers and who is told of a confirm.
LEMMA ConfirmKeepsDisk ==
  ASSUME StoreAssumption, DurableInv, DiskInv, Confirm
  PROVE  DiskInv'
<1>1. CASE FsyncBegins
  BY <1>1, StoreAssumption, SyncKeepsDisk DEF FsyncBegins
<1>2. CASE FsyncTakesLock \/ FsyncDone
  BY <1>2, StoreAssumption, WaitsKeepDisk DEF FsyncTakesLock, FsyncDone
<1>3. ASSUME NEW c \in Channels, confirm_ack(c) PROVE DiskInv'
  <2>1. PICK named : /\ named \subseteq {sp \in Positions : owner[sp].ch = c}
                     /\ promised' = promised \union named
                     /\ exposed' = exposed \union (named \intersect later)
    BY <1>3 DEF confirm_ack
  <2>2. UNCHANGED <<wseg, segments, owner, gone, synced, ready, unacked, index, serving, settled,
                    later, rewritten, spoiled>>
    BY <1>3 DEF confirm_ack, store, queues
  <2>3. \A q \in Queues : Passes(q)
    BY <2>2, OthersPass
  <2>4. KeptOnDisk'
    BY <2>2, <2>3, PassesKeepOnDisk DEF DiskInv
  <2>5. KeptInQueues'
    BY <2>1, <2>2, <2>3, StoreAssumption, PassesKeepInQueues DEF DiskInv
  <2>6. promised' \intersect later' \subseteq exposed'
    BY <2>1, <2>2 DEF DiskInv, SyncInv
  <2>7. Positions' = Positions
    BY <2>2 DEF Positions
  <2>8. SyncInv'
    BY <2>2, <2>6, <2>7 DEF DiskInv, SyncInv
  <2> QED
    BY <2>4, <2>5, <2>8 DEF DiskInv
<1> QED
  BY <1>1, <1>2, <1>3 DEF Confirm

-----------------------------------------------------------------------------
(* Publishing.                                                              *)

\* A queue gets some of the positions New, the message sp if it is routed to it.
Received(q, sp, New) ==
  /\ HeldBy(q)' \subseteq HeldBy(q) \union New
  /\ HeldBy(q) \subseteq HeldBy(q)' \union settled'[q] /\ settled[q] \subseteq settled'[q]
  /\ q \in Bound => sp \in HeldBy(q)'
  /\ q \in rewritten' \/ Unsynced(index'[q]) \subseteq Unsynced(index[q]) \union New

\* An append to the enq file leaves that position to sync.
LEMMA EnqueuedUnsynced ==
  ASSUME NEW ix \in IndexFiles, ix.synced <= Len(ix.enq), NEW sp \in Nat, NEW ex,
         ex = Enqueued(ix, sp)
  PROVE  /\ ex \in IndexFiles /\ ex.synced <= Len(ex.enq)
         /\ Unsynced(ex) \subseteq Unsynced(ix) \union {sp}
<1>1. ix.enq \in Seq(Nat) /\ ix.synced \in Nat /\ Len(ix.enq) \in Nat
  BY LenProperties DEF IndexFiles
<1>2. /\ ex \in IndexFiles /\ ex.enq = Append(ix.enq, sp) /\ ex.synced = ix.synced
  BY <1>1, AppendProperties DEF IndexFiles, Enqueued
<1>3. /\ Len(ex.enq) = Len(ix.enq) + 1 /\ ex.enq[Len(ix.enq) + 1] = sp
      /\ \A i \in 1..Len(ix.enq) : ex.enq[i] = ix.enq[i]
  BY <1>1, <1>2, AppendProperties
<1>4. ASSUME NEW i \in ix.synced + 1..Len(ix.enq) + 1
      PROVE  ex.enq[i] \in Unsynced(ix) \union {sp}
  <2>1. CASE i = Len(ix.enq) + 1
    BY <1>3, <2>1
  <2>2. CASE i # Len(ix.enq) + 1
    <3>1. i \in ix.synced + 1..Len(ix.enq) /\ i \in 1..Len(ix.enq)
      <4>1. PICK n \in Nat, l \in Nat : n = ix.synced /\ l = Len(ix.enq)
        BY <1>1
      <4>2. i \in n + 1..l + 1 /\ i # l + 1
        BY <2>2, <4>1
      <4>3. i \in n + 1..l /\ i \in 1..l
        BY <4>2
      <4> QED
        BY <4>1, <4>3
    <3>2. ex.enq[i] = ix.enq[i]
      BY <1>3, <3>1
    <3> QED
      BY <3>1, <3>2 DEF Unsynced
  <2> QED
    BY <2>1, <2>2
<1>5. Unsynced(ex) \subseteq Unsynced(ix) \union {sp}
  <2>1. Unsynced(ex) = {ex.enq[i] : i \in ix.synced + 1..Len(ix.enq) + 1}
    BY <1>2, <1>3 DEF Unsynced
  <2> QED
    BY <1>4, <2>1
<1>6. ex.synced <= Len(ex.enq)
  BY <1>1, <1>2, <1>3
<1> QED
  BY <1>2, <1>5, <1>6

\* A queue that gets no message, or one, or two.
LEMMA NothingReceived ==
  ASSUME NEW q \in Queues, SameQueue(q), q \notin Bound, NEW sp, NEW New
  PROVE  Received(q, sp, New)
BY DEF SameQueue, Received, HeldBy, InFlight

\* A queue that gets one position.
LEMMA OneReceived ==
  ASSUME NEW q \in Queues, QueueTidy(q), UNCHANGED <<unacked, serving>>, settled'[q] = settled[q],
         NEW a \in Nat, GetsOne(q, a), NEW New, a \in New, NEW sp, q \in Bound => a = sp
  PROVE  Received(q, sp, New)
<1>1. /\ ready[q] \in Seq(Nat) /\ index[q] \in IndexFiles
      /\ index[q].synced <= Len(index[q].enq)
  BY DEF QueueTidy, Tidy, Contained
<1>2. ToSet(ready'[q]) = ToSet(ready[q]) \union {a}
  BY <1>1, ElementsMoved DEF GetsOne
<1>3. InFlight(q)' = InFlight(q)
  BY DEF InFlight
<1>4. Unsynced(index'[q]) \subseteq Unsynced(index[q]) \union {a}
  BY <1>1, EnqueuedUnsynced DEF GetsOne
<1>5. HeldBy(q)' = HeldBy(q) \union {a}
  BY <1>2, <1>3 DEF HeldBy, Held
<1> QED
  BY <1>4, <1>5 DEF Received

\* A queue that gets two.
LEMMA TwoReceived ==
  ASSUME NEW q \in Queues, QueueTidy(q), UNCHANGED <<unacked, serving>>, settled'[q] = settled[q],
         NEW a \in Nat, NEW b \in Nat, GetsTwo(q, a, b), NEW sp \in {a, b}
  PROVE  Received(q, sp, {a, b})
<1>1. /\ ready[q] \in Seq(Nat) /\ index[q] \in IndexFiles
      /\ index[q].synced <= Len(index[q].enq)
  BY DEF QueueTidy, Tidy, Contained
<1>2. ToSet(ready'[q]) = (ToSet(ready[q]) \union {a}) \union {b}
  <2>1. PICK r : r = Append(ready[q], a)
    OBVIOUS
  <2>2. r \in Seq(Nat) /\ ToSet(r) = ToSet(ready[q]) \union {a}
    BY <1>1, <2>1, ElementsMoved, AppendProperties
  <2>3. ToSet(Append(r, b)) = ToSet(r) \union {b}
    BY <2>2, ElementsMoved
  <2>4. ready'[q] = Append(r, b)
    BY <2>1 DEF GetsTwo
  <2> QED
    BY <2>2, <2>3, <2>4
<1>3. InFlight(q)' = InFlight(q)
  BY DEF InFlight
<1>4. Unsynced(index'[q]) \subseteq (Unsynced(index[q]) \union {a}) \union {b}
  <2>1. PICK ix : ix = Enqueued(index[q], a)
    OBVIOUS
  <2>2. /\ ix \in IndexFiles /\ ix.synced <= Len(ix.enq)
        /\ Unsynced(ix) \subseteq Unsynced(index[q]) \union {a}
    BY <1>1, <2>1, EnqueuedUnsynced
  <2>3. Unsynced(index'[q]) \subseteq Unsynced(ix) \union {b}
    BY <2>1, <2>2, EnqueuedUnsynced DEF GetsTwo
  <2> QED
    BY <2>2, <2>3
<1>5. HeldBy(q)' = (HeldBy(q) \union {a}) \union {b}
  BY <1>2, <1>3 DEF HeldBy, Held
<1> QED
  BY <1>4, <1>5 DEF Received

\* The limited queue drops its head for the message.
LEMMA LimitedReceives ==
  ASSUME StoreAssumption, QueuesInv, NEW sp \in Nat, NEW last \in Bound,
         RoutedAndDropped(sp, last), UNCHANGED <<unacked, serving>>, Len(ready[Limited]) = 1,
         settled' = [settled EXCEPT ![Limited] = @ \union {Head(ready[Limited])}],
         Full(index[Limited]) => Limited \in rewritten', NEW New, sp \in New
  PROVE  Received(Limited, sp, New)
<1>1. PICK q \in Queues : q = Limited
  BY StoreAssumption DEF StoreAssumption
<1>2. PICK h : h = Head(ready[q])
  OBVIOUS
<1>3. PICK M : M = ToSet(Append(Tail(ready[q]), sp)) \union unacked[q]
  OBVIOUS
<1>4. /\ ready'[q] = Append(Tail(ready[q]), sp)
      /\ index'[q] = Enqueued(Deleted(index[q], h, M), sp)
      /\ settled'[q] = settled[q] \union {h}
      /\ InFlight(q)' = InFlight(q)
  BY <1>1, <1>2, <1>3 DEF RoutedAndDropped, QueuesInv, Shapes, InFlight
<1>5. /\ ready[q] \in Seq(Nat) /\ index[q] \in IndexFiles
      /\ index[q].synced <= Len(index[q].enq)
  BY DEF QueuesInv, QueueTidy, Tidy, Contained
<1>6. ready[q] # <<>>
  <2>1. Len(<<>>) # 1
    OBVIOUS
  <2> QED
    BY <1>1, <2>1, Zenon
<1>7. Tail(ready[q]) \in Seq(Nat) /\ ToSet(ready[q]) = ToSet(Tail(ready[q])) \union {h}
  BY <1>2, <1>5, <1>6, ElementsMoved, HeadTailProperties
<1>8. ToSet(ready'[q]) = ToSet(Tail(ready[q])) \union {sp}
  <2>1. PICK rest \in Seq(Nat) : rest = Tail(ready[q])
    BY <1>7
  <2>2. ToSet(Append(rest, sp)) = ToSet(rest) \union {sp}
    BY ElementsMoved
  <2> QED
    BY <1>4, <2>1, <2>2
<1>9. /\ HeldBy(q)' \subseteq HeldBy(q) \union {sp} /\ sp \in HeldBy(q)'
      /\ HeldBy(q) \subseteq HeldBy(q)' \union settled'[q]
  BY <1>4, <1>7, <1>8 DEF HeldBy, Held
<1>10. ~Full(index[q]) => Unsynced(index'[q]) \subseteq Unsynced(index[q]) \union {sp}
  <2> SUFFICES ASSUME ~Full(index[q])
               PROVE  Unsynced(index'[q]) \subseteq Unsynced(index[q]) \union {sp}
    OBVIOUS
  <2>1. h \in Nat
    BY <1>2, <1>5, <1>6, HeadTailProperties
  <2>2. PICK dx : dx = [index[q] EXCEPT !.ack = Append(@, h)]
    OBVIOUS
  <2>3. dx \in IndexFiles /\ dx.enq = index[q].enq /\ dx.synced = index[q].synced
    BY <1>5, <2>1, <2>2, AppendProperties DEF IndexFiles
  <2>4. index'[q] = Enqueued(dx, sp)
    BY <1>4, <2>2 DEF Deleted
  <2>5. Unsynced(index'[q]) \subseteq Unsynced(dx) \union {sp}
    BY <1>5, <2>3, <2>4, EnqueuedUnsynced
  <2> QED
    BY <2>3, <2>5 DEF Unsynced
<1> QED
  BY <1>1, <1>4, <1>9, <1>10 DEF Received

\* The message sp, and the copy of one that is dropped for it, are the positions New.
Deposited(sp, New) ==
  /\ sp \in New /\ Positions' = Positions \union New
  /\ \A s \in Positions : owner'[s] = owner[s]
  /\ \A s \in New \ {sp} : owner'[s].ch \notin Channels
  /\ later' = later \union New
  /\ \E P \in SUBSET {sp} : promised' = promised \union P /\ exposed' = exposed \union P
  /\ rewritten \subseteq rewritten' /\ spoiled \subseteq spoiled'
  /\ \A q \in Queues : Received(q, sp, New)

\* A publish that drops nothing.
LEMMA RoutedDeposits ==
  ASSUME StoreAssumption, DurableInv, NEW c \in Channels, NEW tag, NEW sp \in Nat,
         sp \notin Positions, Routed(sp), UNCHANGED <<unacked, serving, settled, rewritten, spoiled>>,
         owner' = [s \in Positions \union {sp} |->
                     IF s \in Positions THEN owner[s] ELSE [ch |-> c, tag |-> tag]],
         later' = later \union {sp},
         promised' = promised \union {s \in {sp} : tag <= confirmed[c]},
         exposed' = exposed \union {s \in {sp} : tag <= confirmed[c]}
  PROVE  Deposited(sp, {sp})
<1>1. ASSUME NEW q \in Queues PROVE Received(q, sp, {sp})
  <2>1. QueueTidy(q)
    BY DEF DurableInv, QueuesInv
  <2>2. CASE q \in Bound
    <3>1. GetsOne(q, sp)
      BY <2>2 DEF Routed, GetsOne
    <3> QED
      BY <2>1, <3>1, OneReceived
  <2>3. CASE q \notin Bound
    <3>1. SameQueue(q)
      BY <2>3 DEF Routed, SameQueue
    <3> QED
      BY <2>3, <3>1, NothingReceived
  <2> QED
    BY <2>2, <2>3
<1>2. Positions' = Positions \union {sp} /\ \A s \in Positions : owner'[s] = owner[s]
  BY DEF Positions
<1>3. \E P \in SUBSET {sp} : promised' = promised \union P /\ exposed' = exposed \union P
  <2>1. PICK P : P = {s \in {sp} : tag <= confirmed[c]}
    OBVIOUS
  <2>2. P \in SUBSET {sp}
    BY <2>1
  <2> QED
    BY <2>1, <2>2
<1> QED
  BY <1>1, <1>2, <1>3 DEF Deposited

\* A publish that pushes a message out of the limited queue.
LEMMA DroppedDeposits ==
  ASSUME StoreAssumption, DurableInv, NEW c \in Channels, NEW tag, NEW sp \in Nat,
         sp \notin Positions, sp + 1 \notin Positions, NEW last \in Bound,
         RoutedAndDropped(sp, last), Limited \in Bound, Len(ready[Limited]) = 1,
         UNCHANGED <<unacked, serving>>,
         owner' = [s \in Positions \union {sp, sp + 1} |->
                     IF s \in Positions THEN owner[s]
                     ELSE IF s = sp THEN [ch |-> c, tag |-> tag] ELSE [ch |-> None, tag |-> 0]],
         later' = later \union {sp, sp + 1},
         promised' = promised \union {s \in {sp} : tag <= confirmed[c]},
         exposed' = exposed \union {s \in {sp} : tag <= confirmed[c]},
         settled' = [settled EXCEPT ![Limited] = @ \union {Head(ready[Limited])}],
         Full(index[Limited]) => Limited \in rewritten',
         rewritten \subseteq rewritten', spoiled \subseteq spoiled'
  PROVE  Deposited(sp, {sp, sp + 1})
<1>1. PICK copy \in Nat : copy = sp + 1 /\ copy # sp
  OBVIOUS
<1>2. QueuesInv /\ \A q \in Queues \ {Limited} : settled'[q] = settled[q]
  BY DEF DurableInv, QueuesInv, Shapes
<1>3. ASSUME NEW q \in Queues PROVE Received(q, sp, {sp, copy})
  <2>1. QueueTidy(q)
    BY <1>2 DEF QueuesInv
  <2>2. CASE q = Limited
    BY <1>2, <2>2, StoreAssumption, LimitedReceives
  <2>3. CASE q = DeadLetters
    <3>1. settled'[q] = settled[q]
      BY <1>2, <2>3, StoreAssumption DEF StoreAssumption
    <3>2. \/ q \notin Bound /\ GetsOne(q, copy)
          \/ GetsTwo(q, sp, copy) \/ GetsTwo(q, copy, sp)
      BY <1>1, <1>2, <2>3, StoreAssumption, DeadLettersGet
    <3>3. CASE q \notin Bound /\ GetsOne(q, copy)
      BY <2>1, <3>1, <3>3, OneReceived
    <3>4. CASE GetsTwo(q, sp, copy)
      BY <2>1, <3>1, <3>4, TwoReceived
    <3>5. CASE GetsTwo(q, copy, sp)
      <4>1. Received(q, sp, {copy, sp})
        BY <2>1, <3>1, <3>5, TwoReceived
      <4>2. {copy, sp} = {sp, copy}
        OBVIOUS
      <4> QED
        BY <4>1, <4>2
    <3> QED
      BY <3>2, <3>3, <3>4, <3>5
  <2>4. CASE q \notin {Limited, DeadLetters}
    <3>1. settled'[q] = settled[q]
      BY <1>2, <2>4
    <3>2. CASE q \in Bound
      <4>1. GetsOne(q, sp)
        BY <2>4, <3>2 DEF RoutedAndDropped, GetsOne
      <4> QED
        BY <2>1, <3>1, <4>1, OneReceived
    <3>3. CASE q \notin Bound
      <4>1. SameQueue(q)
        BY <2>4, <3>1, <3>3 DEF RoutedAndDropped, SameQueue
      <4> QED
        BY <3>3, <4>1, NothingReceived
    <3> QED
      BY <3>2, <3>3
  <2> QED
    BY <2>2, <2>3, <2>4
<1>4. Positions' = Positions \union {sp, copy} /\ \A s \in Positions : owner'[s] = owner[s]
  BY <1>1 DEF Positions
<1>5. owner'[copy].ch \notin Channels
  <2>1. owner'[copy] = [ch |-> None, tag |-> 0]
    BY <1>1
  <2> QED
    BY <2>1, StoreAssumption DEF StoreAssumption
<1>6. \E P \in SUBSET {sp} : promised' = promised \union P /\ exposed' = exposed \union P
  <2>1. PICK P : P = {s \in {sp} : tag <= confirmed[c]}
    OBVIOUS
  <2>2. P \in SUBSET {sp}
    BY <2>1
  <2> QED
    BY <2>1, <2>2
<1> QED
  BY <1>1, <1>3, <1>4, <1>5, <1>6 DEF Deposited

\* A publish of either kind.
LEMMA DepositEffect ==
  ASSUME StoreAssumption, DurableInv, NEW c \in Channels, NEW tag, NEW sp \in Nat,
         \A p \in Positions : p < sp, Deposit(c, tag, sp), UNCHANGED <<unacked, serving>>
  PROVE  \/ Deposited(sp, {sp})
         \/ Deposited(sp, {sp, sp + 1}) /\ (sp % SegSize) + 2 <= SegSize
<1>1. Positions \in SUBSET Nat
  BY DEF DurableInv, StoreTypes
<1>2. sp \notin Positions /\ sp + 1 \notin Positions
  BY <1>1
<1>3. CASE /\ Routed(sp)
           /\ owner' = [s \in Positions \union {sp} |->
                     IF s \in Positions THEN owner[s] ELSE [ch |-> c, tag |-> tag]]
           /\ later' = later \union {sp}
           /\ promised' = promised \union {s \in {sp} : tag <= confirmed[c]}
           /\ exposed' = exposed \union {s \in {sp} : tag <= confirmed[c]}
           /\ UNCHANGED <<settled, rewritten, spoiled>>
  BY <1>2, <1>3, StoreAssumption, RoutedDeposits
<1>4. CASE /\ Limited \in Bound /\ Len(ready[Limited]) = 1
           /\ (sp % SegSize) + 2 <= SegSize
           /\ \E last \in Bound : RoutedAndDropped(sp, last)
           /\ owner' = [s \in Positions \union {sp, sp + 1} |->
                     IF s \in Positions THEN owner[s]
                     ELSE IF s = sp THEN [ch |-> c, tag |-> tag] ELSE [ch |-> None, tag |-> 0]]
           /\ later' = later \union {sp, sp + 1}
           /\ promised' = promised \union {s \in {sp} : tag <= confirmed[c]}
           /\ exposed' = exposed \union {s \in {sp} : tag <= confirmed[c]}
           /\ settled' = [settled EXCEPT ![Limited] = @ \union {Head(ready[Limited])}]
           /\ Full(index[Limited]) => Limited \in rewritten'
           /\ rewritten \subseteq rewritten' /\ spoiled \subseteq spoiled'
  <2>1. PICK last \in Bound : RoutedAndDropped(sp, last)
    BY <1>4
  <2> QED
    BY <1>2, <1>4, <2>1, StoreAssumption, DroppedDeposits
<1> QED
  BY <1>3, <1>4 DEF Deposit

\* What was published is in a segment that is there, in the queues it is routed to and
\* known as not written back.
LEMMA DepositedKeepsDisk ==
  ASSUME StoreAssumption, DurableInv, DiskInv, NEW sp, NEW New, Deposited(sp, New),
         New \intersect Positions = {}, \A s \in New : Segment(s) = wseg',
         wseg' \in segments', segments \subseteq segments', UNCHANGED <<gone, synced>>
  PROVE  DiskInv'
<1>1. /\ sp \in New /\ Positions' = Positions \union New
      /\ \A s \in Positions : owner'[s] = owner[s]
      /\ \A s \in New \ {sp} : owner'[s].ch \notin Channels
      /\ later' = later \union New
      /\ rewritten \subseteq rewritten' /\ spoiled \subseteq spoiled'
      /\ \A q \in Queues : Received(q, sp, New)
  BY DEF Deposited
<1>2. PICK P \in SUBSET {sp} : promised' = promised \union P /\ exposed' = exposed \union P
  BY DEF Deposited
<1>3. \A s : Segment(s)' = Segment(s)
  BY DEF Segment
<1>4. synced \subseteq Positions /\ gone \subseteq Positions /\ promised \subseteq Positions
  BY DEF DurableInv, StoreTypes
<1>5. SyncInv'
  <2>2. Positions' \ synced' \subseteq later'
    BY <1>1 DEF DiskInv, SyncInv
  <2>3. promised' \intersect later' \subseteq exposed'
    BY <1>1, <1>2, <1>4 DEF DiskInv, SyncInv
  <2>4. ASSUME NEW q \in Bound \ rewritten' PROVE Unsynced(index'[q]) \subseteq later'
    <3>1. Unsynced(index'[q]) \subseteq Unsynced(index[q]) \union New
      BY <1>1, StoreAssumption DEF Received, StoreAssumption
    <3>2. Unsynced(index[q]) \subseteq later
      BY <1>1 DEF DiskInv, SyncInv
    <3> QED
      BY <1>1, <3>1, <3>2
  <2> QED
    BY <2>2, <2>3, <2>4 DEF SyncInv
<1>6. ASSUME NEW q \in Queues, NEW s, s \in HeldBy(q)', s \notin spoiled'
      PROVE  Readable(s)'
  <2>1. s \in HeldBy(q) \union New
    BY <1>1, <1>6 DEF Received
  <2>2. CASE s \in New
    BY <1>3, <1>4, <2>2 DEF Readable
  <2>3. CASE s \in HeldBy(q)
    BY <1>1, <1>3, <1>6, <2>3 DEF DiskInv, KeptOnDisk, Readable
  <2> QED
    BY <2>1, <2>2, <2>3
<1>7. ASSUME NEW s, s \in Positions', s \notin spoiled',
             s \in promised' \/ owner'[s].ch \in Channels, NEW q \in Bound
      PROVE  s \in settled'[q] \union HeldBy(q)'
  <2>1. Received(q, sp, New)
    BY <1>1, StoreAssumption DEF StoreAssumption
  <2>2. CASE s = sp
    BY <2>1, <2>2 DEF Received
  <2>3. CASE s \in New \ {sp}
    BY <1>1, <1>2, <1>4, <1>7, <2>3
  <2>4. CASE s \in Positions
    <3>1. s \in promised \/ owner[s].ch \in Channels
      BY <1>1, <1>2, <1>7, <2>4
    <3>2. s \in settled[q] \union HeldBy(q)
      BY <1>1, <1>7, <2>4, <3>1 DEF DiskInv, KeptInQueues
    <3> QED
      BY <2>1, <3>2 DEF Received
  <2> QED
    BY <1>1, <1>7, <2>2, <2>3, <2>4
<1>8. KeptOnDisk'
  BY <1>6 DEF KeptOnDisk
<1>9. KeptInQueues'
  BY <1>7 DEF KeptInQueues
<1> QED
  BY <1>5, <1>8, <1>9 DEF DiskInv

\* The next position, in the segment that is written then.
IsNext(sp) ==
  /\ sp \in Nat /\ \A p \in Positions : p < sp
  /\ Segment(sp) = wseg'
  /\ (sp % SegSize) + 2 <= SegSize => Segment(sp + 1) = wseg'

\* A message is written.
Writes(c, tag, sp) ==
  /\ Deposit(c, tag, sp) /\ IsNext(sp)
  /\ UNCHANGED <<unacked, serving, gone, synced>>
  /\ wseg' \in segments' /\ segments \subseteq segments'

\* The place write_to_disk chooses is behind all positions and in the current segment.
LEMMA PlaceIsNext ==
  ASSUME StoreAssumption, NEW w \in Nat, NEW r \in 0..(SegSize - 1), NEW sp,
         sp = w * SegSize + r, \A p \in Positions : p < sp, wseg' = w
  PROVE  IsNext(sp)
<1>1. PICK n \in Nat \ {0} : n = SegSize
  BY StoreAssumption DEF StoreAssumption
<1>2. r \in 0..(n - 1) /\ sp = w * n + r
  BY <1>1
<1>3. w * n + r \in Nat /\ (w * n + r) \div n = w /\ (w * n + r) % n = r
  BY <1>2, PositionParts
<1>4. ASSUME (sp % n) + 2 <= n PROVE (sp + 1) \div n = w
  <2>1. r + 1 \in 0..(n - 1)
    BY <1>2, <1>3, <1>4
  <2>2. (w * n + (r + 1)) \div n = w
    BY <2>1, PositionParts
  <2>3. w * n \in Nat
    OBVIOUS
  <2>4. sp + 1 = w * n + (r + 1)
    BY <1>2, <2>3
  <2> QED
    BY <2>2, <2>4
<1> QED
  BY <1>1, <1>2, <1>3, <1>4 DEF IsNext, Segment

\* What a publisher does: it waits, it has the files synced, or it writes a message.
LEMMA PublishingCases ==
  ASSUME StoreAssumption, DurableInv, NEW c \in Channels, Publish(c) \/ Publishing(c)
  PROVE  \/ UNCHANGED <<store, queues, history>>
         \/ /\ SyncFiles
            /\ UNCHANGED <<wseg, segments, owner, gone, ready, unacked, serving, settled,
                           promised, spoiled>>
         \/ \E tag, sp : Writes(c, tag, sp)
<1>1. CASE RollTakesLock(c) \/ AddedToAwaiting(c)
  BY <1>1 DEF RollTakesLock, AddedToAwaiting
<1>2. PICK n \in Nat \ {0} : n = SegSize
  BY StoreAssumption DEF StoreAssumption
<1>3. /\ wseg \in Nat \ {0} /\ wsize \in 0..n /\ wseg \in segments
      /\ \A p \in Positions : p \in Nat /\ p < wseg * n + wsize
  BY <1>2 DEF DurableInv, StoreTypes, Next_sp
<1>4. CASE Rolled(c)
  <2>1. PICK w \in Nat, r \in {0}, sp \in {(wseg + 1) * SegSize} : w = wseg + 1
    BY <1>3
  <2>2. r \in 0..(SegSize - 1)
    BY <1>2, <2>1
  <2>3. w * n \in Nat /\ wseg * n \in Nat /\ w * n = wseg * n + n
    BY <1>3, <2>1, NextSegment
  <2>4. sp = w * n /\ sp = w * SegSize + r
    BY <1>2, <2>1, <2>3
  <2>5. ASSUME NEW p \in Positions PROVE p < sp
    <3>1. p \in Nat /\ p < wseg * n + wsize
      BY <1>3
    <3> QED
      BY <1>3, <2>3, <2>4, <3>1
  <2>6. wseg' = w /\ segments' = segments \union {w}
    BY <1>4, <2>1 DEF Rolled
  <2>7. IsNext(sp)
    BY <2>2, <2>4, <2>5, <2>6, StoreAssumption, PlaceIsNext
  <2>8. Deposit(c, total[c], sp)
        /\ UNCHANGED <<unacked, serving, gone, synced>>
    BY <1>4, <2>1 DEF Rolled
  <2>10. Writes(c, total[c], sp)
    BY <2>6, <2>7, <2>8 DEF Writes
  <2> QED
    BY <2>10
<1>5. ASSUME NEW tag, Write(c, tag)
      PROVE  \/ /\ SyncFiles
                /\ UNCHANGED <<wseg, segments, owner, gone, ready, unacked, serving, settled,
                               promised, spoiled>>
             \/ \E sp : Writes(c, tag, sp)
  <2>1. CASE RoomInSegment
    <3>1. PICK sp, r : sp = Next_sp /\ r = wsize
      OBVIOUS
    <3>2. r \in 0..(SegSize - 1) /\ sp = wseg * SegSize + r /\ \A p \in Positions : p < sp
      BY <1>2, <1>3, <2>1, <3>1 DEF RoomInSegment, Next_sp
    <3>3. /\ Deposit(c, tag, sp) /\ UNCHANGED <<wseg, segments, unacked, serving, gone, synced>>
      BY <1>5, <2>1, <3>1 DEF Write
    <3>4. IsNext(sp)
      BY <1>3, <3>2, <3>3, StoreAssumption, PlaceIsNext
    <3>5. Writes(c, tag, sp)
      BY <1>3, <3>3, <3>4 DEF Writes
    <3> QED
      BY <3>5
  <2>2. CASE ~RoomInSegment
    BY <1>5, <2>2 DEF Write
  <2> QED
    BY <2>1, <2>2
<1>6. CASE Publish(c)
  BY <1>5, <1>6 DEF Publish
<1>7. CASE TakeWriteLock(c)
  BY <1>5, <1>7 DEF TakeWriteLock
<1> QED
  BY <1>1, <1>4, <1>6, <1>7 DEF Publishing

\* All that a publisher does.
LEMMA PublishingKeepsDisk ==
  ASSUME StoreAssumption, DurableInv, DiskInv, NEW c \in Channels, Publish(c) \/ Publishing(c)
  PROVE  DiskInv'
<1>1. CASE UNCHANGED <<store, queues, history>>
  BY <1>1, StoreAssumption, WaitsKeepDisk
<1>2. CASE /\ SyncFiles
           /\ UNCHANGED <<wseg, segments, owner, gone, ready, unacked, serving, settled,
                          promised, spoiled>>
  BY <1>2, StoreAssumption, SyncKeepsDisk
<1>3. ASSUME NEW tag, NEW sp, Writes(c, tag, sp) PROVE DiskInv'
  <2>1. /\ Deposit(c, tag, sp) /\ sp \in Nat /\ \A p \in Positions : p < sp
        /\ UNCHANGED <<unacked, serving, gone, synced>>
        /\ wseg' \in segments' /\ segments \subseteq segments'
    BY <1>3 DEF Writes, IsNext
  <2>2. PICK New : /\ Deposited(sp, New)
                   /\ \/ New = {sp}
                      \/ New = {sp, sp + 1} /\ (sp % SegSize) + 2 <= SegSize
    BY <2>1, StoreAssumption, DepositEffect
  <2>3. \A s \in New : Segment(s) = wseg'
    BY <1>3, <2>2 DEF Writes, IsNext
  <2>4. New \intersect Positions = {}
    <3>1. Positions \in SUBSET Nat
      BY DEF DurableInv, StoreTypes
    <3>2. sp \notin Positions /\ sp + 1 \notin Positions
      BY <2>1, <3>1
    <3> QED
      BY <2>2, <3>2
  <2> QED
    BY <2>1, <2>2, <2>3, <2>4, StoreAssumption, DepositedKeepsDisk
<1> QED
  BY <1>1, <1>2, <1>3, StoreAssumption, PublishingCases

-----------------------------------------------------------------------------
(* Crashes and restarts.                                                    *)

\* What a queue has, but for what a deviation touched, is what its files say.
LEMMA HeldIsLive ==
  ASSUME DurableInv, NEW q \in Queues
  PROVE  Live(index[q]) \ spoiled = HeldBy(q) \ spoiled
BY DEF DurableInv, QueuesInv, QueueTidy, Tidy, Exact, HeldBy

\* A start makes ready what it finds.
LEMMA RestartHolds ==
  ASSUME NEW found, Restart(found), NEW q \in Queues, found[q].enq \in Seq(Nat)
  PROVE  HeldBy(q)' = Live(found[q])
<1>1. /\ ready'[q] = Restored(found[q]) /\ unacked'[q] = {} /\ serving'[q] = NotServing
  BY DEF Restart
<1>2. InFlight(q)' = {}
  BY <1>1 DEF InFlight, NotServing, At, None
<1>3. ToSet(ready'[q]) = Live(found[q])
  BY <1>1, RestoredElements
<1> QED
  BY <1>1, <1>2, <1>3 DEF HeldBy, Held

\* Nobody waits for a confirm of what was published before.
LEMMA RestartForgets ==
  ASSUME StoreAssumption, NEW found, Restart(found)
  PROVE  /\ Positions' = Positions /\ UNCHANGED <<wseg, segments>> /\ writer' = None
         /\ \A sp \in Positions : owner'[sp].ch \notin Channels
<1>1. owner' = [sp \in Positions |-> [ch |-> None, tag |-> 0]]
  BY DEF Restart
<1>2. None \notin Channels
  BY StoreAssumption DEF StoreAssumption
<1>3. \A sp \in Positions : owner'[sp].ch = None
  BY <1>1
<1> QED
  BY <1>1, <1>2, <1>3 DEF Restart, Positions

\* The process stops: its files stay as they are.
LEMMA ProcessKeepsDisk ==
  ASSUME StoreAssumption, DurableInv, DiskInv, ProcessCrash \/ Shutdown
  PROVE  DiskInv'
<1>1. /\ Restart(index)
      /\ UNCHANGED <<synced, gone, promised, settled, later, exposed, rewritten, spoiled>>
  BY DEF ProcessCrash, Shutdown
<1>2. /\ Positions' = Positions /\ UNCHANGED <<wseg, segments>> /\ writer' = None
      /\ \A sp \in Positions : owner'[sp].ch \notin Channels
  BY <1>1, StoreAssumption, RestartForgets
<1>3. index' = index
  BY <1>1 DEF Restart
<1>4. ASSUME NEW q \in Queues PROVE HeldBy(q)' \ spoiled = HeldBy(q) \ spoiled
  <2>1. index[q].enq \in Seq(Nat)
    BY DEF DurableInv, QueuesInv, QueueTidy, Tidy, Contained, IndexFiles
  <2>2. HeldBy(q)' = Live(index[q])
    BY <1>1, <2>1, RestartHolds
  <2> QED
    BY <2>2, HeldIsLive
<1>5. \A sp : Segment(sp)' = Segment(sp)
  BY DEF Segment
<1>6. SyncInv'
  BY <1>1, <1>2, <1>3, <1>5 DEF DiskInv, SyncInv
<1>7. KeptOnDisk'
  <2> SUFFICES ASSUME NEW q \in Queues, NEW sp, sp \in HeldBy(q)', sp \notin spoiled'
               PROVE  Readable(sp)'
    BY DEF KeptOnDisk
  <2>1. sp \in HeldBy(q) \ spoiled
    BY <1>1, <1>4
  <2> QED
    BY <1>1, <1>2, <1>5, <2>1 DEF DiskInv, KeptOnDisk, Readable
<1>8. KeptInQueues'
  <2> SUFFICES ASSUME NEW sp, sp \in Positions', sp \notin spoiled',
                      sp \in promised' \/ owner'[sp].ch \in Channels, NEW q \in Bound
               PROVE  sp \in settled'[q] \union HeldBy(q)'
    BY DEF KeptInQueues
  <2>1. sp \in Positions \ spoiled /\ sp \in promised
    BY <1>1, <1>2
  <2>2. sp \in settled[q] \union HeldBy(q)
    BY <2>1 DEF DiskInv, KeptInQueues
  <2>3. q \in Queues
    BY StoreAssumption DEF StoreAssumption
  <2> QED
    BY <1>1, <1>4, <2>1, <2>2, <2>3
<1> QED
  BY <1>6, <1>7, <1>8 DEF DiskInv

\* What the files of a queue may lose when the machine stops.
LEMMA LeftFiles ==
  ASSUME NEW ix \in IndexFiles, ix.synced <= Len(ix.enq), NEW fx, IsLeft(fx, ix)
  PROVE  /\ fx.enq \in Seq(Nat) /\ Unsynced(fx) = {}
         /\ ToSet(fx.enq) \subseteq ToSet(ix.enq)
         /\ ToSet(ix.enq) \subseteq ToSet(fx.enq) \union Unsynced(ix)
         /\ fx.ack \in {ix.ack, <<>>}
<1>1. ix.enq \in Seq(Nat) /\ ix.synced \in Nat
  BY DEF IndexFiles
<1>2. PICK enq \in {ix.enq, SubSeq(ix.enq, 1, ix.synced)}, ack \in {ix.ack, <<>>} :
        fx = [enq |-> enq, synced |-> Len(enq), ack |-> ack]
  BY DEF IsLeft
<1>3. fx.enq = enq /\ fx.synced = Len(enq) /\ fx.ack = ack
  BY <1>2
<1>4. PICK l \in Nat, n \in Nat : l = Len(ix.enq) /\ n = ix.synced /\ n \in 0..l
  <2>1. Len(ix.enq) \in Nat
    BY <1>1, LenProperties
  <2>2. ix.synced \in 0..Len(ix.enq)
    BY <1>1, <2>1
  <2> QED
    BY <2>1, <2>2
<1>5. enq \in Seq(Nat) /\ ToSet(enq) \subseteq ToSet(ix.enq)
  <2>1. CASE enq = ix.enq
    BY <1>1, <2>1
  <2>2. CASE enq = SubSeq(ix.enq, 1, ix.synced)
    <3>1. ix.synced \in 0..Len(ix.enq)
      BY <1>4
    <3>2. IsPart(enq, ix.enq)
      BY <1>1, <2>2, <3>1, PrefixElements
    <3> QED
      BY <3>2 DEF IsPart
  <2> QED
    BY <1>2, <2>1, <2>2
<1>6. ASSUME NEW x \in ToSet(ix.enq) PROVE x \in ToSet(enq) \union Unsynced(ix)
  <2>1. CASE enq = ix.enq
    BY <2>1
  <2>2. CASE enq = SubSeq(ix.enq, 1, n)
    <3>1. PICK i \in 1..l : x = ix.enq[i]
      BY <1>1, <1>4, ElementsOfSeq
    <3>2. CASE i <= n
      <4>1. Len(enq) = n /\ \A j \in 1..n : enq[j] = ix.enq[j]
        BY <1>1, <1>4, <2>2
      <4>2. i \in 1..n
        BY <3>2
      <4> QED
        BY <1>5, <3>1, <4>1, <4>2, ElementsOfSeq
    <3>3. CASE ~(i <= n)
      <4>1. i \in n + 1..l
        BY <3>3
      <4> QED
        BY <1>4, <3>1, <4>1 DEF Unsynced
    <3> QED
      BY <3>2, <3>3
  <2> QED
    BY <1>2, <1>4, <2>1, <2>2
<1>7. Unsynced(fx) = {}
  <2>1. Len(enq) \in Nat
    BY <1>5, LenProperties
  <2>2. Len(enq) + 1..Len(enq) = {}
    BY <2>1
  <2> QED
    BY <1>3, <2>2 DEF Unsynced
<1> QED
  BY <1>2, <1>3, <1>5, <1>6, <1>7

\* The machine stops: what was not written back may go from each file, and no msync
\* covers an ack file. What a confirm named was written back, but for what a deviation
\* touched.
LEMMA MachineKeepsDisk ==
  ASSUME StoreAssumption, DurableInv, DiskInv, MachineCrash
  PROVE  DiskInv'
<1>1. PICK found : /\ Restart(found) /\ found = [q \in Queues |-> found[q]]
                   /\ \A q \in Queues : IsLeft(found[q], index[q])
  BY MachineLeaves
<1>2. /\ synced' = Positions /\ later' = {} /\ exposed' = {} /\ rewritten' = {}
      /\ UNCHANGED <<promised, settled>>
      /\ gone' \subseteq gone \union (Positions \ synced)
  BY DEF MachineCrash
<1>3. /\ spoiled \subseteq spoiled' /\ exposed \subseteq spoiled'
      /\ ((Positions \ synced) \union Unwritten(Queues)) \ promised \subseteq spoiled'
      /\ \A q \in Queues : settled[q] \subseteq spoiled'
      /\ \A q \in rewritten : Live(index[q]) \subseteq spoiled'
  <2>1. spoiled' = spoiled \union exposed
                     \union (((Positions \ synced) \union Unwritten(Queues)) \ promised)
                     \union (UNION {settled[q] : q \in Queues})
                     \union (UNION {Live(index[q]) : q \in rewritten})
    BY Zenon DEF MachineCrash
  <2>2. /\ spoiled \subseteq spoiled' /\ exposed \subseteq spoiled'
        /\ ((Positions \ synced) \union Unwritten(Queues)) \ promised \subseteq spoiled'
    BY <2>1
  <2>3. ASSUME NEW q \in Queues, NEW sp \in settled[q] PROVE sp \in spoiled'
    <3>1. sp \in UNION {settled[r] : r \in Queues}
      OBVIOUS
    <3> QED
      BY <2>1, <3>1
  <2>4. ASSUME NEW q \in rewritten, NEW sp \in Live(index[q]) PROVE sp \in spoiled'
    <3>1. sp \in UNION {Live(index[r]) : r \in rewritten}
      OBVIOUS
    <3> QED
      BY <2>1, <3>1
  <2> QED
    BY <2>2, <2>3, <2>4
<1>4. /\ Positions' = Positions /\ UNCHANGED <<wseg, segments>> /\ writer' = None
      /\ \A sp \in Positions : owner'[sp].ch \notin Channels
  BY <1>1, StoreAssumption, RestartForgets
<1>5. index' = found
  BY <1>1 DEF Restart
<1>6. ASSUME NEW q \in Queues
      PROVE  /\ found[q].enq \in Seq(Nat) /\ Unsynced(found[q]) = {}
             /\ ToSet(found[q].enq) \subseteq ToSet(index[q].enq)
             /\ ToSet(index[q].enq) \subseteq ToSet(found[q].enq) \union Unsynced(index[q])
             /\ ToSet(index[q].ack) \subseteq settled[q]
             /\ ToSet(found[q].ack) \subseteq ToSet(index[q].ack)
             /\ HeldBy(q)' = Live(found[q])
  <2>1. /\ index[q] \in IndexFiles /\ index[q].synced <= Len(index[q].enq)
        /\ ToSet(index[q].ack) \subseteq settled[q]
    BY DEF DurableInv, QueuesInv, QueueTidy, Tidy, Contained
  <2>2. PICK fx, ix : fx = found[q] /\ ix = index[q] /\ IsLeft(fx, ix)
    BY <1>1
  <2>3. /\ fx.enq \in Seq(Nat) /\ Unsynced(fx) = {}
        /\ ToSet(fx.enq) \subseteq ToSet(ix.enq)
        /\ ToSet(ix.enq) \subseteq ToSet(fx.enq) \union Unsynced(ix)
        /\ fx.ack \in {ix.ack, <<>>}
    BY <2>1, <2>2, LeftFiles
  <2>4. HeldBy(q)' = Live(fx)
    BY <1>1, <2>2, <2>3, RestartHolds
  <2>5. ToSet(<<>>) = {}
    BY DEF ToSet
  <2>6. ToSet(fx.ack) \subseteq ToSet(ix.ack)
    BY <2>3, <2>5
  <2> QED
    BY <2>1, <2>2, <2>3, <2>4, <2>6
<1>7. \A sp : Segment(sp)' = Segment(sp)
  BY DEF Segment
<1>8. SyncInv'
  BY <1>2, <1>4, <1>5, <1>6, StoreAssumption DEF SyncInv, StoreAssumption
<1>9. ASSUME NEW sp \in Positions \ synced, sp \notin spoiled' PROVE FALSE
  <2>1. sp \in promised
    BY <1>3, <1>9
  <2>2. sp \in exposed
    BY <1>9, <2>1 DEF DiskInv, SyncInv
  <2> QED
    BY <1>3, <1>9, <2>2
<1>10. ASSUME NEW q \in Queues, NEW sp, sp \in HeldBy(q)', sp \notin spoiled'
       PROVE  Readable(sp)'
  <2>1. sp \in ToSet(index[q].enq) /\ sp \notin ToSet(index[q].ack)
    BY <1>3, <1>6, <1>10 DEF Live
  <2>2. sp \in HeldBy(q) \ spoiled
    BY <1>3, <1>10, <2>1, HeldIsLive DEF Live
  <2>3. Readable(sp)
    BY <2>2 DEF DiskInv, KeptOnDisk
  <2>4. sp \notin gone'
    BY <1>2, <1>9, <1>10, <2>3 DEF Readable
  <2> QED
    BY <1>4, <1>7, <2>3, <2>4 DEF Readable
<1>11. ASSUME NEW sp, sp \in Positions', sp \notin spoiled',
              sp \in promised' \/ owner'[sp].ch \in Channels, NEW q \in Bound
       PROVE  sp \in settled'[q] \union HeldBy(q)'
  <2>1. q \in Queues /\ sp \in Positions /\ sp \in promised /\ sp \notin spoiled
    BY <1>2, <1>3, <1>4, <1>11, StoreAssumption DEF StoreAssumption
  <2>2. sp \in settled[q] \union HeldBy(q)
    BY <2>1 DEF DiskInv, KeptInQueues
  <2>3. CASE sp \in settled[q]
    BY <1>2, <2>3
  <2>4. CASE sp \in HeldBy(q)
    <3>1. sp \in Live(index[q])
      BY <2>1, <2>4, HeldIsLive
    <3>2. q \notin rewritten
      BY <1>3, <1>11, <3>1
    <3>3. sp \notin Unsynced(index[q])
      BY <1>3, <1>11, <2>1, <3>2 DEF DiskInv, SyncInv
    <3>4. sp \in Live(found[q])
      BY <1>6, <2>1, <3>1, <3>3 DEF Live
    <3> QED
      BY <1>6, <2>1, <3>4
  <2> QED
    BY <2>2, <2>3, <2>4
<1>12. KeptOnDisk'
  BY <1>10 DEF KeptOnDisk
<1>13. KeptInQueues'
  BY <1>11 DEF KeptInQueues
<1> QED
  BY <1>8, <1>12, <1>13 DEF DiskInv

-----------------------------------------------------------------------------
(* The invariant holds.                                                     *)

\* A new broker has no file to lose.
LEMMA DiskInit == Init => DiskInv
<1> SUFFICES ASSUME Init PROVE DiskInv
  OBVIOUS
<1>1. Positions = {}
  BY DEF Init, Positions
<1>2. ASSUME NEW q \in Queues PROVE HeldBy(q) = {}
  <2>1. InFlight(q) = {}
    BY DEF Init, InFlight, NotServing, At, None
  <2>2. ToSet(<<>>) = {}
    BY DEF ToSet
  <2> QED
    BY <2>1, <2>2 DEF Init, HeldBy, Held
<1>3. \A q \in Bound : Unsynced(index[q]) = {}
  BY StoreAssumption, EmptyUnsynced DEF Init, StoreAssumption
<1>4. SyncInv
  BY <1>1, <1>3 DEF Init, SyncInv
<1> QED
  BY <1>1, <1>2, <1>4 DEF DiskInv, KeptOnDisk, KeptInQueues

\* Every step keeps the invariant.
LEMMA DiskStep ==
  ASSUME StoreAssumption, DurableInv, DiskInv, [Next]_vars
  PROVE  DiskInv'
<1>1. CASE UNCHANGED vars
  <2>1. UNCHANGED <<store, queues, history>>
    BY <1>1 DEF vars, confirm
  <2> QED
    BY <2>1, StoreAssumption, WaitsKeepDisk
<1>2. ASSUME NEW c \in Channels, Publish(c) \/ Publishing(c) PROVE DiskInv'
  BY <1>2, StoreAssumption, PublishingKeepsDisk
<1>3. CASE Confirm
  BY <1>3, StoreAssumption, ConfirmKeepsDisk
<1>4. ASSUME NEW q \in Queues,
             Delivering(q) \/ Deliver(q) \/ Ack(q) \/ Reject(q) \/ Purge(q)
      PROVE DiskInv'
  BY <1>4, StoreAssumption, SettlingKeepsDisk
<1>5. CASE gc_segments
  BY <1>5, StoreAssumption, CollectingKeepsDisk
<1>6. CASE ProcessCrash \/ Shutdown
  BY <1>6, StoreAssumption, ProcessKeepsDisk
<1>7. CASE MachineCrash
  BY <1>7, StoreAssumption, MachineKeepsDisk
<1> QED
  BY <1>1, <1>2, <1>3, <1>4, <1>5, <1>6, <1>7 DEF Next

\* The invariant holds in every state.
LEMMA DiskInvHolds == Spec => []DiskInv
<1>1. DurableInv /\ DiskInv /\ [Next]_vars => DiskInv'
  BY DiskStep, StoreAssumption
<1> QED
  BY <1>1, DiskInit, DurableInvHolds, PTL DEF Spec

\* No collection (gc_segments, hole_punch_segments and the deletion of segments in
\* vhost.cr) takes bytes or a segment that a queue still refers to, in memory or in the
\* index files a restart would read, whatever publishers, consumers and crashes do.
THEOREM NothingCollected == Spec => []ReferencedOnDisk
<1>1. ASSUME DurableInv, DiskInv, NEW q \in Queues,
             NEW sp \in (InMemory(q) \union Live(index[q])) \ spoiled
      PROVE  Readable(sp)
  <2>1. sp \in HeldBy(q) \ spoiled
    BY <1>1, HeldIsLive DEF InMemory, HeldBy, Held
  <2> QED
    BY <1>1, <2>1 DEF DiskInv, KeptOnDisk
<1>2. DurableInv /\ DiskInv => ReferencedOnDisk
  BY <1>1 DEF ReferencedOnDisk
<1> QED
  BY <1>2, DurableInvHolds, DiskInvHolds, PTL

\* A message whose confirm the client got (confirm_ack in channel.cr, after the msync of
\* vhost.cr) is in the files of every queue it was routed to, and can be read, until it
\* is settled there: whatever crashes, the process or the machine, and however often.
THEOREM ConfirmedKept == Spec => []ConfirmedSurvives
<1>1. ASSUME DurableInv, DiskInv, NEW sp \in promised \ spoiled, NEW q \in Bound
      PROVE  sp \in settled[q] \/ (sp \in Live(index[q]) /\ Readable(sp))
  <2>1. sp \in Positions /\ q \in Queues
    BY <1>1, StoreAssumption DEF DurableInv, StoreTypes, StoreAssumption
  <2>2. sp \in settled[q] \union HeldBy(q)
    BY <1>1, <2>1 DEF DiskInv, KeptInQueues
  <2>3. CASE sp \in HeldBy(q)
    BY <1>1, <2>1, <2>3, HeldIsLive DEF DiskInv, KeptOnDisk
  <2> QED
    BY <2>2, <2>3
<1>2. DurableInv /\ DiskInv => ConfirmedSurvives
  BY <1>1 DEF ConfirmedSurvives
<1> QED
  BY <1>2, DurableInvHolds, DiskInvHolds, PTL

-----------------------------------------------------------------------------
(* The order of the deques and of the index files a restart would read.     *)

\* The deque of a queue and its enq file are in order.
Ordered(ix, r) == Ascending(r) /\ Ascending(ix.enq)
OrderInv == \A q \in Queues : Ordered(index[q], ready[q])

\* Nothing happens to the order of a queue.
SameOrder(q) == ready'[q] = ready[q] /\ index'[q].enq = index[q].enq

\* A position that is not below any of the queue goes to the end of both.
LEMMA AppendOrdered ==
  ASSUME NEW ix \in IndexFiles, NEW r \in Seq(Nat), Ordered(ix, r), NEW sp \in Nat,
         \A x \in ToSet(r) \union ToSet(ix.enq) : x <= sp
  PROVE  /\ Ordered(Enqueued(ix, sp), Append(r, sp))
         /\ Enqueued(ix, sp) \in IndexFiles /\ Append(r, sp) \in Seq(Nat)
         /\ ToSet(Append(r, sp)) = ToSet(r) \union {sp}
         /\ ToSet(Enqueued(ix, sp).enq) = ToSet(ix.enq) \union {sp}
<1>1. PICK ex : ex = Enqueued(ix, sp)
  OBVIOUS
<1>2. /\ ex \in IndexFiles /\ ToSet(ex.enq) = ToSet(ix.enq) \union {sp} /\ Ascending(ex.enq)
  BY <1>1, EnqueuedFiles DEF Ordered
<1>3. PICK t : t = Append(r, sp)
  OBVIOUS
<1>4. IsInserted(t, r, Len(r) + 1, sp)
  BY <1>3, AppendInserts
<1>5. t \in Seq(Nat) /\ ToSet(t) = ToSet(r) \union {sp}
  <2>1. t \in Seq(Nat)
    BY <1>4 DEF IsInserted
  <2>2. ToSet(t) = ToSet(r) \union {sp}
    BY <1>4, InsertedElements
  <2> QED
    BY <2>1, <2>2
<1>6. Ascending(t)
  <2>1. \A i \in 1..Len(r) : r[i] <= sp
    BY ElementsOfSeq
  <2>2. Len(r) \in Nat /\ (Len(r) + 1) - 1 = Len(r) /\ ~(Len(r) + 1 <= Len(r))
    BY LenProperties
  <2> QED
    BY <1>4, <2>1, <2>2, InsertedAscending DEF Ordered
<1> QED
  BY <1>1, <1>2, <1>3, <1>5, <1>6 DEF Ordered

\* ReadyQueue#insert keeps the order, and so does taking the head.
LEMMA MovesOrdered ==
  ASSUME NEW r \in Seq(Nat), Ascending(r)
  PROVE  /\ \A sp \in Nat : Ascending(Inserted(r, sp))
         /\ r # <<>> => Ascending(Tail(r))
<1>1. ASSUME NEW sp \in Nat PROVE Ascending(Inserted(r, sp))
  <2>1. PICK t : t = Inserted(r, sp)
    OBVIOUS
  <2>2. PICK k \in 1..(Len(r) + 1) : /\ IsInserted(t, r, k, sp)
                                     /\ \A i \in 1..(k - 1) : r[i] <= sp
                                     /\ k <= Len(r) => r[k] > sp
    BY <2>1, InsertedAt
  <2>3. Ascending(t)
    BY <2>2, InsertedAscending
  <2> QED
    BY <2>1, <2>3
<1>2. ASSUME r # <<>> PROVE Ascending(Tail(r))
  <2>1. PICK t, h : t = Tail(r) /\ h = Head(r)
    OBVIOUS
  <2>2. h \in Nat /\ t \in Seq(Nat) /\ IsInserted(r, t, 1, h)
    BY <1>2, <2>1, HeadInserted
  <2>3. Ascending(t)
    BY <2>2, InsertedAscending
  <2> QED
    BY <2>1, <2>3
<1> QED
  BY <1>1, <1>2

\* delete_message keeps the order of the enq file: a compaction sorts.
LEMMA DeletedOrdered ==
  ASSUME StoreAssumption, DurableInv, NEW q \in Queues, Ascending(index[q].enq),
         NEW sp \in Nat, NEW M \in SUBSET Nat, IsFiniteSet(M)
  PROVE  Ascending(Deleted(index[q], sp, M).enq)
<1>1. index[q] \in IndexFiles
  BY DEF DurableInv, QueuesInv, QueueTidy, Tidy, Contained
<1>2. IsDeleted(Deleted(index[q], sp, M), index[q], sp, M)
  BY <1>1, StoreAssumption, DeletedFiles
<1> QED
  BY <1>2 DEF IsDeleted

\* It is enough to look at the one queue a step is about.
LEMMA OneQueueOrdered ==
  ASSUME OrderInv, NEW q \in Queues, Ordered(index'[q], ready'[q]),
         \A r \in Queues \ {q} : SameOrder(r)
  PROVE  OrderInv'
BY DEF OrderInv, Ordered, SameOrder

\* What the queues have is known and is numbers.
LEMMA QueueElements ==
  ASSUME DurableInv, NEW q \in Queues
  PROVE  /\ ready[q] \in Seq(Nat) /\ index[q] \in IndexFiles
         /\ ToSet(ready[q]) \subseteq Positions /\ ToSet(index[q].enq) \subseteq Positions
         /\ unacked[q] \subseteq Positions /\ InFlight(q) \subseteq Positions
         /\ InMemory(q) \subseteq Positions
         /\ Positions \in SUBSET Nat /\ IsFiniteSet(Positions)
         /\ serving = [r \in Queues |-> serving[r]] /\ Shapes
<1>1. Tidy(index[q], ready[q], unacked[q], InFlight(q), HeldUnacked(q), settled[q], spoiled,
           Positions)
  BY DEF DurableInv, QueuesInv, QueueTidy
<1>2. Positions \in SUBSET Nat /\ IsFiniteSet(Positions)
  BY DEF DurableInv, StoreTypes
<1>3. serving = [r \in Queues |-> serving[r]] /\ Shapes
  BY DEF DurableInv, LockInv, LockTypes, QueuesInv
<1> QED
  BY <1>1, <1>2, <1>3 DEF Tidy, Contained, InMemory

\* What a queue deletes leaves the order as it is.
LEMMA DeleteKeepsOrder ==
  ASSUME StoreAssumption, DurableInv, OrderInv, NEW q \in Queues, NEW sp \in Positions,
         NEW others, delete_message(q, sp, others), ready' = ready
  PROVE  OrderInv'
<1>1. PICK M : M = InMemory(q) \ {sp}
  OBVIOUS
<1>2. index' = [index EXCEPT ![q] = Deleted(@, sp, M)]
  BY <1>1 DEF delete_message
<1>3. Shapes /\ M \in SUBSET Nat /\ IsFiniteSet(M) /\ sp \in Nat
  BY <1>1, QueueElements, FS_Subset
<1>4. index'[q] = Deleted(index[q], sp, M) /\ \A r \in Queues \ {q} : index'[r] = index[r]
  BY <1>2, <1>3 DEF Shapes
<1>5. Ascending(index'[q].enq)
  BY <1>3, <1>4, StoreAssumption, DeletedOrdered DEF OrderInv, Ordered
<1>6. Ordered(index'[q], ready'[q])
  BY <1>5 DEF OrderInv, Ordered
<1> QED
  BY <1>4, <1>6, OneQueueOrdered DEF SameOrder

\* Delivering and settling.
LEMMA SettlingKeepsOrder ==
  ASSUME StoreAssumption, DurableInv, OrderInv, NEW q \in Queues,
         Delivering(q) \/ Deliver(q) \/ Ack(q) \/ Reject(q) \/ Purge(q)
  PROVE  OrderInv'
<1>1. CASE DeliveryTakesLock(q) \/ DeliveryConfirmed(q)
  BY <1>1 DEF DeliveryTakesLock, DeliveryConfirmed, OrderInv
<1>2. CASE Delivered(q)
  <2>1. CASE serving[q].no_ack
    <3>1. delete_message(q, serving[q].sp, {}) /\ ready' = ready
      BY <1>2, <2>1 DEF Delivered
    <3>2. serving[q].sp \in InFlight(q)
      BY <1>2, <2>1 DEF Delivered, InFlight, None
    <3>3. serving[q].sp \in Positions
      BY <3>2, QueueElements
    <3> QED
      BY <3>1, <3>3, StoreAssumption, DeleteKeepsOrder
  <2>2. CASE ~serving[q].no_ack
    BY <1>2, <2>2 DEF Delivered, OrderInv
  <2> QED
    BY <2>1, <2>2
<1>3. CASE Ack(q)
  <2>1. PICK sp \in unacked[q] : delete_message(q, sp, InFlight(q)) /\ ready' = ready
    BY <1>3 DEF Ack
  <2>2. sp \in Positions
    BY QueueElements
  <2> QED
    BY <2>1, <2>2, StoreAssumption, DeleteKeepsOrder
<1>4. CASE DeliveryFails(q) \/ Reject(q)
  <2>1. PICK sp : /\ ready' = [ready EXCEPT ![q] = Inserted(@, sp)] /\ index' = index
                  /\ \/ sp \in unacked[q]
                     \/ sp = serving[q].sp /\ serving[q].pc # None
    <3>1. CASE DeliveryFails(q)
      BY <3>1 DEF DeliveryFails, None
    <3>2. CASE Reject(q)
      BY <3>2 DEF Reject
    <3> QED
      BY <1>4, <3>1, <3>2
  <2>2. sp \in unacked[q] \union (HeldUnacked(q) \union InFlight(q))
    BY <2>1 DEF HeldUnacked, InFlight
  <2>3. HeldUnacked(q) \subseteq unacked[q]
    BY DEF DurableInv, QueuesInv, QueueTidy, Tidy, Single
  <2>4. sp \in Nat /\ ready[q] \in Seq(Nat) /\ Shapes
    BY <2>2, <2>3, QueueElements
  <2>5. ready'[q] = Inserted(ready[q], sp) /\ \A r \in Queues \ {q} : ready'[r] = ready[r]
    BY <2>1, <2>4 DEF Shapes
  <2>6. Ascending(ready'[q])
    BY <2>4, <2>5, MovesOrdered DEF OrderInv, Ordered
  <2>7. Ordered(index'[q], ready'[q])
    BY <2>1, <2>6 DEF OrderInv, Ordered
  <2> QED
    BY <2>1, <2>5, <2>7, OneQueueOrdered DEF SameOrder
<1>5. CASE Deliver(q)
  <2>1. ready' = [ready EXCEPT ![q] = Tail(@)] /\ index' = index /\ ready[q] # <<>>
    BY <1>5 DEF Deliver
  <2>2. ready[q] \in Seq(Nat) /\ Shapes
    BY QueueElements
  <2>3. ready'[q] = Tail(ready[q]) /\ \A r \in Queues \ {q} : ready'[r] = ready[r]
    BY <2>1, <2>2 DEF Shapes
  <2>4. Ascending(ready'[q])
    BY <2>1, <2>2, <2>3, MovesOrdered DEF OrderInv, Ordered
  <2>5. Ordered(index'[q], ready'[q])
    BY <2>1, <2>4 DEF OrderInv, Ordered
  <2> QED
    BY <2>1, <2>3, <2>5, OneQueueOrdered DEF SameOrder
<1>6. CASE Purge(q)
  <2>1. index' = [index EXCEPT ![q] = NoIndex] /\ ready' = [ready EXCEPT ![q] = <<>>]
    BY <1>6 DEF Purge
  <2>2. Shapes
    BY QueueElements
  <2>3. /\ index'[q] = NoIndex /\ ready'[q] = <<>>
        /\ \A r \in Queues \ {q} : index'[r] = index[r] /\ ready'[r] = ready[r]
    BY <2>1, <2>2 DEF Shapes
  <2>4. Ordered(NoIndex, <<>>)
    BY DEF Ordered, Ascending, NoIndex
  <2> QED
    BY <2>3, <2>4, OneQueueOrdered DEF SameOrder
<1> QED
  BY <1>1, <1>2, <1>3, <1>4, <1>5, <1>6 DEF Delivering

\* A queue gets the message, or the copy of one that is dropped: no position it has is
\* higher.
LEMMA GetsOrdered ==
  ASSUME DurableInv, OrderInv, NEW q \in Queues, NEW sp \in Nat,
         \A p \in Positions : p < sp, GetsOne(q, sp)
  PROVE  Ordered(index'[q], ready'[q])
<1>1. /\ ready[q] \in Seq(Nat) /\ index[q] \in IndexFiles
      /\ ToSet(ready[q]) \union ToSet(index[q].enq) \subseteq Positions
      /\ Positions \in SUBSET Nat
  BY QueueElements
<1>2. \A x \in ToSet(ready[q]) \union ToSet(index[q].enq) : x <= sp
  <2>1. \A x \in Positions : x <= sp
    BY <1>1
  <2> QED
    BY <1>1, <2>1
<1>3. Ordered(Enqueued(index[q], sp), Append(ready[q], sp))
  BY <1>1, <1>2, AppendOrdered DEF OrderInv
<1> QED
  BY <1>3 DEF GetsOne

\* The limited queue takes the new message for the only one it has; a compaction writes
\* the new position before it is appended.
LEMMA LimitedOrdered ==
  ASSUME StoreAssumption, DurableInv, OrderInv, NEW sp \in Nat,
         \A p \in Positions : p < sp, NEW last \in Bound, RoutedAndDropped(sp, last),
         Limited \in Bound, Len(ready[Limited]) = 1
  PROVE  Ordered(index'[Limited], ready'[Limited])
<1>1. PICK q \in Queues : q = Limited
  BY StoreAssumption DEF StoreAssumption
<1>2. PICK h, rest : h = Head(ready[q]) /\ rest = Tail(ready[q])
  OBVIOUS
<1>3. PICK M : M = ToSet(Append(rest, sp)) \union unacked[q]
  OBVIOUS
<1>4. ready'[q] = Append(rest, sp) /\ index'[q] = Enqueued(Deleted(index[q], h, M), sp)
  BY <1>1, <1>2, <1>3 DEF RoutedAndDropped
<1>5. /\ ready[q] \in Seq(Nat) /\ index[q] \in IndexFiles
      /\ ToSet(ready[q]) \subseteq Positions /\ ToSet(index[q].enq) \subseteq Positions
      /\ unacked[q] \subseteq Positions /\ Positions \in SUBSET Nat /\ IsFiniteSet(Positions)
  BY QueueElements
<1>6. ready[q] # <<>>
  BY <1>1, <1>5, EmptySeq
<1>7. h \in Nat /\ rest \in Seq(Nat) /\ ToSet(rest) \subseteq ToSet(ready[q])
  <2>1. h \in Nat /\ rest \in Seq(Nat) /\ IsInserted(ready[q], rest, 1, h)
    BY <1>2, <1>5, <1>6, HeadInserted
  <2>2. ToSet(ready[q]) = ToSet(rest) \union {h}
    BY <2>1, InsertedElements
  <2> QED
    BY <2>1, <2>2
<1>8. ToSet(Append(rest, sp)) = ToSet(rest) \union {sp}
  BY <1>7, ElementsMoved
<1>9. M \subseteq Positions \union {sp} /\ M \in SUBSET Nat
  BY <1>3, <1>5, <1>7, <1>8
<1>10. IsFiniteSet(M)
  BY <1>5, <1>9, FS_Singleton, FS_Union, FS_Subset
<1>11. PICK dx : dx = Deleted(index[q], h, M)
  OBVIOUS
<1>12. IsDeleted(dx, index[q], h, M)
  BY <1>5, <1>7, <1>9, <1>10, <1>11, StoreAssumption, DeletedFiles
<1>13. dx \in IndexFiles /\ ToSet(dx.enq) \subseteq Positions \union {sp}
  BY <1>5, <1>9, <1>12 DEF IsDeleted
<1>14. Ascending(dx.enq)
  BY <1>12 DEF IsDeleted, OrderInv, Ordered
<1>15. Ascending(rest)
  BY <1>2, <1>5, <1>6, MovesOrdered DEF OrderInv, Ordered
<1>16. \A x \in ToSet(rest) \union ToSet(dx.enq) : x <= sp
  <2>1. \A x \in Positions \union {sp} : x <= sp
    BY <1>5
  <2> QED
    BY <1>5, <1>7, <1>13, <2>1
<1>17. Ordered(Enqueued(dx, sp), Append(rest, sp))
  BY <1>7, <1>13, <1>14, <1>15, <1>16, AppendOrdered DEF Ordered
<1> QED
  BY <1>1, <1>4, <1>11, <1>17

\* A publish: without drop_overflow into a queue that gets the message too, every
\* position goes behind all there are.
LEMMA DepositKeepsOrder ==
  ASSUME StoreAssumption, DurableInv, OrderInv,
         "drop" \notin Workload \/ DeadLetters \notin Bound,
         NEW c \in Channels, NEW tag, NEW sp \in Nat, \A p \in Positions : p < sp,
         Deposit(c, tag, sp)
  PROVE  OrderInv'
<1>1. CASE Routed(sp)
  <2>1. ASSUME NEW q \in Queues PROVE Ordered(index'[q], ready'[q])
    <3>1. CASE q \in Bound
      <4>1. GetsOne(q, sp)
        BY <1>1, <3>1 DEF Routed, GetsOne
      <4> QED
        BY <4>1, GetsOrdered
    <3>2. CASE q \notin Bound
      BY <1>1, <3>2 DEF Routed, OrderInv
    <3> QED
      BY <3>1, <3>2
  <2> QED
    BY <2>1 DEF OrderInv, Ordered
<1>2. ASSUME NEW last \in Bound, RoutedAndDropped(sp, last), DeadLetters \notin Bound,
             Limited \in Bound, Len(ready[Limited]) = 1
      PROVE  OrderInv'
  <2>1. ASSUME NEW q \in Queues PROVE Ordered(index'[q], ready'[q])
    <3>1. CASE q = Limited
      BY <1>2, <3>1, StoreAssumption, LimitedOrdered
    <3>2. CASE q = DeadLetters
      <4>1. QueuesInv
        BY DEF DurableInv
      <4>2. GetsOne(q, sp + 1)
        BY <1>2, <3>2, <4>1, StoreAssumption, DeadLettersGet
      <4>3. sp + 1 \in Nat /\ \A p \in Positions : p < sp + 1
        <5>1. Positions \in SUBSET Nat
          BY QueueElements
        <5> QED
          BY <5>1
      <4> QED
        BY <4>2, <4>3, GetsOrdered
    <3>3. CASE q \in Bound \ {Limited, DeadLetters}
      <4>1. GetsOne(q, sp)
        BY <1>2, <3>3 DEF RoutedAndDropped, GetsOne
      <4> QED
        BY <4>1, GetsOrdered
    <3>4. CASE q \notin Bound \union {Limited, DeadLetters}
      BY <1>2, <3>4 DEF RoutedAndDropped, OrderInv
    <3> QED
      BY <3>1, <3>2, <3>3, <3>4
  <2> QED
    BY <2>1 DEF OrderInv, Ordered
<1>3. \/ Routed(sp)
      \/ /\ DeadLetters \notin Bound /\ Limited \in Bound /\ Len(ready[Limited]) = 1
         /\ \E last \in Bound : RoutedAndDropped(sp, last)
  BY DEF Deposit
<1> QED
  BY <1>1, <1>2, <1>3

\* A restart makes ready what is in the enq file, in its order.
LEMMA RestartKeepsOrder ==
  ASSUME DurableInv, OrderInv, ProcessCrash \/ MachineCrash \/ Shutdown
  PROVE  OrderInv'
<1>1. QueuesInv
  BY DEF DurableInv
<1>2. PICK found : /\ Restart(found) /\ found = [q \in Queues |-> found[q]]
                   /\ \A q \in Queues : IsFound(found[q], index[q])
  BY <1>1, RestartFinds
<1>3. ASSUME NEW q \in Queues PROVE Ordered(index'[q], ready'[q])
  <2>1. PICK fx : fx = found[q]
    OBVIOUS
  <2>2. index[q] \in IndexFiles /\ index[q].synced <= Len(index[q].enq)
    BY <1>1 DEF QueuesInv, QueueTidy, Tidy, Contained
  <2>3. fx \in IndexFiles /\ Ascending(fx.enq)
    BY <1>2, <2>1, <2>2, FoundFiles DEF OrderInv, Ordered
  <2>4. fx.enq \in Seq(Nat)
    BY <2>3 DEF IndexFiles
  <2>5. Ascending(Restored(fx))
    BY <2>3, <2>4, RestoredElements
  <2>6. index'[q] = fx /\ ready'[q] = Restored(fx)
    BY <1>2, <2>1 DEF Restart
  <2> QED
    BY <2>3, <2>5, <2>6 DEF Ordered
<1> QED
  BY <1>3 DEF OrderInv, Ordered

\* The files are synced, and nothing else becomes of the queues.
LEMMA SyncKeepsOrder ==
  ASSUME DurableInv, OrderInv, SyncFiles, ready' = ready
  PROVE  OrderInv'
<1>1. ASSUME NEW q \in Queues PROVE index'[q].enq = index[q].enq
  <2>1. index[q] \in IndexFiles
    BY QueueElements
  <2>2. index'[q] \in {index[q], WrittenBack(index[q])}
    BY DEF SyncFiles
  <2>3. WrittenBack(index[q]).enq = index[q].enq
    BY <2>1 DEF WrittenBack, IndexFiles
  <2> QED
    BY <2>2, <2>3
<1> QED
  BY <1>1 DEF OrderInv, Ordered

\* Every step keeps deques and enq files in order.
LEMMA OrderStep ==
  ASSUME StoreAssumption, "drop" \notin Workload \/ DeadLetters \notin Bound,
         DurableInv, OrderInv, [Next]_vars
  PROVE  OrderInv'
<1>1. CASE UNCHANGED <<ready, index>>
  BY <1>1 DEF OrderInv
<1>2. ASSUME NEW c \in Channels, Publish(c) \/ Publishing(c) PROVE OrderInv'
  <2>1. CASE UNCHANGED <<store, queues, history>>
    BY <1>1, <2>1 DEF queues
  <2>2. CASE SyncFiles /\ ready' = ready
    BY <2>2, SyncKeepsOrder
  <2>3. ASSUME NEW tag, NEW sp, Writes(c, tag, sp) PROVE OrderInv'
    <3>1. Deposit(c, tag, sp) /\ sp \in Nat /\ \A p \in Positions : p < sp
      BY <2>3 DEF Writes, IsNext
    <3> QED
      BY <3>1, StoreAssumption, DepositKeepsOrder
  <2> QED
    BY <1>2, <2>1, <2>2, <2>3, StoreAssumption, PublishingCases
<1>3. CASE Confirm
  <2>1. CASE FsyncBegins
    BY <2>1, SyncKeepsOrder DEF FsyncBegins
  <2>2. CASE FsyncTakesLock \/ FsyncDone \/ \E c \in Channels : confirm_ack(c)
    BY <1>1, <2>2 DEF FsyncTakesLock, FsyncDone, confirm_ack, queues
  <2> QED
    BY <1>3, <2>1, <2>2 DEF Confirm
<1>4. ASSUME NEW q \in Queues,
             Delivering(q) \/ Deliver(q) \/ Ack(q) \/ Reject(q) \/ Purge(q)
      PROVE OrderInv'
  BY <1>4, StoreAssumption, SettlingKeepsOrder
<1>5. CASE gc_segments
  BY <1>1, <1>5 DEF gc_segments, queues
<1>6. CASE ProcessCrash \/ MachineCrash \/ Shutdown
  BY <1>6, RestartKeepsOrder
<1>7. CASE UNCHANGED vars
  BY <1>1, <1>7 DEF vars, queues
<1> QED
  BY <1>2, <1>3, <1>4, <1>5, <1>6, <1>7 DEF Next

\* Requeues (ReadyQueue#insert), failed deliveries, new segments, compactions and
\* restarts keep every deque in the order gc_segments of vhost.cr needs. Where the dead
\* letters of drop_overflow go to a queue that the message is routed to as well, the
\* copy may get there before the message, which has the lower position: that case the
\* hypothesis leaves out.
THEOREM DequesInOrder ==
  ASSUME "drop" \notin Workload \/ DeadLetters \notin Bound
  PROVE  Spec => []InOrder
<1>1. Init => OrderInv
  BY DEF Init, OrderInv, Ordered, Ascending, NoIndex
<1>2. DurableInv /\ OrderInv /\ [Next]_vars => OrderInv'
  BY OrderStep, StoreAssumption
<1>3. DurableInv /\ OrderInv => InOrder
  <2> SUFFICES ASSUME DurableInv, OrderInv, NEW q \in Queues,
                      NEW i \in 1..(Len(ready[q]) - 1)
               PROVE  ready[q][i] <= ready[q][i + 1]
    BY DEF InOrder
  <2>1. ready[q] \in Seq(Nat) /\ Ascending(ready[q])
    BY QueueElements DEF OrderInv, Ordered
  <2>2. i \in 1..Len(ready[q]) /\ i + 1 \in 1..Len(ready[q]) /\ i < i + 1
    BY <2>1, LenProperties
  <2> QED
    BY <2>1, <2>2 DEF Ascending
<1> QED
  BY <1>1, <1>2, <1>3, DurableInvHolds, PTL DEF Spec

=============================================================================
