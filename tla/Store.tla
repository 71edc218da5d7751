-------------------------------- MODULE Store --------------------------------
(* The message store of a vhost (vhost.cr), the index files of its durable  *)
(* queues (queue/durable_queue.cr) and the confirms that depend on both     *)
(* (client/channel.cr). Publishers append messages to segment files and     *)
(* their positions to the index of each queue; consumers add positions to   *)
(* the queue's ack file; segments without a referenced position are deleted *)
(* and holes punched into the others; the process or the machine crashes.   *)
(*                                                                          *)
(* Fibers run one at a time and switch where they block: at the locks and   *)
(* at writes to a socket. All that lies between is one step.                *)
EXTENDS Integers, Sequences, FiniteSets, SequencesExt

CONSTANTS
  Channels,      \* channels in confirm mode that publish persistent messages
  Queues,        \* durable queues
  Bound,         \* the queues the exchange routes to, at least one
  Limited,       \* a queue with x-max-length 1 and a dead letter exchange
  DeadLetters,   \* the queue its dead letters are routed to
  Consumed,      \* the queues that have a consumer
  SegSize,       \* messages that fit into a segment
  PageSize,      \* messages that fit into the first memory page of a segment
  AckMax,        \* positions that fit into an ack file
  MaxMessages,   \* bound on positions used
  MaxCrashes,    \* bound on crashes
  MaxEvents,     \* bound on positions used and crashes together
  PowerLoss,     \* whether the machine may crash, or only the process
  Workload       \* what else happens, of "drop", "ack", "no_ack", "reject", "purge"

None == "none"
Fsync == "fsync"     \* the fibers that waiting4confirm spawns

ASSUME StoreAssumption ==
  /\ SegSize \in Nat \ {0} /\ AckMax \in Nat \ {0}
  /\ PageSize \in 0..SegSize
  /\ Bound \subseteq Queues /\ Bound # {}
  /\ Consumed \subseteq Queues
  /\ Limited \in Queues /\ DeadLetters \in Queues \ {Limited}
  /\ Channels \cap Queues = {}
  /\ {None, Fsync} \cap (Channels \union Queues) = {}

VARIABLES
  \* the message store
  wseg,        \* the segment of @wfile
  wsize,       \* messages in it
  appended,    \* its @pos is its end: it was written to since it was opened
  segments,    \* @segments: the segment files there are
  owner,       \* position -> the channel and tag it was published with
  synced,      \* positions written back by an msync
  gone,        \* positions whose bytes were punched or truncated away or lost
  dirty,       \* @dirty: something was deleted since the last collection
  \* the queues
  ready,       \* @ready
  unacked,     \* @unacked, which is sorted
  index,       \* the enq file, how much of it an msync wrote back, the ack file
  serving,     \* the delivery the deliver loop is in
  \* the confirms
  pc,          \* where a publisher blocks
  total,       \* @confirm_total
  confirmed,   \* the highest tag acknowledged to the client
  awaiting,    \* @awaiting_confirm
  fsync,       \* @fsync: a fiber is spawned
  fibers,      \* fsync fibers that have not begun
  blocked,     \* fsync fibers that wait for @awaiting_confirm_lock
  holder,      \* who holds @awaiting_confirm_lock
  left,        \* channels the holder has still to confirm
  toSync,      \* @queues_to_fsync
  writer,      \* who holds @write_lock
  \* history
  promised,    \* positions that were confirmed
  settled,     \* positions deleted from each queue
  later,       \* positions written with no fsync of their files since
  exposed,     \* those of them that were confirmed
  rewritten,   \* queues whose index was compacted with no fsync since
  spoiled,     \* positions that a known deviation has touched
  crashes      \* how often the broker crashed or was stopped

store   == <<wseg, wsize, appended, segments, owner, synced, gone, dirty>>
queues  == <<ready, unacked, index, serving>>
confirm == <<pc, total, confirmed, awaiting, fsync, fibers, blocked, holder,
             left, toSync, writer>>
history == <<promised, settled, later, exposed, rewritten, spoiled, crashes>>
vars    == <<store, queues, confirm, history>>

-----------------------------------------------------------------------------
(* Positions. A SegmentPosition is a number: its segment and its place in   *)
(* the segment, so that < is the order of SegmentPosition#<=>.              *)

Segment(sp) == sp \div SegSize
Next_sp     == wseg * SegSize + wsize
Positions   == DOMAIN owner
MaxOf(S)    == CHOOSE x \in S : \A y \in S : y <= x

Readable(sp) == Segment(sp) \in segments /\ sp \notin gone

\* The numbers of a finite set, from the least up
Sorted(S) ==
  [i \in 1..Cardinality(S) |-> CHOOSE x \in S : Cardinality({y \in S : y < x}) = i - 1]

\* mutant: insert pushes
FaultyPushes(seq, sp) == Append(seq, sp)

\* ReadyQueue#insert: before the first position that is higher
Inserted(seq, sp) ==
  LET higher == SelectInSeq(seq, LAMBDA rsp : rsp > sp)
  IN IF higher = 0 THEN Append(seq, sp) ELSE InsertAt(seq, higher, sp)

-----------------------------------------------------------------------------
(* The index of a queue.                                                    *)

NoIndex == [enq |-> <<>>, synced |-> 0, ack |-> <<>>]

Enqueued(ix, sp) == [ix EXCEPT !.enq = Append(@, sp)]

\* delete_message: a full ack file makes compact_index! write the positions in
\* memory to a new enq file, and nothing writes that back
Full(ix) == Len(ix.ack) >= AckMax

\* mutant: EOFError of the ack file is rescued and nothing is done about it
FaultyLosesAck(ix, sp, memory) == IF Full(ix) THEN ix
                                  ELSE [ix EXCEPT !.ack = Append(@, sp)]

Deleted(ix, sp, memory) ==
  IF Full(ix) THEN [enq |-> Sorted(memory), synced |-> 0, ack |-> <<>>]
  ELSE [ix EXCEPT !.ack = Append(@, sp)]

WrittenBack(ix) == [ix EXCEPT !.synced = Len(ix.enq)]

\* What only the kernel's cache has of the indexes of the queues Q
Unwritten(Q) ==
  UNION {{index[q].enq[i] : i \in index[q].synced + 1..Len(index[q].enq)} : q \in Q}

\* The positions a restart would find
Live(ix) == ToSet(ix.enq) \ ToSet(ix.ack)

\* mutant: restore_index breaks at an acked position instead of going to the next
FaultyStopsEarly(ix) ==
  SelectSeq(ix.enq, LAMBDA sp : \A a \in ToSet(ix.ack) : sp < a)

\* restore_index
Restored(ix) ==
  LET kept == Sorted({i \in DOMAIN ix.enq : ix.enq[i] \notin ToSet(ix.ack)})
  IN [k \in DOMAIN kept |-> ix.enq[kept[k]]]

\* What the deliver loop took out of the ready deque for a consumer that does
\* not acknowledge
InFlight(q) == {sp \in {serving[q].sp} : serving[q].pc # None /\ serving[q].no_ack}

InMemory(q) == ToSet(ready[q]) \union unacked[q]

\* Where the deliver loop is, and with what
At(p, sp, no_ack) == [pc |-> p, sp |-> sp, no_ack |-> no_ack]
NotServing == At(None, 0, FALSE)

-----------------------------------------------------------------------------
Init ==
  /\ wseg = 1 /\ wsize = 0 /\ appended = FALSE /\ segments = {1}
  /\ owner = <<>> /\ synced = {} /\ gone = {} /\ dirty = FALSE
  /\ ready = [q \in Queues |-> <<>>]
  /\ unacked = [q \in Queues |-> {}]
  /\ index = [q \in Queues |-> NoIndex]
  /\ serving = [q \in Queues |-> NotServing]
  /\ pc = [c \in Channels |-> None]
  /\ total = [c \in Channels |-> 0]
  /\ confirmed = [c \in Channels |-> 0]
  /\ awaiting = {} /\ fsync = FALSE /\ fibers = 0 /\ blocked = 0
  /\ holder = None /\ left = {} /\ toSync = {} /\ writer = None
  /\ promised = {} /\ settled = [q \in Queues |-> {}] /\ later = {} /\ exposed = {}
  /\ rewritten = {} /\ spoiled = {} /\ crashes = 0

-----------------------------------------------------------------------------
(* Publishing.                                                              *)

\* mutant: what is appended does not move @pos
FaultyCovered ==
  {sp \in Positions : Segment(sp) = wseg /\ sp % SegSize < PageSize}

\* What @wfile.fsync writes back: the file up to @pos, which stands behind the
\* version prefix, in the first page, until a message is appended
Covered ==
  {sp \in Positions : Segment(sp) = wseg /\ (appended \/ sp % SegSize < PageSize)}

\* Messages of before a restart that no such fsync wrote back, and none will when
\* the next one opens a segment
LeftOut ==
  {sp \in Positions \ synced :
     \/ Segment(sp) # wseg
     \/ ~appended /\ ~(sp % SegSize < PageSize)}

\* mutant: fsync leaves the indexes alone
FaultySyncsSegment ==
  /\ synced' = synced \union Covered
  /\ toSync' = {} /\ later' = {} /\ exposed' = {}
  /\ UNCHANGED <<index, rewritten>>

\* VHost#fsync up to its confirms: the current segment, then the indexes. It
\* forgets what was published to a queue before the process crashed, and the
\* messages of a segment that nothing was appended to before that fsync.
SyncFiles ==
  LET forgotten == Unwritten(Bound \ (toSync \union rewritten))
                     \union LeftOut
  IN /\ synced' = synced \union Covered
     /\ index' = [q \in Queues |-> IF q \in toSync THEN WrittenBack(index[q])
                                   ELSE index[q]]
     /\ toSync' = {}
     /\ later' = later \intersect forgotten
     /\ exposed' = exposed \intersect forgotten
     /\ rewritten' = rewritten \ toSync

\* The bounds
RoomFor(n) == /\ Cardinality(Positions) + n <= MaxMessages
              /\ Cardinality(Positions) + n + crashes <= MaxEvents

MayCrash == crashes < MaxCrashes /\ Cardinality(Positions) + crashes < MaxEvents

\* The message goes to every queue the exchange routes to
Routed(sp) ==
  /\ ready' = [q \in Queues |-> IF q \in Bound THEN Append(ready[q], sp) ELSE ready[q]]
  /\ index' = [q \in Queues |-> IF q \in Bound THEN Enqueued(index[q], sp)
                                ELSE index[q]]

\* drop_overflow inside Queue#publish: the head of the limited queue is copied
\* to the dead letter queue and deleted, both before the new position is in
\* the enq file, and the copy before the queues that come after get the message
RoutedAndDropped(sp, last) ==
  LET kept == Append(Tail(ready[Limited]), sp)
      copy == sp + 1
  IN /\ ready' = [q \in Queues |->
           IF q = Limited THEN kept
           ELSE IF q = DeadLetters
             THEN ready[q] \o (CASE q \notin Bound -> <<copy>>
                                 [] last = q -> <<copy, sp>>
                                 [] OTHER -> <<sp, copy>>)
           ELSE IF q \in Bound THEN Append(ready[q], sp) ELSE ready[q]]
     /\ index' = [q \in Queues |->
           IF q = Limited
             THEN Enqueued(Deleted(index[q], Head(ready[q]),
                                   ToSet(kept) \union unacked[q]), sp)
           ELSE IF q = DeadLetters
             THEN [index[q] EXCEPT !.enq =
                     @ \o (CASE q \notin Bound -> <<copy>>
                             [] last = q -> <<copy, sp>>
                             [] OTHER -> <<sp, copy>>)]
           ELSE IF q \in Bound THEN Enqueued(index[q], sp) ELSE index[q]]

\* write_to_disk and the loop over the queues in VHost#publish
Deposit(c, tag, sp) ==
  /\ appended' = TRUE
  /\ \/ /\ Routed(sp)
        /\ owner' = [s \in Positions \union {sp} |->
                       IF s \in Positions THEN owner[s] ELSE [ch |-> c, tag |-> tag]]
        /\ wsize' = (sp % SegSize) + 1
        /\ later' = later \union {sp}
        /\ promised' = promised \union {s \in {sp} : tag <= confirmed[c]}
        /\ exposed' = exposed \union {s \in {sp} : tag <= confirmed[c]}
        /\ UNCHANGED <<settled, dirty, rewritten, spoiled>>
     \/ /\ "drop" \in Workload
        /\ Limited \in Bound /\ Len(ready[Limited]) = 1
        /\ Readable(Head(ready[Limited]))
        /\ (sp % SegSize) + 2 <= SegSize      \* bound: the copy fits the segment too
        /\ RoomFor(2)
        /\ \E last \in Bound : RoutedAndDropped(sp, last)
        /\ owner' = [s \in Positions \union {sp, sp + 1} |->
                       IF s \in Positions THEN owner[s]
                       ELSE IF s = sp THEN [ch |-> c, tag |-> tag] ELSE [ch |-> None, tag |-> 0]]
        /\ wsize' = (sp % SegSize) + 2
        /\ later' = later \union {sp, sp + 1}
        /\ promised' = promised \union {s \in {sp} : tag <= confirmed[c]}
        /\ exposed' = exposed \union {s \in {sp} : tag <= confirmed[c]}
        /\ settled' = [settled EXCEPT ![Limited] = @ \union {Head(ready[Limited])}]
        /\ dirty' = TRUE
        /\ IF Full(index[Limited])
             THEN /\ rewritten' = rewritten \union {Limited}
                  /\ spoiled' = spoiled \union {sp} \union InFlight(Limited)
             ELSE UNCHANGED <<rewritten, spoiled>>

\* mutant: a fiber is spawned if @fsync, not unless
FaultySpawnsIf(c, others, spawned) ==
  /\ awaiting' = others \union {c}
  /\ fsync' = TRUE
  /\ fibers' = IF spawned THEN fibers + 1 ELSE fibers

\* waiting4confirm, with the lock free
AwaitConfirm(c, others, spawned) ==
  /\ awaiting' = others \union {c}
  /\ fsync' = TRUE
  /\ fibers' = IF spawned THEN fibers ELSE fibers + 1

RoomInSegment == wsize < SegSize

\* publish_and_return once the write lock is there: append the message, or open
\* a new segment first, which syncs and confirms under the write lock
Write(c, tag) ==
  \/ /\ RoomInSegment
     /\ Deposit(c, tag, Next_sp)
     /\ toSync' = toSync \union Bound
     /\ IF holder = None
          THEN AwaitConfirm(c, awaiting, fsync) /\ pc' = [pc EXCEPT ![c] = None]
          ELSE pc' = [pc EXCEPT ![c] = "await"] /\ UNCHANGED <<awaiting, fsync, fibers>>
     /\ UNCHANGED <<wseg, segments, synced, gone, unacked, serving, confirmed,
                    blocked, holder, left, writer, crashes>>
  \/ /\ ~RoomInSegment
     /\ SyncFiles
     /\ writer' = c
     /\ pc' = [pc EXCEPT ![c] = "roll"]
     /\ UNCHANGED <<wseg, wsize, appended, segments, owner, gone, dirty, ready, unacked, serving,
                    confirmed, awaiting,
                    fsync, fibers, blocked, holder, left, promised, settled,
                    spoiled, crashes>>

Publish(c) ==
  /\ pc[c] = None /\ RoomFor(1)
  /\ total' = [total EXCEPT ![c] = @ + 1]
  /\ IF writer = None THEN Write(c, total[c] + 1)
     ELSE /\ pc' = [pc EXCEPT ![c] = "lock"]
          /\ UNCHANGED <<store, queues, confirmed, awaiting, fsync, fibers, blocked,
                         holder, left, toSync, writer, history>>

\* The write lock was busy
TakeWriteLock(c) ==
  /\ pc[c] = "lock" /\ writer = None
  /\ Write(c, total[c])
  /\ UNCHANGED total

-----------------------------------------------------------------------------
(* Confirming: fsync fibers, publishers that open a segment and deliver     *)
(* loops all call send_publish_confirms, one at a time.                     *)

\* mutant: confirms go to every channel of the vhost
FaultyConfirming(a) == holder' = a /\ left' = Channels

\* The lock is there: go through the channels that wait now
Confirming(a) == holder' = a /\ left' = awaiting

\* The fiber that waiting4confirm spawned
FsyncBegins ==
  /\ fibers > 0
  /\ fibers' = fibers - 1
  /\ SyncFiles
  /\ IF holder = None THEN Confirming(Fsync) /\ UNCHANGED blocked
     ELSE blocked' = blocked + 1 /\ UNCHANGED <<holder, left>>
  /\ UNCHANGED <<wseg, wsize, appended, segments, owner, gone, dirty, ready, unacked, serving,
                 pc, total, confirmed, awaiting, fsync, writer, promised, settled,
                 spoiled, crashes>>

FsyncTakesLock ==
  /\ blocked > 0 /\ holder = None
  /\ blocked' = blocked - 1
  /\ Confirming(Fsync)
  /\ UNCHANGED <<store, queues, pc, total, confirmed, awaiting, fsync, fibers, toSync,
                 writer, history>>

RollTakesLock(c) ==
  /\ pc[c] = "roll" /\ holder = None
  /\ pc' = [pc EXCEPT ![c] = "rolling"]
  /\ Confirming(c)
  /\ UNCHANGED <<store, queues, total, confirmed, awaiting, fsync, fibers, blocked,
                 toSync, writer, history>>

DeliveryTakesLock(q) ==
  /\ serving[q].pc = "lock" /\ holder = None
  /\ serving' = [serving EXCEPT ![q] = At("confirming", @.sp, @.no_ack)]
  /\ Confirming(q)
  /\ UNCHANGED <<store, ready, unacked, index, pc, total, confirmed, awaiting, fsync,
                 fibers, blocked, toSync, writer, history>>

\* A publisher waited for the lock to be added to @awaiting_confirm
AddedToAwaiting(c) ==
  /\ pc[c] = "await" /\ holder = None
  /\ AwaitConfirm(c, awaiting, fsync)
  /\ pc' = [pc EXCEPT ![c] = None]
  /\ UNCHANGED <<store, queues, total, confirmed, blocked, holder, left, toSync,
                 writer, history>>

\* confirm_ack(multiple: true): up to what the channel has counted by now
ConfirmedNow(c) == total[c]

confirm_ack(c) ==
  LET upto  == ConfirmedNow(c)
      named == {sp \in Positions : owner[sp].ch = c /\ owner[sp].tag <= upto}
  IN /\ c \in left
     /\ left' = left \ {c}
     /\ confirmed' = [confirmed EXCEPT ![c] = upto]
     /\ promised' = promised \union named
     /\ exposed' = exposed \union (named \intersect later)
     /\ UNCHANGED <<store, queues, pc, total, awaiting, fsync, fibers, blocked, holder,
                    toSync, writer, settled, later, rewritten, spoiled, crashes>>

\* All are told: the set is cleared and the lock released
FsyncDone ==
  /\ holder = Fsync /\ left = {}
  /\ holder' = None /\ awaiting' = {} /\ fsync' = FALSE
  /\ UNCHANGED <<store, queues, pc, total, confirmed, fibers, blocked, left, toSync,
                 writer, history>>

DeliveryConfirmed(q) ==
  /\ holder = q /\ left = {}
  /\ holder' = None /\ awaiting' = {}
  /\ serving' = [serving EXCEPT ![q] = At("write", @.sp, @.no_ack)]
  /\ UNCHANGED <<store, ready, unacked, index, pc, total, confirmed, fsync, fibers,
                 blocked, left, toSync, writer, history>>

\* open_new_segment goes on, and then the publish that needed it
Rolled(c) ==
  /\ holder = c /\ left = {}
  /\ holder' = None
  /\ wseg' = wseg + 1 /\ segments' = segments \union {wseg + 1}
  /\ Deposit(c, total[c], (wseg + 1) * SegSize)
  /\ toSync' = toSync \union Bound
  /\ AwaitConfirm(c, {}, FALSE)
  /\ pc' = [pc EXCEPT ![c] = None]
  /\ writer' = None
  /\ UNCHANGED <<synced, gone, unacked, serving, total, confirmed, blocked, left,
                 crashes>>

-----------------------------------------------------------------------------
(* Delivering and settling.                                                 *)

\* get, and Channel#deliver up to the write: pending confirms go first
Deliver(q) ==
  /\ q \in Consumed /\ serving[q].pc = None /\ ready[q] # <<>>
  /\ Readable(Head(ready[q]))
  /\ \E no_ack \in {FALSE} \union {b \in {TRUE} : "no_ack" \in Workload} :
       /\ unacked' = [unacked EXCEPT ![q] =
                        IF no_ack THEN @ ELSE @ \union {Head(ready[q])}]
       /\ LET now(p) == [serving EXCEPT ![q] = At(p, Head(ready[q]), no_ack)]
          IN \/ /\ holder = None /\ awaiting = {}
                /\ serving' = now("write") /\ UNCHANGED <<holder, left>>
             \/ /\ holder = None /\ awaiting # {}
                /\ serving' = now("confirming") /\ Confirming(q)
             \/ /\ holder # None
                /\ serving' = now("lock") /\ UNCHANGED <<holder, left>>
  /\ ready' = [ready EXCEPT ![q] = Tail(@)]
  /\ UNCHANGED <<store, index, pc, total, confirmed, awaiting, fsync, fibers, blocked,
                 toSync, writer, history>>

\* delete_message; others are the deliveries in flight that a compaction forgets
delete_message(q, sp, others) ==
  /\ index' = [index EXCEPT ![q] = Deleted(@, sp, InMemory(q) \ {sp})]
  /\ settled' = [settled EXCEPT ![q] = @ \union {sp}]
  /\ dirty' = TRUE
  /\ IF Full(index[q]) THEN /\ rewritten' = rewritten \union {q}
                             /\ spoiled' = spoiled \union others
     ELSE UNCHANGED <<rewritten, spoiled>>

Delivered(q) ==
  /\ serving[q].pc = "write"
  /\ serving' = [serving EXCEPT ![q] = NotServing]
  /\ \/ /\ serving[q].no_ack
        /\ delete_message(q, serving[q].sp, {})
     \/ /\ ~serving[q].no_ack
        /\ UNCHANGED <<index, settled, dirty, rewritten, spoiled>>
  /\ UNCHANGED <<wseg, wsize, appended, segments, owner, synced, gone, ready, unacked, confirm,
                 promised, later, exposed, crashes>>

\* The client has gone: back into the ready deque
DeliveryFails(q) ==
  /\ serving[q].pc = "write"
  /\ serving' = [serving EXCEPT ![q] = NotServing]
  /\ unacked' = [unacked EXCEPT ![q] = @ \ {serving[q].sp}]
  /\ ready' = [ready EXCEPT ![q] = Inserted(@, serving[q].sp)]
  /\ UNCHANGED <<store, index, confirm, history>>

\* A consumer settles a delivery it has
Ack(q) ==
  \E sp \in unacked[q] \ {serving[q].sp} :
    /\ "ack" \in Workload
    /\ unacked' = [unacked EXCEPT ![q] = @ \ {sp}]
    /\ delete_message(q, sp, InFlight(q))
    /\ UNCHANGED <<wseg, wsize, appended, segments, owner, synced, gone, ready, serving, confirm,
                   promised, later, exposed, crashes>>

Reject(q) ==
  \E sp \in unacked[q] \ {serving[q].sp} :
    /\ "reject" \in Workload
    /\ unacked' = [unacked EXCEPT ![q] = @ \ {sp}]
    /\ ready' = [ready EXCEPT ![q] = Inserted(@, sp)]
    /\ UNCHANGED <<store, index, serving, confirm, history>>

\* mutant: purge clears the deque and leaves the index files
FaultyPurge(q) ==
  /\ "purge" \in Workload
  /\ ready' = [ready EXCEPT ![q] = <<>>]
  /\ dirty' = TRUE
  /\ settled' = [settled EXCEPT ![q] = @ \union ToSet(ready[q])]
  /\ UNCHANGED <<wseg, wsize, appended, segments, owner, synced, gone, unacked, index, serving,
                 confirm, promised, later, exposed, rewritten, spoiled, crashes>>

\* New index files, and an empty deque; what is unacked is forgotten on disk
Purge(q) ==
  /\ "purge" \in Workload
  /\ index' = [index EXCEPT ![q] = NoIndex]
  /\ ready' = [ready EXCEPT ![q] = <<>>]
  /\ dirty' = TRUE
  /\ settled' = [settled EXCEPT ![q] = @ \union ToSet(ready[q])]
  /\ spoiled' = spoiled \union unacked[q] \union InFlight(q)
  /\ UNCHANGED <<wseg, wsize, appended, segments, owner, synced, gone, unacked, serving, confirm,
                 promised, later, exposed, rewritten, crashes>>

-----------------------------------------------------------------------------
(* Collecting. gc_segments walks the referenced positions in order; it      *)
(* raises, and ends the process, when they are not in order or when the     *)
(* segment of one is missing.                                               *)

\* mutant: collect_sps leaves out the unacked deques
FaultyReferenced == UNION {ToSet(ready[q]) : q \in Queues}

Referenced == UNION {InMemory(q) : q \in Queues}

\* Unreferenced bytes that go: all but those after the last reference, where
\* @wfile is still written
Unused(refs) ==
  LET top == MaxOf(refs)
  IN {sp \in Positions \ refs :
        /\ Segment(sp) \in {Segment(r) : r \in refs}
        /\ sp < top \/ Segment(top) # wseg}

\* Segments that go: those passed over between two references
Unneeded(refs) ==
  {s \in segments : s < Segment(MaxOf(refs)) /\ \A r \in refs : Segment(r) # s}

gc_segments ==
  /\ dirty
  /\ \A sp \in Referenced : Segment(sp) \in segments
  /\ \A q \in Queues : \A i \in 1..(Len(ready[q]) - 1) : ready[q][i] <= ready[q][i + 1]
  /\ \/ /\ Referenced = {}
        /\ segments' = {wseg} /\ UNCHANGED gone
     \/ /\ Referenced # {}
        /\ segments' = segments \ Unneeded(Referenced)
        /\ gone' = gone \union Unused(Referenced)
  /\ dirty' = FALSE
  /\ spoiled' = spoiled \union UNION {InFlight(q) \ Referenced : q \in Queues}
  /\ UNCHANGED <<wseg, wsize, appended, owner, synced, queues, confirm, promised, settled, later,
                 exposed, rewritten, crashes>>

-----------------------------------------------------------------------------
(* Crashes and restarts. Files that an mmap has written to survive the      *)
(* process; the machine keeps what an msync wrote back, and of the rest as  *)
(* much as the kernel happened to write.                                    *)

\* The broker starts with the index files it finds and connects to no one
Restart(found) ==
  /\ index' = found
  /\ ready' = [q \in Queues |-> Restored(found[q])]
  /\ unacked' = [q \in Queues |-> {}]
  /\ serving' = [q \in Queues |-> NotServing]
  /\ pc' = [c \in Channels |-> None]
  /\ total' = [c \in Channels |-> 0]
  /\ confirmed' = [c \in Channels |-> 0]
  /\ owner' = [sp \in Positions |-> [ch |-> None, tag |-> 0]]
  /\ awaiting' = {} /\ fsync' = FALSE /\ fibers' = 0 /\ blocked' = 0
  /\ holder' = None /\ left' = {} /\ toSync' = {} /\ writer' = None
  /\ dirty' = TRUE /\ appended' = FALSE
  /\ UNCHANGED <<wseg, segments>>

\* A crashed segment file is as long as its capacity: the next message rolls
ProcessCrash ==
  /\ MayCrash
  /\ crashes' = crashes + 1
  /\ Restart(index)
  /\ wsize' = SegSize
  /\ UNCHANGED <<synced, gone, promised, settled, later, exposed, rewritten, spoiled>>

\* Each file keeps only what was written back, or all. What no confirm named may
\* be lost; no msync ever covers an ack file, so what was settled may come back.
MachineCrash ==
  /\ PowerLoss /\ MayCrash
  /\ crashes' = crashes + 1
  /\ \E enqs, acks \in {{}, Queues}, lost \in {{}, Positions \ synced} :
       LET found == [q \in Queues |->
             LET enq == IF q \in enqs THEN index[q].enq
                        ELSE SubSeq(index[q].enq, 1, index[q].synced)
             IN [enq |-> enq, synced |-> Len(enq),
                 ack |-> IF q \in acks THEN index[q].ack ELSE <<>>]]
       IN /\ Restart(found)
          /\ gone' = gone \union lost
  /\ wsize' = SegSize
  /\ synced' = Positions
  /\ spoiled' = spoiled \union exposed
                 \union (((Positions \ synced) \union Unwritten(Queues)) \ promised)
                 \union (UNION {settled[q] : q \in Queues})
                 \union (UNION {Live(index[q]) : q \in rewritten})
  /\ later' = {} /\ exposed' = {} /\ rewritten' = {}
  /\ UNCHANGED <<promised, settled>>

\* close, with no operation under way: files are cut to their size
Shutdown ==
  /\ MayCrash
  /\ writer = None /\ holder = None /\ \A q \in Queues : serving[q] = NotServing
  /\ crashes' = crashes + 1
  /\ Restart(index)
  /\ UNCHANGED <<wsize, synced, gone, promised, settled, later, exposed, rewritten,
                 spoiled>>

-----------------------------------------------------------------------------
Publishing(c) ==
  \/ TakeWriteLock(c) \/ RollTakesLock(c) \/ Rolled(c) \/ AddedToAwaiting(c)
Confirm == FsyncBegins \/ FsyncTakesLock \/ FsyncDone
           \/ \E c \in Channels : confirm_ack(c)
Delivering(q) ==
  \/ DeliveryTakesLock(q) \/ DeliveryConfirmed(q) \/ Delivered(q) \/ DeliveryFails(q)

Next ==
  \/ \E c \in Channels : Publish(c) \/ Publishing(c)
  \/ Confirm
  \/ \E q \in Queues : Delivering(q) \/ Deliver(q) \/ Ack(q) \/ Reject(q) \/ Purge(q)
  \/ gc_segments
  \/ ProcessCrash \/ MachineCrash \/ Shutdown

Spec == Init /\ [][Next]_vars

\* Fibers that can run do, and a write to a socket ends
Fairness == /\ \A c \in Channels : WF_vars(Publishing(c))
            /\ WF_vars(Confirm)
            /\ \A q \in Queues : WF_vars(Delivering(q))

FairSpec == Spec /\ Fairness

-----------------------------------------------------------------------------
Agents == Channels \union Queues \union {Fsync, None}

\* Who blocks holds what the code holds there: only the publisher that opens a
\* segment holds the write lock, only those who tell the channels hold the lock of
\* @awaiting_confirm, and they tell no channel that does not wait.
Locks ==
  /\ \A c \in Channels : /\ pc[c] \in {"roll", "rolling"} <=> writer = c
                         /\ pc[c] = "rolling" <=> holder = c
  /\ \A q \in Queues : serving[q].pc = "confirming" <=> holder = q
  /\ left # {} => holder # None
  /\ left \subseteq awaiting

\* Every variable has its type, and the locks are held by those who block for them.
StoreTypeOK ==
  /\ wseg \in segments /\ segments \subseteq 1..wseg /\ wsize \in 0..SegSize
  /\ appended \in BOOLEAN
  /\ synced \subseteq Positions /\ gone \subseteq Positions
  /\ \A q \in Queues : /\ InMemory(q) \subseteq Positions
                       /\ ToSet(index[q].enq) \subseteq Positions
                       /\ index[q].synced \in 0..Len(index[q].enq)
                       /\ Len(index[q].ack) <= AckMax
  /\ \A c \in Channels : /\ confirmed[c] <= total[c]
                         /\ pc[c] \in {None, "lock", "await", "roll", "rolling"}
  /\ writer \in Channels \union {None} /\ holder \in Agents /\ awaiting \subseteq Channels
  /\ Locks

\* What the index files of a queue say is what the queue has in memory, at any
\* moment the process may die: not a message more, not one less.
IndexExact ==
  \A q \in Queues :
    Live(index[q]) \ spoiled = (InMemory(q) \union InFlight(q)) \ spoiled

\* A restart makes exactly the messages ready, in order, that a queue held when
\* the broker stopped, however it stopped.
RestartExact ==
  [][crashes' # crashes =>
       \A q \in Queues :
         SelectSeq(ready'[q], LAMBDA sp : sp \notin spoiled')
           = Sorted((InMemory(q) \union InFlight(q)) \ spoiled')]_vars

\* CHANGELOG.md:121, "Segment positions must be in order for GC to work":
\* requeues, failed deliveries, new segments and restarts keep every deque in
\* order.
InOrder ==
  \A q \in Queues : \A i \in 1..(Len(ready[q]) - 1) : ready[q][i] <= ready[q][i + 1]

\* No collection takes a segment or bytes that a queue still refers to, in
\* memory or in the files a restart would read.
ReferencedOnDisk ==
  \A q \in Queues : \A sp \in (InMemory(q) \union Live(index[q])) \ spoiled :
    Readable(sp)

\* A confirmed message is kept until it is settled, through crashes of the
\* process and of the machine.
ConfirmedSurvives ==
  \A sp \in promised \ spoiled : \A q \in Bound :
    sp \in settled[q] \/ (sp \in Live(index[q]) /\ Readable(sp))

\* Every message published is confirmed in the end, whoever confirms it and
\* whatever it waits for.
ConfirmsEventually == \A c \in Channels : <>[](confirmed[c] = total[c])
=============================================================================
