---------------------------- MODULE QueueContract ----------------------------
(***************************************************************************)
(* What a set of queues promises about the messages published to them: a   *)
(* message routed to a queue is ready, is handed out in publishing order   *)
(* to one receiver at a time, may come back and be handed out again, and   *)
(* once it is disposed of it never reappears.                              *)
(***************************************************************************)
EXTENDS Integers

CONSTANTS Queues, MaxSp

VARIABLE place  \* where message sp is, as seen from queue q

Sp == 1..MaxSp
Places == {"unpublished", "ready", "held", "gone"}

Init == place = [m \in Queues \X Sp |-> "unpublished"]

Move(M, to) == place' = [m \in Queues \X Sp |-> IF m \in M THEN to ELSE place[m]]

At(p) == {m \in Queues \X Sp : place[m] = p}

IsFirstReady(m) ==
  /\ m \in At("ready")
  /\ \A n \in At("ready") : n[1] = m[1] => m[2] <= n[2]

\* The next message is published; a queue it is not routed to never sees it.
Publish(sp, qs) ==
  /\ \A q \in Queues, x \in Sp : <<q, x>> \in At("unpublished") <=> x >= sp
  /\ place' = [m \in Queues \X Sp |->
                 IF m[2] # sp THEN place[m] ELSE IF m[1] \in qs THEN "ready" ELSE "gone"]

Deliver(m) == IsFirstReady(m) /\ Move({m}, "held")

\* A receiver that does not acknowledge.
DeliverForGood(m) == IsFirstReady(m) /\ Move({m}, "gone")

Return(M) == M \subseteq At("held") /\ Move(M, "ready")

Dispose(M) == M \subseteq At("held") /\ Move(M, "gone")

Purge(q) == Move({m \in At("ready") : m[1] = q}, "gone")

Next ==
  \/ \E sp \in Sp, qs \in SUBSET Queues : Publish(sp, qs)
  \/ \E m \in Queues \X Sp : Deliver(m) \/ DeliverForGood(m)
  \/ \E M \in SUBSET At("held") : Return(M) \/ Dispose(M)
  \/ \E q \in Queues : Purge(q)

Spec == Init /\ [][Next]_place

=============================================================================
