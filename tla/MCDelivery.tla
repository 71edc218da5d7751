----------------------------- MODULE MCDelivery -----------------------------
(***************************************************************************)
(* Instances of Delivery: one queue or two, at most two channels and two   *)
(* consumers.                                                              *)
(***************************************************************************)
EXTENDS Delivery, TLC

CONSTANTS q1, q2, ch1, ch2, c1, c2

OneQueue == {q1}
TwoQueues == {q1, q2}

\* Two connections with a consumer each on one queue.
EachOnItsChannel == (c1 :> ch1) @@ (c2 :> ch2)
SameQueue == (c1 :> q1) @@ (c2 :> q1)

\* One channel with a consumer on each of two queues.
BothOnOneChannel == (c1 :> ch1) @@ (c2 :> ch1)
QueueEach == (c1 :> q1) @@ (c2 :> q2)

\* Swapping the two connections together with their consumers.
Swap == {[x \in {ch1, ch2, c1, c2} |->
            CASE x = ch1 -> ch2 [] x = ch2 -> ch1 [] x = c1 -> c2 [] x = c2 -> c1]}

Unlimited == {<<0, FALSE>>}
One == {<<1, FALSE>>}
Two == {<<2, FALSE>>}
OneGlobal == {<<1, TRUE>>}
OneOrTwo == {<<1, FALSE>>, <<2, FALSE>>}
Mixed == {<<0, FALSE>>, <<1, FALSE>>, <<1, TRUE>>}

=============================================================================
