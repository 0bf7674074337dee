-------------------------- MODULE MCThreadSafeQueue --------------------------
(***************************************************************************)
(* Scripts for the model checker: what the lambdas of main() do, shortened, *)
(* and mixed so that one thread is both a producer and a consumer.          *)
(***************************************************************************)
EXTENDS ThreadSafeQueueRefinement

FairHistorySpec == HistorySpec /\ Fairness
ProgressSpec == HistorySpec /\ Progress

OneOfEach        == 0 :> <<Enq(1)>> @@ 1 :> <<Deq>>
ProducerConsumer == 0 :> <<Enq(1), Enq(2), Enq(3)>> @@ 1 :> <<Deq>>
BothRoles        == 0 :> <<Enq(1), Deq>> @@ 1 :> <<Enq(2), Deq>>

TwoThreadCalls == {ProducerConsumer, BothRoles}
OneCallEach    == {OneOfEach}

TwoConsumers == 0 :> <<Enq(1)>> @@ 1 :> <<Deq>> @@ 2 :> <<Deq>>
ThreeThreadCalls == {TwoConsumers}

AddrSymmetry == Permutations(Addr)
=============================================================================
