--------------------------- MODULE MCRefCountQueue ---------------------------
(* Scripts for the model checker: main() with fewer threads.                *)
EXTENDS RefCountQueue, TLC

v1 == "v1"
v2 == "v2"
w1 == "w1"
MCValue == {v1, v2, w1}
MCNoValue == "none"

TwoProducers == 1 :> <<Push(v1), Push(v2)>> @@ 2 :> <<Push(w1)>> @@ 3 :> <<Pop, Pop>>
TwoConsumers == 1 :> <<Push(v1), Push(v2)>> @@ 2 :> <<Push(w1), Pop>> @@ 3 :> <<Pop, Pop>>
AddrSymmetry == Permutations(Addr)
LostCalls == {1 :> <<Push(v1), Push(v2)>> @@ 2 :> <<Push(w1)>> @@ 3 :> <<Pop>>}
MCCalls == {TwoProducers, TwoConsumers}
=============================================================================
