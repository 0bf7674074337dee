--------------------------- MODULE MCOlegtsQueue ---------------------------
(* Scripts for the model checker: main() with fewer threads and calls.  Two *)
(* producers that can link for each other, and a consumer that can overtake *)
(* one of them; then a producer and two consumers that race.                *)
EXTENDS OlegtsQueue, TLC

v1 == "v1"
v2 == "v2"
v3 == "v3"
MCValue == {v1, v2, v3}
MCNoValue == "none"

TwoProducers == 1 :> <<Push(v1), Push(v3)>> @@ 2 :> <<Push(v2)>> @@ 3 :> <<Pop>>
TwoConsumers == 1 :> <<Push(v1)>> @@ 2 :> <<Push(v2), Pop>> @@ 3 :> <<Pop>>
MCCalls == {TwoProducers, TwoConsumers}
AddrSymmetry == Permutations(Addr)
=============================================================================
