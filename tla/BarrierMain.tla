----------------------------- MODULE BarrierMain -----------------------------
(***************************************************************************)
(* main() of src/barrier.cpp: four threads call Wait() once each on a      *)
(* barrier for two, and all four are joined.                               *)
(***************************************************************************)
EXTENDS Barrier

VARIABLE joined     \* the threads whose lambda has returned

vars == <<barrierVars, joined>>

Init == BarrierInit /\ joined = {}

Start(t) == t \notin joined /\ CallWait(t) /\ UNCHANGED joined
Inside(t) == InsideStep(t) /\ UNCHANGED joined
Return(t) == Leave(t) /\ joined' = joined \cup {t}

ThreadStep(t) == Start(t) \/ Inside(t) \/ Return(t)

Done == joined = Thread

Next == (\E t \in Thread : ThreadStep(t)) \/ (Done /\ UNCHANGED vars)

Spec == Init /\ [][Next]_vars /\ \A t \in Thread : WF_vars(ThreadStep(t))

(* main() joins all of its threads (lines 54-57): with an even number of    *)
(* them on a barrier for two, each gets past it.                            *)
AllJoined == <>Done
=============================================================================
