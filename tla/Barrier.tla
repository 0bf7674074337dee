------------------------------- MODULE Barrier -------------------------------
(***************************************************************************)
(* The class Barrier of src/barrier.cpp (the same text stands in           *)
(* src/parallel-partial-sum-with-barrier.cpp): Wait() and DoneWaiting(),   *)
(* one action per atomic access.  Clients compose CallWait and             *)
(* CallDoneWaiting with actions of their own.                              *)
(***************************************************************************)
EXTENDS Integers, FiniteSets

CONSTANTS Thread, Capacity   \* Capacity: the constructor argument

ASSUME CapacityAssumption == Capacity \in Nat \ {0}

VARIABLES
    waiting_count, spaces, generation,
    stage,           \* where each thread is inside this class
    my_generation,   \* local of Wait()
    loaded           \* the value of waiting_count on its way into spaces

counters == <<waiting_count, spaces, generation>>
barrierVars == <<waiting_count, spaces, generation, stage, my_generation, loaded>>

Stages == {"out", "read", "arrive", "spin", "withdraw", "arrive_done",
           "load", "store", "advance", "passed"}

BarrierTypeOK ==
    /\ counters \in Int \X Int \X Nat
    /\ stage \in [Thread -> Stages]
    /\ my_generation \in [Thread -> Nat]
    /\ loaded \in [Thread -> Int]

BarrierInit ==
    /\ waiting_count = Capacity
    /\ spaces = Capacity
    /\ generation = 0
    /\ stage = [t \in Thread |-> "out"]
    /\ my_generation = [t \in Thread |-> 0]
    /\ loaded = [t \in Thread |-> 0]

Step(t, from, to) ==
    /\ stage[t] = from
    /\ stage' = [stage EXCEPT ![t] = to]

CallWait(t) ==
    /\ Step(t, "out", "read")
    /\ UNCHANGED <<counters, my_generation, loaded>>

(* Mutant: Wait() keeps the generation of the first round.                  *)
ReadGenerationOnce(t) ==
    /\ Step(t, "read", "arrive")
    /\ UNCHANGED <<counters, my_generation, loaded>>

ReadGeneration(t) ==
    /\ Step(t, "read", "arrive")
    /\ my_generation' = [my_generation EXCEPT ![t] = generation]
    /\ UNCHANGED <<counters, loaded>>

Arrive(t) ==
    /\ Step(t, "arrive", IF spaces - 1 = 0 THEN "load" ELSE "spin")
    /\ spaces' = spaces - 1
    /\ UNCHANGED <<waiting_count, generation, my_generation, loaded>>

(* Mutant: Wait() does not look at the generation.                          *)
StopSpinningAtOnce(t) ==
    /\ Step(t, "spin", "passed")
    /\ UNCHANGED <<counters, my_generation, loaded>>

StopSpinning(t) ==
    /\ generation # my_generation[t]
    /\ Step(t, "spin", "passed")
    /\ UNCHANGED <<counters, my_generation, loaded>>

CallDoneWaiting(t) ==
    /\ Step(t, "out", "withdraw")
    /\ UNCHANGED <<counters, my_generation, loaded>>

(* Mutant: DoneWaiting() leaves waiting_count alone.                        *)
WithdrawUncounted(t) ==
    /\ Step(t, "withdraw", "arrive_done")
    /\ UNCHANGED <<counters, my_generation, loaded>>

Withdraw(t) ==
    /\ Step(t, "withdraw", "arrive_done")
    /\ waiting_count' = waiting_count - 1
    /\ UNCHANGED <<spaces, generation, my_generation, loaded>>

ArriveDone(t) ==
    /\ Step(t, "arrive_done", IF spaces - 1 = 0 THEN "load" ELSE "passed")
    /\ spaces' = spaces - 1
    /\ UNCHANGED <<waiting_count, generation, my_generation, loaded>>

(* spaces = waiting_count.load() reads one atomic and writes another.       *)
LoadWaitingCount(t) ==
    /\ Step(t, "load", "store")
    /\ loaded' = [loaded EXCEPT ![t] = waiting_count]
    /\ UNCHANGED <<counters, my_generation>>

ResetSpaces(t) ==
    /\ Step(t, "store", "advance")
    /\ spaces' = loaded[t]
    /\ UNCHANGED <<waiting_count, generation, my_generation, loaded>>

AdvanceGeneration(t) ==
    /\ Step(t, "advance", "passed")
    /\ generation' = generation + 1
    /\ UNCHANGED <<waiting_count, spaces, my_generation, loaded>>

Leave(t) ==
    /\ Step(t, "passed", "out")
    /\ UNCHANGED <<counters, my_generation, loaded>>

InsideStep(t) ==
    \/ ReadGeneration(t) \/ Arrive(t) \/ StopSpinning(t) \/ Withdraw(t) \/ ArriveDone(t)
    \/ LoadWaitingCount(t) \/ ResetSpaces(t) \/ AdvanceGeneration(t)
=============================================================================
