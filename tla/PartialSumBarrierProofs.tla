----------------------- MODULE PartialSumBarrierProofs -----------------------
(***************************************************************************)
(* The barrier keeps any number of threads in step, although they leave it *)
(* at different rounds.  The argument: as long as nobody closes the round, *)
(* spaces counts the threads that have yet to arrive in it; whoever takes  *)
(* it to 0 is alone, so that nothing moves until it has advanced the       *)
(* generation; and from then on all threads that stay have yet to arrive.  *)
(* Since they are in step, what a thread reads of the elements below it is *)
(* what their threads held when the round began, so that the sums double.  *)
(***************************************************************************)
EXTENDS PartialSumBarrier, FiniteSetTheorems, WellFoundedInduction, TLAPS

Closing(i) == stage[i] \in {"load", "store", "advance"}
Arrived(i) == stage[i] = "spin" /\ my_generation[i] = generation
Gone(i) == pc[i] = "returned" \/ (pc[i] = "done_waiting" /\ stage[i] = "passed")

(* Who has yet to arrive in this round, and who will take part in the next. *)
Pending == {i \in Thread : ~Arrived(i) /\ ~Gone(i)}
Staying == {i \in Thread : pc[i] \in {"done_waiting", "returned"} => stage[i] = "withdraw"}

(* pc and stage agree.                                                      *)
StageInv ==
    \A i \in Thread :
        /\ pc[i] \in {"loop", "add", "copy", "returned"} => stage[i] = "out"
        /\ pc[i] = "wait" =>
               stage[i] \in {"read", "arrive", "spin", "load", "store", "advance", "passed"}
        /\ pc[i] = "done_waiting" =>
               stage[i] \in {"withdraw", "arrive_done", "load", "store", "advance", "passed"}

(* Who closes the round is the only one who can still do something in it.   *)
ClosingInv ==
    \A c \in Thread :
        /\ Closing(c) => \A i \in Thread \ {c} : Arrived(i) \/ Gone(i)
        /\ stage[c] \in {"load", "store"} => spaces = 0
        /\ stage[c] = "store" => loaded[c] = waiting_count
        /\ stage[c] = "advance" => spaces = waiting_count

CountInv ==
    /\ waiting_count = Cardinality(Staying)
    /\ (\A i \in Thread : ~Closing(i)) => spaces = Cardinality(Pending)

(* The round a thread is in is that of the barrier, or the one before if it *)
(* has not yet seen that this one has begun.                                *)
RoundInv ==
    \A i \in Thread :
        /\ step[i] <= generation
        /\ stage[i] = "passed" /\ pc[i] = "wait" => generation = step[i] + 1
        /\ stage[i] = "spin" => my_generation[i] = step[i] /\ generation <= step[i] + 1
        /\ stage[i] = "arrive" => my_generation[i] = generation
        /\ stage[i] \notin {"passed", "spin"} /\ pc[i] # "returned" => step[i] = generation

(* The thread's strides stay in the range, and update_source says in which  *)
(* array its latest sum is.                                                 *)
LoopInv ==
    \A i \in Thread :
        /\ pc[i] = "add" => stride[i] <= i
        /\ pc[i] \in {"loop", "add", "copy"} => (update_source[i] <=> ~Even(i))
        /\ pc[i] = "wait" => (update_source[i] <=> Even(i))

Inv == TypeOK /\ StageInv /\ ClosingInv /\ CountInv /\ RoundInv /\ LoopInv

-----------------------------------------------------------------------------
(* The constants as the proofs use them.                                    *)
LEMMA ThreadInterval == Capacity \in Nat \ {0} /\ Thread = 0 .. Capacity - 1
  BY CapacityAssumption, ThreadAssumption DEF data_length

LEMMA ThreadFinite == IsFiniteSet(Thread) /\ Cardinality(Thread) = Capacity /\ Thread \subseteq Nat
<1>1. 0 \in Int /\ Capacity - 1 \in Int /\ Thread = 0 .. Capacity - 1
  BY ThreadInterval
<1>2. IsFiniteSet(Thread)
  BY <1>1, FS_Interval
<1>3. Thread \subseteq Nat
  BY <1>1
<1> QED
  BY <1>2, <1>3, ThreadAssumption DEF data_length

LEMMA StrideInside ==
  ASSUME NEW i \in Thread, NEW distance \in Nat \ {0}, distance <= i
  PROVE  i - distance \in Thread
  BY ThreadInterval

(* Sets of threads are finite, and change by one thread at a time.          *)
LEMMA Counted ==
  ASSUME NEW S, S \subseteq Thread
  PROVE  /\ IsFiniteSet(S) /\ Cardinality(S) \in Nat
         /\ \A t \in S : Cardinality(S \ {t}) = Cardinality(S) - 1
         /\ \A t \in S : Cardinality(S) = 1 => S = {t}
<1>1. IsFiniteSet(S) /\ Cardinality(S) \in Nat
  BY ThreadFinite, FS_Subset, FS_CardinalityType
<1>2. ASSUME NEW t \in S PROVE Cardinality(S \ {t}) = Cardinality(S) - 1
  BY <1>1, FS_RemoveElement
<1>3. ASSUME NEW t \in S, Cardinality(S) = 1 PROVE S = {t}
  <2>1. IsFiniteSet(S \ {t}) /\ Cardinality(S \ {t}) = 0
    BY <1>1, <1>2, <1>3, FS_RemoveElement
  <2>2. S \ {t} = {}
    BY <2>1, FS_EmptySet
  <2> QED
    BY <2>2
<1> QED
  BY <1>1, <1>2, <1>3

LEMMA InitInv == Init => Inv
<1> SUFFICES ASSUME Init PROVE Inv
  OBVIOUS
<1> USE ThreadFinite, CapacityAssumption, InputAssumption DEF Init, BarrierInit
<1>1. TypeOK
  BY DEF TypeOK, BarrierTypeOK, counters, Stages
<1>2. StageInv
  BY DEF StageInv
<1>3. ClosingInv
  BY DEF ClosingInv, Closing
<1>4. CountInv
  <2>1. Staying = Thread /\ Pending = Thread
    BY DEF Staying, Pending, Arrived, Gone
  <2> QED
    BY <2>1 DEF CountInv
<1>5. RoundInv
  BY DEF RoundInv, Gone
<1>6. LoopInv
  BY DEF LoopInv, Even
<1> QED
  BY <1>1, <1>2, <1>3, <1>4, <1>5, <1>6 DEF Inv
-----------------------------------------------------------------------------
(* The actions, one by one.                                                 *)
LEMMA Steps ==
  ASSUME NEW t \in Thread, ThreadStep(t)
  PROVE  \/ TestLoop(t) \/ Add(t) \/ NextRound(t) \/ CopyResult(t) \/ Return(t)
         \/ /\ \/ ReadGeneration(t) \/ Arrive(t) \/ StopSpinning(t) \/ Withdraw(t) \/ ArriveDone(t)
               \/ LoadWaitingCount(t) \/ ResetSpaces(t) \/ AdvanceGeneration(t)
            /\ UNCHANGED <<sumVars, pc>>
  BY DEF ThreadStep, BarrierStep, InsideStep

(* No array is read beyond its ends, because a stride never exceeds i.      *)
LEMMA TypeStep ==
  ASSUME Inv, NEW t \in Thread, ThreadStep(t)
  PROVE  TypeOK'
<1> USE ThreadFinite
<1> USE DEF Inv, TypeOK, BarrierTypeOK, Stages, counters, sumVars, barrierVars, Step, Goto,
    LoopInv, Even
<1>1. ASSUME TestLoop(t) PROVE TypeOK'
  BY <1>1 DEF TestLoop
<1>2. ASSUME Add(t) PROVE TypeOK'
  <2>1. stride[t] \in Nat \ {0} /\ stride[t] <= t
    BY <1>2 DEF Add
  <2>2. t - stride[t] \in Thread
    BY <2>1, StrideInside
  <2>3. /\ element[t] + element[t - stride[t]] \in Int
        /\ buffer[t] + buffer[t - stride[t]] \in Int
    BY <2>2
  <2>4. element' \in [Thread -> Int] /\ buffer' \in [Thread -> Int]
    BY <1>2, <2>3 DEF Add
  <2> QED
    BY <1>2, <2>4 DEF Add, CallWait
<1>3. ASSUME NextRound(t) PROVE TypeOK'
  BY <1>3 DEF NextRound, Leave
<1>4. ASSUME CopyResult(t) PROVE TypeOK'
  BY <1>4 DEF CopyResult, CallDoneWaiting
<1>5. ASSUME Return(t) PROVE TypeOK'
  BY <1>5 DEF Return, Leave
<1>6. ASSUME ReadGeneration(t), UNCHANGED <<sumVars, pc>> PROVE TypeOK'
  BY <1>6 DEF ReadGeneration
<1>7. ASSUME Arrive(t), UNCHANGED <<sumVars, pc>> PROVE TypeOK'
  BY <1>7 DEF Arrive
<1>8. ASSUME StopSpinning(t), UNCHANGED <<sumVars, pc>> PROVE TypeOK'
  BY <1>8 DEF StopSpinning
<1>9. ASSUME Withdraw(t), UNCHANGED <<sumVars, pc>> PROVE TypeOK'
  BY <1>9 DEF Withdraw
<1>10. ASSUME ArriveDone(t), UNCHANGED <<sumVars, pc>> PROVE TypeOK'
  BY <1>10 DEF ArriveDone
<1>11. ASSUME LoadWaitingCount(t), UNCHANGED <<sumVars, pc>> PROVE TypeOK'
  BY <1>11 DEF LoadWaitingCount
<1>12. ASSUME ResetSpaces(t), UNCHANGED <<sumVars, pc>> PROVE TypeOK'
  BY <1>12 DEF ResetSpaces
<1>13. ASSUME AdvanceGeneration(t), UNCHANGED <<sumVars, pc>> PROVE TypeOK'
  BY <1>13 DEF AdvanceGeneration
<1> QED
  BY <1>1, <1>2, <1>3, <1>4, <1>5, <1>6, <1>7, <1>8, <1>9, <1>10, <1>11, <1>12, <1>13, Steps

(* Every call leaves pc and stage in agreement.                             *)
LEMMA StageStep ==
  ASSUME Inv, NEW t \in Thread, ThreadStep(t)
  PROVE  StageInv'
<1> USE ThreadFinite
<1> USE DEF Inv, TypeOK, BarrierTypeOK, Stages, counters, sumVars, barrierVars, Step, Goto,
    StageInv
<1>1. ASSUME TestLoop(t) PROVE StageInv'
  BY <1>1 DEF TestLoop
<1>2. ASSUME Add(t) PROVE StageInv'
  BY <1>2 DEF Add, CallWait
<1>3. ASSUME NextRound(t) PROVE StageInv'
  BY <1>3 DEF NextRound, Leave
<1>4. ASSUME CopyResult(t) PROVE StageInv'
  BY <1>4 DEF CopyResult, CallDoneWaiting
<1>5. ASSUME Return(t) PROVE StageInv'
  BY <1>5 DEF Return, Leave
<1>6. ASSUME ReadGeneration(t), UNCHANGED <<sumVars, pc>> PROVE StageInv'
  BY <1>6 DEF ReadGeneration
<1>7. ASSUME Arrive(t), UNCHANGED <<sumVars, pc>> PROVE StageInv'
  BY <1>7 DEF Arrive
<1>8. ASSUME StopSpinning(t), UNCHANGED <<sumVars, pc>> PROVE StageInv'
  BY <1>8 DEF StopSpinning
<1>9. ASSUME Withdraw(t), UNCHANGED <<sumVars, pc>> PROVE StageInv'
  BY <1>9 DEF Withdraw
<1>10. ASSUME ArriveDone(t), UNCHANGED <<sumVars, pc>> PROVE StageInv'
  BY <1>10 DEF ArriveDone
<1>11. ASSUME LoadWaitingCount(t), UNCHANGED <<sumVars, pc>> PROVE StageInv'
  BY <1>11 DEF LoadWaitingCount
<1>12. ASSUME ResetSpaces(t), UNCHANGED <<sumVars, pc>> PROVE StageInv'
  BY <1>12 DEF ResetSpaces
<1>13. ASSUME AdvanceGeneration(t), UNCHANGED <<sumVars, pc>> PROVE StageInv'
  BY <1>13 DEF AdvanceGeneration
<1> QED
  BY <1>1, <1>2, <1>3, <1>4, <1>5, <1>6, <1>7, <1>8, <1>9, <1>10, <1>11, <1>12, <1>13, Steps

(* Nobody falls behind or runs ahead.                                       *)
LEMMA RoundStep ==
  ASSUME Inv, NEW t \in Thread, ThreadStep(t)
  PROVE  RoundInv'
<1> USE ThreadFinite
<1> USE DEF Inv, TypeOK, BarrierTypeOK, Stages, counters, sumVars, barrierVars, Step, Goto,
    RoundInv, StageInv, ClosingInv, Closing, Arrived, Gone
<1>1. ASSUME TestLoop(t) PROVE RoundInv'
  BY <1>1 DEF TestLoop
<1>2. ASSUME Add(t) PROVE RoundInv'
  BY <1>2 DEF Add, CallWait
<1>3. ASSUME NextRound(t) PROVE RoundInv'
  BY <1>3 DEF NextRound, Leave
<1>4. ASSUME CopyResult(t) PROVE RoundInv'
  BY <1>4 DEF CopyResult, CallDoneWaiting
<1>5. ASSUME Return(t) PROVE RoundInv'
  BY <1>5 DEF Return, Leave
<1>6. ASSUME ReadGeneration(t), UNCHANGED <<sumVars, pc>> PROVE RoundInv'
  BY <1>6 DEF ReadGeneration
<1>7. ASSUME Arrive(t), UNCHANGED <<sumVars, pc>> PROVE RoundInv'
  BY <1>7 DEF Arrive
<1>8. ASSUME StopSpinning(t), UNCHANGED <<sumVars, pc>> PROVE RoundInv'
  BY <1>8 DEF StopSpinning
<1>9. ASSUME Withdraw(t), UNCHANGED <<sumVars, pc>> PROVE RoundInv'
  BY <1>9 DEF Withdraw
<1>10. ASSUME ArriveDone(t), UNCHANGED <<sumVars, pc>> PROVE RoundInv'
  BY <1>10 DEF ArriveDone
<1>11. ASSUME LoadWaitingCount(t), UNCHANGED <<sumVars, pc>> PROVE RoundInv'
  BY <1>11 DEF LoadWaitingCount
<1>12. ASSUME ResetSpaces(t), UNCHANGED <<sumVars, pc>> PROVE RoundInv'
  BY <1>12 DEF ResetSpaces
<1>13. ASSUME AdvanceGeneration(t), UNCHANGED <<sumVars, pc>> PROVE RoundInv'
  BY <1>13 DEF AdvanceGeneration
<1> QED
  BY <1>1, <1>2, <1>3, <1>4, <1>5, <1>6, <1>7, <1>8, <1>9, <1>10, <1>11, <1>12, <1>13, Steps

(* The arrays are used in turn.                                             *)
LEMMA LoopStep ==
  ASSUME Inv, NEW t \in Thread, ThreadStep(t)
  PROVE  LoopInv'
<1> USE ThreadFinite
<1> USE DEF Inv, TypeOK, BarrierTypeOK, Stages, counters, sumVars, barrierVars, Step, Goto,
    LoopInv, StageInv, Even
<1>1. ASSUME TestLoop(t) PROVE LoopInv'
  BY <1>1 DEF TestLoop
<1>2. ASSUME Add(t) PROVE LoopInv'
  BY <1>2 DEF Add, CallWait
<1>3. ASSUME NextRound(t) PROVE LoopInv'
  BY <1>3 DEF NextRound, Leave
<1>4. ASSUME CopyResult(t) PROVE LoopInv'
  BY <1>4 DEF CopyResult, CallDoneWaiting
<1>5. ASSUME Return(t) PROVE LoopInv'
  BY <1>5 DEF Return, Leave
<1>6. ASSUME ReadGeneration(t), UNCHANGED <<sumVars, pc>> PROVE LoopInv'
  BY <1>6 DEF ReadGeneration
<1>7. ASSUME Arrive(t), UNCHANGED <<sumVars, pc>> PROVE LoopInv'
  BY <1>7 DEF Arrive
<1>8. ASSUME StopSpinning(t), UNCHANGED <<sumVars, pc>> PROVE LoopInv'
  BY <1>8 DEF StopSpinning
<1>9. ASSUME Withdraw(t), UNCHANGED <<sumVars, pc>> PROVE LoopInv'
  BY <1>9 DEF Withdraw
<1>10. ASSUME ArriveDone(t), UNCHANGED <<sumVars, pc>> PROVE LoopInv'
  BY <1>10 DEF ArriveDone
<1>11. ASSUME LoadWaitingCount(t), UNCHANGED <<sumVars, pc>> PROVE LoopInv'
  BY <1>11 DEF LoadWaitingCount
<1>12. ASSUME ResetSpaces(t), UNCHANGED <<sumVars, pc>> PROVE LoopInv'
  BY <1>12 DEF ResetSpaces
<1>13. ASSUME AdvanceGeneration(t), UNCHANGED <<sumVars, pc>> PROVE LoopInv'
  BY <1>13 DEF AdvanceGeneration
<1> QED
  BY <1>1, <1>2, <1>3, <1>4, <1>5, <1>6, <1>7, <1>8, <1>9, <1>10, <1>11, <1>12, <1>13, Steps

-----------------------------------------------------------------------------
(* While a thread closes the round, the others can only return.             *)
LEMMA OnlyReturns ==
  ASSUME Inv, NEW c \in Thread, Closing(c), NEW t \in Thread \ {c}, ThreadStep(t)
  PROVE  Return(t)
<1>1. Arrived(t) \/ Gone(t)
  BY DEF Inv, ClosingInv
<1> QED
  BY <1>1, Steps DEF Inv, TypeOK, BarrierTypeOK, StageInv, Arrived, Gone, Step, Goto, TestLoop, Add,
     NextRound, CopyResult, CallWait, CallDoneWaiting, Leave, ReadGeneration, Arrive, StopSpinning,
     Withdraw, ArriveDone, LoadWaitingCount, ResetSpaces, AdvanceGeneration

(* Whoever arrives does so while nobody closes the round, and is one of     *)
(* those that spaces counts; if it is the last, the others have arrived.    *)
LEMMA Arrival ==
  ASSUME Inv, NEW t \in Thread, stage[t] \in {"arrive", "arrive_done"}
  PROVE  /\ \A c \in Thread : ~Closing(c)
         /\ t \in Pending
         /\ spaces = Cardinality(Pending)
         /\ Cardinality(Pending \ {t}) = spaces - 1
         /\ spaces - 1 = 0 => \A i \in Thread \ {t} : Arrived(i) \/ Gone(i)
<1>1. ~Arrived(t) /\ ~Gone(t) /\ ~Closing(t)
  BY DEF Inv, StageInv, Arrived, Gone, Closing
<1>2. \A c \in Thread : ~Closing(c)
  BY <1>1 DEF Inv, ClosingInv
<1>3. t \in Pending /\ spaces = Cardinality(Pending)
  BY <1>1, <1>2 DEF Inv, CountInv, Pending
<1>4. Pending \subseteq Thread
  BY DEF Pending
<1>5. Cardinality(Pending \ {t}) = spaces - 1
  BY <1>3, <1>4, Counted
<1>6. ASSUME spaces - 1 = 0 PROVE \A i \in Thread \ {t} : Arrived(i) \/ Gone(i)
  <2>1. Cardinality(Pending) = 1
    BY <1>3, <1>4, <1>6, Counted
  <2>2. Pending = {t}
    BY <1>3, <1>4, <2>1, Counted
  <2> QED
    BY <2>2 DEF Pending
<1> QED
  BY <1>2, <1>3, <1>5, <1>6

(* The round is closed by one thread alone.                                 *)
LEMMA ClosingStep ==
  ASSUME Inv, NEW t \in Thread, ThreadStep(t)
  PROVE  ClosingInv'
<1> USE DEF TypeOK, BarrierTypeOK, counters, barrierVars, Step, Goto
<1>1. CASE \E c \in Thread \ {t} : Closing(c)
  <2>1. Return(t)
    BY <1>1, OnlyReturns
  <2> QED
    BY <2>1 DEF Inv, ClosingInv, StageInv, Closing, Arrived, Gone, Return, Leave
<1>2. CASE \A c \in Thread \ {t} : ~Closing(c)
  <2> USE <1>2 DEF Inv, ClosingInv, StageInv, Closing, Arrived, Gone
  <2>1. ASSUME TestLoop(t) PROVE ClosingInv'
    BY <2>1 DEF TestLoop
  <2>2. ASSUME Add(t) PROVE ClosingInv'
    BY <2>2 DEF Add, CallWait
  <2>3. ASSUME NextRound(t) PROVE ClosingInv'
    BY <2>3 DEF NextRound, Leave
  <2>4. ASSUME CopyResult(t) PROVE ClosingInv'
    BY <2>4 DEF CopyResult, CallDoneWaiting
  <2>5. ASSUME Return(t) PROVE ClosingInv'
    BY <2>5 DEF Return, Leave
  <2>6. ASSUME ReadGeneration(t), UNCHANGED <<sumVars, pc>> PROVE ClosingInv'
    BY <2>6 DEF ReadGeneration
  <2>7. ASSUME Arrive(t), UNCHANGED <<sumVars, pc>> PROVE ClosingInv'
    <3>1. spaces - 1 = 0 => \A i \in Thread \ {t} : Arrived(i) \/ Gone(i)
      BY <2>7, Arrival DEF Arrive
    <3> QED
      BY <2>7, <3>1 DEF Arrive
  <2>8. ASSUME StopSpinning(t), UNCHANGED <<sumVars, pc>> PROVE ClosingInv'
    BY <2>8 DEF StopSpinning
  <2>9. ASSUME Withdraw(t), UNCHANGED <<sumVars, pc>> PROVE ClosingInv'
    BY <2>9 DEF Withdraw
  <2>10. ASSUME ArriveDone(t), UNCHANGED <<sumVars, pc>> PROVE ClosingInv'
    <3>1. spaces - 1 = 0 => \A i \in Thread \ {t} : Arrived(i) \/ Gone(i)
      BY <2>10, Arrival DEF ArriveDone
    <3> QED
      BY <2>10, <3>1 DEF ArriveDone
  <2>11. ASSUME LoadWaitingCount(t), UNCHANGED <<sumVars, pc>> PROVE ClosingInv'
    BY <2>11 DEF LoadWaitingCount
  <2>12. ASSUME ResetSpaces(t), UNCHANGED <<sumVars, pc>> PROVE ClosingInv'
    BY <2>12 DEF ResetSpaces
  <2>13. ASSUME AdvanceGeneration(t), UNCHANGED <<sumVars, pc>> PROVE ClosingInv'
    BY <2>13 DEF AdvanceGeneration
  <2> QED
    BY <2>1, <2>2, <2>3, <2>4, <2>5, <2>6, <2>7, <2>8, <2>9, <2>10, <2>11, <2>12, <2>13, Steps
<1> QED
  BY <1>1, <1>2

(* Those that stay change when one withdraws, those that have yet to arrive *)
(* when one arrives; a new round makes them the same.                       *)
LEMMA CountStep ==
  ASSUME Inv, NEW t \in Thread, ThreadStep(t)
  PROVE  CountInv'
<1> USE DEF TypeOK, BarrierTypeOK, counters, barrierVars, Step, Goto,
    Closing, Arrived, Gone, Pending, Staying
<1>1. Staying \subseteq Thread /\ Pending \subseteq Thread
  OBVIOUS
<1>2. ASSUME Withdraw(t), UNCHANGED <<sumVars, pc>> PROVE CountInv'
  <2>1. t \in Staying /\ Staying' = Staying \ {t} /\ Pending' = Pending
    BY <1>2 DEF Inv, StageInv, Withdraw
  <2>2. Cardinality(Staying') = Cardinality(Staying) - 1
    BY <2>1, <1>1, Counted
  <2>3. (\A i \in Thread : ~Closing(i))' => \A i \in Thread : ~Closing(i)
    BY <1>2 DEF Inv, Withdraw
  <2> QED
    BY <1>2, <2>1, <2>2, <2>3 DEF Inv, CountInv, Withdraw
<1>3. ASSUME Arrive(t) \/ ArriveDone(t), UNCHANGED <<sumVars, pc>> PROVE CountInv'
  <2>1. stage[t] \in {"arrive", "arrive_done"}
    BY <1>3 DEF Arrive, ArriveDone
  <2>2. Staying' = Staying /\ waiting_count' = waiting_count /\ spaces' = spaces - 1
    BY <1>3 DEF Inv, StageInv, Arrive, ArriveDone
  <2>3. CASE spaces - 1 = 0
    <3>1. Closing(t)'
      BY <1>3, <2>3 DEF Inv, Arrive, ArriveDone
    <3> QED
      BY <2>2, <3>1 DEF Inv, CountInv
  <2>4. CASE spaces - 1 # 0
    <3>1. Pending' = Pending \ {t}
      BY <1>3, <2>4 DEF Inv, StageInv, RoundInv, Arrive, ArriveDone
    <3>2. Cardinality(Pending') = spaces'
      BY <2>1, <2>2, <3>1, Arrival
    <3> QED
      BY <2>2, <3>2 DEF Inv, CountInv
  <2> QED
    BY <2>3, <2>4
<1>4. ASSUME AdvanceGeneration(t), UNCHANGED <<sumVars, pc>> PROVE CountInv'
  <2>1. Staying' = Staying
    BY <1>4 DEF Inv, StageInv, AdvanceGeneration
  <2>2. \A i \in Thread \ {t} : Arrived(i) \/ Gone(i)
    BY <1>4 DEF Inv, ClosingInv, AdvanceGeneration
  <2>3. ASSUME NEW i \in Thread PROVE (i \in Pending)' <=> i \in Staying
    <3>1. CASE i = t
      BY <1>4, <3>1 DEF Inv, StageInv, AdvanceGeneration
    <3>2. CASE i # t
      BY <1>4, <2>2, <3>2 DEF Inv, StageInv, AdvanceGeneration
    <3> QED
      BY <3>1, <3>2
  <2>4. Pending' = Staying
    BY <2>3
  <2>5. spaces' = waiting_count /\ waiting_count' = waiting_count
    BY <1>4 DEF Inv, ClosingInv, AdvanceGeneration
  <2> QED
    BY <2>1, <2>4, <2>5 DEF Inv, CountInv
<1>5. ASSUME LoadWaitingCount(t) \/ ResetSpaces(t), UNCHANGED <<sumVars, pc>> PROVE CountInv'
  <2>1. Staying' = Staying /\ waiting_count' = waiting_count /\ Closing(t)'
    BY <1>5 DEF Inv, StageInv, LoadWaitingCount, ResetSpaces
  <2> QED
    BY <2>1 DEF Inv, CountInv
<1>6. ASSUME \/ TestLoop(t) \/ Add(t) \/ NextRound(t) \/ CopyResult(t) \/ Return(t)
             \/ (ReadGeneration(t) \/ StopSpinning(t)) /\ UNCHANGED <<sumVars, pc>>
      PROVE  CountInv'
  <2>1. waiting_count' = waiting_count /\ spaces' = spaces
    BY <1>6 DEF TestLoop, Add, NextRound, CopyResult, Return, CallWait, CallDoneWaiting, Leave,
       ReadGeneration, StopSpinning
  <2>2. /\ \A i \in Thread : (i \in Staying)' <=> i \in Staying
        /\ \A i \in Thread : (i \in Pending)' <=> i \in Pending
        /\ \A i \in Thread : Closing(i)' <=> Closing(i)
    <3> USE DEF Inv, StageInv
    <3>1. CASE TestLoop(t)
      BY <3>1 DEF TestLoop
    <3>2. CASE Add(t)
      BY <3>2 DEF Add, CallWait
    <3>3. CASE NextRound(t)
      BY <3>3 DEF NextRound, Leave
    <3>4. CASE CopyResult(t)
      BY <3>4 DEF CopyResult, CallDoneWaiting
    <3>5. CASE Return(t)
      BY <3>5 DEF Return, Leave
    <3>6. CASE ReadGeneration(t) /\ UNCHANGED <<sumVars, pc>>
      BY <3>6 DEF ReadGeneration
    <3>7. CASE StopSpinning(t) /\ UNCHANGED <<sumVars, pc>>
      BY <3>7 DEF StopSpinning
    <3> QED
      BY <1>6, <3>1, <3>2, <3>3, <3>4, <3>5, <3>6, <3>7
  <2>3. Staying' = Staying /\ Pending' = Pending
    BY <2>2
  <2> QED
    BY <2>1, <2>2, <2>3 DEF Inv, CountInv
<1> QED
  BY <1>2, <1>3, <1>4, <1>5, <1>6, Steps

LEMMA NextInv == Inv /\ [Next]_vars => Inv'
<1> SUFFICES ASSUME Inv, [Next]_vars PROVE Inv'
  OBVIOUS
<1>1. CASE \E i \in Thread : ThreadStep(i)
  BY <1>1, TypeStep, StageStep, ClosingStep, CountStep, RoundStep, LoopStep DEF Inv
<1>2. CASE UNCHANGED vars
  <2> USE <1>2 DEF Inv, vars, barrierVars, sumVars
  <2>1. TypeOK'
    BY DEF TypeOK, BarrierTypeOK, counters
  <2>2. StageInv' /\ ClosingInv'
    BY DEF StageInv, ClosingInv, Closing, Arrived, Gone
  <2>3. CountInv'
    <3>1. Staying' = Staying /\ Pending' = Pending
      BY DEF Staying, Pending, Arrived, Gone
    <3> QED
      BY <3>1 DEF CountInv, Closing
  <2>4. RoundInv' /\ LoopInv'
    BY DEF RoundInv, LoopInv, Even
  <2> QED
    BY <2>1, <2>2, <2>3, <2>4
<1> QED
  BY <1>1, <1>2 DEF Next

-----------------------------------------------------------------------------
(* spaces counts threads that stay, and threads on their way out.           *)
LEMMA SpacesBounded ==
  ASSUME Inv
  PROVE  spaces \in 0 .. waiting_count + Cardinality({i \in Thread : stage[i] = "arrive_done"})
<1> DEFINE Leaving == {i \in Thread : stage[i] = "arrive_done"}
<1>1. Staying \subseteq Thread /\ Pending \subseteq Thread /\ Leaving \subseteq Thread
  BY DEF Staying, Pending
<1>2. /\ IsFiniteSet(Staying) /\ Cardinality(Staying) \in Nat
      /\ IsFiniteSet(Pending) /\ Cardinality(Pending) \in Nat
      /\ IsFiniteSet(Leaving) /\ Cardinality(Leaving) \in Nat
  BY <1>1, Counted
<1>3. waiting_count = Cardinality(Staying)
  BY DEF Inv, CountInv
<1> HIDE DEF Leaving
<1>4. CASE \E c \in Thread : Closing(c)
  <2>1. spaces = 0 \/ spaces = waiting_count
    BY <1>4 DEF Inv, ClosingInv, Closing
  <2>2. spaces \in 0 .. waiting_count + Cardinality(Leaving)
    BY <1>2, <1>3, <2>1
  <2> QED
    BY <2>2 DEF Leaving
<1>5. CASE \A c \in Thread : ~Closing(c)
  <2>1. Pending \subseteq Staying \cup Leaving
    BY <1>5 DEF Inv, TypeOK, BarrierTypeOK, StageInv, Pending, Staying, Leaving,
       Arrived, Gone, Closing
  <2>2. /\ IsFiniteSet(Staying \cup Leaving)
        /\ Cardinality(Staying \cup Leaving)
             = Cardinality(Staying) + Cardinality(Leaving) - Cardinality(Staying \cap Leaving)
    BY <1>2, FS_Union
  <2>3. Cardinality(Staying \cap Leaving) \in Nat
    BY <1>1, Counted
  <2>4. Cardinality(Pending) <= Cardinality(Staying \cup Leaving)
    BY <2>1, <2>2, FS_Subset
  <2>5. spaces = Cardinality(Pending)
    BY <1>5 DEF Inv, CountInv
  <2>6. spaces \in 0 .. waiting_count + Cardinality(Leaving)
    BY <1>2, <1>3, <2>2, <2>3, <2>4, <2>5
  <2> QED
    BY <2>6 DEF Leaving
<1> QED
  BY <1>4, <1>5

(* For any number of threads and any input, no thread is a round ahead of   *)
(* one that still has to arrive, and no round ends early.                   *)
THEOREM InStep == Spec => []LockStep
<1>1. Init => Inv
  BY InitInv
<1>2. Inv /\ [Next]_vars => Inv'
  BY NextInv
<1>3. Inv => LockStep
  <2> SUFFICES ASSUME Inv PROVE LockStep
    OBVIOUS
  <2>1. ASSUME NEW i \in Thread, NEW j \in Thread,
               step[i] > step[j], pc[j] \notin {"done_waiting", "returned"}
        PROVE  step[i] = step[j] + 1 /\ stage[j] \in {"spin", "passed"}
    <3>1. step[i] \in Nat /\ step[j] \in Nat /\ generation \in Nat
      BY DEF Inv, TypeOK, BarrierTypeOK, counters
    <3>2. step[i] <= generation /\ step[j] < generation
      BY <2>1, <3>1 DEF Inv, RoundInv
    <3>3. stage[j] \in {"spin", "passed"}
      BY <2>1, <3>1, <3>2 DEF Inv, RoundInv
    <3>4. stage[j] = "passed" => pc[j] = "wait"
      BY <2>1 DEF Inv, TypeOK, StageInv
    <3>5. generation <= step[j] + 1
      BY <3>1, <3>3, <3>4 DEF Inv, RoundInv
    <3> QED
      BY <2>1, <3>1, <3>2, <3>3, <3>5
  <2> QED
    BY <2>1, SpacesBounded DEF LockStep, Inv
<1> QED
  BY <1>1, <1>2, <1>3, PTL DEF Spec

(* The threads that use the arrays are in the same round, so all write one  *)
(* of them, each its own element, and all read the other.                   *)
LEMMA OneArrayPerRound ==
  ASSUME Inv
  PROVE  NoDataRace
<1> DEFINE Target == IF generation % 2 = 0 THEN "buffer" ELSE "element"
           Source == IF generation % 2 = 0 THEN "element" ELSE "buffer"
<1>1. ASSUME NEW i \in Thread
      PROVE  /\ Writes(i) \subseteq {<<Target, i>>}
             /\ \A place \in Reads(i) : place[1] = Source
  <2>1. CASE pc[i] \in {"add", "copy"}
    <3>1. step[i] = generation /\ (update_source[i] <=> ~Even(i))
      BY <2>1 DEF Inv, StageInv, RoundInv, LoopInv
    <3> QED
      BY <2>1, <3>1 DEF Writes, Reads, At, Even
  <2>2. CASE pc[i] \notin {"add", "copy"}
    BY <2>2 DEF Writes, Reads
  <2> QED
    BY <2>1, <2>2
<1>2. Target # Source
  OBVIOUS
<1> HIDE DEF Target, Source
<1>3. ASSUME NEW i \in Thread, NEW j \in Thread, i # j,
             NEW place \in Writes(i) \cap (Reads(j) \cup Writes(j))
      PROVE  FALSE
  <2>1. place = <<Target, i>>
    BY <1>1
  <2>2. place[1] # Source
    BY <2>1, <1>2
  <2> QED
    BY <1>1, <1>3, <2>1, <2>2
<1> QED
  BY <1>3 DEF NoDataRace

(* Nor does any thread use an element that another one writes.              *)
THEOREM RaceFree == Spec => []NoDataRace
<1>1. Init => Inv
  BY InitInv
<1>2. Inv /\ [Next]_vars => Inv'
  BY NextInv
<1>3. Inv => NoDataRace
  BY OneArrayPerRound
<1> QED
  BY <1>1, <1>2, <1>3, PTL DEF Spec

-----------------------------------------------------------------------------
(* Sums.  The equation of Sum has a solution, and one only: for want of     *)
(* either there would be a least index at which it is missing.              *)
LEMMA LeastNatural ==
  ASSUME NEW S \in SUBSET Nat, S # {}
  PROVE  \E x \in S : \A y \in S : x <= y
<1>1. \E x \in S : \A y \in S : ~(<<y, x>> \in OpToRel(<, Nat))
  BY NatLessThanWellFounded, WFMin
<1>2. ASSUME NEW x \in Nat, NEW y \in Nat, ~(<<y, x>> \in OpToRel(<, Nat))
      PROVE  x <= y
  BY <1>2 DEF OpToRel
<1> QED
  BY <1>1, <1>2

Sums(from, to, sum) ==
    \A k \in from - 1 .. to : sum[k] = IF k < from THEN 0 ELSE sum[k - 1] + input[k]

LEMMA SumsExist ==
  ASSUME NEW from \in Thread
  PROVE  \A n \in Nat : from + n <= Capacity =>
            \E sum \in [from - 1 .. from - 1 + n -> Int] : Sums(from, from - 1 + n, sum)
<1> DEFINE Missing == {n \in Nat : /\ from + n <= Capacity
                                   /\ \A sum \in [from - 1 .. from - 1 + n -> Int] :
                                         ~Sums(from, from - 1 + n, sum)}
<1> SUFFICES ASSUME Missing # {} PROVE FALSE
  OBVIOUS
<1>1. PICK n \in Missing : \A m \in Missing : n <= m
  <2>1. Missing \in SUBSET Nat
    OBVIOUS
  <2> QED
    BY <2>1, LeastNatural
<1>2. from \in Int /\ 0 <= from /\ Capacity \in Int /\ n \in Nat /\ from + n <= Capacity
      /\ \A k \in from .. Capacity - 1 : input[k] \in Int
  BY ThreadInterval, InputAssumption
<1>3. CASE n = 0
  <2> DEFINE g == [k \in from - 1 .. from - 1 + n |-> 0]
  <2>1. g \in [from - 1 .. from - 1 + n -> Int]
    OBVIOUS
  <2>2. Sums(from, from - 1 + n, g)
    BY <1>2, <1>3 DEF Sums
  <2> QED
    BY <2>1, <2>2
<1>4. CASE n # 0
  <2>1. n - 1 \in Nat /\ n - 1 \notin Missing /\ from + (n - 1) <= Capacity
    <3>1. n - 1 \in Nat /\ from + (n - 1) <= Capacity /\ ~(n <= n - 1)
      BY <1>2, <1>4
    <3>2. n - 1 \notin Missing
      BY <3>1, <1>1
    <3> QED
      BY <3>1, <3>2
  <2>2. PICK h \in [from - 1 .. from - 1 + (n - 1) -> Int] : Sums(from, from - 1 + (n - 1), h)
    BY <2>1
  <2> DEFINE top == from - 1 + n
             g == [k \in from - 1 .. top |-> IF k = top THEN h[k - 1] + input[k] ELSE h[k]]
  <2>3. top \in Int /\ from <= top /\ top <= Capacity - 1 /\ from - 1 + (n - 1) = top - 1
    BY <1>2, <1>4
  <2>4. h \in [from - 1 .. top - 1 -> Int] /\ Sums(from, top - 1, h)
    BY <2>2, <2>3
  <2>5. top - 1 \in from - 1 .. top - 1 /\ input[top] \in Int
    BY <1>2, <2>3
  <2>6. ASSUME NEW k \in from - 1 .. top
        PROVE  g[k] \in Int /\ g[k] = IF k < from THEN 0 ELSE g[k - 1] + input[k]
    <3>1. CASE k = top
      BY <3>1, <1>2, <2>3, <2>4, <2>5
    <3>2. CASE k # top
      <4>1. k \in from - 1 .. top - 1 /\ g[k] = h[k]
        BY <3>2, <1>2, <2>3
      <4>2. h[k] = IF k < from THEN 0 ELSE h[k - 1] + input[k]
        BY <4>1, <2>4 DEF Sums
      <4>3. k >= from => g[k - 1] = h[k - 1]
        BY <4>1, <1>2, <2>3
      <4> QED
        BY <4>1, <4>2, <4>3, <2>4, <1>2
    <3> QED
      BY <3>1, <3>2
  <2>7. g \in [from - 1 .. top -> Int] /\ Sums(from, top, g)
    BY <2>6 DEF Sums
  <2> QED
    BY <2>7, <1>1
<1> QED
  BY <1>3, <1>4

LEMMA SumIs ==
  ASSUME NEW from \in Int, NEW to \in Int, from - 1 <= to, NEW sum, Sums(from, to, sum)
  PROVE  Sum(from, to) = sum[to]
<1> DEFINE D == from - 1 .. to
           Solves(g) == g = [k \in D |-> IF k < from THEN 0 ELSE g[k - 1] + input[k]]
           s == [k \in D |-> sum[k]]
<1>1. Sum(from, to) = (CHOOSE g : Solves(g))[to]
  BY DEF Sum
<1>2. Solves(s)
  <2>1. \A k \in D : s[k] = IF k < from THEN 0 ELSE s[k - 1] + input[k]
    BY DEF Sums
  <2> DEFINE value(k) == IF k < from THEN 0 ELSE s[k - 1] + input[k]
  <2>2. \A k \in D : s[k] = value(k)
    BY <2>1
  <2> HIDE DEF value
  <2>3. s = [k \in D |-> value(k)]
    BY <2>2
  <2> QED
    BY <2>3 DEF value
<1>3. ASSUME NEW g, Solves(g), NEW k \in D PROVE g[k] = sum[k]
  <2>1. \A m \in D : g[m] = IF m < from THEN 0 ELSE g[m - 1] + input[m]
    <3> DEFINE value(m) == IF m < from THEN 0 ELSE g[m - 1] + input[m]
    <3>1. g = [m \in D |-> value(m)]
      BY <1>3
    <3> HIDE DEF value
    <3>2. \A m \in D : g[m] = value(m)
      BY <3>1
    <3> QED
      BY <3>2 DEF value
  <2> DEFINE Differ == {m \in Nat : from - 1 + m \in D /\ g[from - 1 + m] # sum[from - 1 + m]}
  <2>2. Differ = {}
    <3> SUFFICES ASSUME Differ # {} PROVE FALSE
      OBVIOUS
    <3>1. Differ \in SUBSET Nat
      OBVIOUS
    <3>2. PICK m \in Differ : \A l \in Differ : m <= l
      BY <3>1, LeastNatural
    <3>3. PICK j \in D : j = from - 1 + m /\ g[j] # sum[j]
      BY <3>2
    <3>4. sum[j] = IF j < from THEN 0 ELSE sum[j - 1] + input[j]
      BY DEF Sums
    <3>5. m # 0 /\ ~(j < from)
      BY <3>2, <3>3, <3>4, <2>1
    <3>6. m - 1 \in Nat /\ m - 1 \notin Differ /\ from - 1 + (m - 1) = j - 1 /\ j - 1 \in D
      BY <3>2, <3>3, <3>5
    <3>7. g[j - 1] = sum[j - 1]
      BY <3>6
    <3> QED
      BY <3>3, <3>4, <3>5, <3>7, <2>1
  <2>3. k - (from - 1) \in Nat /\ from - 1 + (k - (from - 1)) = k
    OBVIOUS
  <2> QED
    BY <2>2, <2>3
<1> HIDE DEF Solves
<1>4. Solves(CHOOSE g : Solves(g))
  BY <1>2
<1>5. to \in D
  OBVIOUS
<1> QED
  BY <1>1, <1>3, <1>4, <1>5

LEMMA SumStep ==
  ASSUME NEW from \in Thread
  PROVE  /\ Sum(from, from - 1) = 0
         /\ \A k \in from .. Capacity - 1 : Sum(from, k) = Sum(from, k - 1) + input[k]
         /\ \A k \in from - 1 .. Capacity - 1 : Sum(from, k) \in Int
<1>1. from \in Int /\ 0 <= from /\ from <= Capacity - 1 /\ Capacity \in Int
  BY ThreadInterval
<1>2. PICK n \in Nat : n = Capacity - from
  BY <1>1
<1>3. PICK sum \in [from - 1 .. Capacity - 1 -> Int] : Sums(from, Capacity - 1, sum)
  <2>1. from + n <= Capacity /\ from - 1 + n = Capacity - 1
    BY <1>1, <1>2
  <2> QED
    BY <2>1, SumsExist
<1>4. ASSUME NEW k \in from - 1 .. Capacity - 1 PROVE Sum(from, k) = sum[k]
  <2>1. Sums(from, k, sum)
    BY <1>1, <1>3 DEF Sums
  <2> QED
    BY <2>1, <1>1, SumIs
<1>5. \A k \in from - 1 .. Capacity - 1 : sum[k] = IF k < from THEN 0 ELSE sum[k - 1] + input[k]
  BY <1>3 DEF Sums
<1>6. Sum(from, from - 1) = 0
  <2>1. from - 1 \in from - 1 .. Capacity - 1 /\ from - 1 < from
    BY <1>1
  <2> QED
    BY <2>1, <1>4, <1>5
<1>7. ASSUME NEW k \in from .. Capacity - 1 PROVE Sum(from, k) = Sum(from, k - 1) + input[k]
  <2>1. k \in from - 1 .. Capacity - 1 /\ k - 1 \in from - 1 .. Capacity - 1 /\ ~(k < from)
    BY <1>1
  <2> QED
    BY <2>1, <1>4, <1>5
<1> QED
  BY <1>4, <1>6, <1>7

(* Neighbouring sums add up.                                                *)
LEMMA SumJoins ==
  ASSUME NEW a \in Thread, NEW b \in Thread, a <= b
  PROVE  \A c \in b - 1 .. Capacity - 1 : Sum(a, b - 1) + Sum(b, c) = Sum(a, c)
<1>1. a \in Int /\ b \in Int /\ 0 <= a /\ b <= Capacity - 1 /\ Capacity \in Int
      /\ \A k \in b .. Capacity - 1 : input[k] \in Int
  BY ThreadInterval, InputAssumption
<1> DEFINE Wrong == {n \in Nat : b - 1 + n <= Capacity - 1
                                 /\ Sum(a, b - 1) + Sum(b, b - 1 + n) # Sum(a, b - 1 + n)}
<1>2. Wrong = {}
  <2> SUFFICES ASSUME Wrong # {} PROVE FALSE
    OBVIOUS
  <2>1. Wrong \in SUBSET Nat
    OBVIOUS
  <2>2. PICK n \in Wrong : \A m \in Wrong : n <= m
    BY <2>1, LeastNatural
  <2>3. PICK c \in b - 1 .. Capacity - 1 :
            c = b - 1 + n /\ Sum(a, b - 1) + Sum(b, c) # Sum(a, c)
    BY <2>2, <1>1
  <2>4. Sum(a, b - 1) \in Int /\ Sum(b, b - 1) = 0
    BY <1>1, SumStep
  <2>5. n # 0
    <3>1. ASSUME n = 0 PROVE FALSE
      <4>1. c = b - 1
        BY <3>1, <2>3, <1>1
      <4> QED
        BY <4>1, <2>3, <2>4
    <3> QED
      BY <3>1
  <2>6. /\ c \in b .. Capacity - 1 /\ c \in a .. Capacity - 1
        /\ c - 1 \in b - 1 .. Capacity - 1 /\ c - 1 \in a - 1 .. Capacity - 1
        /\ n - 1 \in Nat /\ n - 1 \notin Wrong /\ b - 1 + (n - 1) = c - 1
    BY <2>2, <2>3, <2>5, <1>1
  <2>7. Sum(a, b - 1) + Sum(b, c - 1) = Sum(a, c - 1)
    BY <2>6, <1>1
  <2>8. /\ Sum(b, c) = Sum(b, c - 1) + input[c] /\ Sum(a, c) = Sum(a, c - 1) + input[c]
        /\ Sum(b, c - 1) \in Int /\ Sum(a, c - 1) \in Int /\ input[c] \in Int
    BY <2>6, <1>1, SumStep
  <2> QED
    BY <2>3, <2>4, <2>7, <2>8
<1> SUFFICES ASSUME NEW c \in b - 1 .. Capacity - 1
             PROVE  Sum(a, b - 1) + Sum(b, c) = Sum(a, c)
  OBVIOUS
<1>3. c - (b - 1) \in Nat /\ b - 1 + (c - (b - 1)) = c /\ c <= Capacity - 1
  BY <1>1
<1> QED
  BY <1>2, <1>3

-----------------------------------------------------------------------------
(* What the arrays hold.  In its round a thread reads the one array, where  *)
(* all that are in this round have the sum of their last stride elements,   *)
(* and writes the other.                                                    *)
Source(i) == IF Even(i) THEN element[i] ELSE buffer[i]
Dest(i)   == IF Even(i) THEN buffer[i] ELSE element[i]

Window(i, length) == Sum(IF length > i THEN 0 ELSE i - length + 1, i)

StrideInv ==
    \A i, j \in Thread :
        /\ step[i] = step[j] => stride[i] = stride[j]
        /\ step[i] = step[j] + 1 => stride[i] = 2 * stride[j]
        /\ step[i] <= step[j] => stride[i] <= stride[j]

SumsOf(i) ==
    /\ pc[i] \in {"loop", "add", "wait", "copy"} => Source(i) = Window(i, stride[i])
    /\ pc[i] = "wait" => Dest(i) = Window(i, 2 * stride[i])
    /\ pc[i] \in {"copy", "done_waiting", "returned"} => stride[i] > i
    /\ pc[i] \in {"done_waiting", "returned"} => element[i] = Sum(0, i) /\ buffer[i] = Sum(0, i)

SumInv == StrideInv /\ \A i \in Thread : SumsOf(i)

LEMMA WindowEnd ==
  ASSUME NEW i \in Thread, NEW length \in Nat \ {0}
  PROVE  /\ length > i => Window(i, length) = Sum(0, i)
         /\ length <= i => Window(i, length) = Sum(i - length + 1, i)
BY ThreadInterval DEF Window

(* Two windows side by side are one of twice the length.                    *)
LEMMA WindowsJoin ==
  ASSUME NEW i \in Thread, NEW length \in Nat \ {0}, length <= i
  PROVE  Window(i, length) + Window(i - length, length) = Window(i, 2 * length)
<1>1. i \in Nat /\ i <= Capacity - 1 /\ Capacity \in Int
  BY ThreadInterval
<1>2. PICK b \in Thread : b = i - length + 1
  BY <1>1, ThreadInterval
<1>3. PICK a \in Thread : a = IF 2 * length > i THEN 0 ELSE i - 2 * length + 1
  <2>1. CASE 2 * length > i
    <3>1. 0 \in Thread
      BY ThreadInterval
    <3> QED
      BY <3>1, <2>1
  <2>2. CASE ~(2 * length > i)
    <3>1. i - 2 * length + 1 \in 0 .. Capacity - 1
      BY <2>2, <1>1
    <3>2. i - 2 * length + 1 \in Thread
      BY <3>1, ThreadInterval
    <3> QED
      BY <3>2, <2>2
  <2> QED
    BY <2>1, <2>2
<1>4. a <= b /\ i \in b - 1 .. Capacity - 1 /\ b - 1 = i - length /\ b - 1 \in a - 1 .. Capacity - 1
  BY <1>1, <1>2, <1>3
<1>5. Sum(a, b - 1) + Sum(b, i) = Sum(a, i)
  BY <1>4, SumJoins
<1>6. Sum(a, b - 1) \in Int /\ Sum(b, i) \in Int
  BY <1>4, SumStep
<1>7. Window(i, length) = Sum(b, i)
  BY <1>1, <1>2 DEF Window
<1>8. Window(i, 2 * length) = Sum(a, i)
  BY <1>1, <1>3 DEF Window
<1>9. Window(i - length, length) = Sum(a, b - 1)
  <2>1. length > i - length <=> 2 * length > i
    BY <1>1
  <2>2. i - length - length + 1 = i - 2 * length + 1
    BY <1>1
  <2>3. (IF length > i - length THEN 0 ELSE i - length - length + 1) = a
    BY <2>1, <2>2, <1>3
  <2> QED
    BY <2>3, <1>4 DEF Window
<1> QED
  BY <1>5, <1>6, <1>7, <1>8, <1>9

LEMMA InitSums == Init => SumInv
<1> SUFFICES ASSUME Init PROVE SumInv
  OBVIOUS
<1>1. /\ element = input /\ step = [i \in Thread |-> 0] /\ stride = [i \in Thread |-> 1]
      /\ pc = [i \in Thread |-> "loop"]
  BY DEF Init
<1>2. StrideInv
  BY <1>1 DEF StrideInv
<1>3. ASSUME NEW i \in Thread PROVE SumsOf(i)
  <2>1. i \in Nat /\ i <= Capacity - 1 /\ Capacity \in Int /\ input[i] \in Int
    BY ThreadInterval, InputAssumption
  <2>2. Window(i, 1) = Sum(i, i)
    BY <2>1 DEF Window
  <2>3. Sum(i, i) = Sum(i, i - 1) + input[i] /\ Sum(i, i - 1) = 0
    BY <2>1, SumStep
  <2>4. Source(i) = input[i]
    BY <1>1 DEF Source, Even
  <2> QED
    BY <1>1, <2>1, <2>2, <2>3, <2>4 DEF SumsOf
<1> QED
  BY <1>2, <1>3 DEF SumInv

(* The neighbour that i reads has the sum of as many elements, in the array *)
(* that i reads: it is in the same round, or has left the one before but    *)
(* not begun this one, or left the barrier for good and put its result in   *)
(* both arrays.                                                             *)
LEMMA NeighbourHas ==
  ASSUME Inv, SumInv, NEW i \in Thread, pc[i] = "add", NEW j \in Thread, j = i - stride[i]
  PROVE  (IF Even(i) THEN element[j] ELSE buffer[j]) = Window(j, stride[i])
<1>1. /\ step[i] \in Nat /\ step[j] \in Nat /\ generation \in Nat
      /\ stride[i] \in Nat \ {0} /\ stride[j] \in Nat \ {0} /\ i \in Nat /\ j \in Nat
  BY ThreadFinite DEF Inv, TypeOK, BarrierTypeOK, counters
<1>2. step[i] = generation /\ step[j] <= generation
  BY DEF Inv, StageInv, RoundInv
<1>3. stride[j] <= stride[i]
  BY <1>2 DEF SumInv, StrideInv
<1>4. CASE pc[j] \in {"done_waiting", "returned"}
  <2>1. element[j] = Sum(0, j) /\ buffer[j] = Sum(0, j) /\ stride[j] > j
    BY <1>4 DEF SumInv, SumsOf
  <2>2. Window(j, stride[i]) = Sum(0, j)
    BY <1>1, <1>3, <2>1, WindowEnd
  <2> QED
    BY <2>1, <2>2
<1>5. CASE pc[j] \notin {"done_waiting", "returned"} /\ step[j] = step[i]
  <2>1. stride[j] = stride[i] /\ (Even(j) <=> Even(i))
    BY <1>5 DEF SumInv, StrideInv, Even
  <2>2. pc[j] \in {"loop", "add", "wait", "copy"}
    BY <1>5 DEF Inv, TypeOK
  <2>3. Source(j) = Window(j, stride[i])
    BY <2>1, <2>2 DEF SumInv, SumsOf
  <2> QED
    BY <2>1, <2>3 DEF Source
<1>6. CASE pc[j] \notin {"done_waiting", "returned"} /\ step[j] # step[i]
  <2>1. step[j] < generation
    BY <1>1, <1>2, <1>6
  <2>2. stage[j] \in {"spin", "passed"}
    BY <1>1, <1>6, <2>1 DEF Inv, RoundInv
  <2>3. pc[j] = "wait"
    BY <1>6, <2>2 DEF Inv, TypeOK, StageInv
  <2>4. step[i] = step[j] + 1
    BY <1>1, <1>2, <2>1, <2>2, <2>3 DEF Inv, RoundInv
  <2>5. stride[i] = 2 * stride[j] /\ (Even(j) <=> ~Even(i))
    BY <1>1, <2>4 DEF SumInv, StrideInv, Even
  <2>6. Dest(j) = Window(j, stride[i])
    BY <2>3, <2>5 DEF SumInv, SumsOf
  <2> QED
    BY <2>5, <2>6 DEF Dest
<1> QED
  BY <1>4, <1>5, <1>6

(* A thread's sums are its own business: the others do not disturb them.    *)
LEMMA OthersSums ==
  ASSUME SumInv, NEW j \in Thread,
         element'[j] = element[j], buffer'[j] = buffer[j], step'[j] = step[j], stride'[j] = stride[j],
         pc'[j] = pc[j] \/ (pc[j] = "done_waiting" /\ pc'[j] = "returned")
  PROVE  SumsOf(j)'
<1>1. Source(j)' = Source(j) /\ Dest(j)' = Dest(j)
  BY DEF Source, Dest, Even
<1>2. /\ \A k : Window(j, k)' = Window(j, k)
      /\ Sum(0, j)' = Sum(0, j)
  BY DEF Window, Sum
<1> QED
  BY <1>1, <1>2 DEF SumInv, SumsOf

LEMMA NextSums == Inv /\ SumInv /\ [Next]_vars => SumInv'
<1> SUFFICES ASSUME Inv, SumInv, [Next]_vars PROVE SumInv'
  OBVIOUS
<1>1. /\ element \in [Thread -> Int] /\ buffer \in [Thread -> Int] /\ step \in [Thread -> Nat]
      /\ stride \in [Thread -> Nat \ {0}]
      /\ pc \in [Thread -> {"loop", "add", "wait", "copy", "done_waiting", "returned"}]
      /\ StrideInv /\ \A i \in Thread : SumsOf(i)
      /\ Thread \subseteq Nat
  BY ThreadFinite DEF Inv, TypeOK, SumInv
<1>2. step' = step /\ stride' = stride => StrideInv'
  BY <1>1 DEF StrideInv
<1>3. CASE UNCHANGED vars
  <2>1. \A j \in Thread : SumsOf(j)'
    BY <1>3, OthersSums DEF vars, sumVars
  <2> QED
    BY <2>1, <1>2, <1>3 DEF SumInv, vars, sumVars
<1>4. ASSUME NEW t \in Thread, ThreadStep(t) PROVE SumInv'
  <2> USE DEF Goto
  <2>0. \A k : Window(t, k)' = Window(t, k) /\ Sum(0, t)' = Sum(0, t)
    BY DEF Window, Sum
  <2>1. CASE BarrierStep(t) \/ Return(t)
    <3>1. /\ UNCHANGED sumVars
          /\ \A j \in Thread : pc'[j] = pc[j] \/ (pc[j] = "done_waiting" /\ pc'[j] = "returned")
      BY <2>1, <1>1 DEF BarrierStep, Return
    <3>2. \A j \in Thread : SumsOf(j)'
      BY <3>1, OthersSums DEF sumVars
    <3> QED
      BY <3>1, <3>2, <1>2 DEF SumInv, sumVars
  <2>2. CASE TestLoop(t)
    <3>1. /\ UNCHANGED sumVars /\ pc[t] = "loop"
          /\ pc' = [pc EXCEPT ![t] = IF stride[t] <= t THEN "add" ELSE "copy"]
      BY <2>2 DEF TestLoop
    <3>2. \A j \in Thread \ {t} : SumsOf(j)'
      BY <3>1, <1>1, OthersSums DEF sumVars
    <3>3. SumsOf(t)'
      <4>1. Source(t)' = Source(t) /\ Source(t) = Window(t, stride[t])
        BY <3>1, <1>1 DEF Source, Even, sumVars, SumsOf
      <4>2. pc'[t] = "add" \/ (pc'[t] = "copy" /\ stride[t] > t)
        BY <3>1, <1>1
      <4> QED
        BY <4>1, <4>2, <3>1, <2>0 DEF SumsOf, sumVars
    <3> QED
      BY <3>1, <3>2, <3>3, <1>2 DEF SumInv, sumVars
  <2>3. CASE Add(t)
    <3> DEFINE s == stride[t]
               j == t - stride[t]
               total == Source(t) + (IF Even(t) THEN element[j] ELSE buffer[j])
    <3>1. /\ pc[t] = "add" /\ pc' = [pc EXCEPT ![t] = "wait"] /\ step' = step /\ stride' = stride
          /\ IF Even(t) THEN buffer' = [buffer EXCEPT ![t] = total] /\ element' = element
             ELSE element' = [element EXCEPT ![t] = total] /\ buffer' = buffer
      BY <2>3 DEF Add, Source
    <3>2. s \in Nat \ {0} /\ s <= t /\ j \in Thread
      BY <1>1, <3>1, StrideInside DEF Inv, LoopInv
    <3>3. total = Window(t, 2 * s)
      <4>1. Source(t) = Window(t, s)
        BY <1>1, <3>1 DEF SumsOf
      <4>2. (IF Even(t) THEN element[j] ELSE buffer[j]) = Window(j, s)
        BY <3>1, <3>2, NeighbourHas
      <4> QED
        BY <4>1, <4>2, <3>2, WindowsJoin
    <3>4. \A i \in Thread \ {t} : SumsOf(i)'
      BY <3>1, <1>1, OthersSums
    <3> HIDE DEF total
    <3>5. SumsOf(t)'
      <4>1. Source(t)' = Source(t) /\ Dest(t)' = total
        BY <3>1, <1>1 DEF Source, Dest, Even
      <4>2. pc'[t] = "wait" /\ Source(t) = Window(t, s)
        BY <1>1, <3>1 DEF SumsOf
      <4> QED
        BY <4>1, <4>2, <3>1, <3>3, <2>0 DEF SumsOf
    <3> QED
      BY <3>1, <3>4, <3>5, <1>2 DEF SumInv
  <2>4. CASE NextRound(t)
    <3>1. /\ pc[t] = "wait" /\ pc' = [pc EXCEPT ![t] = "loop"]
          /\ step' = [step EXCEPT ![t] = step[t] + 1] /\ stride' = [stride EXCEPT ![t] = stride[t] * 2]
          /\ element' = element /\ buffer' = buffer /\ stage[t] = "passed"
      BY <2>4 DEF NextRound, Leave, Step
    <3>2. \A i \in Thread \ {t} : SumsOf(i)'
      BY <3>1, <1>1, OthersSums
    <3>3. SumsOf(t)'
      <4>1. step'[t] = step[t] + 1 /\ stride'[t] = 2 * stride[t] /\ pc'[t] = "loop"
        BY <3>1, <1>1
      <4>2. Source(t)' = Dest(t)
        BY <3>1, <4>1, <1>1 DEF Source, Dest, Even
      <4>3. Dest(t) = Window(t, 2 * stride[t])
        BY <1>1, <3>1 DEF SumsOf
      <4> QED
        BY <4>1, <4>2, <4>3, <2>0 DEF SumsOf
    <3>4. \A i \in Thread : step[i] <= step[t] + 1
      BY <1>1, <3>1 DEF Inv, RoundInv
    <3>5. StrideInv'
      <4>1. \A i \in Thread : stride[i] \in Nat \ {0} /\ step[i] \in Nat
        BY <1>1
      <4>2. \A i \in Thread : /\ step[i] = step[t] + 1 => stride[i] = 2 * stride[t]
                              /\ step[i] = step[t] => stride[i] = stride[t]
                              /\ step[i] <= step[t] => stride[i] <= stride[t]
        BY <1>1 DEF StrideInv
      <4>3. /\ step'[t] = step[t] + 1 /\ stride'[t] = 2 * stride[t]
            /\ \A i \in Thread \ {t} : step'[i] = step[i] /\ stride'[i] = stride[i]
        BY <3>1, <1>1
      <4> SUFFICES ASSUME NEW i \in Thread, NEW j \in Thread
                   PROVE  /\ step'[i] = step'[j] => stride'[i] = stride'[j]
                          /\ step'[i] = step'[j] + 1 => stride'[i] = 2 * stride'[j]
                          /\ step'[i] <= step'[j] => stride'[i] <= stride'[j]
        BY DEF StrideInv
      <4>4. CASE i # t /\ j # t
        BY <4>3, <4>4, <1>1 DEF StrideInv
      <4>5. CASE i = t /\ j # t
        BY <4>1, <4>2, <4>3, <4>5, <3>4
      <4>6. CASE i # t /\ j = t
        BY <4>1, <4>2, <4>3, <4>6, <3>4
      <4>7. CASE i = t /\ j = t
        BY <4>1, <4>3, <4>7
      <4> QED
        BY <4>4, <4>5, <4>6, <4>7
    <3> QED
      BY <3>2, <3>3, <3>5 DEF SumInv
  <2>5. CASE CopyResult(t)
    <3>1. /\ pc[t] = "copy" /\ pc' = [pc EXCEPT ![t] = "done_waiting"] /\ step' = step /\ stride' = stride
          /\ IF update_source[t] THEN element' = [element EXCEPT ![t] = buffer[t]] /\ buffer' = buffer
             ELSE buffer' = [buffer EXCEPT ![t] = element[t]] /\ element' = element
          /\ update_source[t] <=> ~Even(t)
      BY <2>5 DEF CopyResult, Inv, LoopInv
    <3>2. \A i \in Thread \ {t} : SumsOf(i)'
      BY <3>1, <1>1, OthersSums
    <3>3. SumsOf(t)'
      <4>1. Source(t) = Window(t, stride[t]) /\ stride[t] > t
        BY <1>1, <3>1 DEF SumsOf
      <4>2. Source(t) = Sum(0, t)
        BY <4>1, <1>1, WindowEnd
      <4>3. element'[t] = Sum(0, t) /\ buffer'[t] = Sum(0, t)
        BY <3>1, <4>2, <1>1 DEF Source
      <4>4. pc'[t] = "done_waiting"
        BY <3>1, <1>1
      <4> QED
        BY <4>1, <4>3, <4>4, <3>1, <2>0 DEF SumsOf
    <3> QED
      BY <3>1, <3>2, <3>3, <1>2 DEF SumInv
  <2> QED
    BY <1>4, <2>1, <2>2, <2>3, <2>4, <2>5 DEF ThreadStep
<1> QED
  BY <1>3, <1>4 DEF Next

LEMMA Summing == Spec => [](Inv /\ SumInv)
<1>1. Init => Inv /\ SumInv
  BY InitInv, InitSums
<1>2. Inv /\ SumInv /\ [Next]_vars => Inv' /\ SumInv'
  BY NextInv, NextSums
<1> QED
  BY <1>1, <1>2, PTL DEF Spec

(* So in every round a thread adds the sums of two neighbouring windows.    *)
THEOREM Rounds == Spec => []RoundSum
<1>1. ASSUME Inv, SumInv PROVE RoundSum
  <2> SUFFICES ASSUME NEW i \in Thread, pc[i] = "add"
               PROVE  Latest(i) = Sum(i - stride[i] + 1, i)
    BY DEF RoundSum
  <2>1. Source(i) = Window(i, stride[i]) /\ stride[i] \in Nat \ {0} /\ stride[i] <= i
    BY <1>1 DEF SumInv, SumsOf, Inv, LoopInv, TypeOK
  <2>2. Latest(i) = Source(i)
    BY <1>1 DEF Inv, LoopInv, Latest, Source
  <2> QED
    BY <2>1, <2>2, WindowEnd
<1> QED
  BY <1>1, Summing, PTL

(* For any number of threads and any input, the call computes the prefix    *)
(* sums.                                                                    *)
THEOREM Computes == Spec => []PrefixSums
<1>1. ASSUME SumInv PROVE PrefixSums
  BY <1>1 DEF SumInv, SumsOf, PrefixSums, Joined
<1> QED
  BY <1>1, Summing, PTL
=============================================================================
