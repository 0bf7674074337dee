-------------------------- MODULE PartialSumBarrier --------------------------
(***************************************************************************)
(* parallel_partial_sum() of src/parallel-partial-sum-with-barrier.cpp:    *)
(* one thread per element, doubling strides, two arrays used in turn, and  *)
(* a barrier that every element leaves once its prefix is complete.        *)
(***************************************************************************)
EXTENDS Barrier

CONSTANT input       \* what the range holds, as a function of the offset

data_length == Cardinality(Thread)

(* The thread of offset i is i itself; the calling thread is the last one.  *)
ASSUME ThreadAssumption == Thread = 0 .. data_length - 1 /\ Capacity = data_length
ASSUME InputAssumption == input \in [Thread -> Int]

VARIABLES
    element,        \* *(first_iter + i)
    buffer,
    step, stride,   \* locals of the loop, per thread
    update_source,  \* local
    pc

sumVars == <<element, buffer, step, stride, update_source>>
vars == <<barrierVars, sumVars, pc>>

Init ==
    /\ BarrierInit
    /\ element = input
    /\ buffer = [i \in Thread |-> 0]
    /\ step = [i \in Thread |-> 0]
    /\ stride = [i \in Thread |-> 1]
    /\ update_source = [i \in Thread |-> FALSE]
    /\ pc = [i \in Thread |-> "loop"]

Goto(i, from, to) ==
    /\ pc[i] = from
    /\ pc' = [pc EXCEPT ![i] = to]

Even(i) == step[i] % 2 = 0

(* Mutant: the condition of the loop is stride < i.                         *)
TestLoopStrictly(i) ==
    /\ Goto(i, "loop", IF stride[i] < i THEN "add" ELSE "copy")
    /\ UNCHANGED <<barrierVars, sumVars>>

TestLoop(i) ==
    /\ Goto(i, "loop", IF stride[i] <= i THEN "add" ELSE "copy")
    /\ UNCHANGED <<barrierVars, sumVars>>

(* Lines 69-74: dest = source + addend, and the call of Wait().             *)
Add(i) ==
    /\ Goto(i, "add", "wait")
    /\ IF Even(i)
       THEN /\ buffer' = [buffer EXCEPT ![i] = element[i] + element[i - stride[i]]]
            /\ UNCHANGED element
       ELSE /\ element' = [element EXCEPT ![i] = buffer[i] + buffer[i - stride[i]]]
            /\ UNCHANGED buffer
    /\ update_source' = [update_source EXCEPT ![i] = Even(i)]
    /\ CallWait(i)
    /\ UNCHANGED <<step, stride>>

(* Mutant: stride grows by one.                                             *)
NextRoundByOne(i) ==
    /\ Goto(i, "wait", "loop")
    /\ Leave(i)
    /\ step' = [step EXCEPT ![i] = @ + 1]
    /\ stride' = [stride EXCEPT ![i] = @ + 1]
    /\ UNCHANGED <<element, buffer, update_source>>

NextRound(i) ==
    /\ Goto(i, "wait", "loop")
    /\ Leave(i)
    /\ step' = [step EXCEPT ![i] = @ + 1]
    /\ stride' = [stride EXCEPT ![i] = @ * 2]
    /\ UNCHANGED <<element, buffer, update_source>>

(* Lines 76-81: both arrays get the result, and the call of DoneWaiting().  *)
CopyResult(i) ==
    /\ Goto(i, "copy", "done_waiting")
    /\ IF update_source[i]
       THEN element' = [element EXCEPT ![i] = buffer[i]] /\ UNCHANGED buffer
       ELSE buffer' = [buffer EXCEPT ![i] = element[i]] /\ UNCHANGED element
    /\ CallDoneWaiting(i)
    /\ UNCHANGED <<step, stride, update_source>>

Return(i) ==
    /\ Goto(i, "done_waiting", "returned")
    /\ Leave(i)
    /\ UNCHANGED sumVars

BarrierStep(i) == InsideStep(i) /\ UNCHANGED <<sumVars, pc>>

ThreadStep(i) ==
    TestLoop(i) \/ Add(i) \/ NextRound(i) \/ CopyResult(i) \/ Return(i) \/ BarrierStep(i)

(* The JoinThreads destructor returns when every thread has.                *)
Joined == \A i \in Thread : pc[i] = "returned"

Next == (\E i \in Thread : ThreadStep(i)) \/ (Joined /\ UNCHANGED vars)

Spec == Init /\ [][Next]_vars /\ \A i \in Thread : WF_vars(ThreadStep(i))

-----------------------------------------------------------------------------
(* Properties.                                                              *)

TypeOK ==
    /\ BarrierTypeOK
    /\ {element, buffer} \subseteq [Thread -> Int]
    /\ step \in [Thread -> Nat]
    /\ stride \in [Thread -> Nat \ {0}]
    /\ update_source \in [Thread -> BOOLEAN]
    /\ pc \in [Thread -> {"loop", "add", "wait", "copy", "done_waiting", "returned"}]

(* Where the next statement of i reads and writes.                          *)
At(array, i) == <<array, i>>
Reads(i) ==
    CASE pc[i] = "add" -> LET array == IF Even(i) THEN "element" ELSE "buffer"
                          IN  {At(array, i), At(array, i - stride[i])}
      [] pc[i] = "copy" -> {At(IF update_source[i] THEN "buffer" ELSE "element", i)}
      [] OTHER -> {}
Writes(i) ==
    CASE pc[i] = "add"  -> {At(IF Even(i) THEN "buffer" ELSE "element", i)}
      [] pc[i] = "copy" -> {At(IF update_source[i] THEN "element" ELSE "buffer", i)}
      [] OTHER -> {}

(* No thread reads or writes an int while another one may be writing it:    *)
(* the plain ints of the two arrays are never raced for, though threads     *)
(* whose prefix is complete still copy while others go on.                  *)
NoDataRace ==
    \A i, j \in Thread : i # j => Writes(i) \cap (Reads(j) \cup Writes(j)) = {}

(* Nobody is a round ahead of a thread that has not arrived at the barrier  *)
(* of its own round, or left it for good.  No round of the barrier ends     *)
(* early or is entered twice: its free places are never fewer than none nor *)
(* more than the threads that take part.  (barrier.cpp's own main() does    *)
(* not keep to this.)                                                       *)
LockStep ==
    /\ TypeOK
    /\ spaces \in 0 .. waiting_count + Cardinality({i \in Thread : stage[i] = "arrive_done"})
    /\ \A i, j \in Thread :
          step[i] > step[j] /\ pc[j] \notin {"done_waiting", "returned"} =>
              step[i] = step[j] + 1 /\ stage[j] \in {"spin", "passed"}

(* When i is about to add in the round of a stride, what it holds is the    *)
(* sum of the stride elements up to i.                                      *)
Sum(from, to) ==
    LET sum[k \in from - 1 .. to] == IF k < from THEN 0 ELSE sum[k - 1] + input[k]
    IN  sum[to]
Latest(i) == IF update_source[i] THEN buffer[i] ELSE element[i]
RoundSum ==
    \A i \in Thread : pc[i] = "add" => Latest(i) = Sum(i - stride[i] + 1, i)

(* When the call returns each element holds the sum of the prefix up to it. *)
PrefixSums == Joined => \A i \in Thread : element[i] = Sum(0, i) /\ buffer[i] = element[i]
=============================================================================
