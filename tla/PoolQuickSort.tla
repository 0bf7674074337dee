---------------------------- MODULE PoolQuickSort ----------------------------
(***************************************************************************)
(* parallel_quick_sort() of src/quick-sort-with-thread-pool.cpp: DoSort()  *)
(* submits the lower part of its chunk to the pool, sorts the higher part  *)
(* itself and, until the lower part is sorted, runs whatever task comes    *)
(* next, on top of its own stack.                                          *)
(*                                                                         *)
(* A chunk is the set of its values, which are distinct as in main().      *)
(* std::partition may leave them in any order, so that any of them may be  *)
(* the first.  The future of a lower part is named by the partition value. *)
(***************************************************************************)
EXTENDS ThreadPool, Integers, FiniteSets

CONSTANTS
    Value,     \* what the list holds
    Caller,    \* the thread that calls parallel_quick_sort()
    None,
    Pending    \* a future without its value

ASSUME ValueAssumption == Value \subseteq Int /\ IsFiniteSet(Value) /\ Value # {}
ASSUME CallerAssumption == Caller \notin Worker
ASSUME NoneAssumption == None \notin Value /\ Pending # None

Thread == Worker \cup {Caller}
Task == [promise : Value, chunk : SUBSET Value]

VARIABLES
    stack,      \* the calls of DoSort() in progress, the innermost first
    lower,      \* the futures: None, Pending or the sorted lower part
    returned    \* what parallel_quick_sort() returned

vars == <<poolVars, stack, lower, returned>>

(* A call of DoSort(): where it is, the chunk it was called with, its       *)
(* partition value, its result so far, and the promise it is to fulfil if   *)
(* it is the call of a task.                                                *)
Frame == [at : {"called", "higher", "test", "help"}, chunk : SUBSET Value,
          partition_val : Value \cup {None}, result : Seq(Value),
          promise : Value \cup {None}]
Called(chunk, promise) ==
    [at |-> "called", chunk |-> chunk, partition_val |-> None, result |-> <<>>,
     promise |-> promise]

Init ==
    /\ PoolInit
    /\ stack = [t \in Thread |-> IF t = Caller THEN <<Called(Value, None)>> ELSE <<>>]
    /\ lower = [v \in Value |-> None]
    /\ returned = None

Innermost(t, at) == stack[t] # <<>> /\ Head(stack[t]).at = at

(* Lines 265-275.                                                           *)
Split(t) ==
    /\ Innermost(t, "called")
    /\ \E p \in Head(stack[t]).chunk :
          LET chunk == Head(stack[t]).chunk
              split == [Head(stack[t]) EXCEPT !.at = "higher", !.partition_val = p,
                                              !.result = <<p>>]
              higher == Called({v \in chunk : v > p}, None)
          IN  /\ Submit([promise |-> p, chunk |-> {v \in chunk : v < p}])
              /\ lower' = [lower EXCEPT ![p] = Pending]
              /\ stack' = [stack EXCEPT ![t] = <<higher, split>> \o Tail(@)]
    /\ UNCHANGED <<done, loop, returned>>

(* The innermost call of t returns: into the call that sorts a lower part,  *)
(* or, if it is the call of a task, into RunPendingTask() once the promise  *)
(* is fulfilled.                                                            *)
Return(t, result) ==
    LET frame == Head(stack[t])
        rest == Tail(stack[t])
        resumed == [rest[1] EXCEPT !.at = "test",
                       !.result = IF frame.promise = None THEN @ \o result ELSE @]
    IN  /\ stack' = [stack EXCEPT ![t] =
                        IF rest = <<>> THEN <<>> ELSE <<resumed>> \o Tail(rest)]
        /\ lower' = IF frame.promise = None THEN lower
                    ELSE [lower EXCEPT ![frame.promise] = result]
        /\ returned' = IF rest = <<>> /\ t = Caller THEN result ELSE returned
        /\ IF rest = <<>> /\ t \in Worker THEN TaskEnds(t) ELSE UNCHANGED loop
        /\ UNCHANGED <<work_queue, done>>

ReturnEmpty(t) ==
    /\ Innermost(t, "called")
    /\ Head(stack[t]).chunk = {}
    /\ Return(t, <<>>)

Ready(p) == lower[p] \notin {None, Pending}

(* Mutant: the sorted lower part is spliced to the end.                     *)
FinishSwapped(t) ==
    /\ Innermost(t, "test")
    /\ Ready(Head(stack[t]).partition_val)
    /\ Return(t, Head(stack[t]).result \o lower[Head(stack[t]).partition_val])

(* Mutant: an empty lower part is not waited for.                           *)
FinishUnlessEmpty(t) ==
    /\ Innermost(t, "test")
    /\ LET frame == Head(stack[t])
           p == frame.partition_val
       IN  \/ Ready(p) /\ Return(t, lower[p] \o frame.result)
           \/ (\A v \in frame.chunk : v >= p) /\ Return(t, frame.result)

Finish(t) ==
    /\ Innermost(t, "test")
    /\ Ready(Head(stack[t]).partition_val)
    /\ Return(t, lower[Head(stack[t]).partition_val] \o Head(stack[t]).result)

SetAt(t, at) == stack' = [stack EXCEPT ![t][1].at = at]

(* wait_for() times out; the future may become ready right after.           *)
TimedOut(t) ==
    /\ Innermost(t, "test")
    /\ ~Ready(Head(stack[t]).partition_val)
    /\ SetAt(t, "help")
    /\ UNCHANGED <<poolVars, lower, returned>>

RunTask(t, task) == stack' = [stack EXCEPT ![t] = <<Called(task.chunk, task.promise)>> \o @]

(* Mutant: the loop waits without running tasks.                            *)
HelpNobody(t) ==
    /\ Innermost(t, "help")
    /\ SetAt(t, "test")
    /\ UNCHANGED <<poolVars, lower, returned>>

(* RunPendingTask() as DoSort() calls it.                                   *)
Help(t) ==
    /\ Innermost(t, "help")
    /\ \/ /\ \E task \in Task : Pop(task) /\ RunTask(t, task)
          /\ UNCHANGED <<done, loop>>
       \/ /\ work_queue = <<>>
          /\ SetAt(t, "test")
          /\ UNCHANGED poolVars
    /\ UNCHANGED <<lower, returned>>

WorkerStep(w) ==
    /\ \/ \E task \in Task : TakeTask(w, task) /\ RunTask(w, task)
       \/ (TestDone(w) \/ Yield(w)) /\ UNCHANGED stack
    /\ UNCHANGED <<lower, returned>>

(* The destructor of Sorter.                                                *)
Destroy ==
    /\ returned # None
    /\ Shutdown
    /\ UNCHANGED <<stack, lower, returned>>

SortStep(t) == Split(t) \/ ReturnEmpty(t) \/ Finish(t) \/ TimedOut(t) \/ Help(t)

ThreadStep(t) == SortStep(t) \/ (t \in Worker /\ WorkerStep(t)) \/ (t = Caller /\ Destroy)

Ended == done /\ Joined

Next == (\E t \in Thread : ThreadStep(t)) \/ (Ended /\ UNCHANGED vars)

Spec == Init /\ [][Next]_vars /\ \A t \in Thread : WF_vars(ThreadStep(t))
-----------------------------------------------------------------------------
(* Properties.                                                              *)

TypeOK ==
    /\ PoolTypeOK(Task)
    /\ stack \in [Thread -> Seq(Frame)]
    /\ lower \in [Value -> {None, Pending} \cup Seq(Value)]
    /\ returned \in {None} \cup Seq(Value)

(* The list returned is sorted and has all the values, whoever sorted what  *)
(* on top of whose stack.                                                   *)
Sorted ==
    returned # None =>
        /\ Len(returned) = Cardinality(Value)
        /\ \A i \in DOMAIN returned : \A j \in 1 .. i - 1 : returned[j] < returned[i]
        /\ \A i \in DOMAIN returned : returned[i] \in Value

(* A part that was submitted and is not sorted is in exactly one place: in  *)
(* the queue, or on the stack of one thread.                                *)
Places(p) ==
    {<<"queue", i>> : i \in {j \in DOMAIN work_queue : work_queue[j].promise = p}}
        \cup UNION {{<<"stack", t, i>> : i \in {j \in DOMAIN stack[t] : stack[t][j].promise = p}}
                       : t \in Thread}
RunOnce ==
    \A p \in Value : Cardinality(Places(p)) = IF lower[p] = Pending THEN 1 ELSE 0

(* When the pool is destroyed, none of its tasks is queued or running: the  *)
(* workers that are joined have nothing left to do, and nothing is dropped. *)
NothingDropped == done => work_queue = <<>> /\ \A t \in Thread : stack[t] = <<>>

(* The sort ends and the workers are joined, though threads that wait pile  *)
(* the tasks of others on top of their own: no two threads can wait for     *)
(* what is buried in the stack of the other.                                *)
Termination == <>Ended
=============================================================================
