---------------------------- MODULE ParallelBlocks ----------------------------
(***************************************************************************)
(* The algorithms that cut a range into blocks, one per thread, the last   *)
(* one for the calling thread: parallel-for-each.cpp, parallel-accumulate  *)
(* .cpp, parallel-accumulate-packaged-task.cpp, parallel-find.cpp and      *)
(* parallel-partial-sum.cpp; and parallel-functions.cpp, which deals the   *)
(* elements out in turn and has the calling thread wait.                   *)
(*                                                                         *)
(* Threads are numbered in the order in which they are started; the        *)
(* calling thread is number num_threads.                                   *)
(***************************************************************************)
EXTENDS Integers, Sequences, FiniteSets, FiniteSetsExt, SequencesExt

CONSTANTS
    Algorithms,            \* which of them are run
    Lengths,               \* of the range; every call returns at once from an empty one
    hardware_concurrency,  \* the values that it may have
    min_per_thread,
    Matches                \* the sets of positions at which parallel_find() finds a match

VARIABLES
    which, data_length, num_threads, matches,   \* the call
    block_start,
    block,        \* what each thread has still to visit, in order
    chunk,        \* history: what it was given
    pc,
    sum,          \* what each thread has added up
    visits,       \* history: how often f was called for each element
    element,      \* the elements, which parallel_partial_sum() changes
    end_values,   \* the promises between its chunks, 0 until they are set
    done_flag, result,
    returned

vars == <<which, data_length, num_threads, matches, block_start, block, chunk, pc, sum, visits,
          element, end_values, done_flag, result, returned>>

NumThreads(length, hardware) ==
    LET max_threads == (length + min_per_thread - 1) \div min_per_thread
    IN  Min({IF hardware # 0 THEN hardware ELSE 2, max_threads})

block_size == data_length \div num_threads
Threads == 1 .. num_threads
Main == num_threads
Workers == Threads \ {Main}

(* Powers of two: no two sets of elements have the same sum.                *)
Input == [k \in 1 .. data_length |-> 2^k]
Add(a, b) == a + b

Init ==
    /\ which \in Algorithms
    /\ data_length \in Lengths
    /\ num_threads \in IF which = "execute_parallel" THEN {threadnum + 1 : threadnum \in 1 .. 3}
                       ELSE {NumThreads(data_length, h) : h \in hardware_concurrency}
    /\ matches \in IF which = "find" THEN {m \cap (1 .. data_length) : m \in Matches} ELSE {{}}
    /\ block_start = 1
    /\ block = [t \in Threads |-> <<>>] /\ chunk = block
    /\ pc = [t \in Threads |-> IF t = Main THEN "start" ELSE "not started"]
    /\ sum = [t \in Threads |-> 0]
    /\ visits = [k \in 1 .. data_length |-> 0]
    /\ element = Input
    /\ end_values = [t \in Threads |-> 0]
    /\ done_flag = FALSE /\ result = 0
    /\ returned = FALSE

Goto(t, from, to) == pc[t] = from /\ pc' = [pc EXCEPT ![t] = to]
Joined == \A t \in Workers : pc[t] = "ended"
FirstStep == CASE which = "find" -> "test" [] which = "partial_sum" -> "add up" [] OTHER -> "visit"
After(t) == IF t \in Workers THEN "ended" ELSE IF which = "packaged" THEN "return" ELSE "join"

-----------------------------------------------------------------------------
(* The calling thread starts the next one, on the next block_size elements. *)
Give(t, elements) ==
    /\ block' = [block EXCEPT ![t] = elements]
    /\ chunk' = [chunk EXCEPT ![t] = elements]

Span(from, to) == [k \in 1 .. to - from + 1 |-> from + k - 1]
Dealt(t) == SelectSeq(Span(1, data_length), LAMBDA k : (k - 1) % (num_threads - 1) = t - 1)

StartThread ==
    \E t \in Workers :
        /\ pc[Main] = "start"
        /\ pc[t] = "not started"
        /\ \A u \in 1 .. t - 1 : pc[u] # "not started"
        /\ pc' = [pc EXCEPT ![t] = FirstStep]
        /\ IF which = "execute_parallel"
           THEN Give(t, Dealt(t)) /\ UNCHANGED block_start
           ELSE /\ Give(t, Span(block_start, block_start + block_size - 1))
                /\ block_start' = block_start + block_size
        /\ UNCHANGED <<which, data_length, num_threads, matches, sum, visits, element, end_values,
                       done_flag, result, returned>>

(* Mutant: the calling thread takes block_size elements like the others.    *)
TakeBlockOnly ==
    /\ \A t \in Workers : pc[t] # "not started"
    /\ Goto(Main, "start", IF which \in {"packaged", "execute_parallel"} THEN "join" ELSE FirstStep)
    /\ Give(Main, IF which = "execute_parallel" THEN <<>>
                  ELSE Span(block_start, block_start + block_size - 1))
    /\ UNCHANGED <<which, data_length, num_threads, matches, block_start, sum, visits, element,
                   end_values, done_flag, result, returned>>

(* It takes what is left, or waits for the others first.                    *)
TakeRest ==
    /\ \A t \in Workers : pc[t] # "not started"
    /\ Goto(Main, "start", IF which \in {"packaged", "execute_parallel"} THEN "join" ELSE FirstStep)
    /\ Give(Main, IF which = "execute_parallel" THEN <<>> ELSE Span(block_start, data_length))
    /\ UNCHANGED <<which, data_length, num_threads, matches, block_start, sum, visits, element,
                   end_values, done_flag, result, returned>>

(* for_each, accumulate, multi_execute                                      *)
Visit(t) ==
    /\ pc[t] = "visit"
    /\ \/ /\ block[t] # <<>>
          /\ visits' = [visits EXCEPT ![Head(block[t])] = @ + 1]
          /\ sum' = [sum EXCEPT ![t] = @ + element[Head(block[t])]]
          /\ block' = [block EXCEPT ![t] = Tail(@)]
          /\ UNCHANGED pc
       \/ /\ block[t] = <<>>
          /\ Goto(t, "visit", After(t))
          /\ UNCHANGED <<visits, sum, block>>
    /\ UNCHANGED <<which, data_length, num_threads, matches, block_start, chunk, element, end_values,
                   done_flag, result, returned>>

-----------------------------------------------------------------------------
(* FindElement: the flag is tested before each element.                     *)
Test(t) ==
    /\ LET stop == block[t] = <<>> \/ done_flag
       IN  /\ Goto(t, "test", IF stop THEN After(t)
                              ELSE IF Head(block[t]) \in matches THEN "set value" ELSE "test")
           /\ block' = [block EXCEPT ![t] = IF stop \/ Head(@) \in matches THEN @ ELSE Tail(@)]
    /\ UNCHANGED <<which, data_length, num_threads, matches, block_start, chunk, sum, visits, element,
                   end_values, done_flag, result, returned>>

(* The second one to set the value gets an exception, and another one when  *)
(* it tries to set that: its store of the flag is skipped.                  *)
SetValue(t) ==
    /\ \/ /\ result = 0
          /\ Goto(t, "set value", "store")
          /\ result' = Head(block[t])
       \/ /\ result # 0
          /\ Goto(t, "set value", After(t))
          /\ UNCHANGED result
    /\ UNCHANGED <<which, data_length, num_threads, matches, block_start, block, chunk, sum, visits,
                   element, end_values, done_flag, returned>>
StoreFlag(t) ==
    /\ Goto(t, "store", After(t))
    /\ done_flag' = TRUE
    /\ UNCHANGED <<which, data_length, num_threads, matches, block_start, block, chunk, sum, visits,
                   element, end_values, result, returned>>

-----------------------------------------------------------------------------
(* ProcessChunk: std::partial_sum over the chunk...                         *)
First(t) == Head(chunk[t])
LastOf(t) == Last(chunk[t])
AddUp(t) ==
    /\ Goto(t, "add up", IF t = 1 THEN "set end" ELSE "get")
    /\ element' = [k \in 1 .. data_length |->
                      IF k \in ToSet(chunk[t])
                      THEN FoldLeft(Add, 0, SubSeq(element, First(t), k)) ELSE element[k]]
    /\ UNCHANGED <<which, data_length, num_threads, matches, block_start, block, chunk, sum, visits,
                   end_values, done_flag, result, returned>>

(* ... the last one's end value is waited for and added to the last ...     *)
GetPrevious(t) ==
    /\ Goto(t, "get", "set end")
    /\ end_values[t - 1] # 0
    /\ sum' = [sum EXCEPT ![t] = end_values[t - 1]]
    /\ element' = [element EXCEPT ![LastOf(t)] = @ + sum'[t]]
    /\ UNCHANGED <<which, data_length, num_threads, matches, block_start, block, chunk, visits,
                   end_values, done_flag, result, returned>>

(* ... which is passed on, unless this is the last chunk ...                *)
SetEnd(t) ==
    /\ Goto(t, "set end", "add rest")
    /\ end_values' = [end_values EXCEPT ![t] = IF t = Main THEN @ ELSE element[LastOf(t)]]
    /\ UNCHANGED <<which, data_length, num_threads, matches, block_start, block, chunk, sum, visits,
                   element, done_flag, result, returned>>

(* ... before it is added to the others.                                    *)
AddRest(t) ==
    /\ Goto(t, "add rest", After(t))
    /\ element' = [k \in 1 .. data_length |->
                      IF k \in ToSet(chunk[t]) \ {LastOf(t)} THEN element[k] + sum[t] ELSE element[k]]
    /\ UNCHANGED <<which, data_length, num_threads, matches, block_start, block, chunk, sum, visits,
                   end_values, done_flag, result, returned>>

-----------------------------------------------------------------------------
(* The joins, and the sum of the results.                                   *)
Join ==
    /\ Joined
    /\ Goto(Main, "join", IF which = "packaged" THEN "visit" ELSE "return")
    /\ UNCHANGED <<which, data_length, num_threads, matches, block_start, block, chunk, sum, visits,
                   element, end_values, done_flag, result, returned>>

Return ==
    /\ Goto(Main, "return", "ended")
    /\ result' = CASE which = "find" -> IF done_flag THEN result ELSE data_length + 1
                   [] which = "partial_sum" -> 0
                   [] OTHER -> FoldLeft(Add, 0, sum)
    /\ returned' = TRUE
    /\ UNCHANGED <<which, data_length, num_threads, matches, block_start, block, chunk, sum, visits,
                   element, end_values, done_flag>>

ThreadStep(t) ==
    \/ Visit(t) \/ Test(t) \/ SetValue(t) \/ StoreFlag(t)
    \/ AddUp(t) \/ GetPrevious(t) \/ SetEnd(t) \/ AddRest(t)
MainStep == StartThread \/ TakeRest \/ Join \/ Return

Step == MainStep \/ \E t \in Threads : ThreadStep(t)
Ended == returned
Next == Step \/ (Ended /\ UNCHANGED vars)
Spec == Init /\ [][Next]_vars /\ WF_vars(Step)

-----------------------------------------------------------------------------
(* Properties.                                                              *)

(* The blocks are disjoint, however the range divides: no two threads work  *)
(* on one element, and when all have theirs no element is left out.         *)
BlocksApart ==
    /\ \A t, u \in Threads : t # u => ToSet(chunk[t]) \cap ToSet(chunk[u]) = {}
    /\ pc[Main] \notin {"start"} => UNION {ToSet(chunk[t]) : t \in Threads} = 1 .. data_length

(* What the caller gets is what one thread would have computed: each        *)
(* element once, the sum of all, the sum of each prefix, or a match - some  *)
(* match, not the first - whenever there is one.                            *)
Results ==
    returned =>
        CASE which = "find" -> IF matches = {} THEN result = data_length + 1 ELSE result \in matches
          [] which = "partial_sum" ->
                 \A k \in 1 .. data_length : element[k] = FoldLeft(Add, 0, SubSeq(Input, 1, k))
          [] OTHER -> /\ result = FoldLeft(Add, 0, Input)
                      /\ \A k \in 1 .. data_length : visits[k] = 1

(* Every call returns: no chunk waits for an end value that is never set.   *)
Termination == <>Ended
=============================================================================
