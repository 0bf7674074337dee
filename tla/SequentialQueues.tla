--------------------------- MODULE SequentialQueues ---------------------------
(***************************************************************************)
(* The two queues for one thread: src/simple-one-thread-queue.cpp, whose   *)
(* push() sets tail in an empty queue only, and one-thread-queue-with-odd- *)
(* vertex.cpp, which keeps a dummy node behind the last value.  Nodes are  *)
(* numbered in the order of their allocation, and 0 is a null pointer.     *)
(***************************************************************************)
EXTENDS Integers, Sequences

CONSTANT MaxPushes      \* bound on the calls of push()

VARIABLES
    dummy,        \* whether this is the queue with the odd vertex
    head, tail,
    next, value,  \* per node
    live,         \* the nodes that are allocated
    pushed,       \* history: how often push() was called; it pushes that number
    popped,       \* history: what try_pop() returned, 0 for nothing
    dangling      \* push() has written through a dangling tail

vars == <<dummy, head, tail, next, value, live, pushed, popped, dangling>>

Null == 0

Init ==
    /\ dummy \in BOOLEAN
    /\ IF dummy THEN head = 1 /\ tail = 1 /\ next = <<Null>> /\ value = <<Null>> /\ live = {1}
                ELSE head = Null /\ tail = Null /\ next = <<>> /\ value = <<>> /\ live = {}
    /\ pushed = 0
    /\ popped = <<>>
    /\ dangling = FALSE

New == Len(next) + 1
(* The node that a unique_ptr gives up takes those behind it with it.       *)
Behind(n) == LET Follow[m \in 0 .. Len(next)] == IF m = Null THEN {} ELSE {m} \cup Follow[next[m]]
             IN  Follow[n]

push ==
    /\ pushed < MaxPushes /\ ~dangling
    /\ pushed' = pushed + 1
    /\ IF dummy
       THEN /\ value' = Append([value EXCEPT ![tail] = pushed'], Null)
            /\ next' = Append([next EXCEPT ![tail] = New], Null)
            /\ tail' = New
            /\ live' = live \cup {New}
            /\ UNCHANGED <<head, dangling>>
       ELSE /\ value' = Append(value, pushed')
            /\ IF tail = Null
               THEN /\ head' = New /\ tail' = New
                    /\ next' = Append(next, Null)
                    /\ live' = live \cup {New}
                    /\ UNCHANGED dangling
               ELSE /\ next' = Append([next EXCEPT ![tail] = New], Null)
                    /\ live' = (live \ Behind(next[tail])) \cup {New}
                    /\ dangling' = (tail \notin live)
                    /\ UNCHANGED <<head, tail>>
    /\ UNCHANGED <<dummy, popped>>

(* Mutant: the odd vertex is taken to be in front of the first value.       *)
try_pop_Behind ==
    /\ ~dangling
    /\ IF head = (IF dummy THEN tail ELSE Null)
       THEN popped' = Append(popped, 0) /\ UNCHANGED <<head, live, next>>
       ELSE /\ popped' = Append(popped, IF next[head] = Null THEN 0 ELSE value[next[head]])
            /\ head' = next[head]
            /\ live' = live \ {head}
            /\ next' = [next EXCEPT ![head] = Null]
    /\ UNCHANGED <<dummy, tail, value, pushed, dangling>>

try_pop ==
    /\ ~dangling
    /\ IF head = (IF dummy THEN tail ELSE Null)
       THEN popped' = Append(popped, 0) /\ UNCHANGED <<head, live, next>>
       ELSE /\ popped' = Append(popped, value[head])
            /\ head' = next[head]
            /\ live' = live \ {head}
            /\ next' = [next EXCEPT ![head] = Null]
    /\ UNCHANGED <<dummy, tail, value, pushed, dangling>>

(* Every caller stops; one more try_pop() than push() finds nothing.        *)
Step == push \/ (Len(popped) <= pushed /\ try_pop)
Ended == dangling \/ (pushed = MaxPushes /\ Len(popped) > pushed)
Next == Step \/ (Ended /\ UNCHANGED vars)
Spec == Init /\ [][Next]_vars

-----------------------------------------------------------------------------
(* Properties.                                                              *)

Contents ==
    LET Follow[n \in 0 .. Len(next)] ==
            IF n = (IF dummy THEN tail ELSE Null) THEN <<>> ELSE <<value[n]>> \o Follow[next[n]]
    IN  IF dangling THEN <<>> ELSE Follow[head]
Taken == SelectSeq(popped, LAMBDA v : v # 0)

(* With the odd vertex the queue is first in, first out for good.  Without  *)
(* it, because tail stays on the first node, that is so for two calls of    *)
(* push() before the first value is popped; a third one frees the second    *)
(* value, and one after the first pop writes through the dangling tail.     *)
FirstInFirstOut ==
    LET all == Taken \o Contents
    IN  IF dummy \/ (pushed <= 2 /\ ~dangling)
        THEN all = [i \in 1 .. pushed |-> i]
        ELSE dangling \/ all = <<1, pushed>>
NoneDangling == dangling => ~dummy /\ \E i \in DOMAIN popped : popped[i] # 0
=============================================================================
