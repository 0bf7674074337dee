------------------------------- MODULE MCPools -------------------------------
(* The programs on thread pools in one run; which says what runs.           *)
EXTENDS PoolQuickSort

CONSTANTS Programs, max_thread_count
VARIABLES which, program, local, tried, status, aborted, threads, extending

Pools == INSTANCE PoolPrograms
Blocks == INSTANCE BlocksSort

programVars == <<program, local, tried, status, aborted>>
threadVars == <<threads, extending>>
allVars == <<vars, which, programVars, threadVars>>

NoProgram == program = 0 /\ local = 0 /\ tried = 0 /\ status = 0 /\ aborted = FALSE
NoThreads == threads = {} /\ extending = 0

PoolsInit ==
    \/ which = "quick sort" /\ Init /\ NoProgram /\ NoThreads
    \/ which = "blocks" /\ Blocks!BlocksInit /\ NoProgram
    \/ which = "program" /\ Pools!Init /\ lower = 0 /\ returned = None /\ NoThreads

Step(t) ==
    /\ UNCHANGED which
    /\ \/ which = "quick sort" /\ ThreadStep(t) /\ UNCHANGED <<programVars, threadVars>>
       \/ which = "blocks" /\ Blocks!BlocksStep(t) /\ UNCHANGED programVars
       \/ which = "program" /\ Pools!ThreadStep(t)
          /\ UNCHANGED <<lower, returned, threadVars>>

AllEnded ==
    CASE which = "quick sort" -> Ended
      [] which = "blocks" -> Blocks!BlocksEnded
      [] which = "program" -> Pools!Ended

PoolsNext == (\E t \in Thread : Step(t)) \/ (AllEnded /\ UNCHANGED allVars)
PoolsSpec == PoolsInit /\ [][PoolsNext]_allVars /\ \A t \in Thread : WF_allVars(Step(t))
-----------------------------------------------------------------------------
(* The programs that are tried, made of operators that do not depend on     *)
(* them.  In Nested, the tasks of nesting each submit one more and wait for *)
(* it.                                                                      *)
Mains == INSTANCE PoolPrograms WITH Programs <- {}
Nested(pool, mainWaits, taskWaits, nesting) ==
    LET tasks == 0 .. 2 + Cardinality(nesting)
    IN [pool |-> pool,
        children |-> [task \in tasks |-> CASE task = 0 -> <<1, 2>>
                                            [] task \in nesting -> <<task + 2>>
                                            [] OTHER -> <<>>],
        waits |-> [task \in tasks |-> IF task = 0 THEN mainWaits ELSE taskWaits]]
MCPrograms ==
    {Mains!SimpleMain, Mains!ExpectationMain, Mains!LocalMain, Mains!StealingMain(3),
     Mains!AccumulateMain(27),
     Nested("stealing", "get", "help", {1, 2}), Nested("stealing", "help", "help", {1}),
     Nested("stealing", "help", "get", {1, 2}), Nested("local", "help", "help", {1, 2})}
-----------------------------------------------------------------------------
(* Properties.                                                              *)

(* Both sorts return the sorted list, whoever sorted what on top of whose   *)
(* stack, and whichever chunk was taken next.                               *)
SortsSorted == which # "program" => Sorted

(* What was submitted and has not run is in exactly one place, through      *)
(* taking, stealing and nesting.                                            *)
EachRunOnce ==
    /\ which = "quick sort" => RunOnce
    /\ which = "blocks" => Blocks!RunOnce
    /\ which = "program" => Pools!InOnePlace

(* Nothing is queued, running or about to be started when the destructor    *)
(* stops the threads, except in simple-thread-pool.cpp; and the assertion   *)
(* of the pool with local queues fails only for nested tasks.               *)
NoneDropped ==
    /\ which = "quick sort" => NothingDropped
    /\ which = "blocks" => Blocks!BlocksNothingDropped
    /\ which = "program" => Pools!NothingAbandoned /\ Pools!AssertionHolds

(* All programs end and join their threads, though threads that wait run    *)
(* the tasks of others on top of their own.                                 *)
AllTerminate == <>AllEnded
=============================================================================
