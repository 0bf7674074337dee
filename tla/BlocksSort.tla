------------------------------ MODULE BlocksSort ------------------------------
(***************************************************************************)
(* src/quick-sort-with-blocks-stack.cpp: the recursion of PoolQuickSort    *)
(* with two differences.  Chunks wait on a lock-free stack (the code of    *)
(* CountedStack, taken for an atomic stack here), and there is no pool:    *)
(* each do_sort() starts one more thread as long as there are too few.     *)
(*                                                                         *)
(* The vector of the threads has no lock.  Testing its size and extending  *)
(* it are steps of their own, so that both may be decided on an old size;  *)
(* two push_back() at once are undefined behaviour, and are taken for two  *)
(* in a row.                                                               *)
(***************************************************************************)
EXTENDS PoolQuickSort

CONSTANT max_thread_count
VARIABLES
    threads,     \* the workers that were started
    extending    \* where each thread is in lines 129-132

blockVars == <<vars, threads, extending>>

BlocksInit ==
    /\ Init
    /\ threads = {}
    /\ extending = [t \in Thread |-> "no"]

Extend(t, from, to) == extending[t] = from /\ extending' = [extending EXCEPT ![t] = to]

(* work_queue holds the stack, its top last: pushing is what Submit() does. *)
PushChunk(t) ==
    /\ extending[t] = "no"
    /\ Split(t)
    /\ Extend(t, "no", "test")
    /\ UNCHANGED threads

TestSize(t) ==
    /\ Extend(t, "test", IF Cardinality(threads) < max_thread_count THEN "push" ELSE "no")
    /\ UNCHANGED <<vars, threads>>

StartThread(t) ==
    /\ Extend(t, "push", "no")
    /\ Worker # threads
    /\ threads' = threads \cup {CHOOSE w \in Worker : w \notin threads}
    /\ UNCHANGED vars

(* Mutant: the chunk stays on the stack.                                    *)
PopChunkKeeps(chunk) ==
    /\ work_queue # <<>>
    /\ chunk = work_queue[Len(work_queue)]
    /\ UNCHANGED work_queue

PopChunk(chunk) ==
    /\ work_queue # <<>>
    /\ chunk = work_queue[Len(work_queue)]
    /\ work_queue' = SubSeq(work_queue, 1, Len(work_queue) - 1)

(* try_sort_chunk(), called by do_sort() and by sort_thread().              *)
TrySortChunk(t) ==
    /\ IF Innermost(t, "help") THEN UNCHANGED loop ELSE Goto(t, "run", "busy")
    /\ \E chunk \in Task : PopChunk(chunk) /\ RunTask(t, chunk)
    /\ UNCHANGED <<done, lower, returned>>

FindNoChunk(t) ==
    /\ work_queue = <<>>
    /\ IF Innermost(t, "help") THEN SetAt(t, "test") /\ UNCHANGED loop
       ELSE Goto(t, "run", "test") /\ UNCHANGED stack
    /\ UNCHANGED <<work_queue, done, lower, returned>>

SortThread(w) == TestDone(w) /\ UNCHANGED <<stack, lower, returned>>

BlocksStep(t) ==
    \/ PushChunk(t) \/ TestSize(t) \/ StartThread(t)
    \/ /\ extending[t] = "no"
       /\ \/ ReturnEmpty(t) \/ Finish(t) \/ TimedOut(t)
          \/ Innermost(t, "help") /\ (TrySortChunk(t) \/ FindNoChunk(t))
          \/ t \in threads /\ loop[t] = "run" /\ (TrySortChunk(t) \/ FindNoChunk(t))
          \/ t \in threads /\ SortThread(t)
          \/ t = Caller /\ Destroy
       /\ UNCHANGED <<threads, extending>>

BlocksEnded == done /\ \A w \in threads : loop[w] = "left"

(* When the destructor walks through threads, nobody sorts any more, so     *)
(* that nobody extends it then.                                             *)
BlocksNothingDropped == NothingDropped /\ (done => \A t \in Thread : extending[t] = "no")
=============================================================================
