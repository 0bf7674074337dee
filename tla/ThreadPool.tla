------------------------------ MODULE ThreadPool ------------------------------
(***************************************************************************)
(* The class ThreadPool of src/quick-sort-with-thread-pool.cpp: workers    *)
(* that take tasks from one shared queue until the pool is destroyed.      *)
(* Clients compose Submit and Pop with actions of their own; a task that   *)
(* a worker took is the client's until it calls TaskEnds.                  *)
(*                                                                         *)
(* The lock-free queue inside is taken for a FIFO queue whose operations   *)
(* are atomic.  RefCountQueue has the real one, and how far it is one.     *)
(***************************************************************************)
EXTENDS Sequences

CONSTANT Worker

VARIABLES
    work_queue,
    done,
    loop         \* where each worker is inside WorkerThread()

poolVars == <<work_queue, done, loop>>

PoolTypeOK(Task) ==
    /\ work_queue \in Seq(Task)
    /\ done \in BOOLEAN
    /\ loop \in [Worker -> {"test", "run", "busy", "left"}]

(* thread_count, std::thread::hardware_concurrency(), may well be 0.        *)
PoolInit ==
    /\ work_queue = <<>>
    /\ done = FALSE
    /\ loop = [w \in Worker |-> "test"]

Goto(w, from, to) ==
    /\ loop[w] = from
    /\ loop' = [loop EXCEPT ![w] = to]

Submit(task) == work_queue' = Append(work_queue, task)

(* Mutant: the task that is returned stays in the queue.                    *)
PopKeeps(task) ==
    /\ work_queue # <<>>
    /\ task = Head(work_queue)
    /\ UNCHANGED work_queue

Pop(task) ==
    /\ work_queue # <<>>
    /\ task = Head(work_queue)
    /\ work_queue' = Tail(work_queue)

-----------------------------------------------------------------------------
(* WorkerThread(), and RunPendingTask() as it calls it                      *)

TestDone(w) ==
    /\ Goto(w, "test", IF done THEN "left" ELSE "run")
    /\ UNCHANGED <<work_queue, done>>

TakeTask(w, task) ==
    /\ Goto(w, "run", "busy")
    /\ Pop(task)
    /\ UNCHANGED done

Yield(w) ==
    /\ Goto(w, "run", "test")
    /\ work_queue = <<>>
    /\ UNCHANGED <<work_queue, done>>

TaskEnds(w) == Goto(w, "busy", "test")

-----------------------------------------------------------------------------
(* ~ThreadPool() and the ~JoinThreads() that follows it.                    *)
Shutdown ==
    /\ ~done
    /\ done' = TRUE
    /\ UNCHANGED <<work_queue, loop>>

Joined == \A w \in Worker : loop[w] = "left"
=============================================================================
