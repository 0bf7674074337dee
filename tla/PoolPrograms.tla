----------------------------- MODULE PoolPrograms -----------------------------
(***************************************************************************)
(* The other five thread pools and the programs that use them: those with  *)
(* one shared queue (src/simple-thread-pool.cpp,                           *)
(* src/thread-pool-with-expectation.cpp,                                   *)
(* src/parallel-accumulate-thread-pool.cpp), with a queue per worker       *)
(* (src/thread-pool-local-memory.cpp) and with queues per worker that      *)
(* others steal from (src/thread-pool-work-stealing.cpp).  All run the     *)
(* WorkerThread() loop of ThreadPool; they differ in where they look for a *)
(* task and where Submit() puts one.                                       *)
(*                                                                         *)
(* A program is a tree of tasks.  main() is the root, a task that runs in  *)
(* the caller; a task submits its children one after the other and then    *)
(* leaves them alone, blocks in get() on each, or runs pending tasks until *)
(* each is there, as DoSort() in quick-sort-with-thread-pool.cpp does.     *)
(***************************************************************************)
EXTENDS ThreadPool, Integers, FiniteSets

CONSTANTS
    Caller,      \* the thread that runs main()
    Programs     \* the programs that are tried

VARIABLES
    program,
    local,       \* the queues of the workers, their front first
    stack,       \* the tasks each thread is in, the innermost first
    tried,       \* in how many places RunPendingTask() found nothing
    status,      \* "new", "pending" or "run", of every task
    aborted      \* assert(false) was reached

vars == <<poolVars, program, local, stack, tried, status, aborted>>

Thread == Worker \cup {Caller}
Tasks == DOMAIN program.children

(* The workers are numbered from 0; my_index of other threads is 0 too.     *)
Pool == -1      \* the shared queue, among the places that are looked in
my_index(t) == IF t \in Worker THEN t ELSE 0

-----------------------------------------------------------------------------
(* The programs of the repository                                           *)

Leaves(n) == [task \in 0 .. n |-> IF task = 0 THEN [i \in 1 .. n |-> i] ELSE <<>>]
MainOnly(pool, n, wait) ==
    [pool |-> pool, children |-> Leaves(n),
     waits |-> [task \in 0 .. n |-> IF task = 0 THEN wait ELSE "leave"]]

SimpleMain == MainOnly("simple", 3, "leave")
ExpectationMain == MainOnly("expectation", 2, "get")
LocalMain == MainOnly("local", 1, "get")
StealingMain(n) == MainOnly("stealing", n, "get")

block_size == 5
num_blocks(data_length) == (data_length + block_size - 1) \div block_size
AccumulateMain(data_length) == MainOnly("accumulate", num_blocks(data_length) - 1, "get")

Init ==
    /\ program \in Programs
    /\ PoolInit
    /\ local = [w \in Worker |-> <<>>]
    /\ tried = [t \in Thread |-> 0]
    /\ status = [task \in Tasks |-> IF task = 0 THEN "pending" ELSE "new"]
    /\ stack = [t \in Thread |-> IF t = Caller THEN <<[task |-> 0, at |-> "submit", next |-> 1]>>
                                 ELSE <<>>]
    /\ aborted = FALSE

-----------------------------------------------------------------------------
(* Where RunPendingTask() looks, in order.                                  *)
SimplePlaces == <<Pool>>
ExpectationPlaces == <<Pool>>
AccumulatePlaces == <<Pool>>
LocalPlaces(t) == IF t \in Worker THEN <<t, Pool>> ELSE <<Pool>>

Others(t) ==
    LET size == Cardinality(Worker)
    IN  [i \in 1 .. size - 1 |-> (my_index(t) + i) % size]
(* Mutant: the loop stops one queue too early.                              *)
OthersButOne(t) ==
    LET size == Cardinality(Worker)
    IN  [i \in 1 .. size - 2 |-> (my_index(t) + i) % size]
StealingPlaces(t) == (IF t \in Worker THEN <<t>> ELSE <<>>) \o <<Pool>> \o Others(t)

PlacesOf(t) ==
    CASE program.pool = "simple" -> SimplePlaces
      [] program.pool = "expectation" -> ExpectationPlaces
      [] program.pool = "accumulate" -> AccumulatePlaces
      [] program.pool = "local" -> LocalPlaces(t)
      [] program.pool = "stealing" -> StealingPlaces(t)

Content(place) == IF place = Pool THEN work_queue ELSE local[place]

(* The task that t would take from a place, and taking it.  Only a worker   *)
(* takes from the front of its queue; thieves take from the back.           *)
TryPop(t, task) ==
    /\ task = Head(local[t])
    /\ local' = [local EXCEPT ![t] = Tail(@)]

(* Mutant: the task stays at the back of the queue.                         *)
TryStealKeeps(w, task) ==
    /\ task = local[w][Len(local[w])]
    /\ UNCHANGED local

TrySteal(w, task) ==
    /\ task = local[w][Len(local[w])]
    /\ local' = [local EXCEPT ![w] = SubSeq(@, 1, Len(@) - 1)]

PopTaskFrom(t, place, task) ==
    \/ place = Pool /\ Pop(task) /\ UNCHANGED local
    \/ place = t /\ TryPop(t, task) /\ UNCHANGED work_queue
    \/ place \in Worker \ {t} /\ TrySteal(place, task) /\ UNCHANGED work_queue

-----------------------------------------------------------------------------
(* RunPendingTask(), called by WorkerThread() and by a task that waits.     *)
Innermost(t, at) == stack[t] # <<>> /\ Head(stack[t]).at = at
SetAt(t, at) == stack' = [stack EXCEPT ![t][1].at = at]

Looking(t) == \/ t \in Worker /\ loop[t] = "run"
              \/ Innermost(t, "help")
Place(t) == PlacesOf(t)[tried[t] + 1]

Stop(t, at) ==
    IF Innermost(t, "help") THEN SetAt(t, "wait") /\ UNCHANGED loop
    ELSE Goto(t, "run", at) /\ UNCHANGED stack

FindNothing(t) ==
    /\ Looking(t)
    /\ Content(Place(t)) = <<>>
    /\ IF tried[t] + 1 = Len(PlacesOf(t))
       THEN tried' = [tried EXCEPT ![t] = 0] /\ Stop(t, "test")
       ELSE tried' = [tried EXCEPT ![t] = @ + 1] /\ UNCHANGED <<loop, stack>>
    /\ UNCHANGED <<work_queue, done, program, local, status, aborted>>

Asserts(t) == program.pool = "local" /\ Place(t) = t

FindTask(t) ==
    /\ Looking(t)
    /\ Content(Place(t)) # <<>>
    /\ ~Asserts(t)
    /\ \E task \in Tasks :
          /\ PopTaskFrom(t, Place(t), task)
          /\ stack' = [stack EXCEPT ![t] =
                 <<[task |-> task, at |-> "submit", next |-> 1]>> \o
                 (IF Innermost(t, "help") THEN <<[@[1] EXCEPT !.at = "wait"]>> \o Tail(@)
                  ELSE @)]
    /\ IF Innermost(t, "help") THEN UNCHANGED loop ELSE Goto(t, "run", "busy")
    /\ tried' = [tried EXCEPT ![t] = 0]
    /\ UNCHANGED <<done, program, status, aborted>>

(* assert(false) in RunPendingTask() of LocalMemoryThreadPool.              *)
FailAssertion(t) ==
    /\ Looking(t)
    /\ Content(Place(t)) # <<>>
    /\ Asserts(t)
    /\ aborted' = TRUE
    /\ UNCHANGED <<poolVars, program, local, stack, tried, status>>

-----------------------------------------------------------------------------
(* A task                                                                   *)

LocalSubmit(t, task) ==
    IF t \in Worker
    THEN local' = [local EXCEPT ![t] = Append(@, task)] /\ UNCHANGED work_queue
    ELSE Submit(task) /\ UNCHANGED local
StealingSubmit(t, task) ==
    IF t \in Worker
    THEN local' = [local EXCEPT ![t] = <<task>> \o @] /\ UNCHANGED work_queue
    ELSE Submit(task) /\ UNCHANGED local

ChildrenOf(frame) == program.children[frame.task]
Advance(t) == stack' = [stack EXCEPT ![t][1].next = @ + 1]

SubmitChild(t) ==
    /\ Innermost(t, "submit")
    /\ LET frame == Head(stack[t])
       IN  /\ frame.next \in DOMAIN ChildrenOf(frame)
           /\ LET child == ChildrenOf(frame)[frame.next]
              IN  /\ CASE program.pool = "local" -> LocalSubmit(t, child)
                       [] program.pool = "stealing" -> StealingSubmit(t, child)
                       [] OTHER -> Submit(child) /\ UNCHANGED local
                  /\ status' = [status EXCEPT ![child] = "pending"]
    /\ Advance(t)
    /\ UNCHANGED <<done, loop, program, tried, aborted>>

SubmittedAll(t) ==
    /\ Innermost(t, "submit")
    /\ LET frame == Head(stack[t])
       IN  /\ frame.next > Len(ChildrenOf(frame))
           /\ program.waits[frame.task] # "leave"
           /\ stack' = [stack EXCEPT ![t][1] = [frame EXCEPT !.at = "wait", !.next = 1]]
    /\ UNCHANGED <<poolVars, program, local, tried, status, aborted>>

(* get(), or wait_for() and RunPendingTask() until the child is there.      *)
AwaitChild(t) ==
    /\ Innermost(t, "wait")
    /\ LET frame == Head(stack[t])
           there == status[ChildrenOf(frame)[frame.next]] = "run"
       IN  /\ frame.next <= Len(ChildrenOf(frame))
           /\ \/ there /\ Advance(t)
              \/ ~there /\ program.waits[frame.task] = "help" /\ SetAt(t, "help")
    /\ UNCHANGED <<poolVars, program, local, tried, status, aborted>>

(* Mutant: the last child is not waited for.                                *)
EndsEarly(frame) ==
    \/ frame.at = "wait" /\ frame.next >= Len(ChildrenOf(frame))
    \/ frame.next > Len(ChildrenOf(frame)) /\ program.waits[frame.task] = "leave"
Ends(frame) ==
    /\ frame.next > Len(ChildrenOf(frame))
    /\ frame.at = "wait" \/ program.waits[frame.task] = "leave"

(* The task returns, its promise is fulfilled; main() destroys the pool.    *)
EndTask(t) ==
    /\ stack[t] # <<>>
    /\ Ends(Head(stack[t]))
    /\ status' = [status EXCEPT ![Head(stack[t]).task] = "run"]
    /\ stack' = [stack EXCEPT ![t] = Tail(@)]
    /\ IF t = Caller /\ Tail(stack[t]) = <<>> THEN Shutdown
       ELSE /\ IF Tail(stack[t]) = <<>> THEN TaskEnds(t) ELSE UNCHANGED loop
            /\ UNCHANGED <<work_queue, done>>
    /\ UNCHANGED <<program, local, tried, aborted>>

Ended == aborted \/ (done /\ Joined)

ThreadStep(t) ==
    /\ ~aborted
    /\ \/ SubmitChild(t) \/ SubmittedAll(t) \/ AwaitChild(t) \/ EndTask(t)
       \/ FindNothing(t) \/ FindTask(t) \/ FailAssertion(t)
       \/ t \in Worker /\ TestDone(t) /\ UNCHANGED <<program, local, stack, tried, status, aborted>>

Next == (\E t \in Thread : ThreadStep(t)) \/ (Ended /\ UNCHANGED vars)

Spec == Init /\ [][Next]_vars /\ \A t \in Thread : WF_vars(ThreadStep(t))

-----------------------------------------------------------------------------
(* Properties.                                                              *)

(* A task that was submitted and has not run is in exactly one place: in    *)
(* one of the queues, or on the stack of one thread, whoever steals it.     *)
PlacesWith(task) ==
    {<<Pool, i>> : i \in {j \in DOMAIN work_queue : work_queue[j] = task}}
        \cup UNION {{<<w, i>> : i \in {j \in DOMAIN local[w] : local[w][j] = task}} : w \in Worker}
        \cup UNION {{<<"stack", t, i>> : i \in {j \in DOMAIN stack[t] : stack[t][j].task = task}}
                       : t \in Thread}
InOnePlace ==
    \A task \in Tasks : Cardinality(PlacesWith(task)) = IF status[task] = "pending" THEN 1 ELSE 0

(* The destructors do not drain the queues: tasks are abandoned by          *)
(* simple-thread-pool.cpp, whose main() cannot wait, and by it alone.       *)
NothingAbandoned ==
    done /\ (\E task \in Tasks : status[task] # "run") => program.pool = "simple"

(* The assertion in RunPendingTask() of the pool with local queues fails    *)
(* only when a task submits a task; get_result() of its main() does not.    *)
AssertionHolds == aborted => \E task \in Tasks \ {0} : program.children[task] # <<>>

(* main() ends and joins the workers, unless the assertion fails: also when *)
(* all workers block in get() for a task in their own queue, because main() *)
(* and then they steal, although main() passes over the queue of worker 0.  *)
Termination == <>Ended
=============================================================================
